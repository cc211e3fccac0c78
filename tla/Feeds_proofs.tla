---------------------------- MODULE Feeds_proofs ----------------------------
(***************************************************************************)
(* What the feeds keep, each apart from the others.                        *)
(*                                                                         *)
(* The baseline builds: one listener alone, with an edge Redis that does   *)
(* not restart between two commands of a load or of the filter's refresh.  *)
(* The meta hash never names a build that Redis no longer holds, and the   *)
(* filter never holds prices older than its build ID.  Both assumptions    *)
(* are needed: with a second listener TLC finds that a late load           *)
(* overwrites a newer one.                                                 *)
(*                                                                         *)
(* Skinport's sale feed: neither side gives up a session that works.       *)
(*                                                                         *)
(* The Waxpeer feed: what it records follows the market.                   *)
(*                                                                         *)
(* DMarket's listings: each one owed is read once.  A resume point says    *)
(* as much of the listings that a process starting from it will read as    *)
(* the poller's own state says of the next ones (Covered, PointSound,      *)
(* BackendSound), and what is below the gaps' ends is accounted for        *)
(* (ReadKnown).                                                            *)
(***************************************************************************)
EXTENDS Feeds, TLAPS, FiniteSetTheorems, SequenceTheorems, WellFoundedInduction

-----------------------------------------------------------------------------
(* The baseline builds.                                                    *)

\* A load goes to a newer build than the meta hash names, what it staged is of that build alone, and what it has
\* already replaced holds that build.
LoadSound ==
    \A l \in Listeners :
        /\ pc[l] \in Storing => meta < doc[l] /\ doc[l] \in Builds
        /\ pc[l] = "fetch" => meta <= seen[l]
        /\ pc[l] \in {"fill", "fill_stickers"} => staging[l] = {}
        /\ pc[l] \in {"rename", "rename_stickers"} => staging[l] \subseteq {doc[l]}
        /\ pc[l] \in {"clear_stickers", "fill_stickers", "rename_stickers", "record"} => baselines = {doc[l]}
        /\ pc[l] = "record" => stickers = {doc[l]} \/ (stickers = {} /\ doc[l] \in Bare)

\* What the filter has read is at least as new as the ID it read first, which the meta hash still reaches.
ReadSound ==
    /\ reader.pc # "idle" => reader.new # 0 /\ reader.new <= meta
    /\ reader.pc = "stickers" => reader.read # {} /\ \A b \in reader.read : b >= reader.new

IInv == EdgeFresh /\ LoadSound /\ ReadSound

\* One listener, and no restart of Redis midway.
Alone == ~RestartMidway /\ \A l, m \in Listeners : l = m

(* The fields of the filter's copy.                                         *)
LEMMA ReaderFields ==
  ASSUME TypeOK
  PROVE  /\ reader.id \in 0..MaxBuild /\ reader.new \in 0..MaxBuild
         /\ reader.prices \subseteq Builds /\ reader.read \subseteq Builds /\ reader.stickers \subseteq Builds
  BY DEF TypeOK

(* No command of a load makes what the edge Redis holds older than the ID   *)
(* the filter read (_replace_hash, store_build).                            *)
LEMMA RedisStep ==
  ASSUME LoaderAssumption, Alone, IInv, TypeOK', LoadSound', MetaBacked', UNCHANGED reader, meta' >= meta
  PROVE  IInv'
<1>1. ReadSound'
  BY ReaderFields DEF IInv, ReadSound, EdgeFresh, TypeOK
<1> QED BY <1>1 DEF IInv, EdgeFresh

(* Every step of the listener's check, of the filter's refresh and of their *)
(* surroundings keeps the invariant.                                        *)
LEMMA Inductive ==
  ASSUME LoaderAssumption, Alone
  PROVE  IInv /\ [Next]_vars => IInv'
<1> SUFFICES ASSUME IInv, [Next]_vars PROVE IInv'
  OBVIOUS
<1> USE DEF LoaderAssumption, Alone, Builds, Storing, StagingKey, Goto, redis, listener, bounds
<1>a. /\ TypeOK /\ MetaBacked /\ LoadSound /\ ReadSound
      /\ reader.id # 0 => reader.prices # {} /\ \A b \in reader.prices : b >= reader.id
      /\ \A b \in reader.stickers : b >= reader.id
  BY DEF IInv, EdgeFresh
<1>1. CASE Publish
  <2>1. TypeOK' BY <1>a, <1>1 DEF Publish, TypeOK
  <2>2. LoadSound' /\ MetaBacked' BY <1>a, <1>1 DEF Publish, LoadSound, MetaBacked
  <2> QED BY <1>1, <1>a, <2>1, <2>2, RedisStep DEF Publish, TypeOK
<1>2. CASE RestartRedis
  <2>1. TypeOK' BY <1>a, <1>2 DEF RestartRedis, TypeOK
  <2>2. MetaBacked' BY <1>2 DEF RestartRedis, MetaBacked
  <2>3. LoadSound' BY <1>a, <1>2 DEF RestartRedis, LoadSound, Resting, TypeOK
  <2>4. ReadSound' BY <1>2 DEF RestartRedis, ReadSound
  <2> QED BY <1>a, <1>2, <2>1, <2>2, <2>3, <2>4 DEF RestartRedis, IInv, EdgeFresh
<1>3. ASSUME NEW l \in Listeners, ReadMeta(l) PROVE IInv'
  <2>1. TypeOK' BY <1>a, <1>3 DEF ReadMeta, TypeOK
  <2>2. LoadSound' BY <1>a, <1>3 DEF ReadMeta, LoadSound, TypeOK
  <2>3. MetaBacked' BY <1>a, <1>3 DEF ReadMeta, MetaBacked
  <2> QED BY <1>3, <1>a, <2>1, <2>2, <2>3, RedisStep DEF ReadMeta, TypeOK
<1>4. ASSUME NEW l \in Listeners, UpToDate(l) PROVE IInv'
  <2>1. TypeOK' BY <1>a, <1>4 DEF UpToDate, TypeOK
  <2>2. LoadSound' BY <1>a, <1>4 DEF UpToDate, LoadSound, TypeOK
  <2>3. MetaBacked' BY <1>a, <1>4 DEF UpToDate, MetaBacked
  <2> QED BY <1>4, <1>a, <2>1, <2>2, <2>3, RedisStep DEF UpToDate, TypeOK
<1>5. ASSUME NEW l \in Listeners, Fetch(l) PROVE IInv'
  <2>1. newest \in Builds /\ seen[l] < newest /\ meta <= seen[l] /\ meta < newest
    BY <1>a, <1>5 DEF Fetch, Newer, TypeOK, LoadSound
  <2>2. TypeOK' BY <1>a, <1>5, <2>1 DEF Fetch, TypeOK
  <2>3. LoadSound' BY <1>a, <1>5, <2>1 DEF Fetch, LoadSound, TypeOK
  <2>4. MetaBacked' BY <1>a, <1>5 DEF Fetch, MetaBacked
  <2> QED BY <1>5, <1>a, <2>2, <2>3, <2>4, RedisStep DEF Fetch, TypeOK
<1>6. ASSUME NEW l \in Listeners, ClearStaging(l) PROVE IInv'
  <2>1. TypeOK' BY <1>a, <1>6 DEF ClearStaging, TypeOK
  <2>2. LoadSound' BY <1>a, <1>6 DEF ClearStaging, LoadSound, TypeOK
  <2>3. MetaBacked' BY <1>a, <1>6 DEF ClearStaging, MetaBacked
  <2> QED BY <1>6, <1>a, <2>1, <2>2, <2>3, RedisStep DEF ClearStaging, TypeOK
<1>7. ASSUME NEW l \in Listeners, FillStaging(l) PROVE IInv'
  <2>1. doc[l] \in Builds /\ staging[l] = {} BY <1>a, <1>7 DEF FillStaging, LoadSound
  <2>2. TypeOK' BY <1>a, <1>7, <2>1 DEF FillStaging, TypeOK
  <2>3. LoadSound' BY <1>a, <1>7, <2>1 DEF FillStaging, LoadSound, TypeOK
  <2>4. MetaBacked' BY <1>a, <1>7 DEF FillStaging, MetaBacked
  <2> QED BY <1>7, <1>a, <2>2, <2>3, <2>4, RedisStep DEF FillStaging, TypeOK
<1>8. ASSUME NEW l \in Listeners, RenameBaselines(l) PROVE IInv'
  <2>1. doc[l] \in Builds /\ meta < doc[l] /\ baselines' = {doc[l]} /\ UNCHANGED <<doc, stickers, meta, seen>>
    BY <1>a, <1>8 DEF RenameBaselines, LoadSound
  <2>2. TypeOK' BY <1>a, <1>8, <2>1 DEF RenameBaselines, TypeOK
  <2>3. LoadSound' BY <1>a, <1>8, <2>1 DEF RenameBaselines, LoadSound, TypeOK
  <2>4. MetaBacked' BY <1>a, <2>1 DEF MetaBacked, TypeOK
  <2> QED BY <1>8, <1>a, <2>1, <2>2, <2>3, <2>4, RedisStep DEF RenameBaselines, TypeOK
<1>9. ASSUME NEW l \in Listeners, RenameStickers(l) PROVE IInv'
  <2>1. doc[l] \in Builds /\ meta < doc[l] /\ stickers' = {doc[l]} /\ UNCHANGED <<doc, baselines, meta, seen>>
    BY <1>a, <1>9 DEF RenameStickers, LoadSound
  <2>2. TypeOK' BY <1>a, <1>9, <2>1 DEF RenameStickers, TypeOK
  <2>3. LoadSound' BY <1>a, <1>9, <2>1 DEF RenameStickers, LoadSound, TypeOK
  <2>4. MetaBacked' BY <1>a, <2>1 DEF MetaBacked, TypeOK
  <2> QED BY <1>9, <1>a, <2>1, <2>2, <2>3, <2>4, RedisStep DEF RenameStickers, TypeOK
<1>10. ASSUME NEW l \in Listeners, DeleteStickers(l) PROVE IInv'
  <2>1. doc[l] \in Bare /\ doc[l] \in Builds /\ meta < doc[l] BY <1>a, <1>10 DEF DeleteStickers, LoadSound
  <2>2. TypeOK' BY <1>a, <1>10 DEF DeleteStickers, TypeOK
  <2>3. LoadSound' BY <1>a, <1>10, <2>1 DEF DeleteStickers, LoadSound, TypeOK
  <2>4. stickers' = {} /\ UNCHANGED <<baselines, meta>> BY <1>10 DEF DeleteStickers
  <2>5. MetaBacked' BY <1>a, <2>1, <2>4 DEF MetaBacked, TypeOK
  <2> QED BY <1>10, <1>a, <2>2, <2>3, <2>5, RedisStep DEF DeleteStickers, TypeOK
<1>11. ASSUME NEW l \in Listeners, Record(l) PROVE IInv'
  <2>1. /\ doc[l] \in Builds /\ meta < doc[l] /\ baselines = {doc[l]}
        /\ stickers = {doc[l]} \/ (stickers = {} /\ doc[l] \in Bare)
    BY <1>a, <1>11 DEF Record, LoadSound
  <2>2. TypeOK' BY <1>a, <1>11, <2>1 DEF Record, TypeOK
  <2>3. LoadSound' BY <1>a, <1>11 DEF Record, LoadSound, TypeOK
  <2>4. meta' = doc[l] /\ UNCHANGED <<baselines, stickers>> BY <1>11 DEF Record
  <2>5. MetaBacked' BY <2>1, <2>4 DEF MetaBacked
  <2>6. meta' >= meta BY <1>a, <2>1, <2>4 DEF TypeOK
  <2> QED BY <1>11, <2>2, <2>3, <2>5, <2>6, RedisStep DEF Record
<1>12. ASSUME NEW l \in Listeners, Fail(l) PROVE IInv'
  <2>1. TypeOK' BY <1>a, <1>12 DEF Fail, TypeOK
  <2>2. LoadSound' BY <1>a, <1>12 DEF Fail, LoadSound, TypeOK
  <2>3. MetaBacked' BY <1>a, <1>12 DEF Fail, MetaBacked
  <2> QED BY <1>12, <1>a, <2>1, <2>2, <2>3, RedisStep DEF Fail, TypeOK
<1>13. ASSUME NEW l \in Listeners, RestartListener(l) PROVE IInv'
  <2>1. TypeOK' BY <1>a, <1>13 DEF RestartListener, TypeOK
  <2>2. LoadSound' BY <1>a, <1>13 DEF RestartListener, LoadSound, TypeOK
  <2>3. MetaBacked' BY <1>a, <1>13 DEF RestartListener, MetaBacked
  <2> QED BY <1>13, <1>a, <2>1, <2>2, <2>3, RedisStep DEF RestartListener, TypeOK
<1>14. CASE ReadBuildId
  <2>1. TypeOK' BY <1>a, <1>14 DEF ReadBuildId, TypeOK
  <2>2. LoadSound' /\ MetaBacked' BY <1>a, <1>14 DEF ReadBuildId, LoadSound, MetaBacked
  <2>3. ReadSound' BY <1>a, <1>14 DEF ReadBuildId, ReadSound, TypeOK
  <2> QED BY <1>a, <1>14, <2>1, <2>2, <2>3 DEF ReadBuildId, IInv, EdgeFresh, TypeOK
<1>15. CASE ReadPrices
  <2>1. TypeOK' BY <1>a, <1>15 DEF ReadPrices, TypeOK
  <2>2. LoadSound' /\ MetaBacked' BY <1>a, <1>15 DEF ReadPrices, LoadSound, MetaBacked
  <2>3. ReadSound' BY <1>a, <1>15 DEF ReadPrices, ReadSound, MetaBacked, TypeOK
  <2> QED BY <1>a, <1>15, <2>1, <2>2, <2>3 DEF ReadPrices, IInv, EdgeFresh, TypeOK
<1>16. CASE ReadStickers
  <2>1. TypeOK' BY <1>a, <1>16 DEF ReadStickers, TypeOK
  <2>2. LoadSound' /\ MetaBacked' BY <1>a, <1>16 DEF ReadStickers, LoadSound, MetaBacked
  <2>3. ReadSound' BY <1>a, <1>16 DEF ReadStickers, ReadSound, TypeOK
  <2>4. /\ reader'.id = reader.new /\ reader'.prices = reader.read /\ reader'.stickers = stickers
    BY <1>a, <1>16 DEF ReadStickers, TypeOK
  <2>5. \A b \in stickers : b >= reader.new
    BY <1>a, <1>16 DEF ReadStickers, ReadSound, MetaBacked, TypeOK
  <2> QED BY <1>a, <1>16, <2>1, <2>2, <2>3, <2>4, <2>5 DEF ReadStickers, ReadSound, IInv, EdgeFresh
<1>17. CASE ReaderFails
  <2>1. TypeOK' BY <1>a, <1>17 DEF ReaderFails, TypeOK
  <2>2. LoadSound' /\ MetaBacked' BY <1>a, <1>17 DEF ReaderFails, LoadSound, MetaBacked
  <2>3. ReadSound' BY <1>a, <1>17 DEF ReaderFails, ReadSound, TypeOK
  <2> QED BY <1>a, <1>17, <2>1, <2>2, <2>3 DEF ReaderFails, IInv, EdgeFresh, TypeOK
<1>18. CASE UNCHANGED vars
  BY <1>a, <1>18 DEF vars, IInv, EdgeFresh, TypeOK, MetaBacked, LoadSound, ReadSound
<1> QED BY <1>1, <1>2, <1>3, <1>4, <1>5, <1>6, <1>7, <1>8, <1>9, <1>10, <1>11, <1>12, <1>13, <1>14, <1>15, <1>16,
           <1>17, <1>18 DEF Next, Check, Refresh

(* Whatever fails, and whenever the listener or, at rest, Redis restarts:   *)
(* the build ID of the edge Redis and that of the recording filter name no  *)
(* build newer than the prices kept with them (store_build, ResalePrices).  *)
THEOREM EdgeFreshHolds ==
  ASSUME Alone
  PROVE  Spec => []EdgeFresh
<1>1. Init => IInv
  BY LoaderAssumption DEF LoaderAssumption, Init, IInv, EdgeFresh, TypeOK, MetaBacked, LoadSound, ReadSound, Builds,
     Storing
<1>2. IInv /\ [Next]_vars => IInv'
  BY LoaderAssumption, Inductive
<1>3. IInv => EdgeFresh
  BY DEF IInv
<1> QED BY <1>1, <1>2, <1>3, PTL DEF Spec

-----------------------------------------------------------------------------
(* Frames in flight.                                                       *)

Frames == {"open", "connected", "refused", "closed", "ping", "sale", "other"}

Has(d, x) == \E i \in 1..Len(d) : d[i] = x
SalesAt(d) == {i \in 1..Len(d) : d[i] = "sale"}
Sales(d) == Cardinality(SalesAt(d))
Ended(d) == Has(d, "closed") \/ Has(d, "refused")

\* What ends a session comes after every event of it, and the open packet before everything.
InOrder(d) ==
    /\ \A i, j \in 1..Len(d) : i < j /\ d[i] \in {"closed", "refused"} => d[j] # "sale"
    /\ \A i \in 1..Len(d) : d[i] = "open" => i = 1

LEMMA SalesFinite ==
    ASSUME NEW d \in Seq(Frames)
    PROVE  IsFiniteSet(SalesAt(d)) /\ Sales(d) \in Nat
<1>1. Len(d) \in Nat
    BY LenProperties
<1>2. IsFiniteSet(1..Len(d))
    BY <1>1, FS_Interval
<1>3. SalesAt(d) \in SUBSET (1..Len(d))
    BY DEF SalesAt
<1>4. IsFiniteSet(SalesAt(d))
    BY <1>2, <1>3, FS_Subset
<1> QED
    BY <1>4, FS_CardinalityType DEF Sales

LEMMA NothingInFlight ==
    /\ <<>> \in Seq(Frames) /\ Sales(<<>>) = 0 /\ InOrder(<<>>) /\ \A x : ~Has(<<>>, x)
<1>1. Len(<<>>) = 0 /\ <<>> \in Seq(Frames)
    BY EmptySeq
<1>2. SalesAt(<<>>) = {}
    BY <1>1 DEF SalesAt
<1> QED
    BY <1>1, <1>2, FS_EmptySet DEF Sales, InOrder, Has

LEMMA NoSales ==
    ASSUME NEW d \in Seq(Frames), ~Has(d, "sale")
    PROVE  Sales(d) = 0
<1>1. SalesAt(d) = {}
    BY DEF SalesAt, Has
<1> QED
    BY <1>1, FS_EmptySet DEF Sales

\* One more frame behind the others
LEMMA OneMore ==
    ASSUME NEW d \in Seq(Frames), NEW x \in Frames
    PROVE  /\ d \o <<x>> \in Seq(Frames) /\ d \o <<x>> # <<>>
           /\ Sales(d \o <<x>>) = IF x = "sale" THEN Sales(d) + 1 ELSE Sales(d)
           /\ \A y : Has(d \o <<x>>, y) <=> Has(d, y) \/ y = x
           /\ InOrder(d) /\ (x = "sale" => ~Ended(d)) /\ (x = "open" => d = <<>>) => InOrder(d \o <<x>>)
<1> DEFINE e == d \o <<x>>
<1>1. <<x>> \in Seq(Frames) /\ Len(<<x>>) = 1 /\ <<x>>[1] = x
    OBVIOUS
<1>2. Len(d) \in Nat
    BY LenProperties
<1>3. /\ e \in Seq(Frames) /\ Len(e) = Len(d) + 1
      /\ \A i \in 1..(Len(d) + 1) : e[i] = IF i <= Len(d) THEN d[i] ELSE <<x>>[i - Len(d)]
    BY <1>1, ConcatProperties
<1>4. /\ \A i \in 1..Len(d) : e[i] = d[i]
      /\ e[Len(d) + 1] = x
    BY <1>1, <1>2, <1>3
<1>5. e # <<>>
    BY <1>2, <1>3
<1> HIDE DEF e
<1>6. SalesAt(e) = IF x = "sale" THEN SalesAt(d) \cup {Len(d) + 1} ELSE SalesAt(d)
    BY <1>2, <1>3, <1>4 DEF SalesAt
<1>7. Len(d) + 1 \notin SalesAt(d)
    BY <1>2 DEF SalesAt
<1>8. Sales(e) = IF x = "sale" THEN Sales(d) + 1 ELSE Sales(d)
    BY <1>6, <1>7, SalesFinite, FS_AddElement DEF Sales
<1>9. \A y : Has(e, y) <=> Has(d, y) \/ y = x
    BY <1>2, <1>3, <1>4 DEF Has
<1>10. ASSUME InOrder(d), x = "sale" => ~Ended(d), x = "open" => d = <<>>
       PROVE  InOrder(e)
  <2>1. x = "open" => Len(d) = 0
      BY <1>10, EmptySeq
  <2>2. ASSUME NEW i \in 1..Len(e), NEW j \in 1..Len(e), i < j, e[i] \in {"closed", "refused"}
        PROVE  e[j] # "sale"
    <3>1. i \in 1..Len(d) /\ d[i] = e[i]
        BY <2>2, <1>2, <1>3, <1>4
    <3>2. Ended(d)
        BY <3>1, <2>2 DEF Ended, Has
    <3>3. CASE j \in 1..Len(d)
        BY <3>1, <3>3, <1>4, <1>10, <2>2 DEF InOrder
    <3>4. CASE j = Len(d) + 1
        BY <3>4, <3>2, <1>4, <1>10
    <3> QED
        BY <3>3, <3>4, <1>2, <1>3
  <2>3. ASSUME NEW i \in 1..Len(e), e[i] = "open"
        PROVE  i = 1
      BY <2>3, <2>1, <1>10, <1>2, <1>3, <1>4 DEF InOrder
  <2> QED
      BY <2>2, <2>3 DEF InOrder
<1> QED
    BY <1>3, <1>5, <1>8, <1>9, <1>10 DEF e

\* The first frame is read.
LEMMA OneRead ==
    ASSUME NEW d \in Seq(Frames), d # <<>>
    PROVE  /\ Head(d) \in Frames /\ Has(d, Head(d)) /\ Tail(d) \in Seq(Frames)
           /\ Tail(d) \o <<>> = Tail(d)
           /\ Len(d) \in Nat /\ (Len(d) = 1 <=> Tail(d) = <<>>)
           /\ Sales(Tail(d)) = IF Head(d) = "sale" THEN Sales(d) - 1 ELSE Sales(d)
           /\ \A y : Has(d, y) <=> Has(Tail(d), y) \/ y = Head(d)
           /\ InOrder(d) => InOrder(Tail(d)) /\ ~Has(Tail(d), "open")
           /\ InOrder(d) /\ Head(d) \in {"closed", "refused"} => Sales(d) = 0
<1> DEFINE e == Tail(d)
<1>1. /\ Head(d) \in Frames /\ e \in Seq(Frames) /\ Len(e) = Len(d) - 1
      /\ \A i \in 1..Len(e) : e[i] = d[i + 1]
    BY HeadTailProperties
<1>2. Len(d) \in Nat \ {0} /\ Len(e) \in Nat /\ Head(d) = d[1]
    BY <1>1, EmptySeq, LenProperties
<1>3. e \o <<>> = e /\ (Len(e) = 0 <=> e = <<>>)
    BY <1>1, ConcatEmptySeq, EmptySeq
<1> HIDE DEF e
<1>4. \A i \in 1..Len(d) : i = 1 \/ (i - 1 \in 1..Len(e) /\ e[i - 1] = d[i])
    BY <1>1, <1>2
<1>5. \A i \in 1..Len(e) : i + 1 \in 1..Len(d)
    BY <1>1, <1>2
<1>6. \A y : Has(d, y) <=> Has(e, y) \/ y = Head(d)
    BY <1>1, <1>2, <1>4, <1>5 DEF Has
<1>7. ASSUME InOrder(d)
      PROVE  InOrder(e) /\ ~Has(e, "open")
  <2>1. ASSUME NEW i \in 1..Len(e), e[i] = "open"
        PROVE  FALSE
      BY <2>1, <1>1, <1>5, <1>7 DEF InOrder
  <2>2. ASSUME NEW i \in 1..Len(e), NEW j \in 1..Len(e), i < j, e[i] \in {"closed", "refused"}
        PROVE  e[j] # "sale"
    <3>1. i + 1 < j + 1 /\ i + 1 \in 1..Len(d) /\ j + 1 \in 1..Len(d) /\ d[i + 1] = e[i] /\ d[j + 1] = e[j]
        BY <2>2, <1>1, <1>5
    <3> QED
        BY <3>1, <2>2, <1>7 DEF InOrder
  <2> QED
      BY <2>1, <2>2 DEF InOrder, Has
<1>8. ASSUME InOrder(d), Head(d) \in {"closed", "refused"}
      PROVE  Sales(d) = 0
  <2>1. ASSUME NEW i \in 1..Len(d), d[i] = "sale"
        PROVE  FALSE
    <3>1. i # 1 /\ 1 < i /\ 1 \in 1..Len(d)
        BY <2>1, <1>2, <1>8
    <3> QED
        BY <3>1, <2>1, <1>2, <1>8 DEF InOrder
  <2> QED
      BY <2>1, NoSales DEF Has
<1>9. Sales(e) = IF Head(d) = "sale" THEN Sales(d) - 1 ELSE Sales(d)
  <2> DEFINE R == SalesAt(d) \ {1}
             f == [i \in R |-> i - 1]
  <2>1. R \subseteq 1..Len(d) /\ \A i \in R : i # 1 /\ d[i] = "sale"
      BY DEF SalesAt
  <2>2. IsFiniteSet(R) /\ Cardinality(R) = IF Head(d) = "sale" THEN Sales(d) - 1 ELSE Sales(d)
    <3>1. 1 \in SalesAt(d) <=> Head(d) = "sale"
        BY <1>2 DEF SalesAt
    <3>2. IsFiniteSet(SalesAt(d)) /\ Sales(d) \in Nat
        BY SalesFinite
    <3> QED
        BY <3>1, <3>2, FS_RemoveElement DEF Sales
  <2>3. \A i \in R : i - 1 \in SalesAt(e)
      BY <2>1, <1>4 DEF SalesAt
  <2>4. \A i \in SalesAt(e) : i \in Nat /\ i + 1 \in R
      BY <1>1, <1>2, <1>5 DEF SalesAt
  <2>5. f \in Bijection(R, SalesAt(e))
    <3>1. f \in [R -> SalesAt(e)]
        BY <2>3
    <3>2. \A i, j \in R : f[i] = f[j] => i = j
        BY <2>1, <1>2
    <3>3. \A j \in SalesAt(e) : \E i \in R : f[i] = j
        BY <2>4
    <3> QED
        BY <3>1, <3>2, <3>3 DEF Bijection, Injection, IsInjective, Surjection
  <2>6. ExistsBijection(R, SalesAt(e))
      BY <2>5 DEF ExistsBijection
  <2> QED
      BY <2>2, <2>6, FS_Bijection DEF Sales
<1> QED
    BY <1>1, <1>2, <1>3, <1>6, <1>7, <1>8, <1>9 DEF e

\* Only the first frames arrive.
LEMMA FirstOnly ==
    ASSUME NEW d \in Seq(Frames), NEW n \in 0..Len(d)
    PROVE  /\ SubSeq(d, 1, n) \in Seq(Frames)
           /\ n = 0 <=> SubSeq(d, 1, n) = <<>>
           /\ \A y : Has(SubSeq(d, 1, n), y) => Has(d, y)
           /\ InOrder(d) => InOrder(SubSeq(d, 1, n))
<1> DEFINE e == SubSeq(d, 1, n)
<1>1. Len(d) \in Nat /\ n \in Nat /\ n <= Len(d) /\ 1 \in Int /\ n \in Int
    BY LenProperties
<1>2. \A i \in 1..n : d[i] \in Frames
    BY <1>1, ElementOfSeq
<1>3. /\ e \in Seq(Frames)
      /\ Len(e) = IF 1 <= n THEN n - 1 + 1 ELSE 0
      /\ \A i \in 1..(n - 1 + 1) : e[i] = d[1 + i - 1]
    BY <1>1, <1>2, SubSeqProperties
<1> HIDE DEF e
<1>4. Len(e) = n
    BY <1>1, <1>3
<1>5. \A i \in 1..n : e[i] = d[i] /\ i \in 1..Len(d)
    BY <1>1, <1>3
<1>6. n = 0 <=> e = <<>>
    BY <1>1, <1>3, <1>4, EmptySeq
<1> QED
    BY <1>3, <1>4, <1>5, <1>6 DEF e, Has, InOrder

-----------------------------------------------------------------------------
(* The session of the sale feed.                                           *)

receive_timeout == Interval + PingTimeout

SaleScalars ==
    /\ client \in {"waiting", "reading", "handing"}
    /\ server \in {"none", "opened", "connected", "joined"}
    /\ timeout \in Nat /\ silent \in Nat /\ late \in Nat /\ unread \in Int /\ gone \in Nat

SaleFlags == gauge \in BOOLEAN /\ cut \in BOOLEAN /\ kept_waiting \in BOOLEAN /\ wronged = FALSE

SaleTypes ==
    /\ SaleScalars /\ SaleFlags
    /\ beat \in [owed : BOOLEAN, since : Nat]
    /\ down \in Seq(Frames)

\* Between connections nothing is left of the last one.
SessionEnds ==
    /\ client = "waiting" => server = "none" /\ down = <<>> /\ ~cut /\ ~gauge
    /\ client = "handing" => silent = 0
    /\ server = "none" => beat = [owed |-> FALSE, since |-> 0]

\* On a live connection the events not yet read are in flight, and nothing in flight ends the session; before its
\* namespace is connected, the listener has the timeout of the server's open packet.
FlightSound ==
    /\ InOrder(down)
    /\ ~cut => unread = Sales(down)
    /\ Skinport!Alive => ~Ended(down)
    /\ Has(down, "open") => ~Has(down, "connected") /\ ~gauge
    /\ gauge \/ Has(down, "connected") => timeout = receive_timeout
    /\ client # "waiting" /\ ~cut => timeout = receive_timeout \/ Has(down, "open")
    /\ down = <<>> => late = 0
    /\ late <= Latency

\* The server waits for an answer no longer than its ping is in flight, and the listener for no longer than the
\* server for its next ping.
BeatSound ==
    Skinport!Alive =>
        IF beat.owed THEN Has(down, "ping") /\ (~kept_waiting => beat.since <= late)
        ELSE silent <= beat.since /\ beat.since <= Interval

\* feed_connected is wrong only on a dead connection, for as long as its last frames and then the timeout take.
GoneSound ==
    /\ ~gauge \/ Skinport!Alive => gone = 0
    /\ gone <= IF down = <<>> THEN Latency + silent ELSE late
    /\ gone <= Latency + receive_timeout

SaleInv == SaleTypes /\ SessionEnds /\ FlightSound /\ BeatSound /\ GoneSound

LEMMA SaleConstants ==
    /\ Interval \in Nat /\ PingTimeout \in Nat /\ DefaultTimeout \in Nat /\ Latency \in Nat
    /\ Latency < PingTimeout
    /\ receive_timeout \in Nat /\ receive_timeout > Interval
BY FeedsAssumption DEF Skinport!SessionAssumption, receive_timeout

\* A ping that is owed an answer since then, or that is not
LEMMA BeatType ==
    /\ [owed |-> FALSE, since |-> 0] \in [owed : BOOLEAN, since : Nat]
    /\ [owed |-> TRUE, since |-> 0] \in [owed : BOOLEAN, since : Nat]
<1>1. 0 \in Nat /\ FALSE \in BOOLEAN /\ TRUE \in BOOLEAN
    OBVIOUS
<1> QED
    BY <1>1, Zenon

LEMMA SaleInit == Skinport!Init => SaleInv
<1> SUFFICES ASSUME Skinport!Init
             PROVE  SaleInv
    OBVIOUS
<1>1. /\ client = "waiting" /\ timeout = DefaultTimeout /\ silent = 0 /\ gauge = FALSE
      /\ server = "none" /\ beat = [owed |-> FALSE, since |-> 0]
      /\ down = <<>> /\ late = 0 /\ cut = FALSE
      /\ kept_waiting = FALSE /\ unread = 0 /\ gone = 0 /\ wronged = FALSE
    BY DEF Skinport!Init, Skinport!Beat
<1>2. SaleTypes
  <2>1. SaleScalars
      BY <1>1, SaleConstants DEF SaleScalars
  <2>4. SaleFlags
      BY <1>1 DEF SaleFlags
  <2>2. beat \in [owed : BOOLEAN, since : Nat]
      BY <1>1, BeatType
  <2>3. down \in Seq(Frames)
      BY <1>1, NothingInFlight
  <2> QED
      BY <2>1, <2>2, <2>3, <2>4 DEF SaleTypes
<1>3. FlightSound
    BY <1>1, NothingInFlight, SaleConstants DEF FlightSound, Ended, Skinport!Alive
<1>4. SessionEnds /\ BeatSound /\ GoneSound
    BY <1>1, SaleConstants DEF SessionEnds, BeatSound, GoneSound, Skinport!Alive
<1> QED
    BY <1>2, <1>3, <1>4 DEF SaleInv

LEMMA SaleLost ==
    ASSUME SaleInv, Skinport!Lost, ~Skinport!Alive, ~cut => unread <= 0
    PROVE  SaleInv'
<1>1. /\ client' = "waiting" /\ timeout' = timeout /\ silent' = 0 /\ gauge' = FALSE
      /\ server' = "none" /\ beat' = [owed |-> FALSE, since |-> 0]
      /\ down' = <<>> /\ late' = 0 /\ cut' = FALSE
      /\ kept_waiting' = FALSE /\ unread' = 0 /\ gone' = 0
    BY DEF Skinport!Lost, Skinport!Beat
<1>2. wronged' = FALSE
  <2>1. wronged = FALSE /\ unread \in Int
      BY DEF SaleInv, SaleTypes, SaleScalars, SaleFlags
  <2>2. ~(~cut /\ unread > 0)
      BY <2>1
  <2>3. wronged' = (wronged \/ Skinport!Alive \/ (~cut /\ unread > 0))
      BY DEF Skinport!Lost
  <2> QED
      BY <2>1, <2>2, <2>3, Zenon
<1>3. SaleTypes'
  <2>1. SaleScalars'
      BY <1>1 DEF SaleScalars, SaleInv, SaleTypes
  <2>4. SaleFlags'
      BY <1>1, <1>2 DEF SaleFlags
  <2>2. beat' \in [owed : BOOLEAN, since : Nat]
      BY <1>1, BeatType
  <2>3. down' \in Seq(Frames)
      BY <1>1, NothingInFlight
  <2> QED
      BY <2>1, <2>2, <2>3, <2>4 DEF SaleTypes
<1>4. FlightSound'
    BY <1>1, NothingInFlight, SaleConstants DEF FlightSound, Ended, Skinport!Alive
<1>5. SessionEnds' /\ BeatSound' /\ GoneSound'
    BY <1>1, SaleConstants DEF SessionEnds, BeatSound, GoneSound, Skinport!Alive
<1> QED
    BY <1>3, <1>4, <1>5 DEF SaleInv

LEMMA SaleConnect == SaleInv /\ Skinport!Connect => SaleInv'
<1> SUFFICES ASSUME SaleInv, Skinport!Connect
             PROVE  SaleInv'
    OBVIOUS
<1>1. /\ client = "waiting" /\ client' = "reading" /\ timeout' = DefaultTimeout /\ silent' = 0
      /\ server' = "opened" /\ down' = <<"open">>
      /\ UNCHANGED <<gauge, beat, late, cut, kept_waiting, unread, gone, wronged>>
    BY DEF Skinport!Connect, Skinport!ghosts
<1>2. server = "none" /\ down = <<>> /\ cut = FALSE /\ gauge = FALSE /\ beat = [owed |-> FALSE, since |-> 0]
    BY <1>1 DEF SaleInv, SaleTypes, SaleScalars, SaleFlags, SessionEnds
<1>3. late = 0 /\ gone = 0 /\ unread = 0
    BY <1>2, NothingInFlight DEF SaleInv, FlightSound, GoneSound
<1>4. /\ down' \in Seq(Frames) /\ down' # <<>> /\ Sales(down') = 0 /\ InOrder(down')
      /\ \A y : Has(down', y) <=> y = "open"
  <2>1. down' = <<>> \o <<"open">>
      BY <1>1
  <2> QED
      BY <2>1, NothingInFlight, OneMore DEF Frames
<1>5. SaleTypes'
  <2>1. SaleScalars'
      BY <1>1, SaleConstants DEF SaleScalars, SaleInv, SaleTypes
  <2>2. SaleFlags'
      BY <1>1 DEF SaleFlags, SaleInv, SaleTypes
  <2> QED
      BY <2>1, <2>2, <1>1, <1>4 DEF SaleInv, SaleTypes
<1>6. FlightSound'
    BY <1>1, <1>2, <1>3, <1>4, SaleConstants DEF FlightSound, Ended
<1>7. SessionEnds' /\ BeatSound' /\ GoneSound'
    BY <1>1, <1>2, <1>3, <1>4, SaleConstants DEF SessionEnds, BeatSound, GoneSound
<1> QED
    BY <1>5, <1>6, <1>7 DEF SaleInv

\* What a frame that is read leaves, with what the server answers at once
LEMMA SaleContinue ==
    ASSUME SaleInv, client = "reading", down # <<>>, NEW answer, Skinport!Continue(answer),
           answer = <<>> \/ (answer = <<"connected">> /\ Head(down) = "open")
                         \/ (answer = <<"refused">> /\ Head(down) = "open" /\ ~cut)
    PROVE  /\ silent' = 0 /\ cut' = cut /\ gone' = gone /\ wronged' = wronged
           /\ down' \in Seq(Frames) /\ InOrder(down') /\ ~Has(down', "open")
           /\ late' \in Nat /\ late' <= Latency /\ (down' = <<>> => late' = 0)
           /\ Sales(down') = IF Head(down) = "sale" THEN Sales(down) - 1 ELSE Sales(down)
           /\ \A y : Has(down', y) => Has(down, y) \/ (\E z \in {"connected", "refused"} : y = z /\ answer = <<z>>)
           /\ Has(down, "ping") /\ Head(down) # "ping" => Has(down', "ping") /\ late' = late
           /\ gone <= IF down' = <<>> THEN Latency + silent' ELSE late'
<1>1. /\ silent' = 0 /\ UNCHANGED <<cut, gone, wronged>>
      /\ down' = Tail(down) \o (IF cut THEN <<>> ELSE answer)
      /\ late' = IF Len(down) = 1 THEN 0 ELSE late
    BY DEF Skinport!Continue
<1>2. /\ down \in Seq(Frames) /\ InOrder(down) /\ late \in Nat /\ late <= Latency /\ gone \in Nat
      /\ cut \in BOOLEAN /\ gone <= late
    BY DEF SaleInv, SaleTypes, SaleScalars, SaleFlags, FlightSound, GoneSound
<1> DEFINE d == Tail(down)
<1>3. /\ Has(down, Head(down)) /\ d \in Seq(Frames)
      /\ d \o <<>> = d
      /\ Len(down) \in Nat /\ (Len(down) = 1 <=> d = <<>>)
      /\ Sales(d) = IF Head(down) = "sale" THEN Sales(down) - 1 ELSE Sales(down)
      /\ \A y : Has(down, y) <=> Has(d, y) \/ y = Head(down)
      /\ InOrder(d) /\ ~Has(d, "open")
    BY <1>2, OneRead
<1> HIDE DEF d
<1>4. late' \in Nat /\ late' <= Latency /\ (d = <<>> => late' = 0) /\ (d # <<>> => late' = late)
    BY <1>1, <1>2, <1>3, SaleConstants
<1>5. Has(down, "ping") /\ Head(down) # "ping" => Has(d, "ping") /\ late' = late
  <2>1. Has(d, "ping") => d # <<>>
      BY NothingInFlight
  <2> QED
      BY <2>1, <1>3, <1>4
<1>6. CASE down' = d
  <2>1. gone <= IF d = <<>> THEN Latency + silent' ELSE late'
      BY <1>1, <1>2, <1>4, SaleConstants
  <2> QED
      BY <1>1, <1>2, <1>3, <1>4, <1>5, <1>6, <2>1
<1>7. ASSUME NEW z \in {"connected", "refused"}, down' = d \o <<z>>, answer = <<z>>, Head(down) = "open"
      PROVE  /\ silent' = 0 /\ cut' = cut /\ gone' = gone /\ wronged' = wronged
             /\ down' \in Seq(Frames) /\ InOrder(down') /\ ~Has(down', "open")
             /\ late' \in Nat /\ late' <= Latency /\ (down' = <<>> => late' = 0)
             /\ Sales(down') = IF Head(down) = "sale" THEN Sales(down) - 1 ELSE Sales(down)
             /\ \A y : Has(down', y) => Has(down, y) \/ (\E x \in {"connected", "refused"} : y = x /\ answer = <<x>>)
             /\ Has(down, "ping") /\ Head(down) # "ping" => Has(down', "ping") /\ late' = late
             /\ gone <= IF down' = <<>> THEN Latency + silent' ELSE late'
  <2>1. z \in Frames /\ z # "open" /\ z # "sale"
      BY <1>7 DEF Frames
  <2>2. /\ down' \in Seq(Frames) /\ down' # <<>>
        /\ Sales(down') = Sales(d)
        /\ \A y : Has(down', y) <=> Has(d, y) \/ y = z
        /\ InOrder(down')
      BY <2>1, <1>3, <1>7, OneMore
  <2>3. gone = 0
      BY <1>3, <1>7 DEF SaleInv, FlightSound, GoneSound
  <2>4. \A y : Has(down', y) => Has(down, y) \/ (\E x \in {"connected", "refused"} : y = x /\ answer = <<x>>)
      BY <2>2, <1>3, <1>7
  <2>5. gone <= IF down' = <<>> THEN Latency + silent' ELSE late'
      BY <2>2, <2>3, <1>4
  <2>6. ~Has(down', "open")
      BY <2>1, <2>2, <1>3
  <2>7. Sales(down') = IF Head(down) = "sale" THEN Sales(down) - 1 ELSE Sales(down)
      BY <2>2, <1>3
  <2>8. Has(down, "ping") /\ Head(down) # "ping" => Has(down', "ping") /\ late' = late
      BY <2>2, <1>5
  <2> QED
      BY <2>2, <2>4, <2>5, <2>6, <2>7, <2>8, <1>1, <1>4
<1> QED
  <2>1. CASE cut \/ answer = <<>>
    <3>1. down' = d
        BY <2>1, <1>1, <1>3 DEF d
    <3> QED
        BY <3>1, <1>6
  <2>2. CASE ~cut /\ answer # <<>>
    <3>1. PICK z \in {"connected", "refused"} : answer = <<z>> /\ Head(down) = "open"
        BY <2>2
    <3> QED
        BY <3>1, <2>2, <1>1, <1>7 DEF d
  <2> QED
      BY <2>1, <2>2

\* A frame that leaves the session and the handshake as they are: a ping, an event, or another frame
LEMMA SalePlain ==
    ASSUME SaleInv, client = "reading", down # <<>>, Skinport!Continue(<<>>),
           Head(down) \in {"ping", "sale", "other"},
           client' \in {"reading", "handing"}, UNCHANGED <<timeout, gauge, server>>,
           IF Head(down) = "ping" THEN kept_waiting' = FALSE /\ beat' = IF Skinport!Alive THEN Skinport!Beat(FALSE, 0) ELSE beat
           ELSE UNCHANGED <<kept_waiting, beat>>,
           unread' = IF Head(down) = "sale" THEN unread - 1 ELSE unread
    PROVE  SaleInv'
<1>1. /\ silent' = 0 /\ cut' = cut /\ gone' = gone /\ wronged' = wronged
      /\ down' \in Seq(Frames) /\ InOrder(down') /\ ~Has(down', "open")
      /\ late' \in Nat /\ late' <= Latency /\ (down' = <<>> => late' = 0)
      /\ Sales(down') = IF Head(down) = "sale" THEN Sales(down) - 1 ELSE Sales(down)
      /\ \A y : Has(down', y) => Has(down, y)
      /\ Has(down, "ping") /\ Head(down) # "ping" => Has(down', "ping") /\ late' = late
      /\ gone <= IF down' = <<>> THEN Latency + silent' ELSE late'
    BY SaleContinue, \A z : <<>> # <<z>>
<1>2. SaleScalars /\ SaleFlags /\ beat \in [owed : BOOLEAN, since : Nat] /\ down \in Seq(Frames)
    BY DEF SaleInv, SaleTypes
<1>3. Skinport!Alive' <=> Skinport!Alive
    BY <1>1 DEF Skinport!Alive
<1>4. beat' = beat \/ beat' = [owed |-> FALSE, since |-> 0]
    BY DEF Skinport!Beat
<1>5. SaleTypes'
  <2>1. SaleScalars'
      BY <1>1, <1>2 DEF SaleScalars
  <2>2. SaleFlags'
      BY <1>1, <1>2 DEF SaleFlags
  <2>3. beat' \in [owed : BOOLEAN, since : Nat]
      BY <1>2, <1>4, BeatType
  <2> QED
      BY <2>1, <2>2, <2>3, <1>1 DEF SaleTypes
<1>6. FlightSound'
  <2>1. ~cut' => unread' = Sales(down')
      BY <1>1 DEF SaleInv, FlightSound
  <2>2. Skinport!Alive' => ~Ended(down')
      BY <1>1, <1>3 DEF SaleInv, FlightSound, Ended
  <2>3. gauge' \/ Has(down', "connected") => timeout' = receive_timeout
      BY <1>1 DEF SaleInv, FlightSound
  <2>4. client' # "waiting" /\ ~cut' => timeout' = receive_timeout
    <3>1. InOrder(down) /\ down \in Seq(Frames) /\ ~Has(Tail(down), "open") /\ Head(down) # "open"
        BY <1>2, OneRead DEF SaleInv, FlightSound
    <3>2. ~Has(down, "open")
        BY <3>1, OneRead
    <3> QED
        BY <3>2, <1>1 DEF SaleInv, FlightSound
  <2> QED
      BY <1>1, <2>1, <2>2, <2>3, <2>4 DEF FlightSound
<1>7. SessionEnds'
    BY <1>1, <1>3, <1>4 DEF SaleInv, SessionEnds, Skinport!Alive
<1>8. BeatSound'
  <2>1. ASSUME Skinport!Alive', beat'.owed
        PROVE  Has(down', "ping") /\ (~kept_waiting' => beat'.since <= late')
    <3>1. Head(down) # "ping" /\ beat' = beat /\ kept_waiting' = kept_waiting
        BY <2>1, <1>3 DEF Skinport!Beat
    <3> QED
        BY <3>1, <2>1, <1>1, <1>3 DEF SaleInv, BeatSound
  <2>2. ASSUME Skinport!Alive', ~beat'.owed
        PROVE  silent' <= beat'.since /\ beat'.since <= Interval
      BY <2>2, <1>1, <1>2, <1>3, <1>4, SaleConstants DEF SaleInv, BeatSound
  <2> QED
      BY <2>1, <2>2 DEF BeatSound
<1>9. GoneSound'
    BY <1>1, <1>3 DEF SaleInv, GoneSound
<1> QED
    BY <1>5, <1>6, <1>7, <1>8, <1>9 DEF SaleInv

LEMMA SalePlainReads ==
    SaleInv /\ (Skinport!ReadPing \/ Skinport!ReadSale \/ Skinport!Skip) => SaleInv'
<1>1. SaleInv /\ Skinport!ReadPing => SaleInv'
    BY SalePlain DEF Skinport!ReadPing, Skinport!Read
<1>2. SaleInv /\ Skinport!ReadSale => SaleInv'
    BY SalePlain DEF Skinport!ReadSale, Skinport!Read
<1>3. SaleInv /\ Skinport!Skip => SaleInv'
    BY SalePlain DEF Skinport!Skip, Skinport!Read
<1> QED
    BY <1>1, <1>2, <1>3

\* The handshake
LEMMA SaleReadConnected == SaleInv /\ Skinport!ReadConnected => SaleInv'
<1> SUFFICES ASSUME SaleInv, Skinport!ReadConnected
             PROVE  SaleInv'
    OBVIOUS
<1>1. /\ client = "reading" /\ down # <<>> /\ Head(down) = "connected" /\ Skinport!Continue(<<>>)
      /\ gauge' = TRUE /\ server' = IF Skinport!Alive THEN "joined" ELSE server
      /\ UNCHANGED <<client, timeout, beat, kept_waiting, unread>>
    BY DEF Skinport!ReadConnected, Skinport!Read
<1>2. /\ silent' = 0 /\ cut' = cut /\ gone' = gone /\ wronged' = wronged
      /\ down' \in Seq(Frames) /\ InOrder(down') /\ ~Has(down', "open")
      /\ late' \in Nat /\ late' <= Latency /\ (down' = <<>> => late' = 0)
      /\ Sales(down') = Sales(down)
      /\ \A y : Has(down', y) => Has(down, y)
      /\ Has(down, "ping") => Has(down', "ping") /\ late' = late
      /\ gone <= IF down' = <<>> THEN Latency + silent' ELSE late'
    BY <1>1, SaleContinue, \A z : <<>> # <<z>>
<1>3. SaleScalars /\ SaleFlags /\ beat \in [owed : BOOLEAN, since : Nat] /\ down \in Seq(Frames)
    BY DEF SaleInv, SaleTypes
<1>4. (Skinport!Alive' <=> Skinport!Alive) /\ (server' = "none" <=> server = "none")
    BY <1>1, <1>2 DEF Skinport!Alive
<1>5. timeout = receive_timeout /\ Has(down, "connected")
    BY <1>1, <1>3, OneRead DEF SaleInv, FlightSound
<1>6. SaleTypes'
  <2>1. SaleScalars'
      BY <1>1, <1>2, <1>3 DEF SaleScalars
  <2>2. SaleFlags'
      BY <1>1, <1>2, <1>3 DEF SaleFlags
  <2> QED
      BY <2>1, <2>2, <1>1, <1>2, <1>3 DEF SaleTypes
<1>7. FlightSound'
    BY <1>1, <1>2, <1>4, <1>5 DEF SaleInv, FlightSound, Ended
<1>8. SessionEnds'
    BY <1>1, <1>2, <1>4 DEF SaleInv, SessionEnds
<1>9. BeatSound'
    BY <1>1, <1>2, <1>3, <1>4 DEF SaleInv, BeatSound, SaleScalars
<1>10. GoneSound'
  <2>1. gone' = 0 \/ ~Skinport!Alive'
      BY <1>2, <1>4 DEF SaleInv, GoneSound
  <2> QED
      BY <2>1, <1>1, <1>2 DEF SaleInv, GoneSound
<1> QED
    BY <1>6, <1>7, <1>8, <1>9, <1>10 DEF SaleInv

LEMMA SaleReadOpen == SaleInv /\ Skinport!ReadOpen => SaleInv'
<1> SUFFICES ASSUME SaleInv, Skinport!ReadOpen
             PROVE  SaleInv'
    OBVIOUS
<1>1. /\ client = "reading" /\ down # <<>> /\ Head(down) = "open"
      /\ timeout' = receive_timeout
      /\ UNCHANGED <<client, gauge, kept_waiting, unread>>
    BY DEF Skinport!ReadOpen, Skinport!Read, Skinport!receive_timeout, receive_timeout
<1>2. PICK z \in {"connected", "refused"} :
        /\ Skinport!Continue(<<z>>)
        /\ z = "connected" => UNCHANGED beat /\ server' = IF Skinport!Alive THEN "connected" ELSE server
        /\ z = "refused" => Skinport!Alive /\ server' = "none" /\ beat' = [owed |-> FALSE, since |-> 0]
    BY DEF Skinport!ReadOpen, Skinport!Beat
<1>3. SaleScalars /\ SaleFlags /\ beat \in [owed : BOOLEAN, since : Nat] /\ down \in Seq(Frames)
    BY DEF SaleInv, SaleTypes
<1>4. /\ silent' = 0 /\ cut' = cut /\ gone' = gone /\ wronged' = wronged
      /\ down' \in Seq(Frames) /\ InOrder(down') /\ ~Has(down', "open")
      /\ late' \in Nat /\ late' <= Latency /\ (down' = <<>> => late' = 0)
      /\ Sales(down') = Sales(down)
      /\ \A y : Has(down', y) => Has(down, y) \/ y = z
      /\ Has(down, "ping") => Has(down', "ping") /\ late' = late
      /\ gone <= IF down' = <<>> THEN Latency + silent' ELSE late'
  <2>1. <<z>> = <<>> \/ (<<z>> = <<"connected">> /\ Head(down) = "open")
                     \/ (<<z>> = <<"refused">> /\ Head(down) = "open" /\ ~cut)
      BY <1>1, <1>2 DEF Skinport!Alive
  <2>2. /\ silent' = 0 /\ cut' = cut /\ gone' = gone /\ wronged' = wronged
        /\ down' \in Seq(Frames) /\ InOrder(down') /\ ~Has(down', "open")
        /\ late' \in Nat /\ late' <= Latency /\ (down' = <<>> => late' = 0)
        /\ Sales(down') = IF Head(down) = "sale" THEN Sales(down) - 1 ELSE Sales(down)
        /\ \A y : Has(down', y) => Has(down, y) \/ (\E x \in {"connected", "refused"} : y = x /\ <<z>> = <<x>>)
        /\ Has(down, "ping") /\ Head(down) # "ping" => Has(down', "ping") /\ late' = late
        /\ gone <= IF down' = <<>> THEN Latency + silent' ELSE late'
      BY <2>1, <1>1, <1>2, SaleContinue
  <2>3. \A x : <<z>> = <<x>> => x = z
      OBVIOUS
  <2> QED
      BY <2>2, <2>3, <1>1
<1>5. gauge = FALSE /\ gone = 0 /\ ~Has(down, "connected")
  <2>1. Has(down, "open")
      BY <1>1, <1>3, OneRead
  <2> QED
      BY <2>1, <1>3 DEF SaleInv, FlightSound, GoneSound, SaleFlags
<1>6. Skinport!Alive' => Skinport!Alive /\ z = "connected"
    BY <1>2, <1>4 DEF Skinport!Alive
<1>7. SaleTypes'
  <2>1. SaleScalars'
      BY <1>1, <1>2, <1>3, <1>4, SaleConstants DEF SaleScalars
  <2>2. SaleFlags'
      BY <1>1, <1>4, <1>3 DEF SaleFlags
  <2>3. beat' \in [owed : BOOLEAN, since : Nat]
      BY <1>2, <1>3, BeatType
  <2> QED
      BY <2>1, <2>2, <2>3, <1>4 DEF SaleTypes
<1>8. FlightSound'
    BY <1>1, <1>4, <1>6 DEF SaleInv, FlightSound, Ended
<1>9. SessionEnds'
    BY <1>1, <1>2, <1>4 DEF SaleInv, SessionEnds, Skinport!Alive
<1>10. BeatSound'
  <2>1. ASSUME Skinport!Alive'
        PROVE  Skinport!Alive /\ beat' = beat
      BY <2>1, <1>2, <1>6
  <2> QED
      BY <2>1, <1>1, <1>3, <1>4 DEF SaleInv, BeatSound
<1>11. GoneSound'
    BY <1>4, <1>5, SaleConstants DEF GoneSound
<1> QED
    BY <1>7, <1>8, <1>9, <1>10, <1>11 DEF SaleInv

\* Neither side gives up a connection that works: what was read ends it, or nothing came for too long.
LEMMA SaleEnds ==
    SaleInv /\ (Skinport!CannotConnect \/ Skinport!ReadEnd \/ Skinport!TimedOut) => SaleInv'
<1> SUFFICES ASSUME SaleInv
             PROVE  Skinport!CannotConnect \/ Skinport!ReadEnd \/ Skinport!TimedOut => SaleInv'
    OBVIOUS
<1>1. SaleScalars /\ SaleFlags /\ beat \in [owed : BOOLEAN, since : Nat] /\ down \in Seq(Frames) /\ InOrder(down)
    BY DEF SaleInv, SaleTypes, FlightSound
<1>2. ASSUME Skinport!CannotConnect
      PROVE  SaleInv'
  <2>1. down = <<>> /\ server = "none" /\ Skinport!Lost
      BY <1>2 DEF Skinport!CannotConnect, SaleInv, SessionEnds
  <2>2. ~Skinport!Alive /\ (~cut => unread <= 0)
      BY <2>1, NothingInFlight DEF SaleInv, FlightSound, Skinport!Alive
  <2> QED
      BY <2>1, <2>2, SaleLost
<1>3. ASSUME Skinport!ReadEnd
      PROVE  SaleInv'
  <2>1. down # <<>> /\ Head(down) \in {"closed", "refused"} /\ Skinport!Lost
      BY <1>3 DEF Skinport!ReadEnd, Skinport!Read
  <2>2. Sales(down) = 0 /\ Ended(down)
      BY <2>1, <1>1, OneRead DEF Ended
  <2>3. ~Skinport!Alive /\ (~cut => unread <= 0)
      BY <2>2 DEF SaleInv, FlightSound
  <2> QED
      BY <2>1, <2>3, SaleLost
<1>4. ASSUME Skinport!TimedOut
      PROVE  SaleInv'
  <2>1. client = "reading" /\ down = <<>> /\ silent = timeout /\ Skinport!Lost
      BY <1>4 DEF Skinport!TimedOut
  <2>2. ~Has(down, "open") /\ ~Has(down, "ping") /\ (~cut => unread <= 0)
      BY <2>1, NothingInFlight DEF SaleInv, FlightSound
  <2>3. ~cut => silent = receive_timeout
      BY <2>1, <2>2 DEF SaleInv, FlightSound
  <2>4. ASSUME Skinport!Alive
        PROVE  FALSE
    <3>1. silent <= beat.since /\ beat.since <= Interval
        BY <2>2, <2>4 DEF SaleInv, BeatSound
    <3>2. silent = receive_timeout
        BY <2>3, <2>4 DEF Skinport!Alive
    <3> QED
        BY <3>1, <3>2, <1>1, SaleConstants DEF SaleScalars
  <2> QED
      BY <2>1, <2>2, <2>4, SaleLost
<1> QED
    BY <1>2, <1>3, <1>4

LEMMA SaleHandOn == SaleInv /\ Skinport!HandOn => SaleInv'
<1> SUFFICES ASSUME SaleInv, Skinport!HandOn
             PROVE  SaleInv'
    OBVIOUS
<1>1. /\ client = "handing" /\ client' = "reading" /\ silent' = 0
      /\ UNCHANGED <<timeout, gauge, server, beat, down, late, cut, kept_waiting, unread, gone, wronged>>
    BY DEF Skinport!HandOn, Skinport!session, Skinport!network, Skinport!ghosts
<1>2. silent = 0 /\ SaleScalars /\ SaleFlags
    BY <1>1 DEF SaleInv, SessionEnds, SaleTypes
<1>3. SaleTypes'
  <2>1. SaleScalars'
      BY <1>1, <1>2 DEF SaleScalars
  <2>2. SaleFlags'
      BY <1>1, <1>2 DEF SaleFlags
  <2> QED
      BY <2>1, <2>2, <1>1 DEF SaleInv, SaleTypes
<1>4. FlightSound' /\ SessionEnds' /\ BeatSound' /\ GoneSound'
    BY <1>1, <1>2 DEF SaleInv, FlightSound, SessionEnds, BeatSound, GoneSound, Skinport!Alive
<1> QED
    BY <1>3, <1>4 DEF SaleInv

\* What the server sends is lost on a dead connection.
LEMMA SaleSent ==
    ASSUME SaleInv, server # "none", NEW x \in {"sale", "other", "ping", "closed"}, down' = Skinport!Sent(<<x>>)
    PROVE  /\ cut => down' = down
           /\ ~cut => /\ down' \in Seq(Frames) /\ InOrder(down') /\ down' # <<>> /\ gone = 0
                      /\ Sales(down') = IF x = "sale" THEN unread + 1 ELSE unread
                      /\ \A y : Has(down', y) <=> Has(down, y) \/ y = x
                      /\ ~Ended(down)
<1>1. cut => down' = down
    BY DEF Skinport!Sent
<1>2. ASSUME ~cut
      PROVE  /\ down' \in Seq(Frames) /\ InOrder(down') /\ down' # <<>> /\ gone = 0
             /\ Sales(down') = IF x = "sale" THEN unread + 1 ELSE unread
             /\ \A y : Has(down', y) <=> Has(down, y) \/ y = x
             /\ ~Ended(down)
  <2>1. down' = down \o <<x>> /\ Skinport!Alive
      BY <1>2 DEF Skinport!Sent, Skinport!Alive
  <2>2. /\ down \in Seq(Frames) /\ InOrder(down) /\ ~Ended(down) /\ gone = 0 /\ Sales(down) = unread
      BY <1>2, <2>1 DEF SaleInv, SaleTypes, FlightSound, GoneSound
  <2>3. x \in Frames /\ x # "open"
      BY DEF Frames
  <2> QED
      BY <2>1, <2>2, <2>3, OneMore, ZenonT(60)
<1> QED
    BY <1>1, <1>2

LEMMA SaleSend ==
    ASSUME SaleInv, NEW x \in {"sale", "other"}, server = "joined", Skinport!Send(x),
           unread' = IF x = "sale" THEN unread + 1 ELSE unread
    PROVE  SaleInv'
<1>1. /\ down' = Skinport!Sent(<<x>>)
      /\ UNCHANGED <<client, timeout, silent, gauge, server, beat, late, cut, kept_waiting, gone, wronged>>
    BY DEF Skinport!Send, Skinport!listener, Skinport!session
<1>2. /\ cut => down' = down
      /\ ~cut => /\ down' \in Seq(Frames) /\ InOrder(down') /\ down' # <<>> /\ gone = 0
                 /\ Sales(down') = IF x = "sale" THEN unread + 1 ELSE unread
                 /\ \A y : Has(down', y) <=> Has(down, y) \/ y = x
                 /\ ~Ended(down)
    BY <1>1, SaleSent
<1>3. SaleScalars /\ SaleFlags /\ beat \in [owed : BOOLEAN, since : Nat] /\ down \in Seq(Frames) /\ InOrder(down)
    BY DEF SaleInv, SaleTypes, FlightSound
<1>4. SaleTypes'
  <2>1. SaleScalars'
      BY <1>1, <1>3 DEF SaleScalars
  <2>2. SaleFlags'
      BY <1>1, <1>3 DEF SaleFlags
  <2>3. down' \in Seq(Frames)
      BY <1>2, <1>3
  <2> QED
      BY <2>1, <2>2, <2>3, <1>1, <1>3 DEF SaleTypes
<1>5. FlightSound'
  <2>1. CASE cut
      BY <2>1, <1>1, <1>2 DEF SaleInv, FlightSound, Skinport!Alive
  <2>2. CASE ~cut
    <3>1. ~Ended(down')
        BY <2>2, <1>2 DEF Ended
    <3> QED
        BY <2>2, <3>1, <1>1, <1>2 DEF SaleInv, FlightSound
  <2> QED
      BY <2>1, <2>2
<1>6. SessionEnds'
    BY <1>1, <1>3 DEF SaleInv, SessionEnds
<1>7. BeatSound'
    BY <1>1, <1>2 DEF SaleInv, BeatSound, Skinport!Alive
<1>8. GoneSound'
    BY <1>1, <1>2, <1>3, SaleConstants DEF SaleInv, GoneSound, Skinport!Alive, SaleScalars
<1> QED
    BY <1>4, <1>5, <1>6, <1>7, <1>8 DEF SaleInv

LEMMA SaleSendPing == SaleInv /\ Skinport!SendPing => SaleInv'
<1> SUFFICES ASSUME SaleInv, Skinport!SendPing
             PROVE  SaleInv'
    OBVIOUS
<1>1. /\ down' = Skinport!Sent(<<"ping">>) /\ server # "none" /\ beat' = [owed |-> TRUE, since |-> 0]
      /\ UNCHANGED <<client, timeout, silent, gauge, server, late, cut, kept_waiting, unread, gone, wronged>>
    BY DEF Skinport!SendPing, Skinport!listener, Skinport!ghosts, Skinport!Beat
<1>2. /\ cut => down' = down
      /\ ~cut => /\ down' \in Seq(Frames) /\ InOrder(down') /\ down' # <<>> /\ gone = 0
                 /\ Sales(down') = unread
                 /\ \A y : Has(down', y) <=> Has(down, y) \/ y = "ping"
                 /\ ~Ended(down)
    BY <1>1, SaleSent
<1>3. SaleScalars /\ SaleFlags /\ down \in Seq(Frames) /\ InOrder(down)
    BY DEF SaleInv, SaleTypes, FlightSound
<1>4. SaleTypes'
  <2>1. SaleScalars'
      BY <1>1, <1>3 DEF SaleScalars
  <2>2. SaleFlags'
      BY <1>1, <1>3 DEF SaleFlags
  <2>3. down' \in Seq(Frames) /\ beat' \in [owed : BOOLEAN, since : Nat]
      BY <1>1, <1>2, <1>3, BeatType
  <2> QED
      BY <2>1, <2>2, <2>3 DEF SaleTypes
<1>5. FlightSound'
  <2>1. CASE cut
      BY <2>1, <1>1, <1>2 DEF SaleInv, FlightSound, Skinport!Alive
  <2>2. CASE ~cut
    <3>1. ~Ended(down')
        BY <2>2, <1>2 DEF Ended
    <3> QED
        BY <2>2, <3>1, <1>1, <1>2 DEF SaleInv, FlightSound
  <2> QED
      BY <2>1, <2>2
<1>6. SessionEnds'
    BY <1>1, <1>3 DEF SaleInv, SessionEnds
<1>7. BeatSound'
  <2>1. ASSUME Skinport!Alive'
        PROVE  Has(down', "ping") /\ beat'.owed /\ beat'.since <= late'
      BY <2>1, <1>1, <1>2, <1>3 DEF Skinport!Alive, SaleScalars
  <2> QED
      BY <2>1 DEF BeatSound
<1>8. GoneSound'
    BY <1>1, <1>2, <1>3, SaleConstants DEF SaleInv, GoneSound, Skinport!Alive, SaleScalars
<1> QED
    BY <1>4, <1>5, <1>6, <1>7, <1>8 DEF SaleInv

\* The server ends the session: when it has no answer in time, the connection is dead or the listener was kept
\* waiting.
LEMMA SaleEnd ==
    ASSUME SaleInv, server # "none", Skinport!End, wronged' = wronged, late' = late, cut' = cut,
           UNCHANGED <<client, timeout, silent, gauge, kept_waiting, unread, gone>>
    PROVE  SaleInv'
<1>1. /\ down' = Skinport!Sent(<<"closed">>) /\ server' = "none" /\ beat' = [owed |-> FALSE, since |-> 0]
    BY DEF Skinport!End, Skinport!Beat
<1>2. /\ cut => down' = down
      /\ ~cut => /\ down' \in Seq(Frames) /\ InOrder(down') /\ down' # <<>> /\ gone = 0
                 /\ Sales(down') = unread
                 /\ \A y : Has(down', y) <=> Has(down, y) \/ y = "closed"
                 /\ ~Ended(down)
    BY <1>1, SaleSent
<1>3. SaleScalars /\ SaleFlags /\ down \in Seq(Frames) /\ InOrder(down)
    BY DEF SaleInv, SaleTypes, FlightSound
<1>4. ~Skinport!Alive'
    BY <1>1 DEF Skinport!Alive
<1>5. SaleTypes'
  <2>1. SaleScalars'
      BY <1>1, <1>3 DEF SaleScalars
  <2>2. SaleFlags'
      BY <1>3 DEF SaleFlags
  <2>3. down' \in Seq(Frames) /\ beat' \in [owed : BOOLEAN, since : Nat]
      BY <1>1, <1>2, <1>3, BeatType
  <2> QED
      BY <2>1, <2>2, <2>3 DEF SaleTypes
<1>6. FlightSound'
  <2>1. CASE cut
      BY <2>1, <1>2, <1>4 DEF SaleInv, FlightSound
  <2>2. CASE ~cut
      BY <2>2, <1>2, <1>4 DEF SaleInv, FlightSound
  <2> QED
      BY <2>1, <2>2
<1>7. SessionEnds'
    BY <1>1 DEF SaleInv, SessionEnds
<1>8. BeatSound'
    BY <1>4 DEF BeatSound
<1>9. GoneSound'
    BY <1>2, <1>3, <1>4, SaleConstants DEF SaleInv, GoneSound, SaleScalars
<1> QED
    BY <1>5, <1>6, <1>7, <1>8, <1>9 DEF SaleInv

LEMMA SaleServerEnds == SaleInv /\ (Skinport!GiveUp \/ Skinport!HangUp) => SaleInv'
<1> SUFFICES ASSUME SaleInv
             PROVE  Skinport!GiveUp \/ Skinport!HangUp => SaleInv'
    OBVIOUS
<1>1. ASSUME Skinport!GiveUp
      PROVE  SaleInv'
  <2>1. /\ server # "none" /\ Skinport!End /\ beat.owed /\ beat.since = PingTimeout
        /\ UNCHANGED <<client, timeout, silent, gauge, late, cut, kept_waiting, unread, gone>>
      BY <1>1 DEF Skinport!GiveUp, Skinport!listener
  <2>2. SaleScalars /\ wronged = FALSE /\ late <= Latency
      BY DEF SaleInv, SaleTypes, SaleFlags, FlightSound
  <2>3. ASSUME ~cut, ~kept_waiting
        PROVE  FALSE
    <3>1. beat.since <= late
        BY <2>1, <2>3 DEF SaleInv, BeatSound, Skinport!Alive
    <3> QED
        BY <3>1, <2>1, <2>2, SaleConstants DEF SaleScalars
  <2>4. wronged' = wronged
    <3>1. wronged' = (wronged \/ (~cut /\ ~kept_waiting))
        BY <1>1 DEF Skinport!GiveUp
    <3> QED
        BY <3>1, <2>2, <2>3, Zenon
  <2> QED
      BY <2>1, <2>4, SaleEnd
<1>2. ASSUME Skinport!HangUp
      PROVE  SaleInv'
    BY <1>2, SaleEnd DEF Skinport!HangUp, Skinport!listener, Skinport!ghosts
<1> QED
    BY <1>1, <1>2

LEMMA SaleCut == SaleInv /\ Skinport!Cut => SaleInv'
<1> SUFFICES ASSUME SaleInv, Skinport!Cut
             PROVE  SaleInv'
    OBVIOUS
<1>1. /\ client # "waiting" /\ ~cut /\ cut' = TRUE
      /\ UNCHANGED <<client, timeout, silent, gauge, server, beat, kept_waiting, unread, gone, wronged>>
    BY DEF Skinport!Cut, Skinport!listener, Skinport!session, Skinport!ghosts
<1>2. PICK n \in 0..Len(down) : down' = SubSeq(down, 1, n) /\ late' = IF n = 0 THEN 0 ELSE late
    BY DEF Skinport!Cut
<1>3. /\ SaleScalars /\ SaleFlags /\ beat \in [owed : BOOLEAN, since : Nat]
      /\ down \in Seq(Frames) /\ InOrder(down) /\ late <= Latency
    BY DEF SaleInv, SaleTypes, FlightSound
<1>4. /\ down' \in Seq(Frames) /\ InOrder(down') /\ (n = 0 <=> down' = <<>>)
      /\ \A y : Has(down', y) => Has(down, y)
    BY <1>2, <1>3, FirstOnly
<1>5. late' \in Nat /\ late' <= Latency /\ (down' = <<>> => late' = 0) /\ (down' # <<>> => late' = late)
    BY <1>2, <1>3, <1>4, SaleConstants DEF SaleScalars
<1>6. ~Skinport!Alive'
    BY <1>1 DEF Skinport!Alive
<1>7. SaleTypes'
  <2>1. SaleScalars'
      BY <1>1, <1>3, <1>5 DEF SaleScalars
  <2>2. SaleFlags'
      BY <1>1, <1>3 DEF SaleFlags
  <2> QED
      BY <2>1, <2>2, <1>1, <1>3, <1>4 DEF SaleTypes
<1>8. FlightSound'
    BY <1>1, <1>4, <1>5, <1>6 DEF SaleInv, FlightSound
<1>9. SessionEnds'
    BY <1>1 DEF SaleInv, SessionEnds
<1>10. BeatSound'
    BY <1>6 DEF BeatSound
<1>11. GoneSound'
  <2>1. down = <<>> => down' = <<>>
    <3>1. down = <<>> => Len(down) = 0
        OBVIOUS
    <3> QED
        BY <3>1, <1>2, <1>4
  <2>2. gone <= IF down' = <<>> THEN Latency + silent ELSE late'
    <3>1. gone <= IF down = <<>> THEN Latency + silent ELSE late
        BY DEF SaleInv, GoneSound
    <3> QED
        BY <3>1, <2>1, <1>3, <1>5, SaleConstants DEF SaleScalars
  <2> QED
      BY <2>2, <1>1, <1>6 DEF SaleInv, GoneSound
<1> QED
    BY <1>7, <1>8, <1>9, <1>10, <1>11 DEF SaleInv

LEMMA SaleTick == SaleInv /\ Skinport!Tick => SaleInv'
<1> SUFFICES ASSUME SaleInv, Skinport!Tick
             PROVE  SaleInv'
    OBVIOUS
<1>1. /\ client = "reading" => IF down = <<>> THEN silent < timeout ELSE late < Latency
      /\ server # "none" => beat.since < IF beat.owed THEN PingTimeout ELSE Interval
      /\ silent' = IF client = "reading" THEN silent + 1 ELSE silent
      /\ late' = IF client = "reading" /\ down # <<>> THEN late + 1 ELSE late
      /\ beat' = IF server # "none" THEN [beat EXCEPT !.since = @ + 1] ELSE beat
      /\ gone' = IF gauge /\ ~Skinport!Alive /\ client = "reading" THEN gone + 1 ELSE gone
      /\ UNCHANGED <<client, timeout, gauge, server, down, cut, unread, wronged>>
    BY DEF Skinport!Tick, Skinport!Quiet
<1>2. kept_waiting' = (kept_waiting \/ client = "handing")
    BY DEF Skinport!Tick
<1>3. /\ SaleScalars /\ SaleFlags /\ beat \in [owed : BOOLEAN, since : Nat]
      /\ down \in Seq(Frames) /\ late <= Latency /\ (down = <<>> => late = 0)
    BY DEF SaleInv, SaleTypes, FlightSound
<1>4. Skinport!Alive' <=> Skinport!Alive
    BY <1>1 DEF Skinport!Alive
<1>5. beat' \in [owed : BOOLEAN, since : Nat] /\ beat'.owed = beat.owed
      /\ (server # "none" => beat'.since = beat.since + 1) /\ (server = "none" => beat' = beat)
    BY <1>1, <1>3
<1>6. SaleTypes'
  <2>1. SaleScalars'
      BY <1>1, <1>3 DEF SaleScalars
  <2>2. SaleFlags'
      BY <1>1, <1>2, <1>3, Zenon DEF SaleFlags
  <2> QED
      BY <2>1, <2>2, <1>1, <1>3, <1>5 DEF SaleTypes
<1>7. late' <= Latency /\ (down = <<>> => late' = 0)
    BY <1>1, <1>3, SaleConstants DEF SaleScalars
<1>8. FlightSound'
    BY <1>1, <1>4, <1>7 DEF SaleInv, FlightSound, Ended
<1>9. SessionEnds'
    BY <1>1, <1>5 DEF SaleInv, SessionEnds
<1>10. BeatSound'
  <2> SUFFICES ASSUME Skinport!Alive
               PROVE  IF beat'.owed THEN Has(down', "ping") /\ (~kept_waiting' => beat'.since <= late')
                      ELSE silent' <= beat'.since /\ beat'.since <= Interval
      BY <1>4 DEF BeatSound
  <2>1. server # "none" /\ client # "waiting"
      BY DEF Skinport!Alive, SaleInv, SessionEnds
  <2>2. beat.since \in Nat /\ beat'.since = beat.since + 1
      BY <2>1, <1>3, <1>5
  <2>3. CASE beat.owed
    <3>1. Has(down, "ping") /\ (~kept_waiting => beat.since <= late)
        BY <2>3 DEF SaleInv, BeatSound
    <3>2. down # <<>>
        BY <3>1, NothingInFlight
    <3>3. ~kept_waiting' => ~kept_waiting /\ client = "reading"
        BY <2>1, <1>2, <1>3 DEF SaleScalars
    <3> QED
        BY <2>2, <2>3, <3>1, <3>2, <3>3, <1>1, <1>3, <1>5 DEF SaleScalars
  <2>4. CASE ~beat.owed
    <3>1. silent <= beat.since /\ beat.since < Interval
        BY <2>1, <2>4, <1>1 DEF SaleInv, BeatSound
    <3> QED
        BY <2>2, <2>4, <3>1, <1>1, <1>3, <1>5, SaleConstants, SMTT(30) DEF SaleScalars
  <2> QED
      BY <2>3, <2>4
<1>11. GoneSound'
  <2>1. CASE gauge /\ ~Skinport!Alive /\ client = "reading"
    <3>1. gone' = gone + 1 /\ silent' = silent + 1
        BY <2>1, <1>1
    <3>2. gone <= IF down = <<>> THEN Latency + silent ELSE late
        BY DEF SaleInv, GoneSound
    <3>3. gone' <= IF down = <<>> THEN Latency + silent' ELSE late'
        BY <2>1, <3>1, <3>2, <1>1, <1>3, SaleConstants, SMTT(30) DEF SaleScalars
    <3>4. timeout = receive_timeout
        BY <2>1 DEF SaleInv, FlightSound
    <3>5. gone' <= Latency + receive_timeout
        BY <2>1, <3>1, <3>3, <3>4, <1>1, <1>3, <1>7, SaleConstants, SMTT(30) DEF SaleScalars
    <3> QED
        BY <2>1, <3>3, <3>5, <1>1, <1>4 DEF GoneSound
  <2>2. CASE ~(gauge /\ ~Skinport!Alive /\ client = "reading")
    <3>1. gone' = gone /\ silent <= silent' /\ late <= late'
        BY <2>2, <1>1, <1>3 DEF SaleScalars
    <3>2. gone <= IF down = <<>> THEN Latency + silent ELSE late
        BY DEF SaleInv, GoneSound
    <3>3. gone' <= IF down' = <<>> THEN Latency + silent' ELSE late'
        BY <3>1, <3>2, <1>1, <1>3, <1>6, SaleConstants, SMTT(30) DEF SaleScalars, SaleTypes
    <3> QED
        BY <3>1, <3>3, <1>1, <1>4 DEF SaleInv, GoneSound
  <2> QED
      BY <2>1, <2>2
<1> QED
    BY <1>6, <1>8, <1>9, <1>10, <1>11 DEF SaleInv

LEMMA SaleNext == SaleInv /\ Skinport!Next => SaleInv'
<1>1. SaleInv /\ (Skinport!SendSale \/ Skinport!SendOther) => SaleInv'
    BY SaleSend DEF Skinport!SendSale, Skinport!SendOther
<1> QED
    BY <1>1, SaleConnect, SalePlainReads, SaleReadOpen, SaleReadConnected, SaleEnds, SaleHandOn, SaleSendPing,
       SaleServerEnds, SaleCut, SaleTick
    DEF Skinport!Next, Skinport!Listener, Skinport!Server

LEMMA SaleUnchanged == SaleInv /\ UNCHANGED sale_feed => SaleInv'
<1> SUFFICES ASSUME SaleInv, UNCHANGED sale_feed
             PROVE  SaleInv'
    OBVIOUS
<1> QED
    BY DEF sale_feed, SaleInv, SaleTypes, SaleScalars, SaleFlags, SessionEnds, FlightSound, BeatSound, GoneSound,
           Skinport!Alive

(* The session of Skinport's sale feed, for every interval, timeout and latency below the server's patience: as
   long as no full queue holds the producer neither side gives up a connection that works, no event of one is
   lost, and feed_connected says soon that one has died (sale_feed_events,
   websocket_subscriber_producer). *)
THEOREM SessionsSoundHolds == FeedsSpec => []SessionsSound
<1>1. FeedsInit => SaleInv
    BY SaleInit DEF FeedsInit
<1>2. SaleInv /\ [FeedsNext]_feeds => SaleInv'
    BY SaleNext, SaleUnchanged DEF FeedsNext, feeds
<1>3. SaleInv => SessionsSound
  <2> SUFFICES ASSUME SaleInv
               PROVE  SessionsSound
      OBVIOUS
  <2>1. gone <= Latency + receive_timeout /\ gone \in Nat /\ wronged = FALSE
      BY DEF SaleInv, GoneSound, SaleTypes, SaleScalars, SaleFlags
  <2>2. gone <= Interval + PingTimeout + Latency
      BY <2>1, SaleConstants DEF receive_timeout
  <2> QED
      BY <2>1, <2>2 DEF SessionsSound, Skinport!SessionsSound
<1> QED
    BY <1>1, <1>2, <1>3, PTL DEF FeedsSpec

-----------------------------------------------------------------------------
(* The listings the filter follows.                                        *)

Slots == [id : Listings, price : 1..MaxPrice]

\* A listing is followed at one place.
OncePlaced(t) == \A i, j \in 1..Len(t) : t[i].id = t[j].id => i = j

Follows(t, l, p) == \E i \in 1..Len(t) : t[i].id = l /\ t[i].price = p

LEMMA FeedConstants ==
    /\ MaxPrice \in Nat /\ Prepared \in Nat /\ MaxTracked \in Nat /\ MaxTracked >= 1
    /\ MaxEvents \in Nat /\ MaxEvents >= 1
    /\ \A b \in 1..Prepared, l \in Listings : Limit(b, l) \in Nat
<1>1. Waxpeer!FeedAssumption
    BY FeedsAssumption
<1>2. \A b \in 1..Prepared, l \in Listings : Limit(b, l) \in Nat
    BY <1>1, Zenon DEF Waxpeer!FeedAssumption
<1>3. MaxPrice \in Nat /\ Prepared \in Nat /\ MaxTracked \in Nat \ {0} /\ MaxEvents \in Nat \ {0}
    BY <1>1, Zenon DEF Waxpeer!FeedAssumption
<1>4. MaxTracked \in Nat /\ MaxTracked >= 1 /\ MaxEvents \in Nat /\ MaxEvents >= 1
    BY <1>3
<1> QED
    BY <1>2, <1>3, <1>4, Zenon

LEMMA SlotType ==
    ASSUME NEW t \in Seq(Slots), NEW i \in 1..Len(t)
    PROVE  t[i] \in Slots /\ t[i].id \in Listings /\ t[i].price \in 1..MaxPrice
<1>1. t[i] \in Slots
    BY ElementOfSeq
<1> QED
    BY <1>1 DEF Slots

LEMMA PriceFollowed ==
    ASSUME NEW t \in Seq(Slots), OncePlaced(t), NEW l
    PROVE  /\ \A p : Follows(t, l, p) => l \in Waxpeer!Followed(t) /\ Waxpeer!FollowedPrice(t, l) = p
           /\ l \in Waxpeer!Followed(t) => \E p \in 1..MaxPrice : Follows(t, l, p)
           /\ l \in Waxpeer!Followed(t) => l \in Listings
<1>1. ASSUME NEW i \in 1..Len(t), t[i].id = l
      PROVE  (CHOOSE k \in 1..Len(t) : t[k].id = l) = i
    BY <1>1 DEF OncePlaced
<1>2. ASSUME NEW p, Follows(t, l, p)
      PROVE  l \in Waxpeer!Followed(t) /\ Waxpeer!FollowedPrice(t, l) = p
  <2>1. PICK i \in 1..Len(t) : t[i].id = l /\ t[i].price = p
      BY <1>2 DEF Follows
  <2> QED
      BY <2>1, <1>1 DEF Waxpeer!Followed, Waxpeer!FollowedPrice
<1>3. ASSUME l \in Waxpeer!Followed(t)
      PROVE  l \in Listings /\ \E p \in 1..MaxPrice : Follows(t, l, p)
  <2>1. PICK i \in 1..Len(t) : t[i].id = l
      BY <1>3 DEF Waxpeer!Followed
  <2> QED
      BY <2>1, SlotType DEF Follows
<1> QED
    BY <1>2, <1>3

LEMMA NothingFollowed ==
    /\ <<>> \in Seq(Slots) /\ OncePlaced(<<>>) /\ Waxpeer!Followed(<<>>) = {} /\ Len(<<>>) = 0
    /\ \A l, p : ~Follows(<<>>, l, p)
<1>1. Len(<<>>) = 0 /\ <<>> \in Seq(Slots)
    BY EmptySeq
<1> QED
    BY <1>1 DEF OncePlaced, Follows, Waxpeer!Followed

\* Unfollow takes the one place of a listing, and leaves the others' order.
LEMMA UnfollowPlaces ==
    ASSUME NEW t \in Seq(Slots), OncePlaced(t), NEW l
    PROVE  LET u == Waxpeer!Unfollow(t, l)
           IN  /\ u \in Seq(Slots) /\ OncePlaced(u)
               /\ Len(u) = IF l \in Waxpeer!Followed(t) THEN Len(t) - 1 ELSE Len(t)
               /\ \A k, p : Follows(u, k, p) <=> k # l /\ Follows(t, k, p)
<1> DEFINE u == Waxpeer!Unfollow(t, l)
<1>1. CASE l \notin Waxpeer!Followed(t)
  <2>1. u = t
      BY <1>1 DEF Waxpeer!Unfollow
  <2>2. \A p : ~Follows(t, l, p)
      BY <1>1, PriceFollowed
  <2> QED
      BY <2>1, <2>2, <1>1
<1>2. CASE l \in Waxpeer!Followed(t)
  <2>1. PICK n \in 1..Len(t) : t[n].id = l
      BY <1>2 DEF Waxpeer!Followed
  <2>2. (CHOOSE k \in 1..Len(t) : t[k].id = l) = n
      BY <2>1 DEF OncePlaced
  <2> DEFINE a == SubSeq(t, 1, n - 1)
             b == SubSeq(t, n + 1, Len(t))
  <2>3. u = a \o b
      BY <1>2, <2>2 DEF Waxpeer!Unfollow, Waxpeer!RemoveAt
  <2>4. Len(t) \in Nat /\ n \in Nat /\ 1 <= n /\ n <= Len(t)
      BY <2>1, LenProperties
  <2>5. a \in Seq(Slots) /\ Len(a) = n - 1 /\ \A i \in 1..(n - 1) : a[i] = t[i]
    <3>1. \A i \in 1..(n - 1) : t[i] \in Slots
        BY <2>4, SlotType
    <3>2. /\ a \in Seq(Slots)
          /\ Len(a) = IF 1 <= n - 1 THEN n - 1 - 1 + 1 ELSE 0
          /\ \A i \in 1..(n - 1 - 1 + 1) : a[i] = t[1 + i - 1]
      <4>1. 1 \in Int /\ n - 1 \in Int
          BY <2>4
      <4> QED
          BY <3>1, <4>1, SubSeqProperties
    <3> HIDE DEF a
    <3> QED
        BY <3>2, <2>4
  <2>6. b \in Seq(Slots) /\ Len(b) = Len(t) - n /\ \A i \in 1..(Len(t) - n) : b[i] = t[n + i]
    <3>1. \A i \in (n + 1)..Len(t) : t[i] \in Slots
        BY <2>4, SlotType
    <3>2. /\ b \in Seq(Slots)
          /\ Len(b) = IF n + 1 <= Len(t) THEN Len(t) - (n + 1) + 1 ELSE 0
          /\ \A i \in 1..(Len(t) - (n + 1) + 1) : b[i] = t[n + 1 + i - 1]
      <4>1. n + 1 \in Int /\ Len(t) \in Int
          BY <2>4
      <4> QED
          BY <3>1, <4>1, SubSeqProperties
    <3> HIDE DEF b
    <3> QED
        BY <3>2, <2>4
  <2> HIDE DEF a, b
  <2>7. /\ u \in Seq(Slots) /\ Len(u) = Len(a) + Len(b)
        /\ \A i \in 1..(Len(a) + Len(b)) : u[i] = IF i <= Len(a) THEN a[i] ELSE b[i - Len(a)]
    <3>1. /\ a \o b \in Seq(Slots) /\ Len(a \o b) = Len(a) + Len(b)
          /\ \A i \in 1..(Len(a) + Len(b)) : (a \o b)[i] = IF i <= Len(a) THEN a[i] ELSE b[i - Len(a)]
        BY <2>5, <2>6, ConcatProperties
    <3> HIDE DEF u
    <3> QED
        BY <2>3, <3>1
  <2> HIDE DEF u
  <2>8. Len(u) = Len(t) - 1 /\ \A i \in 1..(Len(t) - 1) : u[i] = IF i < n THEN t[i] ELSE t[i + 1]
    <3>1. Len(u) = Len(t) - 1
        BY <2>4, <2>5, <2>6, <2>7
    <3>2. ASSUME NEW i \in 1..(Len(t) - 1), i < n
          PROVE  u[i] = t[i]
      <4>1. i \in 1..(n - 1) /\ i <= Len(a) /\ i \in 1..(Len(a) + Len(b))
          BY <3>2, <2>4, <2>5, <2>6
      <4>2. u[i] = IF i <= Len(a) THEN a[i] ELSE b[i - Len(a)]
          BY <4>1, <2>7
      <4>3. a[i] = t[i]
          BY <4>1, <2>5
      <4> QED
          BY <4>1, <4>2, <4>3
    <3>3. ASSUME NEW i \in 1..(Len(t) - 1), ~(i < n)
          PROVE  u[i] = t[i + 1]
      <4>1. ~(i <= Len(a)) /\ i \in 1..(Len(a) + Len(b)) /\ i - (n - 1) \in 1..(Len(t) - n)
          BY <3>3, <2>4, <2>5, <2>6
      <4>2. u[i] = b[i - (n - 1)]
          BY <4>1, <2>5, <2>7
      <4>3. n + (i - (n - 1)) = i + 1
          BY <2>4
      <4>4. b[i - (n - 1)] = t[n + (i - (n - 1))]
          BY <4>1, <2>6
      <4> QED
          BY <4>2, <4>3, <4>4
    <3> QED
        BY <3>1, <3>2, <3>3
  <2>9. \A i \in 1..Len(u) : \E j \in 1..Len(t) : j # n /\ u[i] = t[j] /\ j = IF i < n THEN i ELSE i + 1
      BY <2>4, <2>8
  <2>10. \A j \in 1..Len(t) : j # n => \E i \in 1..Len(u) : u[i] = t[j]
    <3> SUFFICES ASSUME NEW j \in 1..Len(t), j # n
                 PROVE  \E i \in 1..Len(u) : u[i] = t[j]
        OBVIOUS
    <3>1. CASE j < n
        BY <3>1, <2>4, <2>8
    <3>2. CASE j > n
      <4>1. j - 1 \in 1..(Len(t) - 1) /\ ~(j - 1 < n) /\ j - 1 + 1 = j
          BY <3>2, <2>4
      <4> QED
          BY <4>1, <2>8
    <3> QED
        BY <3>1, <3>2, <2>4
  <2>11. OncePlaced(u)
    <3> SUFFICES ASSUME NEW i \in 1..Len(u), NEW j \in 1..Len(u), u[i].id = u[j].id
                 PROVE  i = j
        BY DEF OncePlaced
    <3>1. PICK x \in 1..Len(t) : u[i] = t[x] /\ x = IF i < n THEN i ELSE i + 1
        BY <2>9
    <3>2. PICK y \in 1..Len(t) : u[j] = t[y] /\ y = IF j < n THEN j ELSE j + 1
        BY <2>9
    <3>3. x = y
        BY <3>1, <3>2 DEF OncePlaced
    <3> QED
        BY <3>1, <3>2, <3>3, <2>4, <2>8
  <2>12. ASSUME NEW k, NEW p
         PROVE  Follows(u, k, p) <=> k # l /\ Follows(t, k, p)
    <3>1. \A j \in 1..Len(t) : t[j].id = l <=> j = n
        BY <2>1 DEF OncePlaced
    <3>2. Follows(u, k, p) => k # l /\ Follows(t, k, p)
        BY <2>9, <3>1 DEF Follows
    <3>3. k # l /\ Follows(t, k, p) => Follows(u, k, p)
        BY <2>10, <2>1 DEF Follows
    <3> QED
        BY <3>2, <3>3
  <2> QED
      BY <2>7, <2>8, <2>11, <2>12, <1>2 DEF u
<1> QED
    BY <1>1, <1>2

\* Track puts a listing at the end, and the oldest goes when there are too many.
LEMMA TrackPlaces ==
    ASSUME NEW t \in Seq(Slots), OncePlaced(t), Len(t) <= MaxTracked, NEW l \in Listings, NEW p \in 1..MaxPrice
    PROVE  LET v == Waxpeer!Track(t, l, p)
           IN  /\ v \in Seq(Slots) /\ OncePlaced(v) /\ Len(v) <= MaxTracked
               /\ \A q : Follows(v, l, q) <=> q = p
               /\ \A k, q : k # l /\ Follows(v, k, q) => Follows(t, k, q)
               /\ l \in Waxpeer!Followed(t) => \A k, q : k # l /\ Follows(t, k, q) => Follows(v, k, q)
<1> DEFINE u == Waxpeer!Unfollow(t, l)
           e == [id |-> l, price |-> p]
           all == Append(u, e)
           v == Waxpeer!Track(t, l, p)
<1>1. /\ u \in Seq(Slots) /\ OncePlaced(u)
      /\ Len(u) = IF l \in Waxpeer!Followed(t) THEN Len(t) - 1 ELSE Len(t)
      /\ \A k, q : Follows(u, k, q) <=> k # l /\ Follows(t, k, q)
    BY UnfollowPlaces
<1>2. v = IF Len(all) > MaxTracked THEN Tail(all) ELSE all
    BY DEF Waxpeer!Track
<1>3. e \in Slots /\ e.id = l /\ e.price = p
    BY DEF Slots
<1> HIDE DEF u, e, v
<1>4. /\ all \in Seq(Slots) /\ Len(all) = Len(u) + 1
      /\ \A i \in 1..Len(u) : all[i] = u[i]
      /\ all[Len(u) + 1] = e
    BY <1>1, <1>3, AppendProperties
<1> HIDE DEF all
<1>5. Len(t) \in Nat /\ Len(u) \in Nat /\ Len(all) \in Nat \ {0} /\ MaxTracked \in Nat /\ MaxTracked >= 1
    BY <1>1, <1>4, LenProperties, FeedConstants
<1>6. \A i \in 1..Len(u) : u[i].id # l
  <2> SUFFICES ASSUME NEW i \in 1..Len(u), u[i].id = l
               PROVE  FALSE
      OBVIOUS
  <2>1. Follows(u, l, u[i].price)
      BY DEF Follows
  <2> QED
      BY <2>1, <1>1
<1>7. \A i \in 1..Len(all) : i = Len(u) + 1 \/ i \in 1..Len(u)
    BY <1>4, <1>5
<1>8. OncePlaced(all)
    BY <1>1, <1>3, <1>4, <1>6, <1>7 DEF OncePlaced
<1>9. \A k, q : Follows(all, k, q) <=> IF k = l THEN q = p ELSE Follows(t, k, q)
  <2> SUFFICES ASSUME NEW k, NEW q
               PROVE  Follows(all, k, q) <=> IF k = l THEN q = p ELSE Follows(t, k, q)
      OBVIOUS
  <2>1. Follows(all, k, q) <=> Follows(u, k, q) \/ (k = l /\ q = p)
    <3>1. Follows(all, k, q) => Follows(u, k, q) \/ (k = l /\ q = p)
        BY <1>3, <1>4, <1>7 DEF Follows
    <3>2. 1..Len(u) \subseteq 1..Len(all) /\ Len(u) + 1 \in 1..Len(all)
        BY <1>4, <1>5
    <3>3. Follows(u, k, q) \/ (k = l /\ q = p) => Follows(all, k, q)
        BY <3>2, <1>3, <1>4 DEF Follows
    <3> QED
        BY <3>1, <3>3
  <2> QED
      BY <2>1, <1>1
<1>10. CASE Len(all) <= MaxTracked
  <2>1. v = all
      BY <1>10, <1>2, <1>5
  <2> QED
      BY <2>1, <1>4, <1>8, <1>9, <1>10 DEF v
<1>11. CASE Len(all) > MaxTracked
  <2>1. v = Tail(all) /\ all # <<>>
    <3>1. all # <<>>
        BY <1>5
    <3> QED
        BY <3>1, <1>11, <1>2
  <2>2. /\ v \in Seq(Slots) /\ Len(v) = Len(all) - 1
        /\ \A i \in 1..Len(v) : v[i] = all[i + 1]
      BY <2>1, <1>4, HeadTailProperties
  <2>3. l \notin Waxpeer!Followed(t) /\ Len(u) = Len(t) /\ Len(v) = Len(u) /\ Len(u) >= 1
      BY <1>11, <2>2, <1>1, <1>4, <1>5
  <2>4. \A i \in 1..Len(v) : i + 1 \in 1..Len(all)
      BY <2>2, <1>4, <1>5
  <2>5. OncePlaced(v)
    <3> SUFFICES ASSUME NEW i \in 1..Len(v), NEW j \in 1..Len(v), v[i].id = v[j].id
                 PROVE  i = j
        BY DEF OncePlaced
    <3>1. i + 1 = j + 1
        BY <2>2, <2>4, <1>8 DEF OncePlaced
    <3> QED
        BY <3>1
  <2>6. \A k, q : Follows(v, k, q) => Follows(all, k, q)
      BY <2>2, <2>4 DEF Follows
  <2>7. Follows(v, l, p)
    <3>1. Len(u) \in 1..Len(v) /\ v[Len(u)] = e
        BY <2>2, <2>3, <1>4, <1>5
    <3> QED
        BY <3>1, <1>3 DEF Follows
  <2>8. Len(v) <= MaxTracked
      BY <2>3, <1>5
  <2> QED
      BY <2>2, <2>3, <2>5, <2>6, <2>7, <2>8, <1>9 DEF v
<1> QED
    BY <1>10, <1>11, <1>5

-----------------------------------------------------------------------------
(* What the filter makes of an event.                                      *)

\* A listing that is recorded is worth it and followed from then on; one that is not and stays followed was not
\* cut or is not worth it; one that is not followed any more is not worth it.
Judged(event, b, l, p, t, recorded_now) ==
    /\ t \in Seq(Slots) /\ OncePlaced(t) /\ Len(t) <= MaxTracked
    /\ \A k, q : k # l /\ Follows(t, k, q) => Follows(tracked, k, q)
    /\ ~recorded_now => \A k, q : k # l /\ Follows(tracked, k, q) => Follows(t, k, q)
    /\ \A q : Follows(t, l, q) => q = p
    /\ event = "removed" =>
          (recorded_now <=> l \in Waxpeer!Followed(tracked)) /\ l \notin Waxpeer!Followed(t)
    /\ event # "removed" /\ recorded_now => Waxpeer!WorthRecording(b, l, p) /\ l \in Waxpeer!Followed(t)
    /\ event # "removed" /\ ~recorded_now =>
          \/ /\ event = "update" /\ l \in Waxpeer!Followed(tracked) /\ l \in Waxpeer!Followed(t)
             /\ ~(p < Waxpeer!FollowedPrice(tracked, l) /\ Waxpeer!WorthRecording(b, l, p))
          \/ /\ ~Waxpeer!WorthRecording(b, l, p) /\ l \notin Waxpeer!Followed(t)
             /\ event = "new" \/ l \notin Waxpeer!Followed(tracked)

LEMMA JudgeListing ==
    ASSUME tracked \in Seq(Slots), OncePlaced(tracked), Len(tracked) <= MaxTracked,
           NEW event \in {"new", "update"}, NEW b \in 0..Prepared, NEW l \in Listings, NEW p \in 1..MaxPrice
    PROVE  LET a == Waxpeer!AfterListing(event, b, l, p) IN Judged(event, b, l, p, a.tracked, a.recorded)
<1> DEFINE a == Waxpeer!AfterListing(event, b, l, p)
           v == Waxpeer!Track(tracked, l, p)
           u == Waxpeer!Unfollow(tracked, l)
<1>1. /\ v \in Seq(Slots) /\ OncePlaced(v) /\ Len(v) <= MaxTracked
      /\ \A q : Follows(v, l, q) <=> q = p
      /\ \A k, q : k # l /\ Follows(v, k, q) => Follows(tracked, k, q)
      /\ l \in Waxpeer!Followed(tracked) => \A k, q : k # l /\ Follows(tracked, k, q) => Follows(v, k, q)
    BY TrackPlaces
<1>2. /\ u \in Seq(Slots) /\ OncePlaced(u)
      /\ Len(u) = IF l \in Waxpeer!Followed(tracked) THEN Len(tracked) - 1 ELSE Len(tracked)
      /\ \A k, q : Follows(u, k, q) <=> k # l /\ Follows(tracked, k, q)
    BY UnfollowPlaces
<1> DEFINE followed == l \in Waxpeer!Followed(tracked)
           worth == Waxpeer!WorthRecording(b, l, p)
           cut_price == p < Waxpeer!FollowedPrice(tracked, l)
<1>3. /\ event = "update" /\ followed => a.tracked = v /\ a.recorded = (cut_price /\ worth)
      /\ ~(event = "update" /\ followed) /\ worth => a.tracked = v /\ a.recorded = TRUE
      /\ ~(event = "update" /\ followed) /\ ~worth => a.tracked = u /\ a.recorded = FALSE
    BY DEF Waxpeer!AfterListing
<1> HIDE DEF a, v, u, worth, cut_price
<1>4. l \in Waxpeer!Followed(v)
    BY <1>1, PriceFollowed
<1>5. l \notin Waxpeer!Followed(u)
    BY <1>2, PriceFollowed
<1>6. Len(u) <= MaxTracked
    BY <1>2, LenProperties, FeedConstants
<1>7. ASSUME event = "update" /\ followed
      PROVE  Judged(event, b, l, p, a.tracked, a.recorded)
  <2>1. Judged(event, b, l, p, v, cut_price /\ worth)
      BY <1>7, <1>1, <1>4 DEF Judged, worth, cut_price
  <2> QED
      BY <2>1, <1>3, <1>7
<1>8. ASSUME ~(event = "update" /\ followed) /\ worth
      PROVE  Judged(event, b, l, p, a.tracked, a.recorded)
  <2>1. Judged(event, b, l, p, v, TRUE)
      BY <1>8, <1>1, <1>4 DEF Judged, worth
  <2> QED
      BY <2>1, <1>3, <1>8
<1>9. ASSUME ~(event = "update" /\ followed) /\ ~worth
      PROVE  Judged(event, b, l, p, a.tracked, a.recorded)
  <2>1. Judged(event, b, l, p, u, FALSE)
      BY <1>9, <1>2, <1>5, <1>6 DEF Judged, worth
  <2> QED
      BY <2>1, <1>3, <1>9
<1> QED
    BY <1>7, <1>8, <1>9 DEF a

LEMMA JudgeRemoval ==
    ASSUME tracked \in Seq(Slots), OncePlaced(tracked), Len(tracked) <= MaxTracked,
           NEW b, NEW l \in Listings
    PROVE  LET a == Waxpeer!AfterRemoval(l) IN Judged("removed", b, l, 0, a.tracked, a.recorded)
<1> DEFINE a == Waxpeer!AfterRemoval(l)
           u == Waxpeer!Unfollow(tracked, l)
<1>1. a.tracked = u /\ a.recorded = (l \in Waxpeer!Followed(tracked))
    BY DEF Waxpeer!AfterRemoval
<1>2. /\ u \in Seq(Slots) /\ OncePlaced(u)
      /\ Len(u) = IF l \in Waxpeer!Followed(tracked) THEN Len(tracked) - 1 ELSE Len(tracked)
      /\ \A k, q : Follows(u, k, q) <=> k # l /\ Follows(tracked, k, q)
    BY UnfollowPlaces
<1> HIDE DEF a, u
<1>3. l \notin Waxpeer!Followed(u)
    BY <1>2, PriceFollowed
<1>4. Len(u) <= MaxTracked
    BY <1>2, LenProperties, FeedConstants
<1>5. Judged("removed", b, l, 0, u, l \in Waxpeer!Followed(tracked))
    BY <1>2, <1>3, <1>4 DEF Judged
<1> QED
    BY <1>1, <1>5 DEF a

-----------------------------------------------------------------------------
(* The records of the Waxpeer feed.                                       *)

RecordTypes ==
    /\ last \in [Listings -> [state : {"none", "listed", "removed"}, price : 0..MaxPrice, build : 0..Prepared]]
    /\ cheap \in [Listings -> BOOLEAN] /\ missed \subseteq Listings

\* What is followed is recorded, at the feed's price and under prices the filter had by then.
PlacesSound ==
    /\ OncePlaced(tracked)
    /\ \A l \in Listings, p \in 1..MaxPrice :
          Follows(tracked, l, p) => known[l] = p /\ last[l].state = "listed" /\ last[l].build <= held

\* A record above the feed's price is of prices that the filter no longer has, and will not have again.
Outdated(l) == last[l].price <= known[l] \/ (last[l].build < stored /\ last[l].build # held)

RecordSound(l) ==
    /\ cheap[l] => last[l].state = "listed"
    /\ last[l].state = "listed" => Waxpeer!WorthRecording(last[l].build, l, last[l].price) /\ last[l].build <= stored
    /\ cheap[l] \/ l \in Waxpeer!Followed(tracked) => Outdated(l)
    /\ l \notin missed /\ last[l].state = "listed" => l \in Waxpeer!Followed(tracked) /\ known[l] = market[l]

MarketInv ==
    /\ Waxpeer!TypeOK /\ RecordTypes /\ PlacesSound
    /\ \A l \in Listings : RecordSound(l)
    /\ owed = raw

LEMMA MarketTypes ==
    ASSUME MarketInv
    PROVE  /\ market \in [Listings -> 0..MaxPrice] /\ known \in [Listings -> 0..MaxPrice]
           /\ stored \in 0..Prepared /\ held \in 0..stored
           /\ stored \in Nat /\ held \in Nat /\ held \in 0..Prepared
           /\ tracked \in Seq(Slots) /\ OncePlaced(tracked) /\ Len(tracked) <= MaxTracked
<1>1. /\ market \in [Listings -> 0..MaxPrice] /\ known \in [Listings -> 0..MaxPrice]
      /\ stored \in 0..Prepared /\ held \in 0..stored
      /\ tracked \in Seq(Slots) /\ OncePlaced(tracked) /\ Len(tracked) <= MaxTracked
    BY DEF MarketInv, Waxpeer!TypeOK, PlacesSound, Slots
<1> QED
    BY <1>1, FeedConstants

LEMMA RecordType ==
    ASSUME MarketInv, NEW l \in Listings
    PROVE  last[l].price \in Nat /\ last[l].build \in Nat /\ last[l].build \in 0..Prepared /\ known[l] \in Nat
<1>1. last[l] \in [state : {"none", "listed", "removed"}, price : 0..MaxPrice, build : 0..Prepared]
    BY DEF MarketInv, RecordTypes
<1>2. last[l].price \in 0..MaxPrice /\ last[l].build \in 0..Prepared
    BY <1>1
<1>3. known[l] \in 0..MaxPrice
    BY MarketTypes
<1> QED
    BY <1>2, <1>3, FeedConstants

LEMMA MarketInit == Waxpeer!Init => MarketInv
<1> SUFFICES ASSUME Waxpeer!Init
             PROVE  MarketInv
    OBVIOUS
<1>1. /\ market = [l \in Listings |-> 0] /\ stored = 0
      /\ link = "down" /\ held = 0 /\ tracked = <<>>
      /\ raw = 0 /\ due = FALSE /\ owed = 0
      /\ known = market /\ cheap = [l \in Listings |-> FALSE]
      /\ last = [l \in Listings |-> [state |-> "none", price |-> 0, build |-> 0]] /\ missed = {}
    BY DEF Waxpeer!Init, Waxpeer!NoRecord
<1>2. 0 \in 0..MaxPrice /\ 0 \in 0..Prepared /\ 0 \in 0..MaxEvents /\ 0 \in 0..0 /\ 0 <= MaxTracked
    BY FeedConstants
<1>3. Waxpeer!TypeOK
  <2>1. tracked \in Seq([id : Listings, price : 1..MaxPrice]) /\ Len(tracked) <= MaxTracked
      BY <1>1, <1>2, NothingFollowed DEF Slots
  <2>2. market \in [Listings -> 0..MaxPrice] /\ known \in [Listings -> 0..MaxPrice]
      BY <1>1, <1>2
  <2>3. stored \in 0..Prepared /\ held \in 0..stored /\ raw \in 0..MaxEvents
      BY <1>1, <1>2
  <2>4. due \in BOOLEAN
      BY <1>1
  <2> QED
      BY <2>1, <2>2, <2>3, <2>4, <1>1 DEF Waxpeer!TypeOK
<1>4. RecordTypes
    BY <1>1, <1>2 DEF RecordTypes
<1>5. PlacesSound
    BY <1>1, NothingFollowed DEF PlacesSound
<1>6. \A l \in Listings : RecordSound(l)
    BY <1>1, NothingFollowed DEF RecordSound
<1> QED
    BY <1>1, <1>3, <1>4, <1>5, <1>6 DEF MarketInv

\* A batch that is not due has room for one more.
LEMMA BatchBounded ==
    ASSUME MarketInv, NEW added \in {0, 1}, Waxpeer!BatchAfter(added)
    PROVE  raw' \in 0..MaxEvents /\ due' \in BOOLEAN /\ owed' = raw'
<1>1. /\ raw' = (IF Waxpeer!Overdue THEN 0 ELSE raw) + added
      /\ owed' = (IF Waxpeer!Overdue THEN owed - raw ELSE owed) + added
      /\ due' = (due /\ ~Waxpeer!Overdue)
    BY DEF Waxpeer!BatchAfter
<1>2. raw \in Nat /\ raw <= MaxEvents /\ due \in BOOLEAN /\ owed = raw
    BY FeedConstants DEF MarketInv, Waxpeer!TypeOK
<1>3. due' \in BOOLEAN
    BY <1>1, Zenon
<1>4. ~Waxpeer!Overdue => raw < MaxEvents
    BY <1>2, FeedConstants DEF Waxpeer!Overdue
<1>5. CASE Waxpeer!Overdue
    BY <1>1, <1>2, <1>3, <1>5, FeedConstants
<1>6. CASE ~Waxpeer!Overdue
    BY <1>1, <1>2, <1>3, <1>4, <1>6, FeedConstants
<1> QED
    BY <1>5, <1>6

LEMMA MarketEvent ==
    ASSUME MarketInv, NEW e \in {"new", "update", "removed"}, NEW l \in Listings, NEW p \in 0..MaxPrice,
           Waxpeer!Event(e, l, p)
    PROVE  MarketInv'
<1> DEFINE a == IF e = "removed" THEN Waxpeer!AfterRemoval(l) ELSE Waxpeer!AfterListing(e, held', l, p)
           rec == a.recorded
           R == [state |-> IF p = 0 THEN "removed" ELSE "listed", price |-> p, build |-> held']
<1>1. /\ link = "subscribed" /\ held' \in Waxpeer!Refreshed /\ (market[l] = 0 <=> e = "new")
      /\ (p = 0 <=> e = "removed") /\ market' = [market EXCEPT ![l] = p]
      /\ tracked' = a.tracked
      /\ Waxpeer!BatchAfter(IF rec THEN 1 ELSE 0)
      /\ last' = IF ~rec THEN last ELSE [last EXCEPT ![l] = R]
      /\ missed' = IF rec
                   THEN (missed \cup (Waxpeer!Followed(tracked) \ Waxpeer!Followed(tracked'))) \ {l}
                   ELSE missed
      /\ known' = [known EXCEPT ![l] = p]
      /\ cheap' = [cheap EXCEPT ![l] = e # "removed" /\ Waxpeer!WorthRecording(held', l, p)]
      /\ UNCHANGED <<stored, link>>
    BY DEF Waxpeer!Event, Waxpeer!Change
<1>2. /\ market \in [Listings -> 0..MaxPrice] /\ known \in [Listings -> 0..MaxPrice]
      /\ stored \in 0..Prepared /\ held \in 0..stored
      /\ stored \in Nat /\ held \in Nat /\ held \in 0..Prepared
      /\ tracked \in Seq(Slots) /\ OncePlaced(tracked) /\ Len(tracked) <= MaxTracked
    BY MarketTypes
<1>3. held' \in {held, stored} /\ held' \in 0..stored /\ held' \in 0..Prepared /\ held' \in Nat /\ held <= held'
  <2>1. held' \in {held, stored}
      BY <1>1 DEF Waxpeer!Refreshed
  <2> QED
      BY <2>1, <1>2, FeedConstants
<1>4. e # "removed" => p \in 1..MaxPrice
    BY <1>1, FeedConstants
<1>5. Judged(e, held', l, p, tracked', rec)
  <2>1. CASE e = "removed"
    <3>1. a = Waxpeer!AfterRemoval(l) /\ p = 0
        BY <2>1, <1>1
    <3>2. Judged("removed", held', l, 0, Waxpeer!AfterRemoval(l).tracked, Waxpeer!AfterRemoval(l).recorded)
        BY <1>2, JudgeRemoval
    <3> HIDE DEF a
    <3> QED
        BY <2>1, <3>1, <3>2, <1>1
  <2>2. CASE e # "removed"
    <3>1. a = Waxpeer!AfterListing(e, held', l, p) /\ e \in {"new", "update"}
        BY <2>2
    <3>2. Judged(e, held', l, p, Waxpeer!AfterListing(e, held', l, p).tracked,
                 Waxpeer!AfterListing(e, held', l, p).recorded)
        BY <3>1, <1>2, <1>3, <1>4, <2>2, JudgeListing
    <3> HIDE DEF a
    <3> QED
        BY <3>1, <3>2, <1>1
  <2> QED
      BY <2>1, <2>2
<1> HIDE DEF rec, a, R
<1>6. /\ tracked' \in Seq(Slots) /\ OncePlaced(tracked') /\ Len(tracked') <= MaxTracked
      /\ \A k, q : k # l /\ Follows(tracked', k, q) => Follows(tracked, k, q)
      /\ ~rec => \A k, q : k # l /\ Follows(tracked, k, q) => Follows(tracked', k, q)
      /\ \A q : Follows(tracked', l, q) => q = p
    BY <1>5 DEF Judged
<1>7. /\ \A k : k # l /\ k \in Waxpeer!Followed(tracked') => k \in Waxpeer!Followed(tracked)
      /\ ~rec => \A k : k # l /\ k \in Waxpeer!Followed(tracked) => k \in Waxpeer!Followed(tracked')
  <2>1. ASSUME NEW k, k # l, k \in Waxpeer!Followed(tracked')
        PROVE  k \in Waxpeer!Followed(tracked)
    <3>1. PICK q \in 1..MaxPrice : Follows(tracked', k, q)
        BY <2>1, <1>6, PriceFollowed
    <3> QED
        BY <3>1, <2>1, <1>2, <1>6, PriceFollowed
  <2>2. ASSUME ~rec, NEW k, k # l, k \in Waxpeer!Followed(tracked)
        PROVE  k \in Waxpeer!Followed(tracked')
    <3>1. PICK q \in 1..MaxPrice : Follows(tracked, k, q)
        BY <2>2, <1>2, PriceFollowed
    <3> QED
        BY <3>1, <2>2, <1>6, PriceFollowed
  <2> QED
      BY <2>1, <2>2
<1>8. R.state = (IF p = 0 THEN "removed" ELSE "listed") /\ R.price = p /\ R.build = held'
      /\ R \in [state : {"none", "listed", "removed"}, price : 0..MaxPrice, build : 0..Prepared]
    BY <1>3 DEF R
<1>9. Waxpeer!TypeOK'
  <2>1. market' \in [Listings -> 0..MaxPrice] /\ known' \in [Listings -> 0..MaxPrice]
      BY <1>1, <1>2
  <2>2. raw' \in 0..MaxEvents /\ due' \in BOOLEAN
      BY <1>1, BatchBounded
  <2> QED
      BY <2>1, <2>2, <1>1, <1>2, <1>3, <1>6 DEF Waxpeer!TypeOK, Slots
<1>10. owed' = raw'
    BY <1>1, BatchBounded
<1>11. RecordTypes'
  <2>1. /\ last \in [Listings -> [state : {"none", "listed", "removed"}, price : 0..MaxPrice, build : 0..Prepared]]
        /\ cheap \in [Listings -> BOOLEAN] /\ missed \subseteq Listings
      BY DEF MarketInv, RecordTypes
  <2>2. last' \in [Listings -> [state : {"none", "listed", "removed"}, price : 0..MaxPrice, build : 0..Prepared]]
    <3>1. CASE rec
        BY <3>1, <2>1, <1>1, <1>8
    <3>2. CASE ~rec
        BY <3>2, <2>1, <1>1
    <3> QED
        BY <3>1, <3>2
  <2>3. cheap' \in [Listings -> BOOLEAN]
      BY <2>1, <1>1
  <2>4. missed' \subseteq Listings
    <3>1. \A k : k \in Waxpeer!Followed(tracked) => k \in Listings
        BY <1>2, PriceFollowed
    <3> QED
        BY <3>1, <2>1, <1>1
  <2> QED
      BY <2>2, <2>3, <2>4 DEF RecordTypes
<1>12. /\ known'[l] = p /\ market'[l] = p /\ (cheap'[l] <=> e # "removed" /\ Waxpeer!WorthRecording(held', l, p))
       /\ \A k \in Listings : k # l => known'[k] = known[k] /\ market'[k] = market[k] /\ cheap'[k] = cheap[k]
    BY <1>1, <1>2 DEF MarketInv, RecordTypes
<1>13. /\ \A k \in Listings : k # l => last'[k] = last[k]
       /\ ~rec => last'[l] = last[l]
       /\ rec => last'[l] = R
    BY <1>1 DEF MarketInv, RecordTypes
\* What the listing's own record is after the event
<1>14. ASSUME ~rec, e # "removed", l \in Waxpeer!Followed(tracked')
       PROVE  /\ last[l].state = "listed" /\ last[l].build <= held /\ l \in Waxpeer!Followed(tracked)
              /\ last[l].price <= p \/ (last[l].build < stored /\ last[l].build # held')
  <2>1. l \in Waxpeer!Followed(tracked)
        /\ ~(p < Waxpeer!FollowedPrice(tracked, l) /\ Waxpeer!WorthRecording(held', l, p))
      BY <1>5, <1>14 DEF Judged
  <2>2. PICK q \in 1..MaxPrice : Follows(tracked, l, q)
      BY <2>1, <1>2, PriceFollowed
  <2>3. Waxpeer!FollowedPrice(tracked, l) = known[l] /\ last[l].state = "listed" /\ last[l].build <= held
      BY <2>2, <1>2, PriceFollowed DEF MarketInv, PlacesSound
  <2>4. Outdated(l) /\ Waxpeer!WorthRecording(last[l].build, l, last[l].price)
      BY <2>1, <2>3 DEF MarketInv, RecordSound
  <2>5. last[l].price \in Nat /\ last[l].build \in Nat /\ last[l].build \in 0..Prepared /\ known[l] \in Nat /\ p \in Nat
      BY RecordType, FeedConstants
  <2>6. ASSUME ~(p < known[l])
        PROVE  last[l].price <= p \/ (last[l].build < stored /\ last[l].build # held')
      BY <2>4, <2>5, <2>6, <1>2, <1>3 DEF Outdated
  <2>7. ASSUME ~Waxpeer!WorthRecording(held', l, p)
        PROVE  last[l].price <= p \/ (last[l].build < stored /\ last[l].build # held')
    <3>1. CASE last[l].build = held'
      <4>1. held' # 0 /\ last[l].price < Limit(held', l) /\ ~(p < Limit(held', l))
          BY <3>1, <2>4, <2>7 DEF Waxpeer!WorthRecording
      <4>2. Limit(held', l) \in Nat
          BY <4>1, <1>3, FeedConstants
      <4> QED
          BY <4>1, <4>2, <2>5
    <3>2. CASE last[l].build # held'
        BY <3>2, <2>3, <2>5, <1>2, <1>3
    <3> QED
        BY <3>1, <3>2
  <2>8. last[l].price <= p \/ (last[l].build < stored /\ last[l].build # held')
      BY <2>1, <2>3, <2>6, <2>7
  <2> QED
      BY <2>1, <2>3, <2>8
<1>15. PlacesSound'
  <2> SUFFICES ASSUME NEW k \in Listings, NEW q \in 1..MaxPrice, Follows(tracked', k, q)
               PROVE  known'[k] = q /\ last'[k].state = "listed" /\ last'[k].build <= held'
      BY <1>6 DEF PlacesSound
  <2>1. CASE k # l
    <3>1. Follows(tracked, k, q)
        BY <2>1, <1>6
    <3>2. known[k] = q /\ last[k].state = "listed" /\ last[k].build <= held
        BY <3>1 DEF MarketInv, PlacesSound
    <3> QED
        BY <3>2, <2>1, <1>2, <1>3, <1>12, <1>13, RecordType
  <2>2. CASE k = l
    <3>1. q = p /\ l \in Waxpeer!Followed(tracked')
        BY <2>2, <1>6, PriceFollowed
    <3>2. e # "removed"
        BY <3>1, <1>5 DEF Judged
    <3>3. CASE rec
        BY <3>1, <3>2, <3>3, <2>2, <1>1, <1>3, <1>8, <1>12, <1>13
    <3>4. CASE ~rec
        BY <3>1, <3>2, <3>4, <2>2, <1>2, <1>3, <1>12, <1>13, <1>14, RecordType
    <3> QED
        BY <3>3, <3>4
  <2> QED
      BY <2>1, <2>2
<1>16. ASSUME NEW k \in Listings, k # l
       PROVE  RecordSound(k)'
  <2>1. RecordSound(k)
      BY DEF MarketInv
  <2>2. last'[k] = last[k] /\ known'[k] = known[k] /\ market'[k] = market[k] /\ cheap'[k] = cheap[k] /\ stored' = stored
      BY <1>1, <1>12, <1>13, <1>16
  <2>3. Outdated(k) => Outdated(k)'
      BY <2>2, <1>2, <1>3, RecordType DEF Outdated
  <2>4. k \notin missed' => k \notin missed /\ (k \in Waxpeer!Followed(tracked) => k \in Waxpeer!Followed(tracked'))
    <3>1. CASE rec
        BY <3>1, <1>1, <1>16
    <3>2. CASE ~rec
        BY <3>2, <1>1, <1>7, <1>16
    <3> QED
        BY <3>1, <3>2
  <2>5. k \in Waxpeer!Followed(tracked') => k \in Waxpeer!Followed(tracked)
      BY <1>7, <1>16
  <2> QED
      BY <2>1, <2>2, <2>3, <2>4, <2>5 DEF RecordSound
<1>17. RecordSound(l)'
  <2>1. RecordSound(l) /\ known[l] \in Nat
      BY RecordType DEF MarketInv
  <2>2. l \in Waxpeer!Followed(tracked) => known[l] # 0
    <3> SUFFICES ASSUME l \in Waxpeer!Followed(tracked)
                 PROVE  known[l] # 0
        OBVIOUS
    <3>1. PICK q \in 1..MaxPrice : Follows(tracked, l, q)
        BY <1>2, PriceFollowed
    <3> QED
        BY <3>1 DEF MarketInv, PlacesSound
  <2>3. CASE rec /\ e = "removed"
    <3>1. last'[l].state = "removed" /\ l \notin Waxpeer!Followed(tracked') /\ ~cheap'[l]
        BY <2>3, <1>1, <1>5, <1>8, <1>12, <1>13 DEF Judged
    <3> QED
        BY <3>1 DEF RecordSound
  <2>4. CASE rec /\ e # "removed"
    <3>1. Waxpeer!WorthRecording(held', l, p) /\ l \in Waxpeer!Followed(tracked')
        BY <2>4, <1>5 DEF Judged
    <3>2. last'[l].state = "listed" /\ last'[l].price = p /\ last'[l].build = held'
        BY <2>4, <1>1, <1>8, <1>13
    <3>3. last'[l].price <= known'[l]
        BY <3>2, <1>12, FeedConstants
    <3> QED
        BY <3>1, <3>2, <3>3, <1>1, <1>2, <1>3, <1>12 DEF RecordSound, Outdated
  <2>5. CASE ~rec /\ e = "removed"
    <3>1. l \notin Waxpeer!Followed(tracked) /\ l \notin Waxpeer!Followed(tracked') /\ ~cheap'[l]
          /\ last'[l] = last[l] /\ missed' = missed /\ stored' = stored
        BY <2>5, <1>1, <1>5, <1>12, <1>13 DEF Judged
    <3> QED
        BY <3>1, <2>1 DEF RecordSound
  <2>6. CASE ~rec /\ e # "removed" /\ l \in Waxpeer!Followed(tracked')
    <3>1. last'[l] = last[l] /\ last[l].state = "listed" /\ stored' = stored
        BY <2>6, <1>1, <1>13, <1>14
    <3>2. Outdated(l)'
        BY <2>6, <3>1, <1>12, <1>14 DEF Outdated
    <3> QED
        BY <2>6, <3>1, <3>2, <2>1, <1>12 DEF RecordSound
  <2>7. CASE ~rec /\ e # "removed" /\ l \notin Waxpeer!Followed(tracked')
    <3>1. ~Waxpeer!WorthRecording(held', l, p) /\ (e = "new" \/ l \notin Waxpeer!Followed(tracked))
        BY <2>7, <1>5 DEF Judged
    <3>2. ~cheap'[l] /\ last'[l] = last[l] /\ missed' = missed /\ stored' = stored
        BY <3>1, <2>7, <1>1, <1>12, <1>13
    <3>3. l \notin missed => last[l].state # "listed"
        BY <3>1, <2>1, <2>2, <1>1 DEF RecordSound
    <3> QED
        BY <2>7, <3>2, <3>3, <2>1 DEF RecordSound
  <2> QED
      BY <2>3, <2>4, <2>5, <2>6, <2>7
<1> QED
    BY <1>9, <1>10, <1>11, <1>15, <1>16, <1>17 DEF MarketInv

\* A message that is lost leaves the filter as it is.
LEMMA MarketLost ==
    ASSUME MarketInv, NEW e \in {"new", "update", "removed"}, NEW l \in Listings, NEW p \in 0..MaxPrice,
           Waxpeer!Lost(e, l, p)
    PROVE  MarketInv'
<1>1. /\ market' = [market EXCEPT ![l] = p] /\ missed' = missed \cup {l}
      /\ UNCHANGED <<stored, link, held, tracked, raw, due, owed, known, cheap, last>>
    BY DEF Waxpeer!Lost, Waxpeer!Change, Waxpeer!memory, Waxpeer!batch
<1>2. Waxpeer!TypeOK'
    BY <1>1 DEF MarketInv, Waxpeer!TypeOK
<1>3. RecordTypes' /\ PlacesSound'
    BY <1>1 DEF MarketInv, RecordTypes, PlacesSound
<1>4. ASSUME NEW k \in Listings
      PROVE  RecordSound(k)'
  <2>1. k \notin missed' => k \notin missed /\ market'[k] = market[k]
      BY <1>1, MarketTypes
  <2>2. RecordSound(k)
      BY DEF MarketInv
  <2>3. Outdated(k)' <=> Outdated(k)
      BY <1>1 DEF Outdated
  <2> QED
      BY <1>1, <2>1, <2>2, <2>3 DEF RecordSound
<1> QED
    BY <1>1, <1>2, <1>3, <1>4 DEF MarketInv

\* The session goes on or ends, and the batch fills or is handed on.
LEMMA MarketBatch ==
    ASSUME MarketInv, raw' \in 0..MaxEvents, due' \in BOOLEAN, owed' = raw',
           link' \in {"down", "opening", "connecting", "subscribing", "subscribed", "silent"},
           UNCHANGED <<market, stored, held, tracked, known, cheap, last, missed>>
    PROVE  MarketInv'
<1>1. Waxpeer!TypeOK'
    BY DEF MarketInv, Waxpeer!TypeOK
<1>2. RecordTypes' /\ PlacesSound'
    BY DEF MarketInv, RecordTypes, PlacesSound
<1>3. \A k \in Listings : RecordSound(k)'
    BY DEF MarketInv, RecordSound, Outdated
<1> QED
    BY <1>1, <1>2, <1>3 DEF MarketInv

LEMMA MarketSession ==
    MarketInv /\ (\/ Waxpeer!Session \/ Waxpeer!Ping \/ Waxpeer!Silence \/ Waxpeer!Dropped \/ Waxpeer!Age)
        => MarketInv'
<1> SUFFICES ASSUME MarketInv
             PROVE  Waxpeer!Session \/ Waxpeer!Ping \/ Waxpeer!Silence \/ Waxpeer!Dropped \/ Waxpeer!Age
                        => MarketInv'
    OBVIOUS
<1> DEFINE Links == {"down", "opening", "connecting", "subscribing", "subscribed", "silent"}
<1>1. raw \in 0..MaxEvents /\ due \in BOOLEAN /\ owed = raw /\ raw \in Nat /\ link \in Links
    BY FeedConstants DEF MarketInv, Waxpeer!TypeOK
<1>2. ASSUME NEW from, NEW to \in Links, Waxpeer!Frame(from, to)
      PROVE  MarketInv'
  <2>1. /\ link' \in Links /\ Waxpeer!BatchAfter(0)
        /\ UNCHANGED <<market, stored, held, tracked, known, cheap, last, missed>>
      BY <1>2 DEF Waxpeer!Frame, Waxpeer!memory, Waxpeer!records
  <2> QED
      BY <2>1, BatchBounded, MarketBatch
<1>3. Waxpeer!Opened \/ Waxpeer!Connected \/ Waxpeer!Subscribed \/ Waxpeer!Ping => MarketInv'
    BY <1>2 DEF Waxpeer!Opened, Waxpeer!Connected, Waxpeer!Subscribed, Waxpeer!Ping
<1>4. ASSUME Waxpeer!TimedOut \/ Waxpeer!Dropped
      PROVE  MarketInv'
  <2>1. /\ link' = "down" /\ raw' = 0 /\ due' = FALSE /\ owed' = owed - raw
        /\ UNCHANGED <<market, stored, held, tracked, known, cheap, last, missed>>
    <3>1. CASE Waxpeer!TimedOut
        BY <3>1 DEF Waxpeer!TimedOut, Waxpeer!HandOver, Waxpeer!memory, Waxpeer!records
    <3>2. CASE Waxpeer!Dropped
        BY <3>2 DEF Waxpeer!Dropped, Waxpeer!HandOver, Waxpeer!memory, Waxpeer!records
    <3> QED
        BY <3>1, <3>2, <1>4
  <2>2. raw' \in 0..MaxEvents /\ owed' = raw'
    <3>1. raw' = 0 /\ owed' = owed - raw
        BY <2>1
    <3> QED
        BY <3>1, <1>1, FeedConstants
  <2>3. due' \in BOOLEAN
      BY <2>1
  <2>4. link' \in Links
      BY <2>1
  <2> QED
      BY <2>1, <2>2, <2>3, <2>4, MarketBatch
<1>5. ASSUME Waxpeer!Connect \/ Waxpeer!Silence \/ Waxpeer!Age
      PROVE  MarketInv'
  <2>1. /\ link' \in Links /\ UNCHANGED <<raw, owed>> /\ due' \in BOOLEAN
        /\ UNCHANGED <<market, stored, held, tracked, known, cheap, last, missed>>
    <3>1. CASE Waxpeer!Connect
        BY <3>1, <1>1 DEF Waxpeer!Connect, Waxpeer!memory, Waxpeer!batch, Waxpeer!history, Waxpeer!records
    <3>2. CASE Waxpeer!Silence
        BY <3>2, <1>1 DEF Waxpeer!Silence, Waxpeer!memory, Waxpeer!batch, Waxpeer!history, Waxpeer!records
    <3>3. CASE Waxpeer!Age
        BY <3>3, <1>1 DEF Waxpeer!Age, Waxpeer!memory, Waxpeer!history, Waxpeer!records
    <3> QED
        BY <3>1, <3>2, <3>3, <1>5
  <2> QED
      BY <2>1, <1>1, MarketBatch
<1> QED
    BY <1>3, <1>4, <1>5 DEF Waxpeer!Session

\* Another build makes no record sound that was outdated.
LEMMA MarketBuild == MarketInv /\ Waxpeer!Build => MarketInv'
<1> SUFFICES ASSUME MarketInv, Waxpeer!Build
             PROVE  MarketInv'
    OBVIOUS
<1>1. /\ stored < Prepared /\ stored' = stored + 1
      /\ UNCHANGED <<market, link, held, tracked, raw, due, owed, known, cheap, last, missed>>
    BY DEF Waxpeer!Build, Waxpeer!memory, Waxpeer!batch, Waxpeer!history, Waxpeer!records
<1>2. stored \in Nat /\ stored' \in 0..Prepared /\ held \in 0..stored' /\ stored < stored'
    BY <1>1, MarketTypes, FeedConstants
<1>3. Waxpeer!TypeOK'
    BY <1>1, <1>2 DEF MarketInv, Waxpeer!TypeOK
<1>4. RecordTypes' /\ PlacesSound'
    BY <1>1 DEF MarketInv, RecordTypes, PlacesSound
<1>5. ASSUME NEW k \in Listings
      PROVE  RecordSound(k)'
  <2>1. RecordSound(k) /\ last[k].build \in Nat
      BY RecordType DEF MarketInv
  <2>2. (Outdated(k) => Outdated(k)') /\ (last[k].build <= stored => last[k].build <= stored')
      BY <2>1, <1>1, <1>2 DEF Outdated
  <2> QED
      BY <1>1, <2>1, <2>2 DEF RecordSound
<1> QED
    BY <1>1, <1>3, <1>4, <1>5 DEF MarketInv

\* After a restart the filter has no prices, and nothing it recorded is of those.
LEMMA MarketCrash == MarketInv /\ Waxpeer!Crash => MarketInv'
<1> SUFFICES ASSUME MarketInv, Waxpeer!Crash
             PROVE  MarketInv'
    OBVIOUS
<1>1. /\ link' = "down" /\ held' = 0 /\ tracked' = <<>>
      /\ raw' = 0 /\ due' = FALSE /\ owed' = owed - raw
      /\ missed' = missed \cup Waxpeer!Followed(tracked)
      /\ UNCHANGED <<market, stored, known, cheap, last>>
    BY DEF Waxpeer!Crash
<1>2. /\ stored \in Nat /\ 0 \in 0..stored /\ 0 \in 0..MaxEvents /\ 0 <= MaxTracked
      /\ tracked \in Seq(Slots) /\ OncePlaced(tracked)
    BY MarketTypes, FeedConstants
<1>3. raw \in Nat /\ owed = raw
    BY FeedConstants DEF MarketInv, Waxpeer!TypeOK
<1>4. Waxpeer!TypeOK'
  <2>1. tracked' \in Seq([id : Listings, price : 1..MaxPrice]) /\ Len(tracked') <= MaxTracked
      BY <1>1, <1>2, NothingFollowed DEF Slots
  <2> QED
      BY <2>1, <1>1, <1>2 DEF MarketInv, Waxpeer!TypeOK
<1>5. RecordTypes'
  <2>1. \A k : k \in Waxpeer!Followed(tracked) => k \in Listings
      BY <1>2, PriceFollowed
  <2> QED
      BY <2>1, <1>1 DEF MarketInv, RecordTypes
<1>6. PlacesSound'
    BY <1>1, NothingFollowed DEF PlacesSound
<1>7. ASSUME NEW k \in Listings
      PROVE  RecordSound(k)'
  <2>1. RecordSound(k) /\ last[k].build \in Nat
      BY RecordType DEF MarketInv
  <2>2. k \notin Waxpeer!Followed(tracked')
      BY <1>1, NothingFollowed
  <2>3. k \notin missed' => k \notin missed /\ k \notin Waxpeer!Followed(tracked)
      BY <1>1
  <2>4. cheap[k] => Outdated(k)'
    <3> SUFFICES ASSUME cheap[k]
                 PROVE  Outdated(k)'
        OBVIOUS
    <3>1. Outdated(k) /\ last[k].build # 0
        BY <2>1 DEF RecordSound, Waxpeer!WorthRecording
    <3> QED
        BY <3>1, <1>1 DEF Outdated
  <2> QED
      BY <2>1, <2>2, <2>3, <2>4, <1>1 DEF RecordSound
<1> QED
    BY <1>1, <1>3, <1>4, <1>5, <1>6, <1>7 DEF MarketInv

LEMMA MarketNext == MarketInv /\ Waxpeer!Next => MarketInv'
BY MarketEvent, MarketLost, MarketSession, MarketBuild, MarketCrash DEF Waxpeer!Next

LEMMA MarketUnchanged == MarketInv /\ UNCHANGED feed => MarketInv'
<1> SUFFICES ASSUME MarketInv, UNCHANGED feed
             PROVE  MarketInv'
    OBVIOUS
<1>1. Waxpeer!TypeOK' /\ RecordTypes' /\ PlacesSound'
    BY DEF feed, MarketInv, Waxpeer!TypeOK, RecordTypes, PlacesSound
<1>2. \A k \in Listings : RecordSound(k)'
    BY DEF feed, MarketInv, RecordSound, Outdated
<1> QED
    BY <1>1, <1>2 DEF feed, MarketInv

(* The records of the Waxpeer feed, for all prices, builds, memory and batch sizes: a listing worth buying when
   the feed last spoke of it is recorded, at no price above the feed's as long as the filter has the prices of the
   record; what left the market is recorded as removed unless the feed or the filter lost sight of it; and no
   payload is lost or kept twice (RecordingFilter.listing, RecordingFilter.removal, RawEventBatch.take_if_due). *)
THEOREM MarketRecordedHolds == FeedsSpec => []MarketRecorded
<1>1. FeedsInit => MarketInv
    BY MarketInit DEF FeedsInit
<1>2. MarketInv /\ [FeedsNext]_feeds => MarketInv'
    BY MarketNext, MarketUnchanged DEF FeedsNext, feeds
<1>3. MarketInv => MarketRecorded
  <2> SUFFICES ASSUME MarketInv
               PROVE  MarketRecorded
      OBVIOUS
  <2>1. Waxpeer!WorthyRecorded
    <3> SUFFICES ASSUME NEW l \in Listings, cheap[l]
                 PROVE  last[l].state = "listed" /\ (last[l].build = held => last[l].price <= known[l])
        BY DEF Waxpeer!WorthyRecorded
    <3> QED
        BY DEF MarketInv, RecordSound, Outdated
  <2>2. ASSUME NEW l \in Listings \ missed, known[l] = 0, last[l].state = "listed"
        PROVE  FALSE
    <3>1. l \in Waxpeer!Followed(tracked)
        BY <2>2 DEF MarketInv, RecordSound
    <3>2. PICK q \in 1..MaxPrice : Follows(tracked, l, q)
        BY <3>1, MarketTypes, PriceFollowed
    <3> QED
        BY <3>2, <2>2 DEF MarketInv, PlacesSound
  <2> QED
      BY <2>1, <2>2 DEF MarketRecorded, Waxpeer!MarketRecorded, MarketInv
<1> QED
    BY <1>1, <1>2, <1>3, PTL DEF FeedsSpec

-----------------------------------------------------------------------------
(* The poller of DMarket's listings: its inductive invariant.              *)

Running == at \in {"waiting", "idle", "polling", "oldest first", "newest first"}
Settled == at \in {"idle", "oldest first", "newest first"}

PollerTop == MaxTime + 1

\* The listing lies in a gap and catching up does not skip it.
InGap(g, t) == g.until <= t /\ t < g.from /\ t \notin g.skip
Open(gs, t) == \E i \in 1..Len(gs) : InGap(gs[i], t)

GapRecords == [from : Int, until : Int, skip : SUBSET Int]

\* Gaps lie apart, from the oldest on, below what a resumed listener reads again, and skip only what was handed on.
GapsSound(gs, top, skipped) ==
    /\ gs \in Seq(GapRecords)
    /\ \A i \in 1..Len(gs) :
        /\ 1 <= gs[i].until /\ gs[i].until <= gs[i].from /\ gs[i].from <= top - ResumeOverlap
        /\ gs[i].skip \subseteq skipped
    /\ \A i, j \in 1..Len(gs) : i < j => gs[i].from <= gs[j].until

\* The newest listing that gaps lie below
Reach == IF latest # 0 THEN latest ELSE IF Running THEN point.newest ELSE now

PollScalars ==
    /\ now \in 1..MaxTime
    /\ at \in {"down", "resuming", "waiting", "idle", "polling", "oldest first", "newest first"}
    /\ latest \in 0..now /\ floor \in 0..MaxTime /\ start \in 0..MaxTime /\ polled \in 0..now
    /\ mishaps \in Nat /\ outages \in Nat /\ unanswered \in Nat

PointWhole == point.newest = 0 => point = DMarket!NoDoc

PollSets ==
    /\ visible \subseteq 1..now
    /\ 1 \in visible
    /\ \A t \in 1..(now - 1 - LiveOverlap) : t \in visible
    /\ shown \subseteq visible /\ DOMAIN handed \subseteq visible \cap Worthy
    /\ accounted \subseteq DOMAIN handed
    /\ DOMAIN recorded \subseteq DOMAIN handed
    /\ \A t \in DOMAIN handed : handed[t] \in t..now
    /\ DOMAIN pending \subseteq shown \cap Worthy
    /\ \A t \in DOMAIN pending : pending[t] \in t..now
    /\ \A t \in DOMAIN recorded : recorded[t] \in Int /\ t <= recorded[t]
    /\ shown \cap Worthy \subseteq DOMAIN handed \cup DOMAIN pending
    /\ latest # 0 => latest \in visible /\ \A t \in shown : t <= latest

\* Where reading begins
FloorSound ==
    /\ floor = 0 => start = 0 /\ latest = 0 /\ gaps = <<>>
    /\ start = 0 => floor = 0 /\ point.newest = 0 /\ DOMAIN handed = {}
    /\ latest # 0 => floor = DMarket!Later(1, latest - LiveOverlap)
    /\ latest = 0 /\ floor # 0 => floor <= DMarket!Later(1, now - ResumeOverlap)

\* A poll that began at a time, with what it has read
PollSound(p, since) ==
    /\ p.page \in 1..LiveMaxPages
    /\ p.page = 1 => p.at = PollerTop /\ p.newest = 0 /\ DOMAIN p.read = {}
    /\ p.page # 1 =>
        /\ p.at \in 1..MaxTime /\ p.newest \in 1..since /\ p.newest \in visible /\ Reach <= p.newest /\ since - LiveOverlap - 1 <= p.newest
        /\ p.at <= p.newest + 1 - (p.page - 1) * PageSize
        /\ \A t \in shown : t <= p.newest
        /\ floor # 0
    /\ \A t \in DOMAIN p.read :
        /\ t \in visible /\ t >= p.at /\ t >= floor /\ t \notin shown /\ t <= p.newest
        /\ p.read[t] \in t..now
    /\ \A t \in visible : t >= p.at /\ t >= floor /\ t \notin shown => t \in DOMAIN p.read \/ t >= since - LiveOverlap
    /\ latest <= since
    /\ latest = 0 /\ point.newest = 0 => \A u \in DOMAIN handed : handed[u] <= IF p.page = 1 THEN since - LiveOverlap - 1 ELSE p.newest
    /\ latest = 0 /\ floor # 0 => floor <= DMarket!Later(1, since - ResumeOverlap)
    /\ since <= now /\ now <= since + MaxPollTime

Polling ==
    /\ at = "polling" => polled # 0 /\ poll.page # 1 /\ PollSound(poll, polled)
    /\ at \in {"resuming", "waiting"} \/ (Running /\ latest = 0) =>
        (point.newest = 0 => \A u \in DOMAIN handed : handed[u] <= now - LiveOverlap - 1)
    /\ Running /\ at # "polling" => poll = DMarket!NewPoll
    /\ at \in {"waiting", "idle", "polling"} => DOMAIN pending = {}
    /\ at = "waiting" => latest = 0 /\ polled = 0
    /\ Running /\ DOMAIN pending # {} => latest # 0
    /\ latest = 0 /\ at # "polling" /\ Running => polled = 0

Owed == {t \in visible \cap Worthy : start # 0 /\ start <= t} \ lost

\* Above the floor is only what showed up after the newest page of the last live poll, and so no longer ago than a
\* resumed listener reads back from the newest receive time.
Ahead(t) ==
    /\ t >= floor /\ t \notin shown
    /\ latest # 0 => /\ \A u \in DOMAIN handed : handed[u] - ResumeOverlap <= t
                     /\ \A u \in DOMAIN pending : pending[u] - ResumeOverlap <= t
    /\ Settled /\ polled # 0 => polled - LiveOverlap <= t

Covered == \A t \in Owed : t \in DOMAIN handed \/ t \in DOMAIN pending \/ Ahead(t) \/ Open(gaps, t)

\* What the resume point in the edge Redis promises to a listener that starts, and what the backend's does without one
PointSound ==
    point.newest # 0 =>
        /\ point.newest \in visible
        /\ GapsSound(point.gaps, point.newest, DOMAIN handed)
        /\ DOMAIN point.recorded \subseteq accounted
        /\ \A t \in DOMAIN point.recorded : t <= point.newest
        /\ \A t \in accounted :
            /\ ~Open(point.gaps, t)
            /\ t \in DOMAIN point.recorded \/ t < point.newest - ResumeOverlap
        /\ \A t \in Owed : t \in DOMAIN handed \/ Open(point.gaps, t) \/ t >= point.newest - ResumeOverlap

BackendSound ==
    point.newest = 0 /\ at \in {"down", "resuming"} =>
        \A t \in Owed : t \in DOMAIN handed \/ \A u \in DOMAIN handed : handed[u] - ResumeOverlap <= t

\* Further back than a listener that starts would read
FarBack(t) ==
    IF latest # 0 \/ point.newest # 0 THEN t < Reach - ResumeOverlap
    ELSE \E u \in DOMAIN handed : t < handed[u] - ResumeOverlap

\* What the resume point accounts for is not read again.
ReadKnown ==
    Running =>
        /\ DOMAIN recorded \subseteq shown
        /\ \A t \in accounted : t \in DOMAIN recorded \/ (t < floor /\ FarBack(t))
        /\ \A t \in accounted \cup DOMAIN recorded \cup DOMAIN pending : ~Open(gaps, t)
        /\ DOMAIN pending \cap accounted = {}
        /\ latest = 0 /\ point.newest # 0 => DOMAIN recorded \subseteq DOMAIN point.recorded

PollerInv ==
    /\ PollScalars /\ PointWhole /\ PollSets /\ FloorSound
    /\ GapsSound(gaps, Reach, DOMAIN handed) /\ \A i \in 1..Len(gaps) : gaps[i].from <= floor
    /\ Polling /\ Covered /\ PointSound /\ BackendSound /\ ReadKnown

LEMMA PollerConstants ==
    /\ MaxTime \in Nat \ {0} /\ Worthy \subseteq 1..MaxTime /\ PageSize \in Nat \ {0} /\ LiveMaxPages \in Nat \ {0}
    /\ LiveOverlap \in Nat /\ ResumeOverlap \in Nat /\ MaxPollTime \in Nat \ {0} /\ MaxCatchUp \in Nat
    /\ LiveOverlap + MaxPollTime <= ResumeOverlap
    /\ 2 * LiveOverlap < ResumeOverlap
    /\ ResumeOverlap < LiveMaxPages * PageSize
    /\ ResumeOverlap <= MaxCatchUp
BY FeedsAssumption DEF DMarket!PollerAssumption

LEMMA PollerCounts == \A S : DMarket!Cardinality(S) = Cardinality(S)
BY DEF DMarket!Cardinality, Cardinality

\* A set of natural numbers has a least one
LEMMA LeastOf ==
    ASSUME NEW S, S \subseteq Nat, S # {}
    PROVE  \E n \in S : \A m \in S : n <= m
<1> DEFINE R == OpToRel(<, Nat)
<1>1. \A x, y \in Nat : x < y => <<x, y>> \in R
    BY DEF OpToRel
<1>2. IsWellFoundedOn(R, Nat)
    BY NatLessThanWellFounded
<1> HIDE DEF R
<1>3. PICK x \in S : \A y \in S : ~(<<y, x>> \in R)
    BY <1>2, WFMin
<1>4. ASSUME NEW m \in S
      PROVE  x <= m
  <2>1. m \in Nat /\ x \in Nat
    OBVIOUS
  <2>2. ~(m < x)
    BY <1>1, <1>3, <2>1
  <2> QED
    BY <2>1, <2>2
<1> QED
    BY <1>4

LEMMA MinOf ==
    ASSUME NEW S, S \subseteq Nat, S # {}
    PROVE  DMarket!Min(S) \in S /\ \A m \in S : DMarket!Min(S) <= m
<1>1. \E n \in S : \A m \in S : n <= m
    BY LeastOf
<1> QED
    BY <1>1 DEF DMarket!Min

LEMMA MaxOf ==
    ASSUME NEW n \in Nat, NEW S, S \subseteq 0..n, S # {}
    PROVE  DMarket!Max(S) \in S /\ \A m \in S : m <= DMarket!Max(S)
<1> DEFINE R == {n - m : m \in S}
<1>1. PICK k \in R : \A r \in R : k <= r
  <2>1. R \subseteq Nat /\ R # {}
    <3>1. \A m \in S : n - m \in Nat
        OBVIOUS
    <3> QED
        BY <3>1
  <2> HIDE DEF R
  <2> QED
    BY <2>1, LeastOf
<1>2. PICK x \in S : k = n - x
    OBVIOUS
<1>3. \A m \in S : m <= x
  <2> SUFFICES ASSUME NEW m \in S
               PROVE  m <= x
    OBVIOUS
  <2>1. k <= n - m
    BY <1>1
  <2> QED
    BY <1>2, <2>1
<1> HIDE DEF R
<1> QED
    BY <1>3 DEF DMarket!Max

-----------------------------------------------------------------------------
(* Pages.                                                                  *)

\* A page below a cursor: with a listing comes every newer one below the cursor, and a page that is not the last one is
\* full.
PageSound(c) ==
    /\ DMarket!Page(c) \subseteq {t \in visible : t < c}
    /\ \A t \in DMarket!Page(c), u \in visible : t <= u /\ u < c => u \in DMarket!Page(c)
    /\ (\E t \in visible : t < c) => DMarket!Page(c) # {}
    /\ DMarket!LastPage(c) => DMarket!Page(c) = {t \in visible : t < c}
    /\ ~DMarket!LastPage(c) =>
        /\ DMarket!Page(c) # {}
        /\ \A n \in Nat : (\A t \in DMarket!Page(c) : t <= n) => DMarket!Min(DMarket!Page(c)) + PageSize <= n + 1

LEMMA Pages ==
    ASSUME now \in 1..MaxTime, visible \subseteq 1..now, NEW c \in 1..(MaxTime + 1)
    PROVE  PageSound(c)
<1> DEFINE B == {t \in visible : t < c}
           Above(t) == {u \in B : u >= t}
           P == {t \in B : Cardinality(Above(t)) <= PageSize}
<1>0. now \in Nat /\ PageSize \in Nat /\ PageSize >= 1
    BY PollerConstants
<1>1. DMarket!Below(c) = B
    BY DEF DMarket!Below
<1>2. DMarket!Page(c) = P
    BY <1>1, PollerCounts DEF DMarket!Page
<1>3. DMarket!LastPage(c) <=> Cardinality(B) <= PageSize
    BY <1>1, PollerCounts DEF DMarket!LastPage
<1>4. \A t \in B : t \in Nat /\ t \in 1..now /\ t \in 0..now
    BY <1>0
<1>5. IsFiniteSet(B) /\ Cardinality(B) \in Nat
  <2>1. IsFiniteSet(1..now)
    BY <1>0, FS_Interval
  <2>2. B \in SUBSET (1..now)
    BY <1>4
  <2>3. IsFiniteSet(B)
    BY <2>1, <2>2, FS_Subset
  <2> HIDE DEF B
  <2> QED
    BY <2>3, FS_CardinalityType
<1>6. \A t : /\ IsFiniteSet(Above(t)) /\ Cardinality(Above(t)) \in Nat
             /\ Cardinality(Above(t)) <= Cardinality(B)
  <2> SUFFICES ASSUME NEW t
               PROVE  /\ IsFiniteSet(Above(t)) /\ Cardinality(Above(t)) \in Nat
                      /\ Cardinality(Above(t)) <= Cardinality(B)
    OBVIOUS
  <2>1. Above(t) \in SUBSET B
    OBVIOUS
  <2> HIDE DEF B, Above
  <2>2. IsFiniteSet(Above(t)) /\ Cardinality(Above(t)) <= Cardinality(B)
    BY <2>1, <1>5, FS_Subset
  <2> QED
    BY <2>2, FS_CardinalityType
<1>7. \A t \in B, u \in B : t <= u => Cardinality(Above(u)) <= Cardinality(Above(t))
  <2> SUFFICES ASSUME NEW t \in B, NEW u \in B, t <= u
               PROVE  Cardinality(Above(u)) <= Cardinality(Above(t))
    OBVIOUS
  <2>0. t \in Nat /\ u \in Nat /\ \A x \in B : x \in Nat
    BY <1>4
  <2> HIDE DEF B
  <2>1. Above(u) \in SUBSET Above(t)
    <3> SUFFICES ASSUME NEW x \in B, x >= u
                 PROVE  x >= t
        OBVIOUS
    <3>1. x \in Nat
        BY <2>0
    <3> QED
        BY <3>1, <2>0
  <2> HIDE DEF Above
  <2> QED
    BY <2>1, <1>6, FS_Subset
<1>8. \A t \in P, u \in B : t <= u => u \in P
  <2> SUFFICES ASSUME NEW t \in P, NEW u \in B, t <= u
               PROVE  u \in P
    OBVIOUS
  <2>1. t \in B /\ Cardinality(Above(t)) <= PageSize
    OBVIOUS
  <2>2. Cardinality(Above(u)) <= Cardinality(Above(t))
    BY <1>7, <2>1
  <2>3. Cardinality(Above(u)) <= PageSize
    <3>1. Cardinality(Above(u)) \in Nat /\ Cardinality(Above(t)) \in Nat
        BY <1>6
    <3> HIDE DEF Above, B
    <3> QED
        BY <3>1, <2>1, <2>2, <1>0
  <2> QED
    BY <2>3
<1>9. Cardinality(B) <= PageSize => P = B
  <2> SUFFICES ASSUME Cardinality(B) <= PageSize
               PROVE  \A t \in B : Cardinality(Above(t)) <= PageSize
    OBVIOUS
  <2> HIDE DEF B, Above
  <2> QED
    BY <1>6, <1>5, <1>0
\* The newest listing below the cursor is on the page.
<1>10. B # {} => P # {}
  <2> SUFFICES ASSUME B # {}
               PROVE  P # {}
    OBVIOUS
  <2>1. B \subseteq 0..now
    BY <1>4
  <2>2. PICK m \in B : \A t \in B : t <= m
    <3> HIDE DEF B
    <3> QED
        BY <2>1, <1>0, MaxOf
  <2>3. Above(m) = {m}
    <3>1. \A u \in B : u \in Nat
        BY <1>4
    <3> HIDE DEF B
    <3> QED
        BY <2>2, <3>1
  <2>4. Cardinality(Above(m)) = 1
    BY <2>3, FS_Singleton
  <2>5. Cardinality(Above(m)) <= PageSize
    BY <2>4, <1>0
  <2> QED
    BY <2>5
\* A listing more would not fit on a page that is not the last one.
<1>11. ~(Cardinality(B) <= PageSize) => IsFiniteSet(P) /\ Cardinality(P) \in Nat /\ PageSize <= Cardinality(P)
  <2> SUFFICES ASSUME ~(Cardinality(B) <= PageSize)
               PROVE  IsFiniteSet(P) /\ Cardinality(P) \in Nat /\ PageSize <= Cardinality(P)
    OBVIOUS
  <2>1. P \in SUBSET B
    OBVIOUS
  <2>2. IsFiniteSet(P) /\ Cardinality(P) \in Nat /\ Cardinality(P) <= Cardinality(B)
    <3> HIDE DEF P, B
    <3>1. IsFiniteSet(P) /\ Cardinality(P) <= Cardinality(B)
        BY <2>1, <1>5, FS_Subset
    <3> QED
        BY <3>1, FS_CardinalityType
  <2>3. SUFFICES ASSUME Cardinality(P) < PageSize
                 PROVE  FALSE
    BY <2>2, <1>0
  <2>4. P # B
    <3>1. ~(Cardinality(P) = Cardinality(B))
      <4> HIDE DEF P, B
      <4> QED
        BY <2>2, <2>3, <1>5, <1>0
    <3> QED
        BY <3>1
  <2>5. B \ P # {} /\ B \ P \subseteq 0..now
    BY <2>4, <2>1, <1>4
  <2>6. PICK x \in B \ P : \A t \in B \ P : t <= x
    <3> DEFINE R == B \ P
    <3>1. R # {} /\ R \subseteq 0..now
        BY <2>5
    <3> HIDE DEF R
    <3>2. \E x \in R : \A t \in R : t <= x
        BY <3>1, <1>0, MaxOf
    <3> QED
        BY <3>2 DEF R
  <2>7. Above(x) = P \cup {x}
    <3>1. \A u \in B : u >= x => u \in P \/ u = x
      <4> SUFFICES ASSUME NEW u \in B, u >= x, u \notin P
                   PROVE  u = x
        OBVIOUS
      <4>1. u <= x
        BY <2>6
      <4> QED
        BY <4>1, <1>4, <2>6
    <3>2. \A u \in P : u >= x
      <4> SUFFICES ASSUME NEW u \in P, ~(u >= x)
                   PROVE  FALSE
        OBVIOUS
      <4>1. u \in B /\ x \in B /\ x \notin P
        OBVIOUS
      <4>2. u <= x
        BY <4>1, <1>4
      <4> HIDE DEF P
      <4> QED
        BY <4>1, <4>2, <1>8
    <3>3. x \in B /\ x >= x
        BY <1>4, <2>6
    <3> HIDE DEF P
    <3> QED
        BY <3>1, <3>2, <3>3, <2>1
  <2>8. Cardinality(Above(x)) <= PageSize
    <3>1. Cardinality(P \cup {x}) = Cardinality(P) + 1
      <4>1. x \notin P
        BY <2>6
      <4> HIDE DEF P
      <4> QED
        BY <4>1, <2>2, FS_AddElement
    <3> HIDE DEF P
    <3> QED
        BY <3>1, <2>7, <2>3, <2>2, <1>0
  <2> QED
    BY <2>8, <2>6
<1>12. ASSUME ~(Cardinality(B) <= PageSize), NEW n \in Nat, \A t \in P : t <= n
       PROVE  DMarket!Min(P) + PageSize <= n + 1
  <2>1. P # {}
    <3>1. B # {}
        BY <1>12, <1>0, FS_EmptySet
    <3> QED
        BY <3>1, <1>10
  <2>2. P \subseteq Nat
    BY <1>4
  <2> DEFINE m == DMarket!Min(P)
  <2>3. m \in P /\ \A t \in P : m <= t
    <3> HIDE DEF P
    <3> QED
        BY <2>1, <2>2, MinOf
  <2> HIDE DEF m
  <2>4. m \in Nat /\ m <= n
    BY <2>3, <2>2, <1>12
  <2>5. P \in SUBSET (m..n)
    BY <2>3, <2>2, <2>4, <1>12
  <2>6. IsFiniteSet(m..n) /\ Cardinality(m..n) = n - m + 1
    BY <2>4, FS_Interval
  <2>7. Cardinality(P) <= n - m + 1
    <3> HIDE DEF P
    <3> QED
        BY <2>5, <2>6, FS_Subset
  <2>8. Cardinality(P) \in Nat /\ PageSize <= Cardinality(P)
    BY <1>11, <1>12
  <2> HIDE DEF P
  <2>9. m + PageSize <= n + 1
    BY <2>7, <2>8, <2>4, <1>0
  <2> QED
    BY <2>9 DEF m
<1>13. ~(Cardinality(B) <= PageSize) => P # {}
  <2>1. ~(Cardinality(B) <= PageSize) => B # {}
    BY <1>0, FS_EmptySet
  <2> QED
    BY <2>1, <1>10
<1>14. P \subseteq B
    OBVIOUS
<1>15. \A t \in P, u \in visible : t <= u /\ u < c => u \in P
  <2> SUFFICES ASSUME NEW t \in P, NEW u \in visible, t <= u, u < c
               PROVE  u \in P
    OBVIOUS
  <2>1. u \in B
    OBVIOUS
  <2> HIDE DEF P, B
  <2> QED
    BY <2>1, <1>8
<1>16. (\E t \in visible : t < c) => B # {}
    OBVIOUS
<1> HIDE DEF P
<1> QED
    BY <1>2, <1>3, <1>9, <1>10, <1>12, <1>13, <1>14, <1>15, <1>16 DEF PageSound

-----------------------------------------------------------------------------
(* Gaps.                                                                   *)

LEMMA GapFields ==
    ASSUME NEW gs \in Seq(GapRecords)
    PROVE  /\ Len(gs) \in Nat
           /\ \A i \in 1..Len(gs) : gs[i] \in GapRecords /\ gs[i].from \in Int /\ gs[i].until \in Int
<1>1. Len(gs) \in Nat
    BY LenProperties
<1>2. \A i \in 1..Len(gs) : gs[i] \in GapRecords
    BY ElementOfSeq
<1>3. \A g \in GapRecords : g.from \in Int /\ g.until \in Int
    BY DEF GapRecords
<1> QED
    BY <1>1, <1>2, <1>3

\* The gaps after the first
LEMMA GapsAfter ==
    ASSUME NEW gs, NEW top \in Int, NEW skipped, GapsSound(gs, top, skipped), gs # <<>>
    PROVE  /\ Len(gs) >= 1 /\ Head(gs) = gs[1] /\ gs[1] \in GapRecords
           /\ GapsSound(Tail(gs), top, skipped)
           /\ \A t : Open(gs, t) <=> InGap(gs[1], t) \/ Open(Tail(gs), t)
           /\ \A t \in Int : Open(Tail(gs), t) => gs[1].from <= t
<1>1. gs \in Seq(GapRecords)
    BY DEF GapsSound
<1>2. Len(gs) \in Nat /\ \A i \in 1..Len(gs) : gs[i] \in GapRecords /\ gs[i].from \in Int /\ gs[i].until \in Int
    BY <1>1, GapFields
<1>3. Len(gs) >= 1
    BY <1>1, EmptySeq
<1> DEFINE r == Tail(gs)
<1>4. r \in Seq(GapRecords) /\ Len(r) = Len(gs) - 1 /\ \A i \in 1..Len(r) : r[i] = gs[i + 1]
    BY <1>1, HeadTailProperties
<1>5. Head(gs) = gs[1]
    BY <1>1, <1>3
<1> HIDE DEF r
<1>6. \A i \in 1..Len(r) : i + 1 \in 1..Len(gs) /\ r[i] = gs[i + 1]
    BY <1>2, <1>4
<1>7. \A i \in 1..Len(gs) : i # 1 => i - 1 \in 1..Len(r) /\ gs[i] = r[i - 1]
    BY <1>2, <1>4
<1>8. GapsSound(r, top, skipped)
  <2>1. \A i \in 1..Len(r) : /\ 1 <= r[i].until /\ r[i].until <= r[i].from /\ r[i].from <= top - ResumeOverlap
                             /\ r[i].skip \subseteq skipped
    BY <1>6 DEF GapsSound
  <2>2. ASSUME NEW i \in 1..Len(r), NEW j \in 1..Len(r), i < j
        PROVE  r[i].from <= r[j].until
    <3>1. i + 1 \in 1..Len(gs) /\ j + 1 \in 1..Len(gs) /\ i + 1 < j + 1
        BY <1>6, <2>2
    <3>2. gs[i + 1].from <= gs[j + 1].until
        BY <3>1 DEF GapsSound
    <3> QED
        BY <3>2, <1>6
  <2> QED
    BY <1>4, <2>1, <2>2 DEF GapsSound
<1>9. ASSUME NEW t
      PROVE  Open(gs, t) <=> InGap(gs[1], t) \/ Open(r, t)
  <2>1. ASSUME NEW i \in 1..Len(gs), InGap(gs[i], t)
        PROVE  InGap(gs[1], t) \/ Open(r, t)
    <3>1. CASE i = 1
        BY <3>1, <2>1
    <3>2. CASE i # 1
        BY <3>2, <2>1, <1>7 DEF Open
    <3> QED
        BY <3>1, <3>2
  <2>2. Open(r, t) => Open(gs, t)
    BY <1>6 DEF Open
  <2>3. InGap(gs[1], t) => Open(gs, t)
    BY <1>2, <1>3 DEF Open
  <2> QED
    BY <2>1, <2>2, <2>3 DEF Open
<1>10. ASSUME NEW t \in Int, Open(r, t)
       PROVE  gs[1].from <= t
  <2>1. PICK i \in 1..Len(r) : InGap(r[i], t)
    BY <1>10 DEF Open
  <2>2. 1 \in 1..Len(gs) /\ i + 1 \in 1..Len(gs) /\ 1 < i + 1
    BY <1>6, <1>3, <1>2
  <2>3. gs[1].from <= gs[i + 1].until
    BY <2>2 DEF GapsSound
  <2>4. gs[i + 1].until <= t
    BY <2>1, <1>6 DEF InGap
  <2>5. gs[1].from \in Int /\ gs[i + 1].until \in Int
    BY <2>2, <1>2
  <2> QED
    BY <2>3, <2>4, <2>5
<1>11. gs[1] \in GapRecords
    BY <1>2, <1>3
<1> QED
    BY <1>3, <1>5, <1>8, <1>9, <1>10, <1>11 DEF r

\* The first gap read down to a time
LEMMA GapsBelow ==
    ASSUME NEW gs, NEW top \in Int, NEW skipped, GapsSound(gs, top, skipped), gs # <<>>,
           NEW m \in Int, gs[1].until <= m, m <= gs[1].from
    PROVE  LET h == [gs[1] EXCEPT !.from = m]
               r == [gs EXCEPT ![1] = h]
           IN  /\ GapsSound(r, top, skipped)
               /\ \A t : Open(r, t) <=> (gs[1].until <= t /\ t < m /\ t \notin gs[1].skip) \/ Open(Tail(gs), t)
<1> DEFINE h == [gs[1] EXCEPT !.from = m]
           r == [gs EXCEPT ![1] = h]
<1>1. gs \in Seq(GapRecords)
    BY DEF GapsSound
<1>2. Len(gs) \in Nat /\ \A i \in 1..Len(gs) : gs[i] \in GapRecords /\ gs[i].from \in Int /\ gs[i].until \in Int
    BY <1>1, GapFields
<1>3. Len(gs) >= 1 /\ 1 \in 1..Len(gs)
    BY <1>2, GapsAfter
<1>4. h \in GapRecords /\ h.from = m /\ h.until = gs[1].until /\ h.skip = gs[1].skip
  <2>1. gs[1] \in GapRecords
    BY <1>2, <1>3
  <2> QED
    BY <2>1 DEF GapRecords
<1> HIDE DEF h
<1>5. r \in Seq(GapRecords) /\ Len(r) = Len(gs) /\ \A j \in 1..Len(gs) : r[j] = IF j = 1 THEN h ELSE gs[j]
    BY <1>1, <1>3, <1>4, ExceptSeq
<1> HIDE DEF r
<1>6. GapsSound(r, top, skipped)
  <2>1. ASSUME NEW i \in 1..Len(r)
        PROVE  /\ 1 <= r[i].until /\ r[i].until <= r[i].from /\ r[i].from <= top - ResumeOverlap
               /\ r[i].skip \subseteq skipped
    <3>1. /\ 1 <= gs[i].until /\ gs[i].until <= gs[i].from /\ gs[i].from <= top - ResumeOverlap
          /\ gs[i].skip \subseteq skipped /\ gs[i].from \in Int /\ gs[i].until \in Int
        BY <1>5, <1>2 DEF GapsSound
    <3>2. CASE i = 1
      <4>1. r[i] = h
        BY <3>2, <1>5
      <4>2. m <= top - ResumeOverlap
        BY <3>1, <3>2, PollerConstants
      <4> QED
        BY <4>1, <4>2, <3>1, <3>2, <1>4
    <3>3. CASE i # 1
        BY <3>3, <3>1, <1>5
    <3> QED
        BY <3>2, <3>3
  <2>2. ASSUME NEW i \in 1..Len(r), NEW j \in 1..Len(r), i < j
        PROVE  r[i].from <= r[j].until
    <3>1. gs[i].from <= gs[j].until /\ r[j] = gs[j] /\ gs[j].until \in Int /\ gs[i].from \in Int
      <4>1. i \in 1..Len(gs) /\ j \in 1..Len(gs) /\ j # 1
        BY <1>5, <1>2, <2>2
      <4> QED
        BY <4>1, <1>5, <1>2, <2>2 DEF GapsSound
    <3>2. r[i].from <= gs[i].from /\ r[i].from \in Int
      <4>1. CASE i = 1
        BY <4>1, <1>5, <1>4, <1>3
      <4>2. CASE i # 1
        BY <4>2, <1>5, <3>1
      <4> QED
        BY <4>1, <4>2
    <3> QED
        BY <3>1, <3>2
  <2> QED
    BY <1>5, <2>1, <2>2 DEF GapsSound
<1>7. ASSUME NEW t
      PROVE  Open(r, t) <=> (gs[1].until <= t /\ t < m /\ t \notin gs[1].skip) \/ Open(Tail(gs), t)
  <2> DEFINE s == Tail(gs)
  <2>1. Len(s) = Len(gs) - 1 /\ \A i \in 1..Len(s) : s[i] = gs[i + 1]
    BY <1>1, <1>3, EmptySeq, HeadTailProperties
  <2> HIDE DEF s
  <2>2. InGap(r[1], t) <=> gs[1].until <= t /\ t < m /\ t \notin gs[1].skip
    BY <1>3, <1>4, <1>5 DEF InGap
  <2>3. \A i \in 1..Len(s) : i + 1 \in 1..Len(r) /\ r[i + 1] = s[i]
    BY <2>1, <1>5, <1>2
  <2>4. \A i \in 1..Len(r) : i # 1 => i - 1 \in 1..Len(s) /\ r[i] = s[i - 1]
    BY <2>1, <1>5, <1>2
  <2>5. Open(s, t) => Open(r, t)
    BY <2>3 DEF Open
  <2>6. InGap(r[1], t) => Open(r, t)
    BY <1>3, <1>5 DEF Open
  <2>7. ASSUME NEW i \in 1..Len(r), InGap(r[i], t)
        PROVE  InGap(r[1], t) \/ Open(s, t)
    <3>1. CASE i = 1
        BY <3>1, <2>7
    <3>2. CASE i # 1
        BY <3>2, <2>4, <2>7 DEF Open
    <3> QED
        BY <3>1, <3>2
  <2> QED
    BY <2>2, <2>5, <2>6, <2>7 DEF Open, s
<1> QED
    BY <1>6, <1>7 DEF h, r

\* A gap left above the others
LEMMA GapsAdd ==
    ASSUME NEW gs, NEW top \in Int, NEW skipped, GapsSound(gs, top, skipped),
           NEW g \in GapRecords, 1 <= g.until, g.until <= g.from, g.from <= top - ResumeOverlap, g.skip \subseteq skipped,
           \A i \in 1..Len(gs) : gs[i].from <= g.until
    PROVE  /\ GapsSound(gs \o <<g>>, top, skipped)
           /\ \A t : Open(gs \o <<g>>, t) <=> Open(gs, t) \/ InGap(g, t)
           /\ \A i \in 1..Len(gs \o <<g>>) : (gs \o <<g>>)[i].from <= g.from
<1> DEFINE r == gs \o <<g>>
<1>1. gs \in Seq(GapRecords) /\ <<g>> \in Seq(GapRecords) /\ Len(<<g>>) = 1 /\ <<g>>[1] = g
    BY DEF GapsSound
<1>2. Len(gs) \in Nat /\ \A i \in 1..Len(gs) : gs[i] \in GapRecords /\ gs[i].from \in Int /\ gs[i].until \in Int
    BY <1>1, GapFields
<1>3. /\ r \in Seq(GapRecords) /\ Len(r) = Len(gs) + 1
      /\ \A i \in 1..(Len(gs) + 1) : r[i] = IF i <= Len(gs) THEN gs[i] ELSE g
  <2> DEFINE one == <<g>>
  <2>1. one \in Seq(GapRecords) /\ Len(one) = 1 /\ one[1] = g
    BY <1>1
  <2> HIDE DEF one
  <2>2. /\ gs \o one \in Seq(GapRecords) /\ Len(gs \o one) = Len(gs) + Len(one)
        /\ \A i \in 1..(Len(gs) + Len(one)) : (gs \o one)[i] = IF i <= Len(gs) THEN gs[i] ELSE one[i - Len(gs)]
    BY <1>1, <2>1, ConcatProperties, ZenonT(60)
  <2>3. ASSUME NEW i \in 1..(Len(gs) + 1)
        PROVE  (gs \o one)[i] = IF i <= Len(gs) THEN gs[i] ELSE g
    <3>1. i \in 1..(Len(gs) + Len(one))
        BY <2>1
    <3>2. ~(i <= Len(gs)) => i - Len(gs) = 1
        BY <1>2
    <3> QED
        BY <3>1, <3>2, <2>2, <2>1
  <2> QED
    BY <2>1, <2>2, <2>3 DEF one
<1> HIDE DEF r
<1>4. \A i \in 1..Len(gs) : i \in 1..Len(r) /\ r[i] = gs[i]
    BY <1>2, <1>3
<1>5. Len(gs) + 1 \in 1..Len(r) /\ r[Len(gs) + 1] = g
    BY <1>2, <1>3
<1>6. \A i \in 1..Len(r) : i \in 1..Len(gs) \/ i = Len(gs) + 1
    BY <1>2, <1>3
<1>7. g.from \in Int /\ g.until \in Int
    BY DEF GapRecords
<1>8. GapsSound(r, top, skipped)
  <2>1. ASSUME NEW i \in 1..Len(r)
        PROVE  /\ 1 <= r[i].until /\ r[i].until <= r[i].from /\ r[i].from <= top - ResumeOverlap
               /\ r[i].skip \subseteq skipped
    <3>1. CASE i \in 1..Len(gs)
        BY <3>1, <1>4 DEF GapsSound
    <3>2. CASE i = Len(gs) + 1
        BY <3>2, <1>5
    <3> QED
        BY <3>1, <3>2, <1>6
  <2>2. ASSUME NEW i \in 1..Len(r), NEW j \in 1..Len(r), i < j
        PROVE  r[i].from <= r[j].until
    <3>1. i \in 1..Len(gs)
        BY <1>6, <2>2, <1>2, <1>3
    <3>2. CASE j \in 1..Len(gs)
        BY <3>1, <3>2, <2>2, <1>4 DEF GapsSound
    <3>3. CASE j = Len(gs) + 1
        BY <3>1, <3>3, <1>4, <1>5
    <3> QED
        BY <3>2, <3>3, <1>6
  <2> QED
    BY <1>3, <2>1, <2>2 DEF GapsSound
<1>9. ASSUME NEW t
      PROVE  Open(r, t) <=> Open(gs, t) \/ InGap(g, t)
    BY <1>4, <1>5, <1>6 DEF Open
<1>10. ASSUME NEW i \in 1..Len(r)
       PROVE  r[i].from <= g.from
  <2>1. CASE i \in 1..Len(gs)
    <3>1. gs[i].from <= g.until /\ gs[i].from \in Int
        BY <2>1, <1>2
    <3> QED
        BY <3>1, <2>1, <1>4, <1>7
  <2>2. CASE i = Len(gs) + 1
    BY <2>2, <1>5, <1>7
  <2> QED
    BY <2>1, <2>2, <1>6
<1> QED
    BY <1>8, <1>9, <1>10 DEF r

\* The bound of the gaps and what they may skip grow.
LEMMA GapsGrow ==
    ASSUME NEW gs, NEW top \in Int, NEW skipped, GapsSound(gs, top, skipped),
           NEW top_ \in Int, top <= top_, NEW skipped_, skipped \subseteq skipped_
    PROVE  GapsSound(gs, top_, skipped_)
<1>1. \A i \in 1..Len(gs) : gs[i].from \in Int
    BY GapFields DEF GapsSound
<1>2. \A i \in 1..Len(gs) : gs[i].from <= top_ - ResumeOverlap
    BY <1>1, PollerConstants DEF GapsSound
<1> QED
    BY <1>2 DEF GapsSound

LEMMA NoGaps == \A top, skipped, t : GapsSound(<<>>, top, skipped) /\ ~Open(<<>>, t)
<1>1. <<>> \in Seq(GapRecords) /\ Len(<<>>) = 0
    BY EmptySeq
<1>2. 1..0 = {}
    OBVIOUS
<1> QED
    BY <1>1, <1>2 DEF GapsSound, Open

-----------------------------------------------------------------------------
(* The gaps of a resume point.                                             *)

\* Indices ranked from the first
LEMMA Ranks ==
    ASSUME NEW n \in Nat, NEW S, S \subseteq 1..n
    PROVE  /\ Cardinality(S) \in Nat
           /\ \A k \in 1..Cardinality(S) : DMarket!Nth(S, k) \in S
           /\ \A i \in S : \E k \in 1..Cardinality(S) : DMarket!Nth(S, k) = i
           /\ \A k, l \in 1..Cardinality(S) : k < l => DMarket!Nth(S, k) < DMarket!Nth(S, l)
<1> DEFINE Upto(i) == {j \in S : j <= i}
           Rank(i) == Cardinality(Upto(i))
<1>0. \A j \in S : j \in Nat /\ 1 <= j /\ j <= n
    OBVIOUS
<1>1. IsFiniteSet(S) /\ Cardinality(S) \in Nat
  <2>1. IsFiniteSet(1..n)
    BY FS_Interval
  <2>2. IsFiniteSet(S)
    BY <2>1, FS_Subset
  <2> QED
    BY <2>2, FS_CardinalityType
<1>2. \A i : /\ Upto(i) \in SUBSET S /\ IsFiniteSet(Upto(i)) /\ Rank(i) \in Nat /\ Rank(i) <= Cardinality(S)
  <2> SUFFICES ASSUME NEW i
               PROVE  /\ Upto(i) \in SUBSET S /\ IsFiniteSet(Upto(i)) /\ Rank(i) \in Nat /\ Rank(i) <= Cardinality(S)
    OBVIOUS
  <2>1. Upto(i) \in SUBSET S
    OBVIOUS
  <2> HIDE DEF Upto
  <2>2. IsFiniteSet(Upto(i)) /\ Rank(i) <= Cardinality(S)
    BY <2>1, <1>1, FS_Subset
  <2> QED
    BY <2>1, <2>2, FS_CardinalityType
<1>3. \A i \in S, j \in S : i < j => Rank(i) < Rank(j)
  <2> SUFFICES ASSUME NEW i \in S, NEW j \in S, i < j
               PROVE  Rank(i) < Rank(j)
    OBVIOUS
  <2>1. Upto(i) \cup {j} \in SUBSET Upto(j)
    <3>1. \A x \in S : x <= i => x <= j
        BY <1>0
    <3>2. j <= j
        BY <1>0
    <3> QED
        BY <3>1, <3>2
  <2>2. j \notin Upto(i)
    BY <1>0
  <2> HIDE DEF Upto
  <2>3. Cardinality(Upto(i) \cup {j}) = Rank(i) + 1
    BY <2>2, <1>2, FS_AddElement
  <2>4. Cardinality(Upto(i) \cup {j}) <= Rank(j)
    BY <2>1, <1>2, FS_Subset
  <2>5. Rank(i) \in Nat /\ Rank(j) \in Nat
    BY <1>2
  <2> HIDE DEF Rank
  <2> QED
    BY <2>3, <2>4, <2>5
<1>4. \A i \in S : Rank(i) \in 1..Cardinality(S)
  <2> SUFFICES ASSUME NEW i \in S
               PROVE  Rank(i) \in 1..Cardinality(S)
    OBVIOUS
  <2>1. i \in Upto(i)
    BY <1>0
  <2> HIDE DEF Upto
  <2>2. Rank(i) # 0
    BY <2>1, <1>2, FS_EmptySet
  <2>3. Rank(i) \in Nat /\ Rank(i) <= Cardinality(S)
    BY <1>2
  <2> HIDE DEF Rank
  <2> QED
    BY <2>2, <2>3, <1>1
\* Every rank is taken.
<1>5. ASSUME NEW k \in 1..Cardinality(S)
      PROVE  \E i \in S : Rank(i) = k
  <2> DEFINE R == {m \in 0..n : Rank(m) >= k}
  <2>1. Rank(n) = Cardinality(S)
    <3>1. Upto(n) = S
        BY <1>0
    <3> QED
        BY <3>1
  <2>2. R \subseteq Nat /\ R # {}
    <3>1. n \in R
        BY <2>1, <1>1
    <3> QED
        BY <3>1, SMTT(30)
  <2>3. PICK m \in R : \A x \in R : m <= x
    <3> HIDE DEF R
    <3> QED
        BY <2>2, LeastOf
  <2>4. m \in 0..n /\ Rank(m) >= k
    OBVIOUS
  <2>5. m # 0
    <3>1. Upto(0) = {}
      <4>1. \A j \in S : ~(j <= 0)
        BY <1>0
      <4> QED
        BY <4>1
    <3>2. Rank(0) = 0
        BY <3>1, FS_EmptySet
    <3> HIDE DEF Rank, Upto
    <3> QED
        BY <3>2, <2>4, <1>1
  <2>6. m - 1 \in 0..n /\ Rank(m - 1) \in Nat /\ Rank(m - 1) < k
    <3>1. m - 1 \in 0..n
        BY <2>4, <2>5
    <3>2. ~(m <= m - 1)
        BY <2>4
    <3>3. ~(Rank(m - 1) >= k)
        BY <3>1, <3>2, <2>3
    <3>4. Rank(m - 1) \in Nat
        BY <1>2
    <3> HIDE DEF Rank, Upto
    <3> QED
        BY <3>1, <3>3, <3>4, <1>1
  <2>7. m \in S
    <3> SUFFICES ASSUME m \notin S
                 PROVE  FALSE
        OBVIOUS
    <3>1. Upto(m) = Upto(m - 1)
      <4>1. \A j \in S : j <= m <=> j <= m - 1
        BY <1>0, <2>4
      <4> QED
        BY <4>1
    <3>2. Rank(m) = Rank(m - 1)
        BY <3>1
    <3>3. Rank(m) \in Nat
        BY <1>2
    <3> HIDE DEF Rank, Upto
    <3> QED
        BY <3>2, <3>3, <2>4, <2>6, <1>1
  <2>8. Rank(m) = Rank(m - 1) + 1
    <3>1. Upto(m) = Upto(m - 1) \cup {m}
      <4>1. \A j \in S : j <= m <=> (j <= m - 1 \/ j = m)
        BY <1>0, <2>4
      <4> QED
        BY <4>1, <2>7
    <3>2. m \notin Upto(m - 1)
        BY <2>4
    <3> HIDE DEF Upto
    <3> QED
        BY <3>1, <3>2, <1>2, FS_AddElement
  <2>9. Rank(m) = k
    <3>1. k \in Nat
        BY <1>1
    <3> HIDE DEF Rank, Upto
    <3> QED
        BY <3>1, <2>4, <2>6, <2>8
  <2> QED
    BY <2>7, <2>9
<1>6. ASSUME NEW k \in 1..Cardinality(S)
      PROVE  DMarket!Nth(S, k) \in S /\ Rank(DMarket!Nth(S, k)) = k
  <2>1. \E i \in S : DMarket!Cardinality({j \in S : j <= i}) = k
    BY <1>5, PollerCounts, SMTT(30)
  <2>2. DMarket!Nth(S, k) \in S /\ DMarket!Cardinality({j \in S : j <= DMarket!Nth(S, k)}) = k
    BY <2>1 DEF DMarket!Nth
  <2> QED
    BY <2>2, PollerCounts
<1>7. ASSUME NEW i \in S
      PROVE  DMarket!Nth(S, Rank(i)) = i
  <2>1. Rank(i) \in 1..Cardinality(S)
    BY <1>4
  <2> DEFINE j == DMarket!Nth(S, Rank(i))
  <2>2. j \in S /\ Rank(j) = Rank(i)
    BY <2>1, <1>6
  <2>3. ~(i < j) /\ ~(j < i)
    <3>1. Rank(i) \in Nat
        BY <1>2
    <3> HIDE DEF Rank, j
    <3> QED
        BY <2>2, <1>3, <3>1
  <2>4. i \in Nat /\ j \in Nat
    BY <2>2, <1>0
  <2> HIDE DEF j
  <2>5. i = j
    BY <2>3, <2>4
  <2> QED
    BY <2>5 DEF j
<1>8. ASSUME NEW k \in 1..Cardinality(S), NEW l \in 1..Cardinality(S), k < l
      PROVE  DMarket!Nth(S, k) < DMarket!Nth(S, l)
  <2> DEFINE i == DMarket!Nth(S, k)
             j == DMarket!Nth(S, l)
  <2>1. i \in S /\ j \in S /\ Rank(i) = k /\ Rank(j) = l
    BY <1>6
  <2> HIDE DEF i, j
  <2>2. i \in Nat /\ j \in Nat /\ k \in Nat /\ l \in Nat
    <3>1. k \in Nat /\ l \in Nat
        BY <1>1
    <3> QED
        BY <3>1, <2>1, <1>0
  <2>3. i # j
    BY <2>1, <2>2, <1>8
  <2>4. ~(j < i)
    <3>1. j < i => Rank(j) < Rank(i)
        BY <2>1, <1>3
    <3> HIDE DEF Rank
    <3> QED
        BY <3>1, <2>1, <2>2, <1>8
  <2>5. i < j
    BY <2>2, <2>3, <2>4
  <2> QED
    BY <2>5 DEF i, j
<1>9. \A i \in S : \E k \in 1..Cardinality(S) : DMarket!Nth(S, k) = i
    BY <1>4, <1>7
<1> QED
    BY <1>1, <1>6, <1>8, <1>9

\* What is left of gaps that are cut off at a time
LEMMA GapsRestored ==
    ASSUME NEW gs, NEW top \in Int, NEW skipped, GapsSound(gs, top, skipped), NEW oldest \in Int
    PROVE  /\ GapsSound(DMarket!Restored(gs, oldest), top, skipped)
           /\ \A t \in Int : Open(DMarket!Restored(gs, oldest), t) <=> Open(gs, t) /\ oldest <= t
<1> DEFINE all == [i \in 1..Len(gs) |-> [gs[i] EXCEPT !.until = DMarket!Later(@, oldest)]]
           within == {i \in 1..Len(gs) : all[i].from > all[i].until}
           N == Cardinality(within)
           r == DMarket!Restored(gs, oldest)
<1>1. gs \in Seq(GapRecords)
    BY DEF GapsSound
<1>2. Len(gs) \in Nat /\ \A i \in 1..Len(gs) : gs[i] \in GapRecords /\ gs[i].from \in Int /\ gs[i].until \in Int
    BY <1>1, GapFields
<1>3. \A i \in 1..Len(gs) :
        /\ all[i] \in GapRecords /\ all[i].from = gs[i].from /\ all[i].skip = gs[i].skip
        /\ all[i].until \in Int /\ all[i].until >= gs[i].until /\ all[i].until >= oldest
        /\ all[i].until = gs[i].until \/ all[i].until = oldest
  <2> SUFFICES ASSUME NEW i \in 1..Len(gs)
               PROVE  /\ all[i] \in GapRecords /\ all[i].from = gs[i].from /\ all[i].skip = gs[i].skip
                      /\ all[i].until \in Int /\ all[i].until >= gs[i].until /\ all[i].until >= oldest
                      /\ all[i].until = gs[i].until \/ all[i].until = oldest
    OBVIOUS
  <2> DEFINE m == DMarket!Later(gs[i].until, oldest)
  <2>1. gs[i] \in GapRecords /\ gs[i].until \in Int
    BY <1>2
  <2>2. m \in Int /\ m >= gs[i].until /\ m >= oldest /\ (m = gs[i].until \/ m = oldest)
    BY <2>1 DEF DMarket!Later
  <2>3. all[i] = [gs[i] EXCEPT !.until = m]
    OBVIOUS
  <2> HIDE DEF m, all
  <2>4. all[i] \in GapRecords /\ all[i].from = gs[i].from /\ all[i].skip = gs[i].skip /\ all[i].until = m
    BY <2>1, <2>2, <2>3 DEF GapRecords
  <2> QED
    BY <2>2, <2>4
<1>4. DMarket!RestoredAll(gs, oldest) = all
    BY DEF DMarket!RestoredAll
<1>5. r = [k \in 1..N |-> all[DMarket!Nth(within, k)]]
    BY <1>4, PollerCounts DEF DMarket!Restored
<1>6. within \subseteq 1..Len(gs) /\ \A i \in within : all[i].from > all[i].until
    OBVIOUS
<1>16. \A i \in 1..Len(gs) : i \notin within => ~(all[i].from > all[i].until)
    OBVIOUS
<1> HIDE DEF all, within, r, N
<1>7. /\ N \in Nat
      /\ \A k \in 1..N : DMarket!Nth(within, k) \in within
      /\ \A i \in within : \E k \in 1..N : DMarket!Nth(within, k) = i
      /\ \A k, l \in 1..N : k < l => DMarket!Nth(within, k) < DMarket!Nth(within, l)
    BY <1>2, <1>6, Ranks DEF N
<1>8. \A k \in 1..N : r[k] = all[DMarket!Nth(within, k)]
    BY <1>5
<1>9. r \in Seq(GapRecords) /\ Len(r) = N
  <2>1. \A k \in 1..N : all[DMarket!Nth(within, k)] \in GapRecords
    BY <1>3, <1>6, <1>7
  <2>2. r \in [1..N -> GapRecords]
    BY <1>5, <2>1
  <2> QED
    BY <2>2, <1>7
<1>10. \A i \in 1..Len(gs) : /\ 1 <= gs[i].until /\ gs[i].until <= gs[i].from /\ gs[i].from <= top - ResumeOverlap
                             /\ gs[i].skip \subseteq skipped
    BY DEF GapsSound
<1>11. ASSUME NEW k \in 1..N
       PROVE  /\ 1 <= r[k].until /\ r[k].until <= r[k].from /\ r[k].from <= top - ResumeOverlap
              /\ r[k].skip \subseteq skipped
  <2> DEFINE i == DMarket!Nth(within, k)
  <2>1. i \in within /\ i \in 1..Len(gs) /\ r[k] = all[i]
    BY <1>6, <1>7, <1>8
  <2> HIDE DEF i
  <2>2. all[i].from > all[i].until
    BY <2>1, <1>6
  <2> QED
    BY <2>1, <2>2, <1>2, <1>3, <1>10, SMTT(30)
<1>12. ASSUME NEW k \in 1..N, NEW l \in 1..N, k < l
       PROVE  r[k].from <= r[l].until
  <2> DEFINE i == DMarket!Nth(within, k)
             j == DMarket!Nth(within, l)
  <2>1. i \in 1..Len(gs) /\ j \in 1..Len(gs) /\ i < j /\ r[k] = all[i] /\ r[l] = all[j]
    BY <1>6, <1>7, <1>8, <1>12
  <2> HIDE DEF i, j
  <2>2. gs[i].from <= gs[j].until
    BY <2>1 DEF GapsSound
  <2>3. all[i].from = gs[i].from /\ all[j].until >= gs[j].until /\ all[j].until \in Int
    BY <2>1, <1>3
  <2>4. gs[i].from \in Int /\ gs[j].until \in Int
    BY <2>1, <1>2
  <2> QED
    BY <2>1, <2>2, <2>3, <2>4
<1>13. GapsSound(r, top, skipped)
    BY <1>9, <1>11, <1>12 DEF GapsSound
<1>14. ASSUME NEW t \in Int, Open(r, t)
       PROVE  Open(gs, t) /\ oldest <= t
  <2>1. PICK k \in 1..N : InGap(r[k], t)
    BY <1>14, <1>9 DEF Open
  <2> DEFINE i == DMarket!Nth(within, k)
  <2>2. i \in 1..Len(gs) /\ r[k] = all[i]
    BY <1>6, <1>7, <1>8
  <2> HIDE DEF i
  <2>3. all[i].until <= t /\ t < all[i].from /\ t \notin all[i].skip
    BY <2>1, <2>2 DEF InGap
  <2>4. oldest <= t /\ gs[i].until <= t /\ t < gs[i].from /\ t \notin gs[i].skip
    BY <2>3, <2>2, <1>2, <1>3
  <2> QED
    BY <2>2, <2>4 DEF Open, InGap
<1>15. ASSUME NEW t \in Int, Open(gs, t), oldest <= t
       PROVE  Open(r, t)
  <2>1. PICK i \in 1..Len(gs) : InGap(gs[i], t)
    BY <1>15 DEF Open
  <2>2. gs[i].until <= t /\ t < gs[i].from /\ t \notin gs[i].skip
    BY <2>1 DEF InGap
  <2>3. all[i].until <= t /\ t < all[i].from /\ t \notin all[i].skip
    BY <2>2, <1>15, <1>2, <1>3
  <2>4. i \in within
    <3>1. all[i].from > all[i].until
        BY <2>3, <1>2, <1>3
    <3> QED
        BY <3>1, <1>16
  <2>5. PICK k \in 1..N : DMarket!Nth(within, k) = i
    BY <2>4, <1>7
  <2>6. r[k] = all[i]
    BY <2>5, <1>8
  <2> QED
    BY <2>3, <2>6, <1>9 DEF Open, InGap
<1> QED
    BY <1>13, <1>14, <1>15 DEF r

-----------------------------------------------------------------------------
(* The invariant in the typed form that the steps use.                     *)

PollTyped ==
    /\ now \in Nat /\ now >= 1 /\ now <= MaxTime
    /\ latest \in Nat /\ latest <= now /\ floor \in Nat /\ floor <= MaxTime /\ start \in Nat /\ polled \in Nat /\ polled <= now
    /\ point.newest \in Nat /\ point.newest <= now
    /\ Reach \in Nat /\ Reach <= now
    /\ \A t \in visible : t \in Nat /\ 1 <= t /\ t <= now
    /\ \A t \in DOMAIN handed : t \in visible /\ handed[t] \in Nat /\ t <= handed[t] /\ handed[t] <= now
    /\ \A t \in DOMAIN pending : t \in visible /\ pending[t] \in Nat /\ t <= pending[t] /\ pending[t] <= now
    /\ \A t \in DOMAIN recorded : t \in visible /\ recorded[t] \in Int /\ t <= recorded[t]

LEMMA PollTypes ==
    ASSUME PollerInv
    PROVE  PollTyped
<1>0. PollScalars /\ MaxTime \in Nat
    BY PollerConstants DEF PollerInv
<1>1. now \in Nat /\ now >= 1 /\ now <= MaxTime /\ MaxTime \in Nat
  <2>1. now \in 1..MaxTime
    BY <1>0 DEF PollScalars
  <2> QED
    BY <1>0, <2>1
<1>2. latest \in Nat /\ latest <= now /\ floor \in Nat /\ floor <= MaxTime /\ start \in Nat /\ polled \in Nat /\ polled <= now
  <2>1. latest \in 0..now /\ floor \in 0..MaxTime /\ start \in 0..MaxTime /\ polled \in 0..now
    BY <1>0 DEF PollScalars
  <2> QED
    BY <1>1, <2>1
<1>3. \A t \in visible : t \in Nat /\ 1 <= t /\ t <= now
    BY <1>1 DEF PollerInv, PollSets
<1>4. point.newest \in Nat /\ point.newest <= now
  <2>1. point.newest = 0 \/ point.newest \in visible
    BY DEF PollerInv, PointSound
  <2> QED
    BY <2>1, <1>1, <1>3
<1>5. Reach \in Nat /\ Reach <= now
    BY <1>1, <1>2, <1>4 DEF Reach
<1>6. \A t \in DOMAIN handed : t \in visible /\ handed[t] \in t..now
    BY DEF PollerInv, PollSets
<1>7. \A t \in DOMAIN pending : t \in visible /\ pending[t] \in t..now
    BY DEF PollerInv, PollSets
<1>8. \A t \in DOMAIN recorded : t \in visible /\ recorded[t] \in Int /\ t <= recorded[t]
    BY DEF PollerInv, PollSets
<1>9. \A t \in DOMAIN handed : t \in visible /\ handed[t] \in Nat /\ t <= handed[t] /\ handed[t] <= now
    BY <1>1, <1>3, <1>6
<1>10. \A t \in DOMAIN pending : t \in visible /\ pending[t] \in Nat /\ t <= pending[t] /\ pending[t] <= now
    BY <1>1, <1>3, <1>7
<1> QED
    BY <1>1, <1>2, <1>3, <1>4, <1>5, <1>8, <1>9, <1>10 DEF PollTyped

-----------------------------------------------------------------------------
(* The steps.                                                              *)

LEMMA PollerStarts == ASSUME DMarket!Init PROVE PollerInv
<1>1. MaxTime \in Nat \ {0} /\ LiveOverlap \in Nat
    BY PollerConstants
<1>2. /\ now = 1 /\ visible = {1} /\ at = "resuming" /\ latest = 0 /\ floor = 0 /\ gaps = <<>> /\ shown = {} /\ recorded = <<>>
      /\ polled = 0 /\ pending = <<>> /\ point = DMarket!NoDoc /\ handed = <<>> /\ start = 0 /\ lost = {} /\ accounted = {}
      /\ mishaps = 0 /\ outages = 0 /\ unanswered = 0
    BY DEF DMarket!Init
<1>3. DOMAIN recorded = {} /\ DOMAIN pending = {} /\ DOMAIN handed = {} /\ point.newest = 0
    BY <1>2 DEF DMarket!NoDoc
<1>4. PollScalars /\ PointWhole
    BY <1>1, <1>2, <1>3 DEF PollScalars, PointWhole
<1>5. PollSets
    BY <1>1, <1>2, <1>3 DEF PollSets
<1>6. FloorSound
    BY <1>1, <1>2, <1>3 DEF FloorSound
<1>7. GapsSound(gaps, Reach, DOMAIN handed) /\ \A i \in 1..Len(gaps) : gaps[i].from <= floor
    BY <1>2, NoGaps
<1>8. ~Running
    BY <1>2 DEF Running
<1>9. Polling
    BY <1>2, <1>3, <1>8 DEF Polling
<1>10. Covered /\ BackendSound
    BY <1>2 DEF Covered, BackendSound, Owed
<1>11. PointSound /\ ReadKnown
    BY <1>3, <1>8 DEF PointSound, ReadKnown
<1> QED
    BY <1>4, <1>5, <1>6, <1>7, <1>9, <1>10, <1>11 DEF PollerInv

LEMMA AppearKeeps == ASSUME PollerInv, NEW x \in DMarket!Times, DMarket!Appear(x) PROVE PollerInv'
<1>0. PollTyped /\ PollScalars /\ PollSets
    BY PollTypes DEF PollerInv
<1>1. /\ x \in (now - LiveOverlap)..now /\ x \notin visible /\ visible' = visible \cup {x}
      /\ now' = now /\ at' = at /\ latest' = latest /\ floor' = floor /\ gaps' = gaps /\ shown' = shown /\ recorded' = recorded
      /\ poll' = poll /\ polled' = polled /\ pending' = pending /\ point' = point /\ handed' = handed
      /\ start' = start /\ lost' = lost /\ accounted' = accounted
      /\ mishaps' = mishaps /\ outages' = outages /\ unanswered' = unanswered
    BY DEF DMarket!Appear, DMarket!reader, DMarket!ghosts, DMarket!bounds
<1>2. x \in Nat /\ 1 <= x /\ x <= now /\ now - LiveOverlap <= x
    BY <1>0, <1>1, PollerConstants DEF PollTyped, DMarket!Times
<1>3. x >= floor
    BY <1>0, <1>2, PollerConstants DEF PollerInv, FloorSound, PollTyped, DMarket!Later
<1>4. \A u \in DOMAIN handed : handed[u] - ResumeOverlap <= x
    BY <1>0, <1>2, PollerConstants DEF PollTyped
<1>5. \A u \in DOMAIN pending : pending[u] - ResumeOverlap <= x
    BY <1>0, <1>2, PollerConstants DEF PollTyped
<1>6. x \notin shown
    BY <1>0, <1>1 DEF PollSets
<1>7. PollScalars' /\ PointWhole'
    BY <1>0, <1>1 DEF PollerInv, PollScalars, PointWhole
<1>8. PollSets'
  <2>1. visible' \subseteq 1..now'
    BY <1>0, <1>1, <1>2 DEF PollTyped
  <2>2. visible \subseteq visible'
    BY <1>1
  <2> QED
    BY <1>0, <1>1, <2>1, <2>2 DEF PollSets
<1>9. FloorSound'
    BY <1>1 DEF PollerInv, FloorSound
<1>10. Reach' = Reach /\ Running' = Running /\ Settled' = Settled
    BY <1>1 DEF Reach, Running, Settled
<1>11. GapsSound(gaps, Reach, DOMAIN handed)' /\ (\A i \in 1..Len(gaps) : gaps[i].from <= floor)'
    BY <1>1, <1>10 DEF PollerInv, GapsSound
<1>12. PollSound(poll, polled) => PollSound(poll, polled)'
  <2> SUFFICES ASSUME PollSound(poll, polled)
               PROVE  PollSound(poll, polled)'
    OBVIOUS
  <2>1. x >= polled - LiveOverlap
    BY <1>0, <1>2, PollerConstants DEF PollTyped
  <2>2. visible \subseteq visible' /\ \A t \in visible' : t \in visible \/ t = x
    BY <1>1
  <2>3. \A t \in visible' : t >= poll.at /\ t >= floor /\ t \notin shown => t \in DOMAIN poll.read \/ t >= polled - LiveOverlap
    BY <2>1, <2>2 DEF PollSound
  <2> QED
    BY <1>1, <1>10, <2>2, <2>3 DEF PollSound
<1>13. Polling'
    BY <1>1, <1>10, <1>12 DEF PollerInv, Polling
<1>14. \A t \in Owed' : t \in Owed \/ t = x
    BY <1>1 DEF Owed
<1>15. \A t : Ahead(t) => Ahead(t)'
    BY <1>1, <1>10 DEF Ahead
<1>16. Ahead(x)'
  <2>1. x >= floor' /\ x \notin shown'
    BY <1>1, <1>3, <1>6
  <2>2. polled - LiveOverlap <= x
    BY <1>0, <1>2, PollerConstants DEF PollTyped
  <2> QED
    BY <1>1, <1>4, <1>5, <2>1, <2>2 DEF Ahead
<1>17. Covered'
    BY <1>1, <1>14, <1>15, <1>16 DEF PollerInv, Covered, Open
<1>18. PointSound'
  <2>1. x >= point.newest - ResumeOverlap
    BY <1>0, <1>2, PollerConstants DEF PollTyped
  <2> QED
    BY <1>1, <1>14, <2>1 DEF PollerInv, PointSound, GapsSound, Open
<1>19. BackendSound'
    BY <1>1, <1>4, <1>14 DEF PollerInv, BackendSound
<1>20. ReadKnown'
    BY <1>1, <1>10 DEF PollerInv, ReadKnown, FarBack, Open
<1> QED
    BY <1>7, <1>8, <1>9, <1>11, <1>13, <1>17, <1>18, <1>19, <1>20 DEF PollerInv

LEMMA PollerTickKeeps == ASSUME PollerInv, DMarket!Tick PROVE PollerInv'
<1>0. PollTyped /\ PollScalars /\ PollSets
    BY PollTypes DEF PollerInv
<1>1. /\ now < MaxTime /\ now' = now + 1 /\ \A t \in 1..(now - LiveOverlap) : t \in visible
      /\ visible' = visible /\ at' = at /\ latest' = latest /\ floor' = floor /\ gaps' = gaps /\ shown' = shown /\ recorded' = recorded
      /\ poll' = poll /\ polled' = polled /\ pending' = pending /\ point' = point /\ handed' = handed
      /\ start' = start /\ lost' = lost /\ accounted' = accounted
      /\ mishaps' = mishaps /\ outages' = outages /\ unanswered' = unanswered
    BY DEF DMarket!Tick, DMarket!reader, DMarket!ghosts, DMarket!bounds
<1>2. at = "polling" => now < polled + MaxPollTime
    BY DEF DMarket!Tick
<1>3. Running' = Running /\ Settled' = Settled
    BY <1>1 DEF Running, Settled
<1>4. Reach' \in Nat /\ Reach <= Reach' /\ (Running => Reach' = Reach)
    BY <1>0, <1>1, <1>3 DEF Reach, PollTyped
<1>5. PollScalars' /\ PointWhole'
  <2>1. now' \in 1..MaxTime /\ latest \in 0..now' /\ polled \in 0..now'
    BY <1>0, <1>1, PollerConstants DEF PollTyped
  <2>2. PollScalars'
    BY <1>0, <1>1, <2>1 DEF PollScalars
  <2> QED
    BY <1>1, <2>2 DEF PollerInv, PointWhole
<1>6. PollSets'
  <2>1. visible' \subseteq 1..now'
    BY <1>0, <1>1 DEF PollTyped
  <2>2. \A t \in 1..(now' - 1 - LiveOverlap) : t \in visible'
    BY <1>0, <1>1, PollerConstants DEF PollTyped
  <2>3. \A t \in DOMAIN handed' : handed'[t] \in t..now'
    BY <1>0, <1>1 DEF PollTyped
  <2>4. \A t \in DOMAIN pending' : pending'[t] \in t..now'
    BY <1>0, <1>1 DEF PollTyped
  <2> QED
    BY <1>0, <1>1, <2>1, <2>2, <2>3, <2>4 DEF PollSets
<1>7. FloorSound'
    BY <1>0, <1>1, PollerConstants DEF PollerInv, FloorSound, DMarket!Later, PollTyped
<1>8. GapsSound(gaps, Reach, DOMAIN handed)' /\ (\A i \in 1..Len(gaps) : gaps[i].from <= floor)'
  <2>1. GapsSound(gaps, Reach', DOMAIN handed)
    BY <1>0, <1>4, GapsGrow DEF PollerInv, PollTyped
  <2> QED
    BY <1>1, <2>1 DEF PollerInv
<1>9. Polling'
  <2>1. at = "polling" => PollSound(poll, polled)'
    <3> SUFFICES ASSUME at = "polling"
                 PROVE  PollSound(poll, polled)'
        OBVIOUS
    <3>1. PollSound(poll, polled) /\ Running
        BY DEF PollerInv, Polling, Running
    <3>2. Reach' = Reach
        BY <3>1, <1>4
    <3>3. \A t \in DOMAIN poll.read : poll.read[t] \in t..now'
      <4> SUFFICES ASSUME NEW t \in DOMAIN poll.read
                   PROVE  poll.read[t] \in t..now'
        OBVIOUS
      <4>1. t \in visible /\ poll.read[t] \in t..now
        BY <3>1 DEF PollSound
      <4> QED
        BY <4>1, <1>0, <1>1 DEF PollTyped
    <3>4. polled <= now' /\ now' <= polled + MaxPollTime
        BY <1>0, <1>1, <1>2, PollerConstants DEF PollTyped
    <3> QED
        BY <3>1, <3>2, <3>3, <3>4, <1>1 DEF PollSound
  <2>2. \A u \in DOMAIN handed : handed[u] <= now - LiveOverlap - 1 => handed[u] <= now' - LiveOverlap - 1
    BY <1>0, <1>1, PollerConstants DEF PollTyped
  <2> QED
    BY <2>1, <2>2, <1>1, <1>3 DEF PollerInv, Polling
<1>10. Owed' = Owed /\ \A t : Ahead(t) => Ahead(t)'
    BY <1>1, <1>3 DEF Ahead, Owed
<1>11. Covered' /\ BackendSound' /\ PointSound'
    BY <1>1, <1>10 DEF PollerInv, Covered, BackendSound, PointSound, Open, GapsSound
<1>12. ReadKnown'
    BY <1>1, <1>3, <1>4 DEF PollerInv, ReadKnown, FarBack, Open
<1> QED
    BY <1>5, <1>6, <1>7, <1>8, <1>9, <1>11, <1>12 DEF PollerInv

LEMMA PricesArriveKeeps == ASSUME PollerInv, DMarket!PricesArrive PROVE PollerInv'
<1>1. /\ at = "waiting" /\ at' = "idle"
      /\ now' = now /\ visible' = visible /\ latest' = latest /\ floor' = floor /\ gaps' = gaps /\ shown' = shown
      /\ recorded' = recorded /\ poll' = poll /\ polled' = polled /\ pending' = pending /\ point' = point /\ handed' = handed
      /\ start' = start /\ lost' = lost /\ accounted' = accounted
      /\ mishaps' = mishaps /\ outages' = outages /\ unanswered' = unanswered
    BY DEF DMarket!PricesArrive, DMarket!reader, DMarket!ghosts, DMarket!bounds
<1>2. Running /\ Running' /\ polled = 0 /\ latest = 0
    BY <1>1 DEF PollerInv, Polling, Running
<1>3. Reach' = Reach /\ Owed' = Owed
    BY <1>1, <1>2 DEF Reach, Owed
<1>4. PollScalars' /\ PointWhole' /\ PollSets' /\ FloorSound'
  <2>1. PollScalars'
    BY <1>1 DEF PollerInv, PollScalars
  <2> QED
    BY <1>1, <2>1 DEF PollerInv, PointWhole, PollSets, FloorSound
<1>5. GapsSound(gaps, Reach, DOMAIN handed)' /\ (\A i \in 1..Len(gaps) : gaps[i].from <= floor)'
    BY <1>1, <1>3 DEF PollerInv, GapsSound
<1>6. Polling'
    BY <1>1, <1>2 DEF PollerInv, Polling
<1>7. \A t : Ahead(t) => Ahead(t)'
    BY <1>1, <1>2 DEF Ahead
<1>8. Covered' /\ PointSound'
    BY <1>1, <1>3, <1>7 DEF PollerInv, Covered, PointSound, Open, GapsSound
<1>9. BackendSound'
    BY <1>1 DEF BackendSound
<1>10. ReadKnown'
    BY <1>1, <1>2, <1>3 DEF PollerInv, ReadKnown, FarBack, Open
<1> QED
    BY <1>4, <1>5, <1>6, <1>8, <1>9, <1>10 DEF PollerInv

LEMMA RequestFailsKeeps == ASSUME PollerInv, DMarket!RequestFails PROVE PollerInv'
<1>1. /\ at \in {"idle", "polling"} /\ at' = "oldest first" /\ poll' = DMarket!NewPoll /\ polled' = 0 /\ mishaps' = mishaps + 1
      /\ now' = now /\ visible' = visible /\ latest' = latest /\ floor' = floor /\ gaps' = gaps /\ shown' = shown
      /\ recorded' = recorded /\ pending' = pending /\ point' = point /\ handed' = handed
      /\ start' = start /\ lost' = lost /\ accounted' = accounted
      /\ outages' = outages /\ unanswered' = unanswered
    BY DEF DMarket!RequestFails, DMarket!reader, DMarket!ghosts
<1>2. Running /\ Running' /\ DOMAIN pending = {}
    BY <1>1 DEF PollerInv, Polling, Running
<1>3. Reach' = Reach /\ Owed' = Owed
    BY <1>1, <1>2 DEF Reach, Owed
<1>4. PollScalars' /\ PointWhole' /\ PollSets' /\ FloorSound'
  <2>1. mishaps \in Nat /\ mishaps' \in Nat /\ polled' \in 0..now'
    <3>1. mishaps \in Nat
        BY DEF PollerInv, PollScalars
    <3>2. now' \in Nat
        BY <1>1, PollTypes DEF PollTyped
    <3>3. polled' = 0 /\ mishaps' = mishaps + 1
        BY <1>1
    <3> QED
        BY <3>1, <3>2, <3>3
  <2>2. PollScalars'
    BY <1>1, <2>1 DEF PollerInv, PollScalars
  <2> QED
    BY <1>1, <2>2 DEF PollerInv, PointWhole, PollSets, FloorSound
<1>5. GapsSound(gaps, Reach, DOMAIN handed)' /\ (\A i \in 1..Len(gaps) : gaps[i].from <= floor)'
    BY <1>1, <1>3 DEF PollerInv, GapsSound
<1>6. Polling'
    BY <1>1, <1>2 DEF PollerInv, Polling
<1>7. \A t : Ahead(t) => Ahead(t)'
    BY <1>1, <1>2 DEF Ahead
<1>8. Covered' /\ PointSound'
    BY <1>1, <1>3, <1>7 DEF PollerInv, Covered, PointSound, Open, GapsSound
<1>9. BackendSound'
    BY <1>1 DEF BackendSound
<1>10. ReadKnown'
    BY <1>1, <1>2, <1>3 DEF PollerInv, ReadKnown, FarBack, Open
<1> QED
    BY <1>4, <1>5, <1>6, <1>8, <1>9, <1>10 DEF PollerInv

LEMMA RestartKeeps == ASSUME PollerInv, DMarket!Restart PROVE PollerInv'
<1>1. /\ at = "down" /\ at' = "resuming"
      /\ now' = now /\ visible' = visible /\ latest' = latest /\ floor' = floor /\ gaps' = gaps /\ shown' = shown
      /\ recorded' = recorded /\ poll' = poll /\ polled' = polled /\ pending' = pending /\ point' = point /\ handed' = handed
      /\ start' = start /\ lost' = lost /\ accounted' = accounted
      /\ mishaps' = mishaps /\ outages' = outages /\ unanswered' = unanswered
    BY DEF DMarket!Restart, DMarket!reader, DMarket!ghosts, DMarket!bounds
<1>2. point.newest = 0 => \A u \in DOMAIN handed : handed[u] + LiveOverlap < now
    BY DEF DMarket!Restart, PollerInv, PointWhole
<1>3. ~Running /\ ~Running' /\ ~Settled'
    BY <1>1 DEF Running, Settled
<1>4. Reach' = Reach /\ Owed' = Owed
    BY <1>1, <1>3 DEF Reach, Owed
<1>5. PollScalars' /\ PointWhole' /\ PollSets' /\ FloorSound'
  <2>1. PollScalars'
    BY <1>1 DEF PollerInv, PollScalars
  <2> QED
    BY <1>1, <2>1 DEF PollerInv, PointWhole, PollSets, FloorSound
<1>6. GapsSound(gaps, Reach, DOMAIN handed)' /\ (\A i \in 1..Len(gaps) : gaps[i].from <= floor)'
    BY <1>1, <1>4 DEF PollerInv, GapsSound
<1>7. Polling'
  <2>1. point.newest = 0 => \A u \in DOMAIN handed : handed[u] <= now - LiveOverlap - 1
    BY <1>2, PollTypes, PollerConstants DEF PollTyped
  <2> QED
    BY <1>1, <1>3, <2>1 DEF Polling
<1>8. \A t : Ahead(t) => Ahead(t)'
    BY <1>1, <1>3 DEF Ahead
<1>9. Covered' /\ PointSound'
    BY <1>1, <1>4, <1>8 DEF PollerInv, Covered, PointSound, Open, GapsSound
<1>10. BackendSound'
    BY <1>1, <1>4 DEF PollerInv, BackendSound
<1>11. ReadKnown'
    BY <1>3 DEF ReadKnown
<1> QED
    BY <1>5, <1>6, <1>7, <1>9, <1>10, <1>11 DEF PollerInv

LEMMA CrashKeeps == ASSUME PollerInv, NEW redisSurvives \in BOOLEAN, DMarket!Crash(redisSurvives) PROVE PollerInv'
<1>0. PollTyped
    BY PollTypes
<1>1. /\ at' = "down" /\ outages' = outages + 1
      /\ now' = now /\ visible' = visible /\ latest' = latest /\ floor' = floor /\ gaps' = gaps /\ shown' = shown
      /\ recorded' = recorded /\ poll' = poll /\ polled' = polled /\ pending' = pending /\ handed' = handed
      /\ start' = start /\ mishaps' = mishaps /\ unanswered' = unanswered
    BY DEF DMarket!Crash, DMarket!reader
<1>2. point' = point \/ point' = DMarket!NoDoc
    BY DEF DMarket!Crash
<1>3. /\ point' = DMarket!NoDoc => /\ lost' = lost \cup DMarket!Unread(gaps) \cup DOMAIN pending \cup DMarket!Unfinished
                                   /\ accounted' = DOMAIN handed
      /\ point' # DMarket!NoDoc => lost' = lost /\ accounted' = accounted
    BY DEF DMarket!Crash
<1>4. point'.newest = 0 \/ (point' = point /\ point.newest # 0)
    BY <1>2 DEF PollerInv, PointWhole, DMarket!NoDoc
<1>5. point'.newest = 0 => point' = DMarket!NoDoc
    BY <1>2 DEF PollerInv, PointWhole
<1>6. ~Running' /\ ~Settled' /\ Reach' \in Nat /\ Reach <= Reach'
  <2>1. ~Running' /\ ~Settled'
    BY <1>1 DEF Running, Settled
  <2> QED
    BY <1>0, <1>1, <2>1 DEF Reach, PollTyped
<1>7. \A t \in Owed' : t \in Owed
  <2>1. lost \subseteq lost'
    BY <1>3
  <2> QED
    BY <1>1, <2>1 DEF Owed
<1>8. PollScalars' /\ PointWhole' /\ PollSets' /\ FloorSound'
  <2>1. outages \in Nat /\ outages' \in Nat
    <3>1. outages \in Nat
        BY DEF PollerInv, PollScalars
    <3> QED
        BY <1>1, <3>1
  <2>2. PollScalars'
    BY <1>1, <2>1 DEF PollerInv, PollScalars
  <2>3. accounted' \subseteq DOMAIN handed
    BY <1>3 DEF PollerInv, PollSets
  <2>4. PollSets'
    BY <1>1, <2>3 DEF PollerInv, PollSets
  <2>5. FloorSound'
    BY <1>1, <1>4 DEF PollerInv, FloorSound
  <2> QED
    BY <1>5, <2>2, <2>4, <2>5 DEF PointWhole
<1>9. GapsSound(gaps, Reach, DOMAIN handed)' /\ (\A i \in 1..Len(gaps) : gaps[i].from <= floor)'
  <2>1. GapsSound(gaps, Reach', DOMAIN handed)
    BY <1>0, <1>6, GapsGrow DEF PollerInv, PollTyped
  <2> QED
    BY <1>1, <2>1 DEF PollerInv
<1>10. Polling'
    BY <1>1, <1>6 DEF Polling
<1>11. \A t : Ahead(t) => Ahead(t)'
    BY <1>1, <1>6 DEF Ahead
<1>12. Covered'
    BY <1>1, <1>7, <1>11 DEF PollerInv, Covered, Open
<1>13. PointSound'
  <2>1. CASE point'.newest = 0
    BY <2>1 DEF PointSound
  <2>2. CASE point' = point /\ point.newest # 0
    <3>1. point' # DMarket!NoDoc
        BY <2>2 DEF DMarket!NoDoc
    <3>2. lost' = lost /\ accounted' = accounted /\ point' = point
        BY <3>1, <2>2, <1>3
    <3> QED
        BY <1>1, <3>2, <1>7 DEF PollerInv, PointSound, GapsSound, Open
  <2> QED
    BY <1>4, <2>1, <2>2
\* What the backend's newest listing does not lead to is counted as lost.
<1>14. BackendSound'
  <2> SUFFICES ASSUME point'.newest = 0, NEW t \in Owed', t \notin DOMAIN handed, NEW u \in DOMAIN handed
               PROVE  handed[u] - ResumeOverlap <= t
    BY <1>1 DEF BackendSound
  <2>1. lost' = lost \cup DMarket!Unread(gaps) \cup DOMAIN pending \cup DMarket!Unfinished
    BY <1>3, <1>5
  <2>2. t \in Owed /\ t \notin DMarket!Unread(gaps) /\ t \notin DOMAIN pending /\ t \notin DMarket!Unfinished
    BY <1>7, <2>1 DEF Owed
  <2>3. t \in visible /\ t \in Nat /\ 1 <= t /\ t <= now
    BY <2>2, <1>0 DEF Owed, PollTyped
  <2>4. ~Open(gaps, t)
    <3> SUFFICES ASSUME NEW i \in 1..Len(gaps), InGap(gaps[i], t)
                 PROVE  FALSE
        BY DEF Open
    <3>1. t \in DMarket!Times
        BY <1>0, <2>3, PollerConstants DEF PollTyped, DMarket!Times
    <3>2. t \in DMarket!Stretch(gaps[i])
        BY <3>1 DEF InGap, DMarket!Stretch
    <3> QED
        BY <3>2, <2>2 DEF DMarket!Unread
  <2>5. Ahead(t)
    BY <2>2, <2>4 DEF PollerInv, Covered
  <2>6. CASE latest # 0
    BY <2>5, <2>6 DEF Ahead
  <2>7. CASE latest = 0
    <3> DEFINE R == DMarket!Range(handed)
               lastTime == DMarket!Max(R)
    <3>1. R \subseteq 0..now /\ handed[u] \in R
        BY <1>0 DEF DMarket!Range, PollTyped
    <3>2. lastTime \in R /\ handed[u] <= lastTime
      <4> HIDE DEF R
      <4> QED
        BY <3>1, <1>0, MaxOf DEF PollTyped
    <3>3. DMarket!Unfinished = floor..(lastTime - ResumeOverlap - 1)
      <4>1. DOMAIN handed # {}
        OBVIOUS
      <4> QED
        BY <4>1, <2>7 DEF DMarket!Unfinished
    <3>4. t >= floor
        BY <2>5 DEF Ahead
    <3>5. lastTime \in Nat /\ handed[u] \in Nat
        BY <3>1, <3>2, <1>0 DEF PollTyped
    <3> HIDE DEF R, lastTime
    <3>6. ~(t <= lastTime - ResumeOverlap - 1)
        BY <3>3, <3>4, <3>5, <2>2, <2>3, <1>0, PollerConstants DEF PollTyped
    <3> QED
        BY <3>2, <3>5, <3>6, <2>3, PollerConstants
  <2> QED
    BY <2>6, <2>7
<1>15. ReadKnown'
    BY <1>6 DEF ReadKnown
<1> QED
    BY <1>8, <1>9, <1>10, <1>12, <1>13, <1>14, <1>15 DEF PollerInv

LEMMA PollerRests == ASSUME PollerInv, UNCHANGED poller PROVE PollerInv'
<1>1. /\ now' = now /\ visible' = visible /\ at' = at /\ latest' = latest /\ floor' = floor /\ gaps' = gaps /\ shown' = shown
      /\ recorded' = recorded /\ poll' = poll /\ polled' = polled /\ pending' = pending /\ point' = point /\ handed' = handed
      /\ start' = start /\ lost' = lost /\ accounted' = accounted
      /\ mishaps' = mishaps /\ outages' = outages /\ unanswered' = unanswered
    BY DEF poller
<1>2. Running' = Running /\ Settled' = Settled /\ Reach' = Reach /\ Owed' = Owed
    BY <1>1 DEF Running, Settled, Reach, Owed
<1>3. PollScalars' /\ PointWhole' /\ PollSets' /\ FloorSound'
  <2>1. PollScalars'
    BY <1>1 DEF PollerInv, PollScalars
  <2> QED
    BY <1>1, <2>1 DEF PollerInv, PointWhole, PollSets, FloorSound
<1>4. GapsSound(gaps, Reach, DOMAIN handed)' /\ (\A i \in 1..Len(gaps) : gaps[i].from <= floor)'
    BY <1>1, <1>2 DEF PollerInv, GapsSound
<1>5. PollSound(poll, polled) => PollSound(poll, polled)'
    BY <1>1, <1>2 DEF PollSound
<1>6. Polling'
    BY <1>1, <1>2, <1>5 DEF PollerInv, Polling
<1>7. \A t : Ahead(t) => Ahead(t)'
    BY <1>1, <1>2 DEF Ahead
<1>8. Covered' /\ PointSound' /\ BackendSound' /\ ReadKnown'
    BY <1>1, <1>2, <1>7 DEF PollerInv, Covered, PointSound, BackendSound, ReadKnown, FarBack, Open, GapsSound
<1> QED
    BY <1>3, <1>4, <1>6, <1>8 DEF PollerInv

\* What a resume point promises to the listener that starts from it
PointServes(P) ==
    /\ P.newest \in Nat /\ 1 <= P.newest /\ P.newest <= now
    /\ P.recorded \subseteq DOMAIN handed
    /\ \A t \in P.recorded : t <= P.newest
    /\ GapsSound(P.gaps, point.newest, DOMAIN handed)
    /\ P.newest - ResumeOverlap >= point.newest - ResumeOverlap
    /\ \A t \in Owed : t \in DOMAIN handed \/ Open(P.gaps, t) \/ t >= P.newest - ResumeOverlap
    /\ \A t \in accounted : t \in P.recorded \/ t < P.newest - ResumeOverlap
    /\ \A t \in accounted \cup P.recorded : ~Open(P.gaps, t)
    /\ point.newest # 0 => P.newest = point.newest /\ P.recorded = DOMAIN point.recorded
    /\ point.newest = 0 => \E u \in DOMAIN handed : P.newest = handed[u]

LEMMA DocServes ==
    ASSUME PollerInv, point # DMarket!NoDoc
    PROVE  PointServes(DMarket!DocPoint)
<1> DEFINE P == DMarket!DocPoint
<1>1. P.newest = point.newest /\ P.recorded = DOMAIN point.recorded /\ P.gaps = point.gaps
    BY DEF DMarket!DocPoint
<1>2. point.newest # 0
    BY DEF PollerInv, PointWhole
<1>3. PointSound
    BY DEF PollerInv
<1>4. point.newest \in Nat /\ 1 <= point.newest /\ point.newest <= now
    BY <1>2, PollTypes DEF PollTyped
<1>5. accounted \subseteq DOMAIN handed
    BY DEF PollerInv, PollSets
<1>6. /\ GapsSound(point.gaps, point.newest, DOMAIN handed)
      /\ DOMAIN point.recorded \subseteq accounted
      /\ \A t \in DOMAIN point.recorded : t <= point.newest
      /\ \A t \in accounted : ~Open(point.gaps, t) /\ (t \in DOMAIN point.recorded \/ t < point.newest - ResumeOverlap)
      /\ \A t \in Owed : t \in DOMAIN handed \/ Open(point.gaps, t) \/ t >= point.newest - ResumeOverlap
    BY <1>2, <1>3 DEF PointSound
<1>7. point.newest - ResumeOverlap >= point.newest - ResumeOverlap
    BY <1>4, PollerConstants
<1> HIDE DEF P
<1> QED
    BY <1>1, <1>2, <1>4, <1>5, <1>6, <1>7 DEF PointServes, P

LEMMA BackendServes ==
    ASSUME PollerInv, at = "resuming", point = DMarket!NoDoc, DOMAIN handed # {}
    PROVE  PointServes(DMarket!BackendPoint)
<1> DEFINE P == DMarket!BackendPoint
           R == DMarket!Range(handed)
           lastTime == DMarket!Max(R)
<1>0. PollTyped /\ ResumeOverlap \in Nat
    BY PollTypes, PollerConstants
<1>1. P.newest = lastTime /\ P.recorded = {t \in DOMAIN handed : handed[t] >= lastTime - ResumeOverlap} /\ P.gaps = <<>>
    BY DEF DMarket!BackendPoint
<1>2. point.newest = 0
    BY DEF DMarket!NoDoc
<1>3. R \subseteq 0..now /\ R # {} /\ \A u \in DOMAIN handed : handed[u] \in R
    BY <1>0 DEF DMarket!Range, PollTyped
<1>4. lastTime \in R /\ \A u \in DOMAIN handed : handed[u] <= lastTime
  <2> HIDE DEF R
  <2> QED
    BY <1>3, <1>0, MaxOf DEF PollTyped
<1>5. PICK v \in DOMAIN handed : lastTime = handed[v]
    BY <1>4 DEF DMarket!Range
<1> HIDE DEF P, R, lastTime
<1>6. lastTime \in Nat /\ 1 <= lastTime /\ lastTime <= now
    BY <1>0, <1>5 DEF PollTyped
<1>7. P.recorded \subseteq DOMAIN handed /\ \A t \in P.recorded : t <= P.newest
  <2> SUFFICES ASSUME NEW t \in DOMAIN handed
               PROVE  t <= lastTime
    BY <1>1
  <2>1. t <= handed[t] /\ handed[t] <= lastTime /\ t \in Nat /\ handed[t] \in Nat
    BY <1>0, <1>4 DEF PollTyped
  <2> QED
    BY <2>1, <1>6
<1>8. GapsSound(P.gaps, point.newest, DOMAIN handed) /\ \A t : ~Open(P.gaps, t)
    BY <1>1, NoGaps
<1>9. \A t \in Owed : t \in DOMAIN handed \/ t >= lastTime - ResumeOverlap
  <2> SUFFICES ASSUME NEW t \in Owed, t \notin DOMAIN handed
               PROVE  t >= lastTime - ResumeOverlap
    OBVIOUS
  <2>1. handed[v] - ResumeOverlap <= t
    BY <1>2 DEF PollerInv, BackendSound
  <2>2. t \in Nat
    BY <1>0 DEF Owed, PollTyped
  <2> QED
    BY <2>1, <2>2, <1>0, <1>5, <1>6
<1>10. \A t \in accounted : t \in P.recorded \/ t < lastTime - ResumeOverlap
  <2> SUFFICES ASSUME NEW t \in accounted, t \notin P.recorded
               PROVE  t < lastTime - ResumeOverlap
    OBVIOUS
  <2>1. t \in DOMAIN handed
    BY DEF PollerInv, PollSets
  <2>2. ~(handed[t] >= lastTime - ResumeOverlap)
    BY <2>1, <1>1
  <2>3. t <= handed[t] /\ t \in Nat /\ handed[t] \in Nat
    BY <2>1, <1>0 DEF PollTyped
  <2> QED
    BY <2>2, <2>3, <1>0, <1>6
<1>11. lastTime - ResumeOverlap >= point.newest - ResumeOverlap
    BY <1>0, <1>2, <1>6
<1> QED
    BY <1>1, <1>2, <1>5, <1>6, <1>7, <1>8, <1>9, <1>10, <1>11 DEF PointServes, P

LEMMA ResumeFromKeeps ==
    ASSUME PollerInv, at = "resuming", NEW P, PointServes(P), DMarket!ResumeFrom(P),
           at' = "waiting", latest' = 0, poll' = DMarket!NewPoll, polled' = 0, pending' = <<>>,
           now' = now, visible' = visible, point' = point, handed' = handed, accounted' = accounted,
           start' = start, mishaps' = mishaps, outages' = outages, unanswered' = unanswered
    PROVE  PollerInv'
<1> DEFINE oldest == now - MaxCatchUp
<1>0. PollTyped /\ MaxTime \in Nat /\ MaxCatchUp \in Nat /\ ResumeOverlap \in Nat /\ ResumeOverlap <= MaxCatchUp
    BY PollTypes, PollerConstants
<1>1. /\ floor' = DMarket!Later(1, DMarket!Later(P.newest - ResumeOverlap, oldest))
      /\ shown' = P.recorded /\ recorded' = [t \in P.recorded |-> P.newest]
      /\ gaps' = DMarket!Restored(P.gaps, oldest)
      /\ lost' = lost \cup {t \in DMarket!Times : t < oldest}
    BY DEF DMarket!ResumeFrom
<1>2. /\ P.newest \in Nat /\ 1 <= P.newest /\ P.newest <= now
      /\ P.recorded \subseteq DOMAIN handed
      /\ \A t \in P.recorded : t <= P.newest
      /\ GapsSound(P.gaps, point.newest, DOMAIN handed)
      /\ P.newest - ResumeOverlap >= point.newest - ResumeOverlap
    BY DEF PointServes
<1>3. /\ \A t \in Owed : t \in DOMAIN handed \/ Open(P.gaps, t) \/ t >= P.newest - ResumeOverlap
      /\ \A t \in accounted : t \in P.recorded \/ t < P.newest - ResumeOverlap
      /\ \A t \in accounted \cup P.recorded : ~Open(P.gaps, t)
      /\ point.newest # 0 => P.newest = point.newest /\ P.recorded = DOMAIN point.recorded
      /\ point.newest = 0 => \E u \in DOMAIN handed : P.newest = handed[u]
    BY DEF PointServes
<1>4. oldest \in Int
    BY <1>0 DEF PollTyped
<1>5. /\ floor' \in Nat /\ 1 <= floor' /\ P.newest - ResumeOverlap <= floor' /\ oldest <= floor'
      /\ floor' = 1 \/ floor' = P.newest - ResumeOverlap \/ floor' = oldest
  <2> HIDE DEF oldest
  <2> QED
    BY <1>0, <1>1, <1>2, <1>4 DEF DMarket!Later
<1>6. floor' <= MaxTime /\ floor' <= DMarket!Later(1, now - ResumeOverlap)
    BY <1>0, <1>2, <1>5 DEF DMarket!Later, PollTyped
<1>7. DOMAIN recorded' = P.recorded /\ DOMAIN pending' = {} /\ \A t \in P.recorded : recorded'[t] = P.newest
    BY <1>1
<1>8. Running' /\ ~Settled'
    BY DEF Running, Settled
<1>9. Reach' = point.newest
    BY <1>8 DEF Reach
<1>10. /\ GapsSound(gaps', point.newest, DOMAIN handed)
       /\ \A t \in Int : Open(gaps', t) <=> Open(P.gaps, t) /\ oldest <= t
  <2> HIDE DEF oldest
  <2>1. point.newest \in Int
    BY <1>0 DEF PollTyped
  <2> QED
    BY <1>1, <1>2, <1>4, <2>1, GapsRestored
<1>11. \A i \in 1..Len(gaps') : gaps'[i].from <= floor'
  <2> SUFFICES ASSUME NEW i \in 1..Len(gaps')
               PROVE  gaps'[i].from <= floor'
    OBVIOUS
  <2>1. gaps'[i].from <= point.newest - ResumeOverlap /\ gaps'[i].from \in Int
    BY <1>10, GapFields DEF GapsSound
  <2>2. point.newest \in Nat
    BY <1>0 DEF PollTyped
  <2> QED
    BY <2>1, <2>2, <1>0, <1>2, <1>5
<1>12. start # 0
    BY <1>3, <1>2 DEF PollerInv, FloorSound
<1> HIDE DEF oldest
<1>13. PollScalars' /\ PointWhole'
  <2>1. floor' \in 0..MaxTime
    BY <1>0, <1>5, <1>6
  <2>2. latest' \in 0..now' /\ polled' \in 0..now'
    BY <1>0 DEF PollTyped
  <2>3. PollScalars'
    BY <2>1, <2>2 DEF PollerInv, PollScalars
  <2> QED
    BY <2>3 DEF PollerInv, PointWhole
<1>14. PollSets'
  <2>1. PollSets /\ P.newest \in Int
    BY <1>2 DEF PollerInv
  <2>2. shown' \subseteq visible /\ DOMAIN recorded' \subseteq DOMAIN handed
    BY <2>1, <1>1, <1>2, <1>7 DEF PollSets
  <2>3. \A t \in DOMAIN recorded' : recorded'[t] \in Int /\ t <= recorded'[t]
    BY <1>2, <1>7, <2>1
  <2>4. shown' \cap Worthy \subseteq DOMAIN handed
    BY <1>1, <1>2
  <2> QED
    BY <2>1, <2>2, <2>3, <2>4, <1>7 DEF PollSets
<1>15. FloorSound'
    BY <1>5, <1>6, <1>12 DEF FloorSound
<1>16. Polling'
    BY <1>7, <1>8 DEF PollerInv, Polling
<1>17. \A t \in Owed' : t \in Owed /\ t >= oldest /\ t \in Nat /\ 1 <= t
  <2> SUFFICES ASSUME NEW t \in Owed'
               PROVE  t \in Owed /\ t >= oldest /\ t \in Nat /\ 1 <= t
    OBVIOUS
  <2>1. t \in visible /\ t \in Owed /\ ~(t \in DMarket!Times /\ t < oldest)
    BY <1>1 DEF Owed
  <2>2. t \in Nat /\ 1 <= t /\ t <= MaxTime
    BY <2>1, <1>0 DEF PollTyped
  <2> QED
    BY <2>1, <2>2, <1>0, <1>4 DEF DMarket!Times
<1>18. Covered'
  <2> SUFFICES ASSUME NEW t \in Owed', t \notin DOMAIN handed, ~Open(gaps', t)
               PROVE  Ahead(t)'
    BY DEF Covered
  <2>1. t \in Owed /\ t >= oldest /\ t \in Nat /\ 1 <= t
    BY <1>17
  <2>2. t >= P.newest - ResumeOverlap
    BY <2>1, <1>3, <1>4, <1>10
  <2>3. t >= floor'
    BY <2>1, <2>2, <1>5
  <2>4. t \notin shown'
    BY <1>1, <1>2
  <2> QED
    BY <2>3, <2>4, <1>8 DEF Ahead
<1>19. PointSound'
    BY <1>17 DEF PollerInv, PointSound, GapsSound, Open
<1>20. BackendSound'
    BY DEF BackendSound
<1>21. ReadKnown'
  <2>1. accounted \subseteq DOMAIN handed /\ \A t \in DOMAIN handed : t \in Nat
    BY <1>0 DEF PollerInv, PollSets, PollTyped
  <2>2. \A t \in accounted : t \in DOMAIN recorded' \/ (t < floor' /\ FarBack(t)')
    <3> SUFFICES ASSUME NEW t \in accounted, t \notin DOMAIN recorded'
                 PROVE  t < floor' /\ FarBack(t)'
        OBVIOUS
    <3>1. t < P.newest - ResumeOverlap /\ t \in Nat
        BY <1>3, <1>7, <2>1
    <3>2. t < floor'
        BY <3>1, <1>0, <1>2, <1>5
    <3>3. FarBack(t)'
        BY <3>1, <1>3, <1>9 DEF FarBack
    <3> QED
        BY <3>2, <3>3
  <2>3. \A t \in accounted \cup DOMAIN recorded' \cup DOMAIN pending' : ~Open(gaps', t)
    BY <2>1, <1>2, <1>3, <1>7, <1>10
  <2> QED
    BY <2>2, <2>3, <1>1, <1>3, <1>7 DEF ReadKnown, Open
<1> QED
    BY <1>9, <1>10, <1>11, <1>13, <1>14, <1>15, <1>16, <1>18, <1>19, <1>20, <1>21 DEF PollerInv

LEMMA StartAnewKeeps ==
    ASSUME PollerInv, DOMAIN handed = {}, point = DMarket!NoDoc, DMarket!StartAnew,
           at' = "waiting", latest' = 0, poll' = DMarket!NewPoll, polled' = 0, pending' = <<>>,
           now' = now, visible' = visible, point' = point, handed' = handed, accounted' = accounted,
           start' = 0, mishaps' = mishaps, outages' = outages, unanswered' = unanswered
    PROVE  PollerInv'
<1>0. PollTyped /\ MaxTime \in Nat
    BY PollTypes, PollerConstants
<1>1. floor' = 0 /\ gaps' = <<>> /\ shown' = {} /\ recorded' = <<>> /\ lost' = lost /\ point.newest = 0
    BY DEF DMarket!StartAnew, DMarket!NoDoc
<1>2. DOMAIN recorded' = {} /\ DOMAIN pending' = {} /\ accounted = {}
    BY <1>1 DEF PollerInv, PollSets
<1>3. PollScalars' /\ PointWhole'
  <2>1. floor' \in 0..MaxTime /\ start' \in 0..MaxTime /\ latest' \in 0..now' /\ polled' \in 0..now'
    BY <1>0, <1>1 DEF PollTyped
  <2>2. PollScalars'
    BY <2>1 DEF PollerInv, PollScalars
  <2> QED
    BY <2>2 DEF PollerInv, PointWhole
<1>4. PollSets'
    BY <1>1, <1>2 DEF PollerInv, PollSets
<1>5. FloorSound'
    BY <1>1 DEF FloorSound
<1>6. GapsSound(gaps, Reach, DOMAIN handed)' /\ (\A i \in 1..Len(gaps) : gaps[i].from <= floor)'
    BY <1>1, NoGaps
<1>7. Polling'
    BY <1>2 DEF Polling
<1>8. Owed' = {}
    BY DEF Owed
<1>9. Covered' /\ PointSound' /\ BackendSound'
    BY <1>1, <1>8 DEF Covered, PointSound, BackendSound
<1>10. ReadKnown'
    BY <1>1, <1>2 DEF ReadKnown
<1> QED
    BY <1>3, <1>4, <1>5, <1>6, <1>7, <1>9, <1>10 DEF PollerInv

LEMMA ResumeKeeps == ASSUME PollerInv, DMarket!Resume PROVE PollerInv'
<1>1. /\ at = "resuming" /\ at' = "waiting" /\ latest' = 0 /\ poll' = DMarket!NewPoll /\ polled' = 0 /\ pending' = <<>>
      /\ now' = now /\ visible' = visible /\ point' = point /\ handed' = handed /\ accounted' = accounted
      /\ mishaps' = mishaps /\ outages' = outages
    BY DEF DMarket!Resume
<1>2. \/ point # DMarket!NoDoc /\ DMarket!ResumeFrom(DMarket!DocPoint) /\ start' = start /\ unanswered' = unanswered
      \/ /\ point = DMarket!NoDoc /\ DOMAIN handed # {} /\ DMarket!ResumeFrom(DMarket!BackendPoint)
         /\ start' = start /\ unanswered' = unanswered
      \/ point = DMarket!NoDoc /\ DOMAIN handed = {} /\ DMarket!StartAnew /\ start' = 0 /\ unanswered' = unanswered
      \/ unanswered < 0
    BY DEF DMarket!Resume
<1>3. CASE point # DMarket!NoDoc /\ DMarket!ResumeFrom(DMarket!DocPoint) /\ start' = start /\ unanswered' = unanswered
    BY <1>1, <1>3, DocServes, ResumeFromKeeps
<1>4. CASE /\ point = DMarket!NoDoc /\ DOMAIN handed # {} /\ DMarket!ResumeFrom(DMarket!BackendPoint)
           /\ start' = start /\ unanswered' = unanswered
    BY <1>1, <1>4, BackendServes, ResumeFromKeeps
<1>5. CASE point = DMarket!NoDoc /\ DOMAIN handed = {} /\ DMarket!StartAnew /\ start' = 0 /\ unanswered' = unanswered
    BY <1>1, <1>5, StartAnewKeeps
<1>6. ~(unanswered < 0)
  <2>1. unanswered \in Nat
    BY DEF PollerInv, PollScalars
  <2> QED
    BY <2>1
<1> QED
    BY <1>2, <1>3, <1>4, <1>5, <1>6

LEMMA HandOnKeeps == ASSUME PollerInv, DMarket!HandOn PROVE PollerInv'
<1> DEFINE x == IF at = "oldest first" THEN DMarket!Min(DOMAIN pending) ELSE DMarket!Max(DOMAIN pending)
<1>0. PollTyped /\ PollSets /\ ResumeOverlap \in Nat
    BY PollTypes, PollerConstants DEF PollerInv
<1>1. /\ at \in {"oldest first", "newest first"} /\ DOMAIN pending # {}
      /\ recorded' = DMarket!With(recorded, x, x) /\ handed' = DMarket!With(handed, x, pending[x])
      /\ pending' = DMarket!Restrict(pending, DOMAIN pending \ {x})
      /\ now' = now /\ visible' = visible /\ at' = at /\ latest' = latest /\ floor' = floor /\ gaps' = gaps /\ shown' = shown
      /\ poll' = poll /\ polled' = polled /\ point' = point
      /\ start' = start /\ lost' = lost /\ accounted' = accounted
      /\ mishaps' = mishaps /\ outages' = outages /\ unanswered' = unanswered
    BY DEF DMarket!HandOn, DMarket!ghosts, DMarket!bounds
<1>2. x \in DOMAIN pending
  <2>1. DOMAIN pending \subseteq 0..now /\ DOMAIN pending \subseteq Nat /\ now \in Nat
    BY <1>0 DEF PollTyped
  <2>2. DMarket!Min(DOMAIN pending) \in DOMAIN pending
    BY <1>1, <2>1, MinOf
  <2>3. DMarket!Max(DOMAIN pending) \in DOMAIN pending
    BY <1>1, <2>1, MaxOf
  <2> QED
    BY <2>2, <2>3
<1> HIDE DEF x
<1>3. DOMAIN handed' = DOMAIN handed \cup {x} /\ \A u \in DOMAIN handed' : handed'[u] = IF u = x THEN pending[x] ELSE handed[u]
    BY <1>1 DEF DMarket!With
<1>4. DOMAIN recorded' = DOMAIN recorded \cup {x} /\ \A u \in DOMAIN recorded' : recorded'[u] = IF u = x THEN x ELSE recorded[u]
    BY <1>1 DEF DMarket!With
<1>5. DOMAIN pending' = DOMAIN pending \ {x} /\ \A u \in DOMAIN pending' : pending'[u] = pending[u]
    BY <1>1, <1>2 DEF DMarket!Restrict
<1>6. Running /\ Running' /\ Settled' = Settled
    BY <1>1 DEF Running, Settled
<1>7. latest # 0 /\ start # 0
    BY <1>1, <1>6 DEF PollerInv, Polling, FloorSound
<1>8. Reach' = Reach /\ Owed' = Owed
    BY <1>1, <1>7 DEF Reach, Owed
<1>9. x \in shown /\ x \in Worthy /\ x \in visible /\ x \in Nat
    BY <1>0, <1>2 DEF PollSets, PollTyped
<1>10. pending[x] \in x..now
    BY <1>0, <1>2 DEF PollSets
<1>11. PollScalars' /\ PointWhole'
  <2>1. PollScalars'
    BY <1>1 DEF PollerInv, PollScalars
  <2> QED
    BY <1>1, <2>1 DEF PollerInv, PointWhole
<1>12. PollSets'
  <2>1. DOMAIN handed' \subseteq visible \cap Worthy /\ accounted \subseteq DOMAIN handed' /\ DOMAIN recorded' \subseteq DOMAIN handed'
    BY <1>0, <1>3, <1>4, <1>9 DEF PollSets
  <2>2. \A u \in DOMAIN handed' : handed'[u] \in u..now
    BY <1>0, <1>3, <1>10 DEF PollSets
  <2>3. DOMAIN pending' \subseteq shown \cap Worthy /\ \A u \in DOMAIN pending' : pending'[u] \in u..now
    BY <1>0, <1>5 DEF PollSets
  <2>4. \A u \in DOMAIN recorded' : recorded'[u] \in Int /\ u <= recorded'[u]
    BY <1>0, <1>4, <1>9 DEF PollSets
  <2>5. shown \cap Worthy \subseteq DOMAIN handed' \cup DOMAIN pending'
    BY <1>0, <1>3, <1>5 DEF PollSets
  <2> QED
    BY <1>0, <1>1, <2>1, <2>2, <2>3, <2>4, <2>5 DEF PollSets
<1>13. FloorSound'
    BY <1>1, <1>7 DEF PollerInv, FloorSound
<1>14. GapsSound(gaps, Reach, DOMAIN handed)' /\ (\A i \in 1..Len(gaps) : gaps[i].from <= floor)'
  <2>1. Reach \in Int /\ Reach <= Reach /\ DOMAIN handed \subseteq DOMAIN handed'
    BY <1>0, <1>3 DEF PollTyped
  <2>2. GapsSound(gaps, Reach, DOMAIN handed')
    BY <2>1, GapsGrow DEF PollerInv
  <2> QED
    BY <1>1, <1>8, <2>2 DEF PollerInv
<1>15. Polling'
    BY <1>1, <1>6, <1>7 DEF PollerInv, Polling
<1>16. ASSUME NEW t \in Owed, Ahead(t)
       PROVE  Ahead(t)'
  <2>1. /\ t >= floor /\ t \notin shown /\ \A u \in DOMAIN handed : handed[u] - ResumeOverlap <= t
        /\ \A u \in DOMAIN pending : pending[u] - ResumeOverlap <= t
        /\ Settled /\ polled # 0 => polled - LiveOverlap <= t
    BY <1>7, <1>16 DEF Ahead
  <2>2. \A u \in DOMAIN handed' : handed'[u] - ResumeOverlap <= t
    BY <1>2, <1>3, <2>1
  <2>3. \A u \in DOMAIN pending' : pending'[u] - ResumeOverlap <= t
    BY <1>5, <2>1
  <2> QED
    BY <1>1, <1>6, <2>1, <2>2, <2>3 DEF Ahead
<1>17. Covered'
  <2> SUFFICES ASSUME NEW t \in Owed, t \notin DOMAIN handed', t \notin DOMAIN pending', ~Ahead(t)', ~Open(gaps', t)
               PROVE  FALSE
    BY <1>8 DEF Covered
  <2>1. t \notin DOMAIN handed /\ t \notin DOMAIN pending
    BY <1>3, <1>5
  <2> QED
    BY <2>1, <1>1, <1>16 DEF PollerInv, Covered, Open
<1>18. PointSound'
  <2> SUFFICES ASSUME point.newest # 0
               PROVE  PointSound'
    BY <1>1 DEF PointSound
  <2>1. point.newest \in Int /\ point.newest <= point.newest /\ DOMAIN handed \subseteq DOMAIN handed'
    BY <1>0, <1>3 DEF PollTyped
  <2>2. GapsSound(point.gaps, point.newest, DOMAIN handed')
    BY <2>1, GapsGrow DEF PollerInv, PointSound
  <2> QED
    BY <1>1, <1>8, <2>1, <2>2 DEF PollerInv, PointSound, Open
<1>19. BackendSound'
    BY <1>1 DEF BackendSound
<1>20. ReadKnown'
  <2>1. ReadKnown
    BY DEF PollerInv
  <2>2. \A t : FarBack(t)' <=> FarBack(t)
    BY <1>1, <1>7, <1>8 DEF FarBack
  <2>3. DOMAIN recorded' \subseteq shown
    BY <2>1, <1>4, <1>6, <1>9 DEF ReadKnown
  <2>4. \A t \in accounted : t \in DOMAIN recorded' \/ (t < floor /\ FarBack(t))
    BY <2>1, <1>4, <1>6 DEF ReadKnown
  <2>5. \A t \in accounted \cup DOMAIN recorded' \cup DOMAIN pending' : ~Open(gaps, t)
    BY <2>1, <1>2, <1>4, <1>5, <1>6 DEF ReadKnown
  <2>6. DOMAIN pending' \cap accounted = {}
    BY <2>1, <1>5, <1>6 DEF ReadKnown
  <2> QED
    BY <1>1, <1>7, <2>2, <2>3, <2>4, <2>5, <2>6 DEF ReadKnown, Open
<1> QED
    BY <1>11, <1>12, <1>13, <1>14, <1>15, <1>17, <1>18, <1>19, <1>20 DEF PollerInv

LEMMA SaveKeeps == ASSUME PollerInv, DMarket!Save PROVE PollerInv'
<1>0. PollTyped /\ PollSets /\ ResumeOverlap \in Nat /\ LiveOverlap \in Nat /\ LiveOverlap <= ResumeOverlap
    BY PollTypes, PollerConstants DEF PollerInv
<1>1. /\ at \in {"oldest first", "newest first"} /\ DOMAIN pending = {}
      /\ at' = IF DMarket!Started THEN "idle" ELSE "resuming"
      /\ recorded' = IF latest = 0 THEN recorded ELSE DMarket!Near
      /\ now' = now /\ visible' = visible /\ latest' = latest /\ floor' = floor /\ gaps' = gaps /\ shown' = shown
      /\ poll' = poll /\ polled' = polled /\ pending' = pending /\ handed' = handed
      /\ start' = start /\ lost' = lost /\ outages' = outages /\ unanswered' = unanswered
    BY DEF DMarket!Save
<1>2. \/ point' = DMarket!Document /\ accounted' = accounted \cup DOMAIN recorded /\ mishaps' = mishaps
      \/ latest # 0 /\ mishaps' = mishaps + 1 /\ point' = point /\ accounted' = accounted
    BY DEF DMarket!Save
<1>3. Running /\ Settled /\ ~(at' = "polling") /\ ~(at' = "waiting")
    BY <1>1 DEF Running, Settled
<1>4. DMarket!Started <=> latest # 0 \/ floor # 0
    BY DEF DMarket!Started
<1>5. PollScalars'
  <2>1. mishaps \in Nat
    BY DEF PollerInv, PollScalars
  <2>2. mishaps' \in Nat
    BY <2>1, <1>2
  <2> QED
    BY <1>1, <2>2 DEF PollerInv, PollScalars
<1>6. Owed' = Owed
    BY <1>1 DEF Owed
<1>7. \A t : Ahead(t) => Ahead(t)'
  <2>1. Settled' => Settled
    BY <1>3
  <2> QED
    BY <1>1, <2>1 DEF Ahead
<1>8. Covered'
    BY <1>1, <1>6, <1>7 DEF PollerInv, Covered, Open
\* Nothing was read by this process.
<1>9. CASE latest = 0
  <2>1. recorded' = recorded /\ point' = point /\ accounted' = accounted \cup DOMAIN recorded
    BY <1>1, <1>2, <1>9 DEF DMarket!Document
  <2>2. accounted' \subseteq DOMAIN handed
    BY <2>1, <1>0 DEF PollSets
  <2>3. point.newest # 0 => accounted' = accounted
    BY <2>1, <1>3, <1>9 DEF PollerInv, ReadKnown, PointSound
  <2>4. PointWhole' /\ PollSets' /\ FloorSound'
    <3>1. PollSets'
        BY <1>0, <1>1, <2>1, <2>2 DEF PollSets
    <3> QED
        BY <3>1, <1>1, <2>1 DEF PollerInv, PointWhole, FloorSound
  <2>5. PointSound'
    BY <1>1, <1>6, <2>1, <2>3 DEF PollerInv, PointSound, GapsSound, Open
  <2>6. CASE floor # 0
    <3>1. at' = "idle" /\ Running'
        BY <2>6, <1>1, <1>4 DEF Running
    <3>2. Reach' = Reach
        BY <3>1, <1>1, <1>3, <2>1 DEF Reach
    <3>3. GapsSound(gaps, Reach, DOMAIN handed)' /\ (\A i \in 1..Len(gaps) : gaps[i].from <= floor)'
        BY <1>1, <3>2 DEF PollerInv, GapsSound
    <3>4. Polling'
        BY <1>1, <1>3, <1>9, <2>1, <3>1 DEF PollerInv, Polling
    <3>5. BackendSound'
        BY <3>1 DEF BackendSound
    <3>6. ReadKnown'
      <4>1. \A t : FarBack(t)' <=> FarBack(t)
        BY <1>1, <2>1, <3>2 DEF FarBack
      <4>2. DOMAIN pending' = {} /\ ReadKnown
        BY <1>1 DEF PollerInv
      <4> QED
        BY <1>1, <1>3, <2>1, <2>3, <4>1, <4>2 DEF ReadKnown, Open
    <3> QED
        BY <1>5, <1>8, <2>4, <2>5, <3>3, <3>4, <3>5, <3>6 DEF PollerInv
  <2>7. CASE floor = 0
    <3>1. at' = "resuming" /\ ~Running'
        BY <1>9, <2>7, <1>1, <1>4 DEF Running
    <3>2. start = 0 /\ gaps = <<>> /\ DOMAIN handed = {}
        BY <2>7 DEF PollerInv, FloorSound
    <3>3. GapsSound(gaps, Reach, DOMAIN handed)' /\ (\A i \in 1..Len(gaps) : gaps[i].from <= floor)'
      <4>1. GapsSound(<<>>, Reach', DOMAIN handed)
        BY NoGaps
      <4> QED
        BY <1>1, <3>2, <4>1 DEF PollerInv
    <3>4. Polling'
        BY <1>1, <3>1, <3>2 DEF Polling
    <3>5. BackendSound'
        BY <1>1, <3>2 DEF BackendSound, Owed
    <3>6. ReadKnown'
        BY <3>1 DEF ReadKnown
    <3> QED
        BY <1>5, <1>8, <2>4, <2>5, <3>3, <3>4, <3>5, <3>6 DEF PollerInv
  <2> QED
    BY <2>6, <2>7
<1>10. CASE latest # 0
  <2>1. at' = "idle" /\ Running'
    BY <1>10, <1>1, <1>4 DEF Running
  <2>2. DOMAIN recorded' = {t \in DOMAIN recorded : recorded[t] >= latest - ResumeOverlap}
        /\ \A t \in DOMAIN recorded' : recorded'[t] = recorded[t]
    BY <1>1, <1>10 DEF DMarket!Near, DMarket!Restrict
  <2>3. \/ /\ point' = [newest |-> latest, recorded |-> recorded', gaps |-> gaps]
           /\ accounted' = accounted \cup DOMAIN recorded
        \/ point' = point /\ accounted' = accounted
    BY <1>1, <1>2, <1>10 DEF DMarket!Document
  <2>4. Reach' = latest /\ Reach = latest
    BY <1>1, <1>10 DEF Reach
  <2>5. start # 0 /\ floor = DMarket!Later(1, latest - LiveOverlap)
    BY <1>10 DEF PollerInv, FloorSound
  <2>6. latest - ResumeOverlap <= floor
    BY <2>5, <1>0 DEF DMarket!Later, PollTyped
  <2>7. ReadKnown /\ Running
    BY <1>3 DEF PollerInv
  <2>8. PointWhole'
    BY <2>3, <1>10 DEF PollerInv, PointWhole
  <2>9. PollSets'
    BY <1>0, <1>1, <2>2, <2>3 DEF PollSets
  <2>10. FloorSound'
    BY <1>1, <2>5 DEF PollerInv, FloorSound
  <2>11. GapsSound(gaps, Reach, DOMAIN handed)' /\ (\A i \in 1..Len(gaps) : gaps[i].from <= floor)'
    BY <1>1, <2>4 DEF PollerInv, GapsSound
  <2>12. Polling'
    BY <1>1, <1>3, <1>10, <2>1 DEF PollerInv, Polling
  <2>13. BackendSound'
    BY <2>1 DEF BackendSound
\* What was recorded before the resume point's reach lies further back than a listener that starts reads.
  <2>14. \A t \in DOMAIN recorded : t \in DOMAIN recorded' \/ t < latest - ResumeOverlap
    <3> SUFFICES ASSUME NEW t \in DOMAIN recorded, t \notin DOMAIN recorded'
                 PROVE  t < latest - ResumeOverlap
        OBVIOUS
    <3>1. ~(recorded[t] >= latest - ResumeOverlap)
        BY <2>2
    <3>2. recorded[t] \in Int /\ t <= recorded[t] /\ t \in Nat
        BY <1>0 DEF PollTyped
    <3> QED
        BY <3>1, <3>2, <1>0 DEF PollTyped
  <2>15. \A t \in accounted \cup DOMAIN recorded : t \in DOMAIN recorded' \/ t < latest - ResumeOverlap
    <3> SUFFICES ASSUME NEW t \in accounted, t \notin DOMAIN recorded
                 PROVE  t < latest - ResumeOverlap
        BY <2>14
    <3>1. FarBack(t)
        BY <2>7 DEF ReadKnown
    <3> QED
        BY <3>1, <1>10, <2>4 DEF FarBack
  <2>16. \A t \in accounted' : t \in accounted \cup DOMAIN recorded
    BY <2>3
  <2>17. \A t \in accounted \cup DOMAIN recorded : t \in Nat
    BY <1>0 DEF PollSets, PollTyped
  <2>18. ReadKnown'
    <3>1. DOMAIN recorded' \subseteq shown /\ DOMAIN pending' = {}
        BY <2>2, <2>7, <1>1 DEF ReadKnown
    <3>2. \A t \in accounted' : t \in DOMAIN recorded' \/ (t < floor /\ FarBack(t)')
      <4> SUFFICES ASSUME NEW t \in accounted', t \notin DOMAIN recorded'
                   PROVE  t < floor /\ FarBack(t)'
        OBVIOUS
      <4>1. t < latest - ResumeOverlap /\ t \in Nat
        BY <2>15, <2>16, <2>17
      <4>2. t < floor
        BY <4>1, <2>6, <1>0 DEF PollTyped
      <4>3. FarBack(t)'
        BY <4>1, <2>4, <1>1, <1>10 DEF FarBack
      <4> QED
        BY <4>2, <4>3
    <3>3. \A t \in accounted' \cup DOMAIN recorded' : ~Open(gaps, t)
        BY <2>2, <2>7, <2>16 DEF ReadKnown
    <3> QED
        BY <1>1, <1>10, <3>1, <3>2, <3>3 DEF ReadKnown, Open
  <2>19. PointSound'
    <3>1. CASE point' = point /\ accounted' = accounted
        BY <3>1, <1>1, <1>6 DEF PollerInv, PointSound, GapsSound, Open
    <3>2. CASE /\ point' = [newest |-> latest, recorded |-> recorded', gaps |-> gaps]
               /\ accounted' = accounted \cup DOMAIN recorded
      <4>1. point'.newest = latest /\ point'.recorded = recorded' /\ point'.gaps = gaps
        BY <3>2
      <4>2. latest \in visible /\ \A t \in shown : t <= latest
        BY <1>0, <1>10 DEF PollSets
      <4>3. GapsSound(gaps, latest, DOMAIN handed)
        BY <2>4 DEF PollerInv
      <4>4. DOMAIN recorded' \subseteq accounted' /\ \A t \in DOMAIN recorded' : t <= latest
        BY <3>2, <2>2, <2>7, <4>2 DEF ReadKnown
      <4>5. \A t \in accounted' : ~Open(gaps, t) /\ (t \in DOMAIN recorded' \/ t < latest - ResumeOverlap)
        BY <2>7, <2>15, <2>16 DEF ReadKnown
      <4>6. \A t \in Owed : t \in DOMAIN handed \/ Open(gaps, t) \/ t >= latest - ResumeOverlap
        <5> SUFFICES ASSUME NEW t \in Owed, t \notin DOMAIN handed, ~Open(gaps, t)
                     PROVE  t >= latest - ResumeOverlap
            OBVIOUS
        <5>1. Ahead(t)
            BY <1>1 DEF PollerInv, Covered
        <5>2. t >= floor /\ t \in Nat
            BY <5>1, <1>0 DEF Ahead, Owed, PollTyped
        <5> QED
            BY <5>2, <2>6, <1>0 DEF PollTyped
      <4>7. visible' = visible /\ handed' = handed /\ Owed' = Owed
        BY <1>1, <1>6
      <4> QED
        BY <4>1, <4>2, <4>3, <4>4, <4>5, <4>6, <4>7 DEF PointSound, GapsSound, Open
    <3> QED
        BY <2>3, <3>1, <3>2
  <2> QED
    BY <1>5, <1>8, <2>8, <2>9, <2>10, <2>11, <2>12, <2>13, <2>18, <2>19 DEF PollerInv
<1> QED
    BY <1>9, <1>10

LEMMA CatchUpKeeps == ASSUME PollerInv, DMarket!CatchUpPage PROVE PollerInv'
<1> DEFINE g == gaps[1]
           page == DMarket!Page(g.from)
           fresh == {t \in page : t >= g.until /\ t \notin shown /\ t \notin g.skip}
           ended == DMarket!LastPage(g.from) \/ \E t \in page : t < g.until
           m == DMarket!Min(page)
<1>0. PollTyped /\ PollSets /\ ResumeOverlap \in Nat /\ LiveOverlap \in Nat /\ LiveOverlap + 1 <= ResumeOverlap /\ MaxTime \in Nat
    BY PollTypes, PollerConstants DEF PollerInv
<1>1. gaps # <<>> /\ GapsSound(gaps, Reach, DOMAIN handed) /\ Reach \in Int /\ ReadKnown
  <2>1. gaps # <<>>
    BY DEF DMarket!CatchUpPage
  <2>2. Reach \in Int
    BY <1>0 DEF PollTyped
  <2> QED
    BY <2>1, <2>2 DEF PollerInv
<1>2. /\ Len(gaps) >= 1 /\ Head(gaps) = g /\ g \in GapRecords
      /\ GapsSound(Tail(gaps), Reach, DOMAIN handed)
      /\ \A t : Open(gaps, t) <=> InGap(g, t) \/ Open(Tail(gaps), t)
      /\ \A t \in Int : Open(Tail(gaps), t) => g.from <= t
    BY <1>1, GapsAfter
<1>3. /\ at = "idle" /\ polled # 0 /\ now <= polled + 1 /\ at' = "newest first"
      /\ shown' = shown \cup fresh
      /\ gaps' = IF ended THEN Tail(gaps) ELSE [gaps EXCEPT ![1] = [g EXCEPT !.from = m]]
      /\ pending' = DMarket!Restrict([t \in fresh |-> now], DOMAIN [t \in fresh |-> now] \cap Worthy)
      /\ now' = now /\ visible' = visible /\ latest' = latest /\ floor' = floor /\ recorded' = recorded
      /\ poll' = poll /\ polled' = polled /\ point' = point /\ handed' = handed
      /\ start' = start /\ lost' = lost /\ accounted' = accounted
      /\ mishaps' = mishaps /\ outages' = outages /\ unanswered' = unanswered
  <2> HIDE DEF g
  <2> QED
    BY <1>2 DEF DMarket!CatchUpPage, DMarket!HandOver, DMarket!NextGap, DMarket!ghosts, DMarket!bounds
<1>4. g.from \in Int /\ g.until \in Int /\ 1 <= g.until /\ g.until <= g.from /\ g.from <= Reach - ResumeOverlap /\ g.from <= floor
  <2>1. 1 \in 1..Len(gaps)
    BY <1>2, <1>1, GapFields DEF GapsSound
  <2>2. g.from \in Int /\ g.until \in Int
    BY <1>2 DEF GapRecords
  <2> QED
    BY <2>1, <2>2, <1>1 DEF PollerInv, GapsSound
<1> HIDE DEF g
<1>5. Running /\ Running' /\ Settled /\ Settled' /\ DOMAIN pending = {}
    BY <1>3 DEF PollerInv, Polling, Running, Settled
<1>6. latest # 0 /\ poll = DMarket!NewPoll
    BY <1>3, <1>5 DEF PollerInv, Polling
<1>7. Reach = latest /\ Reach' = Reach /\ Owed' = Owed /\ start # 0
  <2>1. Reach = latest /\ Reach' = Reach
    BY <1>3, <1>6 DEF Reach
  <2>2. Owed' = Owed
    BY <1>3 DEF Owed
  <2> QED
    BY <2>1, <2>2, <1>6 DEF PollerInv, FloorSound
<1>8. PageSound(g.from)
  <2>1. now \in 1..MaxTime /\ visible \subseteq 1..now
    BY <1>0 DEF PollTyped
  <2>2. g.from \in 1..(MaxTime + 1)
    BY <1>0, <1>4 DEF PollTyped
  <2> QED
    BY <2>1, <2>2, Pages
<1>9. /\ \A t \in page : t \in visible /\ t < g.from /\ t \in Nat
      /\ \A t \in page, u \in visible : t <= u /\ u < g.from => u \in page
      /\ DMarket!LastPage(g.from) => \A t \in visible : t < g.from => t \in page
  <2>1. \A t \in page : t \in visible /\ t < g.from
    BY <1>8 DEF PageSound
  <2> QED
    BY <2>1, <1>8, <1>0 DEF PageSound, PollTyped
<1>10. \A t \in fresh : t \in page /\ t >= g.until /\ t \notin shown /\ t \notin g.skip
    OBVIOUS
<1>11. \A t \in page : t >= g.until /\ t \notin shown /\ t \notin g.skip => t \in fresh
    OBVIOUS
<1>12. ~ended => /\ m \in page /\ \A t \in page : m <= t
                 /\ g.until <= m /\ m <= g.from
  <2> SUFFICES ASSUME ~ended
               PROVE  /\ m \in page /\ \A t \in page : m <= t
                      /\ g.until <= m /\ m <= g.from
    OBVIOUS
  <2>1. page # {} /\ \A t \in page : ~(t < g.until)
    BY <1>8 DEF PageSound
  <2>2. page \subseteq Nat
    BY <1>9
  <2> HIDE DEF page
  <2>3. m \in page /\ \A t \in page : m <= t
    BY <2>1, <2>2, MinOf
  <2> HIDE DEF m
  <2>4. m \in Nat /\ ~(m < g.until) /\ m < g.from
    BY <2>1, <2>3, <1>9
  <2> QED
    BY <2>3, <2>4, <1>4
\* What of the gap is left
<1>14. /\ GapsSound(gaps', Reach, DOMAIN handed)
       /\ \A t : Open(gaps', t) <=> (~ended /\ g.until <= t /\ t < m /\ t \notin g.skip) \/ Open(Tail(gaps), t)
  <2>1. CASE ended
    BY <2>1, <1>2, <1>3
  <2>2. CASE ~ended
    <3> DEFINE r == [gaps EXCEPT ![1] = [g EXCEPT !.from = m]]
    <3>1. gaps' = r
        BY <2>2, <1>3
    <3>2. m \in page /\ g.until <= m /\ m <= g.from
        BY <2>2, <1>12
    <3> HIDE DEF m, r, page
    <3>3. m \in Int
        BY <3>2, <1>9
    <3>4. /\ GapsSound(r, Reach, DOMAIN handed)
          /\ \A t : Open(r, t) <=> (g.until <= t /\ t < m /\ t \notin g.skip) \/ Open(Tail(gaps), t)
        BY <3>2, <3>3, <1>1, GapsBelow DEF g, r
    <3> HIDE DEF ended
    <3> QED
        BY <3>1, <3>4, <2>2
  <2> HIDE DEF ended
  <2> QED
    BY <2>1, <2>2
<1>15. \A t \in Int : Open(gaps', t) => Open(gaps, t)
  <2> SUFFICES ASSUME NEW t \in Int, Open(gaps', t), ~Open(Tail(gaps), t)
               PROVE  InGap(g, t)
    BY <1>2
  <2>1. ~ended /\ g.until <= t /\ t < m /\ t \notin g.skip
    BY <1>14
  <2>2. m \in page /\ m <= g.from
    BY <2>1, <1>12
  <2> HIDE DEF m, ended, page
  <2>3. m \in Int
    BY <2>2, <1>9
  <2> QED
    BY <2>1, <2>2, <2>3, <1>4 DEF InGap
\* What was on the page is not left.
<1>16. \A t \in fresh : t \in Nat /\ t < g.from /\ t < floor /\ t \in visible /\ InGap(g, t) /\ ~Open(gaps', t)
  <2> SUFFICES ASSUME NEW t \in fresh
               PROVE  t \in Nat /\ t < g.from /\ t < floor /\ t \in visible /\ InGap(g, t) /\ ~Open(gaps', t)
    OBVIOUS
  <2>1. t \in page /\ t >= g.until /\ t \notin g.skip
    BY <1>10
  <2> HIDE DEF fresh, page
  <2>2. t \in Nat /\ t < g.from /\ t \in visible
    BY <2>1, <1>9
  <2>3. t < floor
    BY <2>2, <1>4, <1>0 DEF PollTyped
  <2>4. InGap(g, t)
    BY <2>1, <2>2, <1>4 DEF InGap
  <2>5. ~Open(Tail(gaps), t)
    BY <2>2, <1>2, <1>4
  <2>6. ~ended => m <= t /\ m \in Nat
    BY <2>1, <1>9, <1>12
  <2> HIDE DEF ended, m
  <2>7. ~(~ended /\ t < m)
    BY <2>2, <2>6
  <2> QED
    BY <2>2, <2>3, <2>4, <2>5, <2>7, <1>14
<1>17. DOMAIN pending' = fresh \cap Worthy /\ \A t \in DOMAIN pending' : pending'[t] = now
  <2> HIDE DEF fresh
  <2> QED
    BY <1>3 DEF DMarket!Restrict
<1>18. PollScalars' /\ PointWhole'
  <2>1. PollScalars'
    BY <1>3 DEF PollerInv, PollScalars
  <2> QED
    BY <1>3, <2>1 DEF PollerInv, PointWhole
<1> HIDE DEF fresh, page, ended, m
<1>19. PollSets'
  <2>1. shown' \subseteq visible
    BY <1>0, <1>3, <1>16 DEF PollSets
  <2>2. DOMAIN pending' \subseteq shown' \cap Worthy
    BY <1>3, <1>17
  <2>3. \A t \in DOMAIN pending' : pending'[t] \in t..now
    <3> SUFFICES ASSUME NEW t \in DOMAIN pending'
                 PROVE  now \in t..now
        BY <1>17
    <3>1. t \in visible
        BY <1>16, <1>17
    <3> QED
        BY <3>1, <1>0 DEF PollTyped
  <2>4. shown' \cap Worthy \subseteq DOMAIN handed \cup DOMAIN pending'
    BY <1>0, <1>3, <1>5, <1>17 DEF PollSets
  <2>5. \A t \in shown' : t <= latest
    <3> SUFFICES ASSUME NEW t \in fresh
                 PROVE  t <= latest
        BY <1>0, <1>3, <1>6 DEF PollSets
    <3>1. t \in Nat /\ t < g.from
        BY <1>16
    <3> QED
        BY <3>1, <1>4, <1>7, <1>0 DEF PollTyped
  <2> QED
    BY <1>0, <1>3, <2>1, <2>2, <2>3, <2>4, <2>5 DEF PollSets
<1>20. FloorSound'
  <2>1. floor # 0 /\ start # 0
    BY <1>6, <1>7 DEF PollerInv, FloorSound
  <2> QED
    BY <1>3, <2>1 DEF PollerInv, FloorSound
<1>21. GapsSound(gaps, Reach, DOMAIN handed)' /\ (\A i \in 1..Len(gaps) : gaps[i].from <= floor)'
  <2>1. latest - ResumeOverlap <= floor
    BY <1>0, <1>6 DEF PollerInv, FloorSound, DMarket!Later, PollTyped
  <2>2. ASSUME NEW i \in 1..Len(gaps')
        PROVE  gaps'[i].from <= floor
    <3>1. gaps'[i].from \in Int /\ gaps'[i].from <= latest - ResumeOverlap
        BY <1>7, <1>14, GapFields DEF GapsSound
    <3> QED
        BY <3>1, <2>1, <1>0 DEF PollTyped
  <2> QED
    BY <1>3, <1>7, <1>14, <2>2
<1>22. Polling'
    BY <1>3, <1>5, <1>6 DEF PollerInv, Polling
<1>23. Covered'
  <2> SUFFICES ASSUME NEW t \in Owed, t \notin DOMAIN handed, t \notin DOMAIN pending', ~Open(gaps', t)
               PROVE  Ahead(t)'
    BY <1>3, <1>7 DEF Covered
  <2>1. t \in visible /\ t \in Worthy /\ t \in Nat /\ t \notin shown /\ t \notin fresh
    BY <1>0, <1>5, <1>17 DEF Owed, PollTyped, PollSets
\* Were it in the gap, it would be on the page or below it.
  <2>2. ~InGap(g, t)
    <3> SUFFICES ASSUME InGap(g, t)
                 PROVE  FALSE
        OBVIOUS
    <3>1. g.until <= t /\ t < g.from /\ t \notin g.skip
        BY DEF InGap
    <3>2. t \notin page
        BY <3>1, <2>1, <1>4, <1>11
    <3>3. ~ended
      <4>1. ~DMarket!LastPage(g.from)
        BY <3>1, <3>2, <2>1, <1>9
      <4>2. ASSUME NEW u \in page, u < g.until
            PROVE  FALSE
        <5>1. u <= t
            BY <4>2, <3>1, <2>1, <1>4, <1>9
        <5> QED
            BY <5>1, <3>1, <3>2, <2>1, <1>9
      <4> QED
        BY <4>1, <4>2 DEF ended
    <3>4. m \in page /\ m \in Nat
        BY <3>3, <1>9, <1>12
    <3>5. ~(m <= t)
        BY <3>1, <3>2, <3>4, <2>1, <1>9
    <3>6. t < m
        BY <3>4, <3>5, <2>1
    <3> QED
        BY <3>1, <3>3, <3>6, <1>14
  <2>3. ~Open(Tail(gaps), t)
    BY <1>14
  <2>4. Ahead(t)
    BY <2>2, <2>3, <1>2, <1>5 DEF PollerInv, Covered
  <2>5. t >= floor /\ (\A u \in DOMAIN handed : handed[u] - ResumeOverlap <= t) /\ polled - LiveOverlap <= t
    BY <2>4, <1>3, <1>5, <1>6 DEF Ahead
  <2>6. \A u \in DOMAIN pending' : pending'[u] - ResumeOverlap <= t
    <3>1. now - ResumeOverlap <= t
      <4>1. now <= polled + 1
        BY <1>3
      <4>2. polled - LiveOverlap <= t /\ t \in Nat
        BY <2>1, <2>5
      <4>3. now \in Nat /\ polled \in Nat
        BY <1>0 DEF PollTyped
      <4> QED
        BY <4>1, <4>2, <4>3, <1>0
    <3> QED
        BY <3>1, <1>17
  <2>7. t \notin shown'
    BY <2>1, <1>3
  <2> QED
    BY <2>5, <2>6, <2>7, <1>3 DEF Ahead
<1>24. PointSound' /\ BackendSound'
    BY <1>3, <1>7 DEF PollerInv, PointSound, BackendSound, GapsSound, Open
<1>25. ReadKnown'
  <2>1. \A t : FarBack(t)' <=> FarBack(t)
    BY <1>3, <1>7 DEF FarBack
  <2>2. \A t \in accounted \cup DOMAIN recorded : t \in Int
    <3>1. accounted \subseteq DOMAIN handed /\ DOMAIN recorded \subseteq DOMAIN handed
        BY <1>0 DEF PollSets
    <3>2. \A t \in DOMAIN handed : t \in Int
        BY <1>0 DEF PollTyped
    <3> QED
        BY <3>1, <3>2
  <2>3. \A t \in accounted \cup DOMAIN recorded \cup DOMAIN pending' : ~Open(gaps', t)
    BY <2>2, <1>1, <1>5, <1>15, <1>16, <1>17 DEF ReadKnown
  <2>4. DOMAIN pending' \cap accounted = {}
    <3> SUFFICES ASSUME NEW t \in fresh, t \in accounted
                 PROVE  FALSE
        BY <1>17
    <3>1. Open(gaps, t)
        BY <1>2, <1>16
    <3> QED
        BY <3>1, <1>1, <1>5 DEF ReadKnown
  <2>5. \A t \in accounted : t \in DOMAIN recorded \/ (t < floor /\ FarBack(t))
    BY <1>1, <1>5 DEF ReadKnown
  <2>6. DOMAIN recorded \subseteq shown'
    BY <1>1, <1>3, <1>5 DEF ReadKnown
  <2> QED
    BY <1>3, <1>6, <2>1, <2>3, <2>4, <2>5, <2>6 DEF ReadKnown, Open
<1> QED
    BY <1>18, <1>19, <1>20, <1>21, <1>22, <1>23, <1>24, <1>25 DEF PollerInv

-----------------------------------------------------------------------------
(* A live poll.                                                            *)

\* A live poll that is due can begin.
LEMMA PollBegins ==
    ASSUME PollerInv, at = "idle"
    PROVE  PollSound(DMarket!NewPoll, now)
<1> DEFINE p == DMarket!NewPoll
<1>0. PollTyped /\ MaxTime \in Nat /\ LiveMaxPages \in Nat \ {0} /\ MaxPollTime \in Nat
    BY PollTypes, PollerConstants
<1>1. p.page = 1 /\ p.at = PollerTop /\ p.newest = 0 /\ DOMAIN p.read = {}
    BY DEF DMarket!NewPoll, DMarket!Top, PollerTop
<1>2. Running
    BY DEF Running
<1>3. \A t \in visible : ~(t >= p.at)
    BY <1>0, <1>1 DEF PollTyped, PollerTop
<1>4. latest = 0 /\ point.newest = 0 => \A u \in DOMAIN handed : handed[u] <= now - LiveOverlap - 1
    BY <1>2 DEF PollerInv, Polling
<1>5. latest = 0 /\ floor # 0 => floor <= DMarket!Later(1, now - ResumeOverlap)
    BY DEF PollerInv, FloorSound
<1>6. p.page \in 1..LiveMaxPages
    BY <1>0, <1>1
<1>7. latest <= now /\ now <= now /\ now <= now + MaxPollTime
    BY <1>0 DEF PollTyped
<1> HIDE DEF p
<1> QED
    BY <1>1, <1>3, <1>4, <1>5, <1>6, <1>7 DEF PollSound, p

\* A page of a live poll: what it brings, and what is read then
LiveFresh(p) == {t \in DMarket!Page(p.at) : t >= floor /\ t \notin shown /\ t \notin DOMAIN p.read}
LiveRead(p) == [t \in LiveFresh(p) \cup DOMAIN p.read |-> IF t \in LiveFresh(p) THEN now ELSE p.read[t]]
LiveTop(p) == DMarket!Max(DMarket!Page(p.at) \cup {latest, p.newest})
LiveEnded(p) == floor = 0 \/ DMarket!LastPage(p.at) \/ \E t \in DMarket!Page(p.at) : t < floor

\* What is known of a page of a poll that began at a time
PageRead(p, since) ==
    /\ PageSound(p.at)
    /\ \A t \in DMarket!Page(p.at) : t \in visible /\ t < p.at
    /\ LiveTop(p) \in visible /\ LiveTop(p) <= since /\ since - LiveOverlap - 1 <= LiveTop(p)
    /\ latest <= LiveTop(p) /\ Reach <= LiveTop(p) /\ p.newest <= LiveTop(p)
    /\ \A t \in shown : t <= LiveTop(p)
    /\ \A t \in DMarket!Page(p.at) : t <= LiveTop(p) - (p.page - 1) * PageSize
    /\ \A t \in DOMAIN LiveRead(p) :
        /\ t \in visible /\ t >= floor /\ t \notin shown /\ t <= LiveTop(p)
        /\ \A u \in DMarket!Page(p.at) : t \in DMarket!Page(p.at) \/ u <= t
        /\ LiveRead(p)[t] \in t..now
    /\ \A t \in visible : (t \in DMarket!Page(p.at) \/ t >= p.at) /\ t >= floor /\ t \notin shown =>
        t \in DOMAIN LiveRead(p) \/ t >= since - LiveOverlap

LEMMA PageReads ==
    ASSUME PollerInv, NEW p, NEW since \in Nat, since >= 1, PollSound(p, since), p.page = 1 => since = now, Running
    PROVE  PageRead(p, since)
<1> DEFINE page == DMarket!Page(p.at)
           fresh == LiveFresh(p)
           read == LiveRead(p)
           top == LiveTop(p)
           S == page \cup {latest, p.newest}
<1>0. PollTyped /\ PollSets /\ MaxTime \in Nat /\ LiveMaxPages \in Nat \ {0} /\ PageSize \in Nat /\ LiveOverlap \in Nat
    BY PollTypes, PollerConstants DEF PollerInv
<1>1. since <= now /\ latest <= since /\ p.page \in Nat /\ p.page >= 1
    BY <1>0 DEF PollSound
<1>2. p.page = 1 => p.at = MaxTime + 1 /\ p.newest = 0 /\ DOMAIN p.read = {} /\ since = now
    BY DEF PollSound, PollerTop
<1>3. p.page # 1 =>
        /\ p.at \in 1..MaxTime /\ p.newest \in 1..since /\ p.newest \in visible
        /\ Reach <= p.newest /\ since - LiveOverlap - 1 <= p.newest
        /\ p.at <= p.newest + 1 - (p.page - 1) * PageSize
        /\ \A t \in shown : t <= p.newest
    BY DEF PollSound
<1>4. /\ \A t \in DOMAIN p.read : t \in visible /\ t >= p.at /\ t >= floor /\ t \notin shown /\ t <= p.newest /\ p.read[t] \in t..now
      /\ \A t \in visible : t >= p.at /\ t >= floor /\ t \notin shown => t \in DOMAIN p.read \/ t >= since - LiveOverlap
    BY DEF PollSound
<1>5. p.at \in 1..(MaxTime + 1) /\ p.newest \in 0..since
  <2>1. CASE p.page = 1
    BY <2>1, <1>0, <1>2
  <2>2. CASE p.page # 1
    BY <2>2, <1>0, <1>3
  <2> QED
    BY <2>1, <2>2
<1>6. PageSound(p.at)
  <2>1. now \in 1..MaxTime /\ visible \subseteq 1..now
    BY <1>0 DEF PollTyped
  <2> QED
    BY <2>1, <1>5, Pages
<1>7. \A t \in page : t \in visible /\ t < p.at /\ t \in Nat /\ 1 <= t /\ t <= now
  <2>1. \A t \in page : t \in visible /\ t < p.at
    BY <1>6 DEF PageSound
  <2> QED
    BY <2>1, <1>0 DEF PollTyped
<1>8. S \subseteq 0..now /\ S # {} /\ \A t \in page : t \in S
    BY <1>0, <1>1, <1>5, <1>7 DEF PollTyped
<1>9. top \in S /\ latest <= top /\ p.newest <= top /\ (\A t \in page : t <= top) /\ top \in Nat
  <2>1. latest \in S /\ p.newest \in S /\ top = DMarket!Max(S)
    BY DEF LiveTop
  <2>2. now \in Nat
    BY <1>0 DEF PollTyped
  <2> HIDE DEF S, top, page
  <2>3. top \in S /\ \A t \in S : t <= top
    BY <2>1, <2>2, <1>8, MaxOf
  <2>4. top \in Nat
    BY <2>2, <2>3, <1>8
  <2>5. \A t \in page : t <= top
    BY <2>3, <1>8
  <2> QED
    BY <2>1, <2>3, <2>4, <2>5
<1> HIDE DEF S
\* The first page brings the newest listing; the others do not.
<1>10. p.page = 1 => /\ \A t \in visible : t \in page \/ \E u \in page : t <= u
                     /\ \A t \in visible : t <= top
  <2> SUFFICES ASSUME p.page = 1
               PROVE  /\ \A t \in visible : t \in page \/ \E u \in page : t <= u
                      /\ \A t \in visible : t <= top
    OBVIOUS
  <2>1. \A t \in visible : t < p.at /\ t \in Nat
    BY <1>0, <1>2 DEF PollTyped
  <2>2. 1 \in visible
    BY <1>0 DEF PollSets
  <2>3. page # {}
    BY <2>1, <2>2, <1>6 DEF PageSound
  <2>4. PICK v \in page : TRUE
    BY <2>3
  <2>5. \A t \in visible : v <= t => t \in page
    BY <2>1, <1>6 DEF PageSound
  <2>6. \A t \in visible : t \in page \/ t <= v
    BY <2>1, <2>5, <1>7
  <2>7. \A t \in visible : t <= top
    BY <2>1, <2>6, <1>7, <1>9
  <2> QED
    BY <2>6, <2>7
<1>11. p.page # 1 => top = p.newest
  <2> SUFFICES ASSUME p.page # 1
               PROVE  top = p.newest
    OBVIOUS
  <2>1. p.newest \in Nat /\ 1 <= p.newest
    BY <1>3
  <2>2. latest <= p.newest
    BY <1>0, <1>3 DEF Reach, PollTyped
  <2>3. (p.page - 1) * PageSize \in Nat
    <3>1. p.page - 1 \in Nat
        BY <1>1
    <3> QED
        BY <3>1, <1>0
  <2>4. \A t \in page : t <= p.newest
    BY <2>1, <2>3, <1>3, <1>5, <1>7
  <2>5. \A t \in page \cup {latest, p.newest} : t <= p.newest
    BY <2>1, <2>2, <2>4
  <2>6. top <= p.newest
    BY <2>5, <1>9 DEF S
  <2> QED
    BY <2>1, <2>6, <1>9
<1>12. top \in visible /\ top <= since /\ since - LiveOverlap - 1 <= top /\ Reach <= top
  <2>1. CASE p.page # 1
    <3>1. p.newest \in Nat
        BY <1>5
    <3> QED
        BY <2>1, <1>3, <1>11, <1>1
  <2>2. CASE p.page = 1
    <3>1. top \in visible
      <4>1. top \in page \/ top = latest \/ top = 0
        BY <2>2, <1>2, <1>9 DEF S
      <4>2. top # 0
        <5>1. 1 \in visible
            BY <1>0 DEF PollSets
        <5>2. 1 <= top
            BY <5>1, <2>2, <1>10
        <5> QED
            BY <5>2
      <4>3. latest # 0 => latest \in visible
        BY <1>0 DEF PollSets
      <4> QED
        BY <4>1, <4>2, <4>3, <1>7
    <3>2. top <= since
        BY <3>1, <2>2, <1>2, <1>0 DEF PollTyped
    <3>3. since - LiveOverlap - 1 <= top
      <4>1. CASE now - 1 - LiveOverlap >= 1
        <5>1. now - 1 - LiveOverlap \in 1..(now - 1 - LiveOverlap)
            BY <4>1, <1>0 DEF PollTyped
        <5>2. now - 1 - LiveOverlap \in visible
            BY <5>1, <1>0 DEF PollSets
        <5>3. now - 1 - LiveOverlap <= top
            BY <5>2, <2>2, <1>10
        <5> QED
            BY <5>3, <2>2, <1>2, <1>0, <1>9 DEF PollTyped
      <4>2. CASE ~(now - 1 - LiveOverlap >= 1)
        <5>1. 1 <= top
            BY <3>1, <1>0 DEF PollTyped
        <5> QED
            BY <5>1, <4>2, <2>2, <1>2, <1>0, <1>9 DEF PollTyped
      <4> QED
        BY <4>1, <4>2
    <3>4. Reach <= top
      <4>1. point.newest = 0 \/ point.newest \in visible
        BY DEF PollerInv, PointSound
      <4>2. point.newest <= top
        BY <4>1, <2>2, <1>9, <1>10
      <4> QED
        BY <4>2, <1>9 DEF Reach
    <3> QED
        BY <3>1, <3>2, <3>3, <3>4
  <2> QED
    BY <2>1, <2>2
<1>13. \A t \in shown : t <= top
  <2>1. shown \subseteq visible
    BY <1>0 DEF PollSets
  <2> QED
    BY <2>1, <1>3, <1>10, <1>11
<1>14. \A t \in page : t <= top - (p.page - 1) * PageSize
  <2>1. CASE p.page = 1
    <3>1. (p.page - 1) * PageSize = 0
        BY <2>1, <1>0
    <3> QED
        BY <3>1, <1>7, <1>9
  <2>2. CASE p.page # 1
    <3> DEFINE k == (p.page - 1) * PageSize
    <3>1. p.at <= top + 1 - k
        BY <2>2, <1>3, <1>11
    <3>2. k \in Int
      <4>1. p.page - 1 \in Int
        BY <1>1
      <4> QED
        BY <4>1, <1>0
    <3> HIDE DEF k
    <3>3. \A t \in page : t <= top - k
        BY <3>1, <3>2, <1>5, <1>7, <1>9
    <3> QED
        BY <3>3 DEF k
  <2> QED
    BY <2>1, <2>2
<1>15. DOMAIN read = fresh \cup DOMAIN p.read /\ \A t \in DOMAIN read : read[t] = IF t \in fresh THEN now ELSE p.read[t]
    BY DEF LiveRead
<1>16. \A t : t \in fresh <=> t \in page /\ t >= floor /\ t \notin shown /\ t \notin DOMAIN p.read
    BY DEF LiveFresh
<1> HIDE DEF page, fresh, read, top
<1>17. ASSUME NEW t \in DOMAIN read
       PROVE  /\ t \in visible /\ t >= floor /\ t \notin shown /\ t <= top
              /\ \A u \in page : t \in page \/ u <= t
              /\ read[t] \in t..now
  <2>1. CASE t \in fresh
    <3>1. now \in t..now
      <4>1. t \in Nat /\ t <= now
        BY <2>1, <1>7, <1>16
      <4>2. now \in Nat
        BY <1>0 DEF PollTyped
      <4> QED
        BY <4>1, <4>2
    <3> QED
        BY <2>1, <3>1, <1>7, <1>9, <1>15, <1>16
  <2>2. CASE t \notin fresh
    <3>1. t \in DOMAIN p.read /\ read[t] = p.read[t]
        BY <2>2, <1>15
    <3>2. t \in visible /\ t >= p.at /\ t >= floor /\ t \notin shown /\ t <= p.newest /\ p.read[t] \in t..now /\ t \in Nat
        BY <3>1, <1>0, <1>4 DEF PollTyped
    <3>3. t <= top
        BY <3>2, <1>5, <1>9
    <3>4. \A u \in page : u <= t
        BY <3>2, <1>5, <1>7
    <3> QED
        BY <3>1, <3>2, <3>3, <3>4
  <2> QED
    BY <2>1, <2>2
<1>18. ASSUME NEW t \in visible, t \in page \/ t >= p.at, t >= floor, t \notin shown
       PROVE  t \in DOMAIN read \/ t >= since - LiveOverlap
    BY <1>4, <1>15, <1>16, <1>18
<1> QED
    BY <1>6, <1>7, <1>9, <1>12, <1>13, <1>14, <1>17, <1>18 DEF PageRead, page, read, top

\* The poll goes on to its next page.
LEMMA PollContinues ==
    ASSUME PollerInv, NEW p, NEW since \in Nat, since >= 1, PollSound(p, since), PageRead(p, since), Running,
           ~LiveEnded(p), p.page # LiveMaxPages
    PROVE  PollSound([page |-> p.page + 1, at |-> DMarket!Min(DMarket!Page(p.at)), newest |-> LiveTop(p), read |-> LiveRead(p)],
                     since)
<1> DEFINE page == DMarket!Page(p.at)
           m == DMarket!Min(page)
           top == LiveTop(p)
           read == LiveRead(p)
           q == [page |-> p.page + 1, at |-> m, newest |-> top, read |-> read]
           k == (p.page - 1) * PageSize
<1>0. PollTyped /\ PageSize \in Nat /\ LiveMaxPages \in Nat /\ MaxTime \in Nat /\ LiveOverlap \in Nat
    BY PollTypes, PollerConstants DEF PollerInv
<1>1. p.page \in 1..LiveMaxPages /\ p.page \in Nat
    BY <1>0 DEF PollSound
<1>2. /\ PageSound(p.at)
      /\ \A t \in page : t \in visible /\ t < p.at
      /\ top \in visible /\ top <= since /\ since - LiveOverlap - 1 <= top
      /\ latest <= top /\ Reach <= top /\ p.newest <= top
      /\ \A t \in shown : t <= top
      /\ \A t \in page : t <= top - k
    BY DEF PageRead
<1>3. \A t \in DOMAIN read : /\ t \in visible /\ t >= floor /\ t \notin shown /\ t <= top
                             /\ \A u \in page : t \in page \/ u <= t
                             /\ read[t] \in t..now
    BY DEF PageRead
<1>4. \A t \in visible : (t \in page \/ t >= p.at) /\ t >= floor /\ t \notin shown => t \in DOMAIN read \/ t >= since - LiveOverlap
    BY DEF PageRead
<1>5. floor # 0 /\ ~DMarket!LastPage(p.at)
    BY DEF LiveEnded
<1>6. page # {} /\ \A n \in Nat : (\A t \in page : t <= n) => m + PageSize <= n + 1
    BY <1>2, <1>5 DEF PageSound
<1>7. page \subseteq Nat
    BY <1>0, <1>2 DEF PollTyped
<1>8. k \in Int /\ (p.page + 1 - 1) * PageSize = k + PageSize
  <2>1. p.page - 1 \in Int
    BY <1>1
  <2>2. k \in Int
    BY <2>1, <1>0
  <2>3. (p.page + 1 - 1) * PageSize = p.page * PageSize
    BY <1>1
  <2>4. (p.page - 1) * PageSize = p.page * PageSize - PageSize
    BY <1>1, <1>0
  <2>5. p.page * PageSize \in Int
    BY <1>0, <1>1
  <2> QED
    BY <2>2, <2>3, <2>4, <2>5, <1>0
<1>9. q.page = p.page + 1 /\ q.at = m /\ q.newest = top /\ q.read = read
    OBVIOUS
<1> HIDE DEF q, k
<1>10. m \in page /\ \A t \in page : m <= t
  <2> HIDE DEF page
  <2> QED
    BY <1>6, <1>7, MinOf
<1> HIDE DEF page, m, top, read
<1>11. m \in Nat /\ 1 <= m /\ m <= now /\ top \in Nat /\ 1 <= top
    BY <1>0, <1>2, <1>10 DEF PollTyped
<1>12. m <= top + 1 - (k + PageSize)
  <2>1. top - k \in Nat
    <3>1. m <= top - k
        BY <1>2, <1>10
    <3> QED
        BY <3>1, <1>8, <1>11
  <2>2. m + PageSize <= top - k + 1
    BY <2>1, <1>2, <1>6
  <2> QED
    BY <2>2, <1>0, <1>8, <1>11
<1>13. q.page \in 1..LiveMaxPages /\ q.page # 1
    BY <1>0, <1>1, <1>9
<1>14. q.at \in 1..MaxTime /\ q.newest \in 1..since
    BY <1>0, <1>2, <1>9, <1>11 DEF PollTyped
<1>15. q.at <= q.newest + 1 - (q.page - 1) * PageSize
  <2>1. (q.page - 1) * PageSize = k + PageSize
    <3>1. \A a, n \in Int : n = a + 1 => n - 1 = a + 1 - 1
        OBVIOUS
    <3>2. q.page = p.page + 1
        BY <1>9
    <3>3. q.page \in Int
        BY <3>2, <1>1
    <3>4. q.page - 1 = p.page + 1 - 1
        BY <3>1, <3>2, <3>3, <1>1
    <3> QED
        BY <3>4, <1>8
  <2>2. q.at <= q.newest + 1 - (k + PageSize)
    BY <1>9, <1>12
  <2> QED
    BY <2>1, <2>2
<1>16. \A t \in DOMAIN q.read : t >= q.at
  <2> SUFFICES ASSUME NEW t \in DOMAIN read
               PROVE  t >= m
    BY <1>9
  <2>1. t \in page \/ m <= t
    BY <1>3, <1>10
  <2>2. t \in Nat
    BY <1>0, <1>3 DEF PollTyped
  <2> QED
    BY <2>1, <2>2, <1>10, <1>11
<1>17. \A t \in visible : t >= q.at /\ t >= floor /\ t \notin shown => t \in DOMAIN q.read \/ t >= since - LiveOverlap
  <2> SUFFICES ASSUME NEW t \in visible, t >= m, t >= floor, t \notin shown
               PROVE  t \in DOMAIN read \/ t >= since - LiveOverlap
    BY <1>9
  <2>1. t < p.at => t \in page
    BY <1>2, <1>10, <1>11 DEF PageSound, page
  <2>2. t \in Nat /\ p.at \in Int
    <3>1. p.at = PollerTop \/ p.at \in 1..MaxTime
        BY DEF PollSound
    <3> QED
        BY <3>1, <1>0 DEF PollTyped, PollerTop
  <2> QED
    BY <2>1, <2>2, <1>4
<1>18. latest = 0 /\ point.newest = 0 => \A u \in DOMAIN handed : handed[u] <= q.newest
  <2> SUFFICES ASSUME latest = 0, point.newest = 0, NEW u \in DOMAIN handed
               PROVE  handed[u] <= top
    BY <1>9
  <2>1. handed[u] <= IF p.page = 1 THEN since - LiveOverlap - 1 ELSE p.newest
    BY DEF PollSound
  <2>2. handed[u] \in Nat
    BY <1>0 DEF PollTyped
  <2>3. CASE p.page = 1
    BY <2>1, <2>2, <2>3, <1>0, <1>2, <1>11
  <2>4. CASE p.page # 1
    <3>1. p.newest \in 1..since
        BY <2>4 DEF PollSound
    <3> QED
        BY <2>1, <2>2, <2>4, <3>1, <1>2, <1>11
  <2> QED
    BY <2>3, <2>4
<1>19. latest <= since /\ (latest = 0 /\ floor # 0 => floor <= DMarket!Later(1, since - ResumeOverlap))
       /\ since <= now /\ now <= since + MaxPollTime
    BY DEF PollSound
<1>20. /\ \A t \in DOMAIN q.read : t \in visible /\ t >= floor /\ t \notin shown /\ t <= q.newest /\ q.read[t] \in t..now
       /\ \A t \in shown : t <= q.newest
       /\ q.newest \in visible /\ Reach <= q.newest /\ since - LiveOverlap - 1 <= q.newest
    BY <1>2, <1>3, <1>9
<1>21. PollSound(q, since)
    BY <1>5, <1>13, <1>14, <1>15, <1>16, <1>17, <1>18, <1>19, <1>20 DEF PollSound
<1> QED
    BY <1>21 DEF q, m, top, read, page

\* What is left of a poll that ran into its page limit
LiveLeft(p) == DMarket!Gap(DMarket!Min(DMarket!Page(p.at)), floor, DMarket!Skip)

LEMMA GapLeft ==
    ASSUME PollerInv, NEW p, NEW since \in Nat, PageRead(p, since), ~LiveEnded(p), p.page = LiveMaxPages
    PROVE  /\ LiveLeft(p) \in GapRecords /\ LiveLeft(p).until = floor /\ LiveLeft(p).skip = DMarket!Skip
           /\ LiveLeft(p).from \in DMarket!Page(p.at) /\ \A t \in DMarket!Page(p.at) : LiveLeft(p).from <= t
           /\ 1 <= floor /\ floor <= LiveLeft(p).from /\ LiveLeft(p).from <= LiveTop(p) - ResumeOverlap
           /\ LiveLeft(p).skip \subseteq DOMAIN handed
<1> DEFINE page == DMarket!Page(p.at)
           m == DMarket!Min(page)
           g == LiveLeft(p)
           top == LiveTop(p)
           k == (p.page - 1) * PageSize
<1>0. PollTyped /\ PollSets /\ PageSize \in Nat /\ LiveMaxPages \in Nat \ {0} /\ ResumeOverlap \in Nat
      /\ ResumeOverlap < LiveMaxPages * PageSize
    BY PollTypes, PollerConstants DEF PollerInv
<1>1. g = [from |-> m, until |-> floor, skip |-> DMarket!Skip]
    BY DEF LiveLeft, DMarket!Gap
<1>2. PageSound(p.at) /\ (\A t \in page : t \in visible) /\ top \in visible /\ \A t \in page : t <= top - k
    BY DEF PageRead
<1>3. floor # 0 /\ ~DMarket!LastPage(p.at) /\ \A t \in page : ~(t < floor)
    BY DEF LiveEnded
<1>4. page # {} /\ \A n \in Nat : (\A t \in page : t <= n) => m + PageSize <= n + 1
    BY <1>2, <1>3 DEF PageSound
<1>5. page \subseteq Nat
    BY <1>0, <1>2 DEF PollTyped
<1>6. DMarket!Skip \subseteq DOMAIN handed
    BY <1>0 DEF DMarket!Skip, PollSets
<1>7. k + PageSize = LiveMaxPages * PageSize /\ k \in Int
  <2>1. k = (LiveMaxPages - 1) * PageSize
    OBVIOUS
  <2>2. (LiveMaxPages - 1) * PageSize = LiveMaxPages * PageSize - PageSize
    BY <1>0
  <2>3. LiveMaxPages * PageSize \in Int
    BY <1>0
  <2> HIDE DEF k
  <2> QED
    BY <2>1, <2>2, <2>3, <1>0
<1> HIDE DEF page, k, top
<1>8. m \in page /\ \A t \in page : m <= t
    BY <1>4, <1>5, MinOf
<1> HIDE DEF m, g
<1>9. m \in Nat /\ top \in Nat /\ floor \in Nat
    BY <1>0, <1>2, <1>5, <1>8 DEF PollTyped
<1>10. floor <= m /\ 1 <= floor
    BY <1>3, <1>8, <1>9
<1>11. m <= top - ResumeOverlap
  <2>1. top - k \in Nat
    <3>1. m <= top - k
        BY <1>2, <1>8
    <3> QED
        BY <3>1, <1>7, <1>9
  <2>2. m + PageSize <= top - k + 1
    BY <2>1, <1>2, <1>4
  <2> DEFINE all == LiveMaxPages * PageSize
  <2>3. k + PageSize = all /\ ResumeOverlap < all
    BY <1>0, <1>7
  <2>4. all \in Int
    BY <2>3, <1>0, <1>7
  <2> HIDE DEF all
  <2> QED
    BY <2>2, <2>3, <2>4, <1>0, <1>7, <1>9
<1>12. g \in GapRecords
  <2>1. DMarket!Skip \subseteq Int
    BY <1>0, <1>6 DEF PollTyped
  <2>2. m \in Int /\ floor \in Int
    BY <1>9
  <2> QED
    BY <1>1, <2>1, <2>2 DEF GapRecords
<1>13. g.from = m /\ g.until = floor /\ g.skip = DMarket!Skip
    BY <1>1
<1> QED
    BY <1>6, <1>8, <1>10, <1>11, <1>12, <1>13 DEF g, top, page

\* The poll has arrived: what it read is handed over, and what it left is a gap.
LEMMA PollFinishes ==
    ASSUME PollerInv, at \in {"idle", "polling"}, NEW p, NEW since \in Nat, since >= 1, PollSound(p, since), PageRead(p, since),
           NEW rest, (LiveEnded(p) /\ rest = <<>>) \/ (~LiveEnded(p) /\ p.page = LiveMaxPages /\ rest = <<LiveLeft(p)>>),
           DMarket!Finish(LiveRead(p), LiveTop(p), rest),
           polled' = since, now' = now, visible' = visible, recorded' = recorded, point' = point, handed' = handed,
           lost' = lost, accounted' = accounted, mishaps' = mishaps, outages' = outages, unanswered' = unanswered
    PROVE  PollerInv'
<1> DEFINE page == DMarket!Page(p.at)
           read == LiveRead(p)
           top == LiveTop(p)
           g == LiveLeft(p)
           ended == LiveEnded(p)
<1>0. PollTyped /\ PollSets /\ ReadKnown /\ MaxTime \in Nat
    BY PollTypes, PollerConstants DEF PollerInv
<1>c. LiveOverlap \in Nat /\ ResumeOverlap \in Nat /\ MaxPollTime \in Nat /\ LiveOverlap + MaxPollTime <= ResumeOverlap
      /\ LiveOverlap <= ResumeOverlap
    BY PollerConstants
<1>1. Running /\ DOMAIN pending = {}
    BY DEF PollerInv, Polling, Running
<1>2. /\ shown' = shown \cup DOMAIN read /\ latest' = top /\ floor' = DMarket!Later(1, top - LiveOverlap)
      /\ gaps' = gaps \o rest /\ poll' = DMarket!NewPoll
      /\ start' = IF start = 0 THEN DMarket!Min(DMarket!Page(DMarket!Top)) ELSE start
      /\ at' = "oldest first" /\ pending' = DMarket!Restrict(read, DOMAIN read \cap Worthy)
    BY DEF DMarket!Finish, DMarket!HandOver
<1>3. DOMAIN pending' = DOMAIN read \cap Worthy /\ \A t \in DOMAIN pending' : pending'[t] = read[t]
  <2> HIDE DEF read
  <2> QED
    BY <1>2 DEF DMarket!Restrict
<1>4. /\ PageSound(p.at) /\ \A t \in page : t \in visible /\ t < p.at
      /\ top \in visible /\ top <= since /\ since - LiveOverlap - 1 <= top
      /\ latest <= top /\ Reach <= top /\ p.newest <= top
      /\ \A t \in shown : t <= top
    BY DEF PageRead
<1>5. \A t \in DOMAIN read : /\ t \in visible /\ t >= floor /\ t \notin shown /\ t <= top
                             /\ \A u \in page : t \in page \/ u <= t
                             /\ read[t] \in t..now
    BY DEF PageRead
<1>6. \A t \in visible : (t \in page \/ t >= p.at) /\ t >= floor /\ t \notin shown => t \in DOMAIN read \/ t >= since - LiveOverlap
    BY DEF PageRead
<1>7. since <= now /\ now <= since + MaxPollTime
    BY DEF PollSound
<1>8. ~ended => p.page = LiveMaxPages
    OBVIOUS
<1>9. ~ended => /\ g \in GapRecords /\ g.until = floor /\ g.skip = DMarket!Skip
                /\ g.from \in page /\ \A t \in page : g.from <= t
                /\ 1 <= floor /\ floor <= g.from /\ g.from <= top - ResumeOverlap
                /\ g.skip \subseteq DOMAIN handed
    BY <1>8, GapLeft
<1>10. \A t, u \in visible : u \in page /\ u <= t /\ t < p.at => t \in page
    BY <1>4 DEF PageSound
<1>11. DMarket!LastPage(p.at) => \A t \in visible : t < p.at => t \in page
    BY <1>4 DEF PageSound
<1>12. ended <=> floor = 0 \/ DMarket!LastPage(p.at) \/ \E t \in page : t < floor
    BY DEF LiveEnded
<1>13. (ended /\ gaps' = gaps \o <<>>) \/ (~ended /\ gaps' = gaps \o <<g>>)
    BY <1>2
<1> HIDE DEF page, read, top, g, ended
<1>a. latest' = top /\ floor' = DMarket!Later(1, top - LiveOverlap)
    BY <1>2
<1>b. start' = IF start = 0 THEN DMarket!Min(DMarket!Page(DMarket!Top)) ELSE start
    BY <1>2
<1>d. at' = "oldest first" /\ poll' = DMarket!NewPoll
    BY <1>2
<1>e. shown' = shown \cup DOMAIN read
    BY <1>2
<1>14. top \in Nat /\ 1 <= top /\ top <= now /\ floor' \in Nat /\ 1 <= floor' /\ floor' <= MaxTime /\ top - LiveOverlap <= floor'
       /\ (floor' = 1 \/ floor' = top - LiveOverlap)
  <2>1. top \in Nat /\ 1 <= top /\ top <= now
    BY <1>0, <1>4 DEF PollTyped
  <2>2. floor' = IF 1 < top - LiveOverlap THEN top - LiveOverlap ELSE 1
    BY <1>a DEF DMarket!Later
  <2>3. now <= MaxTime
    BY <1>0 DEF PollTyped
  <2>4. now \in Nat /\ MaxTime \in Nat /\ 1 <= MaxTime
    BY <2>1, <2>3, <1>0 DEF PollTyped
  <2> QED
    BY <2>1, <2>2, <2>3, <2>4, <1>c
<1>15. Running' /\ Settled' /\ Reach' = top
  <2>1. Running' /\ Settled'
    BY <1>d DEF Running, Settled
  <2>2. latest' # 0
    BY <1>a, <1>14
  <2> QED
    BY <2>1, <2>2, <1>a DEF Reach
<1>16. DMarket!Page(DMarket!Top) # {} /\ DMarket!Page(DMarket!Top) \subseteq Nat
       /\ \A t \in DMarket!Page(DMarket!Top) : t \in visible
  <2>1. now \in 1..MaxTime /\ visible \subseteq 1..now /\ DMarket!Top \in 1..(MaxTime + 1) /\ DMarket!Top = MaxTime + 1
    BY <1>0 DEF PollTyped, DMarket!Top
  <2>2. PageSound(DMarket!Top)
    BY <2>1, Pages
  <2>3. 1 \in visible /\ 1 < DMarket!Top
    BY <2>1, <1>0 DEF PollSets, PollTyped
  <2>4. DMarket!Page(DMarket!Top) # {} /\ \A t \in DMarket!Page(DMarket!Top) : t \in visible
    BY <2>2, <2>3 DEF PageSound
  <2> QED
    BY <2>4, <1>0 DEF PollTyped
<1>17. start' \in Nat /\ start' # 0 /\ start' <= MaxTime
  <2>1. DMarket!Min(DMarket!Page(DMarket!Top)) \in visible
    BY <1>16, MinOf
  <2>2. start \in Nat /\ start <= MaxTime
    <3>1. start \in 0..MaxTime
        BY DEF PollerInv, PollScalars
    <3> QED
        BY <3>1, <1>0
  <2>3. start' \in visible \/ (start' = start /\ start # 0)
    BY <2>1, <1>b
  <2>4. \A t \in visible : t \in Nat /\ 1 <= t /\ t <= MaxTime
    BY <1>0 DEF PollTyped
  <2> QED
    BY <2>2, <2>3, <2>4
<1>18. PollScalars' /\ PointWhole'
  <2>1. latest' \in 0..now' /\ floor' \in 0..MaxTime /\ start' \in 0..MaxTime /\ polled' \in 0..now'
    BY <1>0, <1>a, <1>7, <1>14, <1>17 DEF PollTyped
  <2>2. PollScalars'
    BY <2>1, <1>d DEF PollerInv, PollScalars
  <2> QED
    BY <2>2 DEF PollerInv, PointWhole
<1>19. PollSets'
  <2>1. shown' \subseteq visible
    BY <1>0, <1>2, <1>5 DEF PollSets
  <2>2. DOMAIN pending' \subseteq shown' \cap Worthy /\ \A t \in DOMAIN pending' : pending'[t] \in t..now
    BY <1>2, <1>3, <1>5
  <2>3. shown' \cap Worthy \subseteq DOMAIN handed \cup DOMAIN pending'
    BY <1>0, <1>1, <1>2, <1>3 DEF PollSets
  <2>4. \A t \in shown' : t <= top
    BY <1>2, <1>4, <1>5
  <2> QED
    BY <1>0, <1>2, <1>4, <2>1, <2>2, <2>3, <2>4 DEF PollSets
<1>20. FloorSound'
  <2>1. latest' # 0 /\ floor' # 0
    BY <1>a, <1>14
  <2>2. floor' = DMarket!Later(1, latest' - LiveOverlap)
    BY <1>a
  <2> QED
    BY <2>1, <2>2, <1>17 DEF FloorSound
\* What is left above the older gaps
<1>21. GapsSound(gaps', top, DOMAIN handed)
       /\ \A t : Open(gaps', t) <=> Open(gaps, t) \/ (~ended /\ InGap(g, t))
  <2>1. GapsSound(gaps, top, DOMAIN handed)
    <3>1. GapsSound(gaps, Reach, DOMAIN handed) /\ Reach \in Int /\ top \in Int /\ Reach <= top
        BY <1>0, <1>4, <1>14 DEF PollerInv, PollTyped
    <3> QED
        BY <3>1, GapsGrow
  <2>2. CASE ended
    <3>1. gaps \in Seq(GapRecords) /\ gaps' = gaps \o <<>>
        BY <2>1, <2>2, <1>13 DEF GapsSound
    <3>2. gaps' = gaps
        BY <3>1
    <3> QED
        BY <2>1, <2>2, <3>2
  <2>3. CASE ~ended
    <3>1. /\ g \in GapRecords /\ 1 <= g.until /\ g.until <= g.from /\ g.from <= top - ResumeOverlap
          /\ g.skip \subseteq DOMAIN handed
        BY <2>3, <1>9
    <3>2. \A i \in 1..Len(gaps) : gaps[i].from <= g.until
        BY <2>3, <1>9 DEF PollerInv
    <3>3. /\ GapsSound(gaps \o <<g>>, top, DOMAIN handed)
          /\ \A t : Open(gaps \o <<g>>, t) <=> Open(gaps, t) \/ InGap(g, t)
        BY <2>1, <3>1, <3>2, <1>14, GapsAdd, SMTT(30)
    <3> QED
        BY <2>3, <3>3, <1>13
  <2> QED
    BY <2>2, <2>3
<1>22. GapsSound(gaps, Reach, DOMAIN handed)' /\ (\A i \in 1..Len(gaps) : gaps[i].from <= floor)'
  <2>1. ASSUME NEW i \in 1..Len(gaps')
        PROVE  gaps'[i].from <= floor'
    <3>1. gaps'[i].from \in Int /\ gaps'[i].from <= top - ResumeOverlap
        BY <1>21, GapFields DEF GapsSound
    <3> QED
        BY <3>1, <1>c, <1>14
  <2> QED
    BY <2>1, <1>15, <1>21
<1>23. Polling'
  <2>1. latest' # 0
    BY <1>a, <1>14
  <2> QED
    BY <2>1, <1>d, <1>15 DEF Polling
\* What shows up after the newest page is ahead.
<1>24. ASSUME NEW t \in visible, t \notin shown', since - LiveOverlap <= t
       PROVE  Ahead(t)'
  <2>1. t \in Nat /\ 1 <= t
    BY <1>0 DEF PollTyped
  <2>2. t >= floor'
    BY <2>1, <1>4, <1>14, <1>24, <1>c
  <2>3. now \in Nat
    BY <1>0 DEF PollTyped
  <2>4. \A n \in Nat : n <= now => n - ResumeOverlap <= t
    BY <2>1, <2>3, <1>7, <1>24, <1>c
  <2>5. \A u \in DOMAIN handed : handed[u] - ResumeOverlap <= t
    BY <2>4, <1>0 DEF PollTyped
  <2>6. \A u \in DOMAIN pending' : pending'[u] - ResumeOverlap <= t
    <3> SUFFICES ASSUME NEW u \in DOMAIN pending'
                 PROVE  read[u] - ResumeOverlap <= t
        BY <1>3
    <3>1. u \in visible /\ read[u] \in u..now
        BY <1>3, <1>5
    <3>2. u \in Nat
        BY <3>1, <1>0 DEF PollTyped
    <3>3. read[u] \in Nat /\ read[u] <= now
        BY <3>1, <3>2, <2>3
    <3> QED
        BY <3>3, <2>4
  <2> QED
    BY <2>2, <2>5, <2>6, <1>24 DEF Ahead
<1>25. \A t \in visible : t \in DOMAIN read \/ t \in shown \/ t \notin shown'
    BY <1>e
<1>26. Covered'
  <2>1. ASSUME start # 0, NEW t \in Owed, t \notin DOMAIN handed, t \notin DOMAIN pending', ~Ahead(t)'
        PROVE  Open(gaps', t)
    <3>1. t \in visible /\ t \in Worthy /\ t \in Nat
        BY <2>1, <1>0 DEF Owed, PollTyped
    <3>2. CASE Open(gaps, t)
        BY <3>2, <1>21
    <3>3. CASE Ahead(t)
      <4>1. t >= floor /\ t \notin shown
        BY <3>3 DEF Ahead
      <4>2. t \notin DOMAIN read
        BY <2>1, <3>1, <1>3
      <4>3. ~(t >= since - LiveOverlap)
        BY <2>1, <3>1, <4>1, <4>2, <1>24, <1>25, <1>c
      <4>4. t \notin page /\ ~(t >= p.at)
        BY <3>1, <4>1, <4>2, <4>3, <1>6
      <4>5. p.at \in Int
        <5>1. p.at = PollerTop \/ p.at \in 1..MaxTime
            BY DEF PollSound
        <5> QED
            BY <5>1, <1>0 DEF PollerTop
      <4>6. t < p.at
        BY <3>1, <4>4, <4>5
      <4>7. \A u \in page : u \in Nat /\ ~(u <= t)
        BY <3>1, <4>4, <4>6, <1>0, <1>4, <1>10 DEF PollTyped
      <4>8. ~ended
        <5>1. floor # 0
            BY <2>1 DEF PollerInv, FloorSound
        <5>2. ~DMarket!LastPage(p.at)
            BY <3>1, <4>4, <4>6, <1>11
        <5>3. floor \in Nat
            BY <1>0 DEF PollTyped
        <5>4. \A u \in page : ~(u < floor)
            BY <5>3, <4>1, <4>7, <3>1
        <5> QED
            BY <5>1, <5>2, <5>4, <1>12
      <4>9. g.from \in Nat /\ ~(g.from <= t) /\ g.until = floor /\ g.skip \subseteq DOMAIN handed
        BY <4>7, <4>8, <1>9
      <4>10. t < g.from /\ t \notin g.skip
        BY <4>9, <3>1, <2>1
      <4>11. InGap(g, t)
        BY <4>1, <4>9, <4>10, <1>0 DEF InGap, PollTyped
      <4> QED
        BY <4>8, <4>11, <1>21
    <3> QED
        BY <2>1, <3>2, <3>3, <1>1 DEF PollerInv, Covered
  <2>2. ASSUME start = 0, NEW t \in visible, t \in Worthy, DMarket!Min(DMarket!Page(DMarket!Top)) <= t
        PROVE  t \in DOMAIN pending' \/ Ahead(t)'
    <3>1. floor = 0 /\ DOMAIN handed = {}
        BY <2>2 DEF PollerInv, FloorSound
    <3>2. p.page = 1 /\ p.at = DMarket!Top
        BY <3>1 DEF PollSound, DMarket!Top, PollerTop
    <3>3. page = DMarket!Page(DMarket!Top)
        BY <3>2 DEF page
    <3>4. DMarket!Min(page) \in page
        BY <3>3, <1>16, MinOf
    <3>5. t \in Nat /\ t < p.at /\ t >= floor
        BY <3>1, <3>2, <1>0 DEF PollTyped, DMarket!Top
    <3>6. t \in page
        BY <2>2, <3>3, <3>4, <3>5, <1>4, <1>10
    <3>7. t \notin shown
        BY <2>2, <3>1, <1>0, <1>1 DEF PollSets
    <3>8. t \in DOMAIN read \/ t >= since - LiveOverlap
        BY <3>5, <3>6, <3>7, <1>6
    <3>9. CASE t \in DOMAIN read
        BY <3>9, <2>2, <1>3
    <3>10. CASE t \notin DOMAIN read
        BY <3>5, <3>7, <3>8, <3>10, <1>24, <1>25, <1>c
    <3> QED
        BY <3>9, <3>10
  <2> SUFFICES ASSUME NEW t \in Owed', t \notin DOMAIN handed, t \notin DOMAIN pending', ~Ahead(t)'
               PROVE  Open(gaps', t)
    BY DEF Covered
  <2>3. t \in visible /\ t \in Worthy /\ start' <= t /\ t \notin lost
    BY DEF Owed
  <2>4. CASE start = 0
    BY <2>2, <2>3, <2>4, <1>b
  <2>5. CASE start # 0
    <3>1. t \in Owed
        BY <2>3, <2>5, <1>b DEF Owed
    <3> QED
        BY <3>1, <2>1, <2>5
  <2> QED
    BY <2>4, <2>5
<1>27. PointSound' /\ BackendSound'
  <2>1. ASSUME point.newest # 0
        PROVE  PointSound'
    <3>1. start # 0
        BY <2>1 DEF PollerInv, FloorSound
    <3>2. Owed' = Owed
        BY <3>1, <1>b, <1>17 DEF Owed
    <3> QED
        BY <2>1, <3>2 DEF PollerInv, PointSound, GapsSound, Open
  <2> QED
    BY <2>1, <1>d DEF PointSound, BackendSound
<1>28. ReadKnown'
  <2>0. \A t \in accounted \cup DOMAIN recorded : t \in Nat
    BY <1>0 DEF PollTyped, PollSets
  <2>1. \A t \in accounted : t \in DOMAIN recorded \/ t < floor
    BY <1>0, <1>1 DEF ReadKnown
  <2>2. \A t \in accounted : t \in DOMAIN recorded \/ (t < floor' /\ FarBack(t)')
    <3> SUFFICES ASSUME NEW t \in accounted, t \notin DOMAIN recorded
                 PROVE  t < floor' /\ FarBack(t)'
        OBVIOUS
    <3>1. FarBack(t) /\ t \in Nat
        BY <2>0, <1>0, <1>1 DEF ReadKnown
    <3>2. t < top - ResumeOverlap
      <4>1. CASE latest # 0 \/ point.newest # 0
        <5>1. t < Reach - ResumeOverlap
            BY <3>1, <4>1 DEF FarBack
        <5>2. Reach \in Nat /\ Reach <= top
            BY <1>0, <1>4 DEF PollTyped
        <5> QED
            BY <5>1, <5>2, <3>1, <1>14, <1>c
      <4>2. CASE ~(latest # 0 \/ point.newest # 0)
        <5>1. PICK u \in DOMAIN handed : t < handed[u] - ResumeOverlap
            BY <3>1, <4>2 DEF FarBack
        <5>2. handed[u] \in Nat
            BY <1>0 DEF PollTyped
        <5>3. handed[u] <= IF p.page = 1 THEN since - LiveOverlap - 1 ELSE p.newest
            BY <4>2 DEF PollSound
        <5>4. p.newest \in Int
            BY DEF PollSound
        <5>5. handed[u] <= top
            BY <5>2, <5>3, <5>4, <1>4, <1>14, <1>c
        <5> QED
            BY <5>1, <5>2, <5>5, <3>1, <1>14, <1>c
      <4> QED
        BY <4>1, <4>2
    <3>3. t < floor'
        BY <3>1, <3>2, <1>14, <1>c
    <3>4. latest' # 0
        BY <1>a, <1>14
    <3> QED
        BY <3>2, <3>3, <3>4, <1>15 DEF FarBack
  <2>3. \A t \in DOMAIN pending' : t \in Nat /\ t >= floor /\ t \notin shown
    BY <1>0, <1>3, <1>5 DEF PollTyped
  <2>4. \A t \in DOMAIN pending' : ~Open(gaps, t)
    <3>1. \A i \in 1..Len(gaps) : gaps[i].from \in Int /\ gaps[i].from <= floor
        BY GapFields DEF PollerInv, GapsSound
    <3>2. floor \in Nat
        BY <1>0 DEF PollTyped
    <3> QED
        BY <2>3, <3>1, <3>2 DEF Open, InGap
  <2>5. \A t \in accounted \cup DOMAIN recorded : ~Open(gaps, t)
    BY <1>0, <1>1 DEF ReadKnown
  <2>6. ASSUME ~ended, NEW t \in accounted \cup DOMAIN recorded \cup DOMAIN pending', InGap(g, t)
        PROVE  FALSE
    <3>1. floor <= t /\ t < g.from /\ t \notin DMarket!Skip
        BY <2>6, <1>9 DEF InGap
    <3>2. floor \in Nat /\ t \in Nat
        BY <2>0, <2>3, <1>0 DEF PollTyped
    <3>3. t \notin DOMAIN recorded
      <4> SUFFICES ASSUME t \in DOMAIN recorded
                   PROVE  FALSE
        OBVIOUS
      <4>1. recorded[t] \in Int /\ t <= recorded[t]
        BY <1>0 DEF PollTyped
      <4>2. recorded[t] >= floor
        BY <4>1, <3>1, <3>2
      <4> QED
        BY <4>2, <3>1 DEF DMarket!Skip
    <3>4. t \notin accounted
        BY <3>1, <3>2, <3>3, <2>1
    <3>5. t \in DOMAIN read
        BY <3>3, <3>4, <1>3
    <3>6. g.from \in page /\ \A u \in page : g.from <= u
        BY <2>6, <1>9
    <3>7. g.from <= t
        BY <3>5, <3>6, <1>5
    <3>8. g.from \in Nat
        BY <3>6, <1>0, <1>4 DEF PollTyped
    <3> QED
        BY <3>1, <3>2, <3>7, <3>8
  <2>7. \A t \in accounted \cup DOMAIN recorded \cup DOMAIN pending' : ~Open(gaps', t)
    BY <2>4, <2>5, <2>6, <1>21
  <2>8. DOMAIN recorded \subseteq shown /\ DOMAIN recorded \subseteq shown'
    BY <1>0, <1>1, <1>e DEF ReadKnown
  <2>9. DOMAIN pending' \cap accounted = {}
    <3> SUFFICES ASSUME NEW t \in DOMAIN pending', t \in accounted
                 PROVE  FALSE
        OBVIOUS
    <3>1. floor \in Nat
        BY <1>0 DEF PollTyped
    <3> QED
        BY <3>1, <2>1, <2>3, <2>8
  <2>10. latest' # 0
    BY <1>a, <1>14
  <2> QED
    BY <2>2, <2>7, <2>8, <2>9, <2>10 DEF ReadKnown, Open
<1> QED
    BY <1>18, <1>19, <1>20, <1>22, <1>23, <1>26, <1>27, <1>28 DEF PollerInv

\* The poll has not arrived yet: nothing but the poll itself moves.
LEMMA PollAwaits ==
    ASSUME PollerInv, at \in {"idle", "polling"}, NEW since \in Nat, since >= 1, since <= now, NEW q,
           q.page # 1, PollSound(q, since),
           poll' = q, at' = "polling", polled' = since,
           latest' = latest, floor' = floor, gaps' = gaps, shown' = shown, pending' = pending, start' = start,
           now' = now, visible' = visible, recorded' = recorded, point' = point, handed' = handed,
           lost' = lost, accounted' = accounted, mishaps' = mishaps, outages' = outages, unanswered' = unanswered
    PROVE  PollerInv'
<1>1. Running /\ Running' /\ ~Settled'
    BY DEF Running, Settled
<1>2. Reach' = Reach /\ Owed' = Owed
    BY <1>1 DEF Reach, Owed
<1>3. now \in Nat
    BY PollTypes DEF PollTyped
<1>4. PollScalars' /\ PointWhole'
  <2>1. polled' \in 0..now'
    BY <1>3
  <2> QED
    BY <2>1 DEF PollerInv, PollScalars, PointWhole
<1>5. PollSets'
    BY DEF PollerInv, PollSets
<1>6. FloorSound'
    BY DEF PollerInv, FloorSound
<1>7. GapsSound(gaps, Reach, DOMAIN handed)' /\ (\A i \in 1..Len(gaps) : gaps[i].from <= floor)'
    BY <1>2 DEF PollerInv
<1>8. Polling'
  <2>1. PollSound(q, since)'
    BY <1>2 DEF PollSound
  <2>2. PollSound(poll, polled)' /\ poll'.page # 1
    BY <2>1 DEF PollSound
  <2>3. DOMAIN pending = {}
    BY DEF PollerInv, Polling
  <2>4. latest = 0 /\ point.newest = 0 => \A u \in DOMAIN handed : handed[u] <= now - LiveOverlap - 1
    BY <1>1 DEF PollerInv, Polling
  <2> QED
    BY <1>1, <2>2, <2>3, <2>4 DEF Polling
<1>9. Covered'
  <2>1. ASSUME NEW t, Ahead(t)
        PROVE  Ahead(t)'
    BY <2>1, <1>1 DEF Ahead
  <2> QED
    BY <1>2, <2>1 DEF PollerInv, Covered, Open
<1>10. PointSound' /\ BackendSound'
    BY <1>2 DEF PollerInv, PointSound, BackendSound, Open
<1>11. ReadKnown'
    BY <1>1, <1>2 DEF PollerInv, ReadKnown, FarBack, Open
<1> QED
    BY <1>4, <1>5, <1>6, <1>7, <1>8, <1>9, <1>10, <1>11 DEF PollerInv

LEMMA LivePageKeeps == ASSUME PollerInv, DMarket!LivePage PROVE PollerInv'
<1> DEFINE since == IF at = "idle" THEN now ELSE polled
           page == DMarket!Page(poll.at)
           fresh == LiveFresh(poll)
           read == LiveRead(poll)
           top == LiveTop(poll)
           ended == LiveEnded(poll)
           q == [page |-> poll.page + 1, at |-> DMarket!Min(page), newest |-> top, read |-> read]
<1>0. PollTyped
    BY PollTypes
<1>1. at \in {"idle", "polling"} /\ Running
    BY DEF DMarket!LivePage, Running
<1>2. /\ \/ ended /\ DMarket!Finish(read, top, <<>>)
         \/ ~ended /\ poll.page = LiveMaxPages /\ DMarket!Finish(read, top, DMarket!Leftover(DMarket!Min(page)))
         \/ /\ ~ended /\ poll.page < LiveMaxPages /\ poll' = q /\ at' = "polling"
            /\ latest' = latest /\ floor' = floor /\ gaps' = gaps /\ shown' = shown /\ pending' = pending /\ start' = start
      /\ polled' = since
      /\ now' = now /\ visible' = visible /\ recorded' = recorded /\ point' = point /\ handed' = handed
      /\ lost' = lost /\ accounted' = accounted /\ mishaps' = mishaps /\ outages' = outages /\ unanswered' = unanswered
    BY DEF DMarket!LivePage, DMarket!bounds, LiveFresh, LiveRead, LiveTop, LiveEnded
<1>3. since \in Nat /\ since >= 1 /\ since <= now
  <2>1. at = "polling" => polled # 0
    BY DEF PollerInv, Polling
  <2>2. now \in Nat /\ now >= 1 /\ polled \in Nat /\ polled <= now
    BY <1>0 DEF PollTyped
  <2>3. CASE at = "idle"
    BY <2>2, <2>3
  <2>4. CASE at # "idle"
    <3>1. polled # 0 /\ since = polled
        BY <2>1, <2>4, <1>1
    <3> QED
        BY <3>1, <2>2
  <2> QED
    BY <2>3, <2>4
<1>4. PollSound(poll, since) /\ (poll.page = 1 => since = now)
  <2>1. CASE at = "idle"
    <3>1. poll = DMarket!NewPoll
        BY <2>1, <1>1 DEF PollerInv, Polling
    <3> QED
        BY <2>1, <3>1, PollBegins
  <2>2. CASE at = "polling"
    BY <2>2 DEF PollerInv, Polling
  <2> QED
    BY <2>1, <2>2, <1>1
<1> HIDE DEF since
<1>5. PageRead(poll, since)
    BY <1>1, <1>3, <1>4, PageReads
<1>6. CASE ended /\ DMarket!Finish(read, top, <<>>)
  <2>1. DMarket!Finish(LiveRead(poll), LiveTop(poll), <<>>) /\ LiveEnded(poll)
    BY <1>6
  <2>2. /\ polled' = since
        /\ now' = now /\ visible' = visible /\ recorded' = recorded /\ point' = point /\ handed' = handed
        /\ lost' = lost /\ accounted' = accounted /\ mishaps' = mishaps /\ outages' = outages /\ unanswered' = unanswered
    BY <1>2
  <2> HIDE DEF ended, read, top
  <2> QED
    BY <2>1, <2>2, <1>1, <1>3, <1>4, <1>5, PollFinishes
<1>7. CASE ~ended /\ poll.page = LiveMaxPages /\ DMarket!Finish(read, top, DMarket!Leftover(DMarket!Min(page)))
  <2>1. DMarket!Leftover(DMarket!Min(page)) = <<LiveLeft(poll)>>
    BY DEF DMarket!Leftover, LiveLeft
  <2> QED
    BY <2>1, <1>1, <1>2, <1>3, <1>4, <1>5, <1>7, PollFinishes
<1>8. CASE /\ ~ended /\ poll.page < LiveMaxPages /\ poll' = q /\ at' = "polling"
           /\ latest' = latest /\ floor' = floor /\ gaps' = gaps /\ shown' = shown /\ pending' = pending /\ start' = start
  <2>1. poll.page \in 1..LiveMaxPages /\ LiveMaxPages \in Nat
    BY <1>4, PollerConstants DEF PollSound
  <2>2. poll.page # LiveMaxPages
    BY <2>1, <1>8
  <2>3. PollSound(q, since)
    BY <2>2, <1>1, <1>3, <1>4, <1>5, <1>8, PollContinues
  <2>4. q.page # 1
    <3>1. q.page = poll.page + 1
        OBVIOUS
    <3> HIDE DEF q
    <3> QED
        BY <3>1, <2>1
  <2> HIDE DEF q
  <2> QED
    BY <2>3, <2>4, <1>1, <1>2, <1>3, <1>8, PollAwaits
<1> QED
    BY <1>2, <1>6, <1>7, <1>8

-----------------------------------------------------------------------------
(* The theorem.                                                            *)

LEMMA PollerStep == ASSUME PollerInv, DMarket!Next \/ UNCHANGED poller PROVE PollerInv'
    BY PollerRests, AppearKeeps, PollerTickKeeps, ResumeKeeps, PricesArriveKeeps, LivePageKeeps, CatchUpKeeps,
       RequestFailsKeeps, HandOnKeeps, SaveKeeps, CrashKeeps, RestartKeeps
    DEF DMarket!Next

LEMMA PollerSoundReadsOnce == ASSUME PollerInv PROVE ReadOnce
<1>0. PollTyped /\ PollSets /\ MaxTime \in Nat \ {0} /\ ResumeOverlap \in Nat
    BY PollTypes, PollerConstants DEF PollerInv
<1>1. \A t \in visible : t \in DMarket!Times
    BY <1>0 DEF PollTyped, DMarket!Times
<1>2. \A i \in 1..Len(gaps) : /\ gaps[i] \in DMarket!Gaps
                              /\ gaps[i].until <= gaps[i].from /\ gaps[i].skip \subseteq DOMAIN handed
  <2> SUFFICES ASSUME NEW i \in 1..Len(gaps)
               PROVE  /\ gaps[i] \in DMarket!Gaps
                      /\ gaps[i].until <= gaps[i].from /\ gaps[i].skip \subseteq DOMAIN handed
    OBVIOUS
  <2>1. /\ 1 <= gaps[i].until /\ gaps[i].until <= gaps[i].from /\ gaps[i].from <= Reach - ResumeOverlap
        /\ gaps[i].skip \subseteq DOMAIN handed
    BY DEF PollerInv, GapsSound
  <2>2. gaps[i] \in GapRecords /\ gaps[i].from \in Int /\ gaps[i].until \in Int
    BY GapFields DEF PollerInv, GapsSound
  <2>3. gaps[i].from \in DMarket!Times /\ gaps[i].until \in DMarket!Times
    BY <2>1, <2>2, <1>0 DEF DMarket!Times, PollTyped
  <2>4. DOMAIN handed \subseteq DMarket!Times
    BY <1>0, <1>1 DEF PollTyped
  <2>5. gaps[i] = [from |-> gaps[i].from, until |-> gaps[i].until, skip |-> gaps[i].skip]
    BY <2>2 DEF GapRecords
  <2> QED
    BY <2>1, <2>3, <2>4, <2>5 DEF DMarket!Gaps
<1>3. DMarket!TypeOK
  <2>1. now \in DMarket!Times /\ visible \subseteq DMarket!Times /\ shown \subseteq DMarket!Times
    BY <1>0, <1>1 DEF PollTyped, PollSets, DMarket!Times
  <2>2. latest \in 0..MaxTime
    BY <1>0 DEF PollTyped
  <2>3. /\ DOMAIN recorded \subseteq DOMAIN handed /\ DOMAIN pending \subseteq Worthy /\ DOMAIN handed \subseteq Worthy
        /\ \A t \in DOMAIN handed : handed[t] \in t..now
    BY <1>0 DEF PollSets
  <2> QED
    BY <1>2, <2>1, <2>2, <2>3 DEF DMarket!TypeOK, PollerInv, PollScalars
<1>4. DMarket!Coverage
  <2> SUFFICES ASSUME at \notin {"down", "resuming"}, NEW t \in Owed, t \notin DOMAIN handed, t \notin DOMAIN pending
               PROVE  DMarket!ToBeRead(t)
    BY DEF DMarket!Coverage, DMarket!Owed, Owed
  <2>1. t \in visible /\ t \in Worthy /\ t \in DMarket!Times
    BY <1>1 DEF Owed
  <2>2. t \notin shown
    BY <2>1, <1>0 DEF PollSets
  <2>3. Ahead(t) \/ Open(gaps, t)
    BY DEF PollerInv, Covered
  <2>4. CASE Ahead(t)
    BY <2>2, <2>4 DEF Ahead, DMarket!ToBeRead
  <2>5. CASE Open(gaps, t)
    BY <2>1, <2>2, <2>5 DEF Open, InGap, DMarket!ToBeRead, DMarket!Stretch
  <2> QED
    BY <2>3, <2>4, <2>5
<1>5. at \notin {"down", "resuming"} => DOMAIN pending \cap accounted = {}
  <2>1. at \notin {"down", "resuming"} => Running
    BY DEF PollerInv, PollScalars, Running
  <2> QED
    BY <2>1 DEF PollerInv, ReadKnown
<1> QED
    BY <1>3, <1>4, <1>5 DEF ReadOnce, DMarket!ReadOnce

\* Each listing owed is read once: whatever polls fail part way, run into their page limit, or resume after a crash of the
\* listener or of the PC, none falls between the live poll, the gaps and what was handed on, and none that the resume point
\* accounts for is recorded again (live_poll, catch_up_page, resume_from).
THEOREM ReadOnceHolds == FeedsSpec => []ReadOnce
<1>1. FeedsInit => PollerInv
    BY PollerStarts DEF FeedsInit
<1>2. PollerInv /\ [FeedsNext]_feeds => PollerInv'
  <2> SUFFICES ASSUME PollerInv, [FeedsNext]_feeds
               PROVE  DMarket!Next \/ UNCHANGED poller
    BY PollerStep
  <2> QED
    BY DEF FeedsNext, feeds
<1>3. PollerInv => ReadOnce
    BY PollerSoundReadsOnce
<1> QED
    BY <1>1, <1>2, <1>3, PTL DEF FeedsSpec
=============================================================================
