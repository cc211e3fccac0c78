-------------------------- MODULE VenueSales_proofs --------------------------
(***************************************************************************)
(* The outcome labeler (OutcomeLabels), for any listings, prices, label    *)
(* versions and ranges of runs; and the sales sync (SalesSync), which      *)
(* implements SalesStore for any titles, page sizes and histories.         *)
(***************************************************************************)
EXTENDS VenueSales, FiniteSetTheorems, SequenceTheorems, WellFoundedInduction, TLAPS

(* A set of natural numbers has a least one.                                *)
LEMMA Least ==
  ASSUME NEW S, S \subseteq Nat, S # {}
  PROVE  \E n \in S : \A m \in S : n <= m
<1> DEFINE R == OpToRel(<, Nat)
<1>1. \A x, y \in Nat : x < y => <<x, y>> \in R
  BY DEF OpToRel
<1>2. IsWellFoundedOn(R, Nat)
  BY NatLessThanWellFounded
<1> HIDE DEF R
<1>3. PICK x \in S : \A y \in S : ~ (<<y, x>> \in R)
  BY <1>2, WFMin
<1>4. ASSUME NEW m \in S PROVE x <= m
  <2>1. m \in Nat /\ x \in Nat OBVIOUS
  <2>2. ~ (m < x) BY <1>1, <1>3, <2>1
  <2> QED BY <2>1, <2>2
<1> QED BY <1>4

(* Min of a set of natural numbers is its least.                            *)
LEMMA MinIsLeast ==
  ASSUME NEW S, S \subseteq Nat, S # {}
  PROVE  Labels!Min(S) \in S /\ \A m \in S : Labels!Min(S) <= m
<1>1. \E n \in S : \A m \in S : n <= m
  BY Least
<1> QED
  BY <1>1 DEF Labels!Min

-----------------------------------------------------------------------------
(* What training has read.                                                  *)

RunKeys == {"config", "as_of", "start", "cursor", "end", "index", "fees"}
RowKeys == {"label", "listed_at", "labeled_at", "run_start"}

\* A label is not from the future, and a run has the parameters its version is registered with.
LabelsSound ==
    /\ clock \in Nat
    /\ config \in Configs
    /\ listed \subseteq [id : Listings, at : Nat]
    /\ \A l \in Listings : outcomes[l] # None => /\ DOMAIN outcomes[l] = RowKeys
                                                 /\ outcomes[l].listed_at \in Nat
                                                 /\ outcomes[l].labeled_at \in 0..clock
    /\ run # None => DOMAIN run = RunKeys /\ run.config = config /\ run.as_of \in 0..clock

\* A read is of the past, and a run in progress began after it.
ReadSound ==
    read # None => /\ read.as_of \in Int /\ read.as_of < clock
                   /\ run # None => read.as_of < run.as_of

ReadInv == LabelsSound /\ ReadSound /\ SameRows

(* The parameters of a version are natural numbers, and None is neither a label nor a run. *)
LEMMA Parameters ==
  /\ \A c \in Configs : /\ c.horizon \in Nat /\ c.hold \in Nat /\ c.settle \in Nat
                        /\ c.revise \in Nat /\ c.sales_settle \in Nat
  /\ "listed_at" \notin DOMAIN None /\ "as_of" \notin DOMAIN None
  BY SalesAssumption DEF Labels!LabelsAssumption

(* label_window leaves the label of a listing as it is, or replaces one that may be replaced by that of a sighting. *)
LEMMA WindowWrites ==
  ASSUME LabelsSound, Labels!LabelWindow, NEW l \in Listings
  PROVE  \/ outcomes'[l] = outcomes[l]
         \/ \E at \in Nat : /\ run.cursor <= at /\ at < Labels!WindowEnd(run.cursor, run.end)
                            /\ Labels!Writes(outcomes[l], at) /\ outcomes'[l] = Labels!Outcome(l, at)
<1> DEFINE end == Labels!WindowEnd(run.cursor, run.end)
           seen == Labels!SeenIn(l, run.cursor, end)
<1>1. outcomes'[l] = IF seen # {} /\ Labels!Writes(outcomes[l], Labels!Min(seen))
                     THEN Labels!Outcome(l, Labels!Min(seen)) ELSE outcomes[l]
  BY DEF Labels!LabelWindow
<1>2. seen \subseteq Nat /\ \A at \in seen : run.cursor <= at /\ at < end
  BY DEF LabelsSound, Labels!SeenIn
<1> HIDE DEF seen
<1>3. seen # {} => Labels!Min(seen) \in Nat /\ Labels!Min(seen) \in seen
  BY <1>2, MinIsLeast
<1> QED
  BY <1>1, <1>2, <1>3

LEMMA SoundInit == Labels!Init => ReadInv
<1> SUFFICES ASSUME Labels!Init PROVE ReadInv
  OBVIOUS
<1>1. LabelsSound
  BY DEF Labels!Init, Labels!StoreInit, LabelsSound
<1> QED
  BY <1>1 DEF Labels!Init, ReadInv, ReadSound, SameRows, Labels!SameRows

(* A step of the labeler's venue, and the start, stop and read of a run *)
LEMMA SoundStep ==
  ASSUME LabelsSound, [Labels!Next]_(Labels!vars)
  PROVE  LabelsSound' /\ (ReadAlone /\ ReadSound => ReadSound')
<1> USE Parameters
<1>1. CASE UNCHANGED Labels!vars
  BY <1>1 DEF Labels!vars, LabelsSound, ReadSound
<1>2. CASE Labels!SyncSales
  BY <1>2 DEF Labels!SyncSales, Labels!StoreTitle, LabelsSound, ReadSound
<1>3. CASE Labels!StoreBuild
  BY <1>3 DEF Labels!StoreBuild, Labels!Build, LabelsSound, ReadSound
<1>4. CASE Labels!Tick
  BY <1>4 DEF Labels!Tick, Labels!StoreTick, LabelsSound, ReadSound
<1>5. CASE Labels!LabelWindow
  <2>1. \A l \in Listings : outcomes'[l] # None =>
           /\ DOMAIN outcomes'[l] = RowKeys
           /\ outcomes'[l].listed_at \in Nat
           /\ outcomes'[l].labeled_at \in 0..clock'
    <3> SUFFICES ASSUME NEW l \in Listings, outcomes'[l] # None
                 PROVE  /\ DOMAIN outcomes'[l] = RowKeys
                        /\ outcomes'[l].listed_at \in Nat
                        /\ outcomes'[l].labeled_at \in 0..clock'
      OBVIOUS
    <3>1. clock' = clock /\ clock \in Nat
      BY <1>5 DEF Labels!LabelWindow, Labels!store, LabelsSound
    <3>2. CASE outcomes'[l] = outcomes[l]
      BY <3>1, <3>2 DEF LabelsSound
    <3>3. ASSUME NEW at \in Nat, outcomes'[l] = Labels!Outcome(l, at)
          PROVE  /\ DOMAIN outcomes'[l] = RowKeys
                 /\ outcomes'[l].listed_at \in Nat
                 /\ outcomes'[l].labeled_at \in 0..clock'
      BY <3>1, <3>3 DEF Labels!Outcome, RowKeys
    <3> QED
      BY <1>5, <3>2, <3>3, WindowWrites
  <2>2. run' # None => DOMAIN run' = RunKeys /\ run'.config = run.config /\ run'.as_of = run.as_of
    BY <1>5 DEF Labels!LabelWindow, LabelsSound, RunKeys
  <2>3. UNCHANGED <<clock, config, listed, read>> /\ run # None
    BY <1>5 DEF Labels!LabelWindow, Labels!store
  <2> QED
    BY <2>1, <2>2, <2>3 DEF LabelsSound, ReadSound
<1>6. CASE Labels!StopRun
  BY <1>6 DEF Labels!StopRun, Labels!store, LabelsSound, ReadSound
<1>7. CASE Labels!ReadFinal
  BY <1>7 DEF Labels!ReadFinal, Labels!store, LabelsSound, ReadSound
<1>8. ASSUME NEW l \in Listings, Labels!Sight(l) PROVE LabelsSound' /\ (ReadSound => ReadSound')
  BY <1>8 DEF Labels!Sight, Labels!store, LabelsSound, ReadSound
<1>9. ASSUME NEW kind \in TradedKinds, Labels!Sale(kind) PROVE LabelsSound' /\ (ReadSound => ReadSound')
  BY <1>9 DEF Labels!Sale, Labels!Appear, LabelsSound, ReadSound
<1>10. ASSUME NEW c \in Configs, NEW start \in Labels!Times, Labels!StartRun(c, start) PROVE LabelsSound' /\ (ReadSound => ReadSound')
  BY <1>10 DEF Labels!StartRun, Labels!Registered, Labels!store, LabelsSound, ReadSound, RunKeys
<1> QED
  BY <1>1, <1>2, <1>3, <1>4, <1>5, <1>6, <1>7, <1>8, <1>9, <1>10 DEF Labels!Next

(* A label that was final at a moment is final at every later one, and a run that began after it leaves it alone. *)
LEMMA FinalStays ==
  ASSUME LabelsSound, ReadSound, read # None, Labels!LabelWindow, NEW l \in Listings
  PROVE  /\ l \in Labels!FinalLabels(read.as_of)' <=> l \in Labels!FinalLabels(read.as_of)
         /\ l \in Labels!FinalLabels(read.as_of) => outcomes'[l] = outcomes[l]
<1>1. /\ run # None /\ run.config = config /\ run.as_of \in Int /\ read.as_of \in Int
      /\ read.as_of < run.as_of /\ read.as_of < clock /\ clock \in Nat
      /\ UNCHANGED <<clock, config, read>>
  BY DEF LabelsSound, ReadSound, Labels!LabelWindow, Labels!store
<1>2. config.horizon \in Nat /\ config.settle \in Nat /\ config.revise \in Nat
  BY Parameters DEF LabelsSound
<1>3. CASE outcomes'[l] = outcomes[l]
  BY <1>1, <1>3 DEF Labels!FinalLabels, Labels!FinalBefore
<1>4. ASSUME NEW at \in Nat, Labels!Writes(outcomes[l], at), outcomes'[l] = Labels!Outcome(l, at)
      PROVE  l \notin Labels!FinalLabels(read.as_of) /\ l \notin Labels!FinalLabels(read.as_of)'
  <2>1. l \notin Labels!FinalLabels(read.as_of)
    <3> SUFFICES ASSUME outcomes[l] # None,
                        outcomes[l].listed_at + config.horizon <= read.as_of - config.settle - config.revise
                 PROVE  FALSE
      BY DEF Labels!FinalLabels, Labels!FinalBefore
    <3>1. outcomes[l].listed_at \in Nat
      BY DEF LabelsSound
    <3>2. outcomes[l].listed_at + config.horizon > run.as_of - config.settle - config.revise
      BY <1>1, <1>4 DEF Labels!Writes, Labels!FinalBefore
    <3> QED
      BY <1>1, <1>2, <3>1, <3>2
  <2>2. outcomes'[l].labeled_at = clock
    BY <1>1, <1>4 DEF Labels!Outcome
  <2>3. l \notin Labels!FinalLabels(read.as_of)'
    BY <1>1, <2>2 DEF Labels!FinalLabels
  <2> QED
    BY <2>1, <2>3
<1> QED
  BY <1>3, <1>4, WindowWrites

LEMMA RowsStay ==
  ASSUME ReadAlone, LabelsSound, ReadSound, SameRows, [Labels!Next]_(Labels!vars)
  PROVE  SameRows'
<1> USE DEF SameRows, Labels!SameRows
<1>1. CASE Labels!LabelWindow
  <2> SUFFICES ASSUME read # None PROVE Labels!FinalRows(read.as_of)' = read'.rows
    BY <1>1 DEF Labels!LabelWindow
  <2>1. read' = read
    BY <1>1 DEF Labels!LabelWindow
  <2>2. Labels!FinalLabels(read.as_of)' = Labels!FinalLabels(read.as_of)
    BY <1>1, FinalStays DEF Labels!FinalLabels
  <2>3. \A l \in Labels!FinalLabels(read.as_of) : outcomes'[l] = outcomes[l]
    BY <1>1, FinalStays DEF Labels!FinalLabels
  <2>4. Labels!FinalRows(read.as_of)' = Labels!FinalRows(read.as_of)
    BY <2>2, <2>3 DEF Labels!FinalRows
  <2> QED
    BY <2>1, <2>4
<1>2. CASE Labels!ReadFinal
  BY <1>2 DEF Labels!ReadFinal, Labels!FinalRows, Labels!FinalLabels
<1>3. ASSUME UNCHANGED <<config, outcomes, read>> PROVE SameRows'
  BY <1>3 DEF Labels!FinalRows, Labels!FinalLabels, Labels!FinalBefore
<1>4. \/ Labels!LabelWindow \/ Labels!ReadFinal \/ UNCHANGED <<config, outcomes, read>>
  BY DEF Labels!Next, Labels!vars, Labels!SyncSales, Labels!StoreBuild, Labels!Tick, Labels!StopRun, Labels!Sight,
         Labels!Sale, Labels!StartRun
<1> QED
  BY <1>1, <1>2, <1>3, <1>4

(* The same as_of reads the same rows on every run: what fetch_final_labels once read of final labels is what any later
   read of that moment finds, whatever ranges are labeled in between, when it reads while no run is writing.  A run that
   begins later finds those labels final, and what it writes is dated after the read. *)
THEOREM SameRowsHolds ==
  ASSUME ReadAlone PROVE Labels!Spec => []SameRows
<1>1. Labels!Init => ReadInv
  BY SoundInit
<1>2. ReadInv /\ [Labels!Next]_(Labels!vars) => ReadInv'
  BY SoundStep, RowsStay DEF ReadInv
<1>3. ReadInv => SameRows
  BY DEF ReadInv
<1> QED
  BY <1>1, <1>2, <1>3, PTL DEF Labels!Spec

-----------------------------------------------------------------------------
LEMMA KeptStep ==
  ASSUME LabelsSound, [Labels!Next]_(Labels!vars), NEW l \in Listings, outcomes[l] # None
  PROVE  outcomes'[l] # None /\ outcomes'[l].listed_at <= outcomes[l].listed_at
<1>1. outcomes[l].listed_at \in Nat
  BY DEF LabelsSound
<1>2. CASE Labels!LabelWindow
  <2>1. ASSUME NEW at \in Nat, Labels!Writes(outcomes[l], at), outcomes'[l] = Labels!Outcome(l, at)
        PROVE  outcomes'[l] # None /\ outcomes'[l].listed_at <= outcomes[l].listed_at
    BY <2>1, Parameters DEF Labels!Writes, Labels!Outcome
  <2> QED
    BY <1>1, <1>2, <2>1, WindowWrites
<1>3. CASE outcomes' = outcomes
  BY <1>1, <1>3
<1>4. Labels!LabelWindow \/ outcomes' = outcomes
  BY DEF Labels!Next, Labels!vars, Labels!SyncSales, Labels!StoreBuild, Labels!Tick, Labels!StopRun, Labels!Sight,
         Labels!Sale, Labels!StartRun, Labels!ReadFinal
<1> QED
  BY <1>2, <1>3, <1>4

(* A label is never lost, nor moved to a later sighting, in whatever order ranges are labeled and final labels are read:
   save_outcomes replaces a label only by one of the same or an earlier sighting. *)
THEOREM EarliestKeptHolds == Labels!Spec => EarliestKept
<1>1. Labels!Init => LabelsSound
  BY SoundInit DEF ReadInv
<1>2. LabelsSound /\ [Labels!Next]_(Labels!vars) => LabelsSound'
  BY SoundStep
<1>3. LabelsSound /\ [Labels!Next]_(Labels!vars) =>
         [\A l \in Listings : outcomes[l] # None =>
              outcomes'[l] # None /\ outcomes'[l].listed_at <= outcomes[l].listed_at]_(Labels!vars)
  BY KeptStep
<1> QED
  BY <1>1, <1>2, <1>3, PTL DEF Labels!Spec, EarliestKept, Labels!EarliestKept

-----------------------------------------------------------------------------
(* A label is the one that the whole history gives.  First, what is known  *)
(* of the venue: its sales are in order, those of one listing are of one   *)
(* moment, and a build is made of the sales that had shown up.             *)

VenueSound ==
    /\ clock \in 0..LabelTime
    /\ shown \in [{Traded} -> Seq([at : Nat, kind : TradedKinds])]
    /\ \A i \in 1..Len(shown[Traded]) : shown[Traded][i].at <= clock
    /\ \A i, j \in 1..Len(shown[Traded]) : i <= j => shown[Traded][i].at <= shown[Traded][j].at
    /\ \A i, j \in 1..Len(shown[Traded]) :
          shown[Traded][i].kind.listing = shown[Traded][j].kind.listing => shown[Traded][i].at = shown[Traded][j].at
    /\ recorded \subseteq Labels!AllSales
    /\ built \subseteq 0..clock
    /\ ~ config.venue_sales => built = {}
    /\ \A b \in built : \A i \in Labels!UsableSales(Traded) :
          shown[Traded][i].at + LabelLag < b => Labels!SaleKey(Traded, i) \in recorded

LEMMA Constants ==
  /\ Skew \in Nat /\ Window \in Nat /\ LabelLag \in Nat /\ LabelTime \in Nat
  /\ LabelHistory \in Nat /\ LabelHistory >= LabelTime
  /\ \A c \in Configs : LabelLag <= IF c.venue_sales THEN c.sales_settle ELSE c.settle
  BY SalesAssumption DEF Labels!LabelsAssumption

LEMMA OneTitle == Labels!Title = Traded
  BY DEF Labels!Title

LEMMA MaxOfTwo ==
  ASSUME NEW a \in Int, NEW b \in Int
  PROVE  /\ Labels!Max({a, b}) = IF a >= b THEN a ELSE b
         /\ Labels!Min({a, b}) = IF a <= b THEN a ELSE b
  BY DEF Labels!Max, Labels!Min

(* Max of a bounded set of natural numbers is its greatest.                 *)
LEMMA MaxIsGreatest ==
  ASSUME NEW n \in Nat, NEW S, S \subseteq 0..n, S # {}
  PROVE  Labels!Max(S) \in S /\ \A m \in S : m <= Labels!Max(S)
<1> DEFINE R == {n - m : m \in S}
<1>1. PICK k \in R : \A r \in R : k <= r
  <2>1. R \subseteq Nat /\ R # {}
    <3>1. \A m \in S : n - m \in Nat OBVIOUS
    <3> QED BY <3>1
  <2> HIDE DEF R
  <2> QED BY <2>1, Least
<1>2. PICK x \in S : k = n - x
  OBVIOUS
<1>3. \A m \in S : m <= x
  <2> SUFFICES ASSUME NEW m \in S PROVE m <= x
    OBVIOUS
  <2>1. k <= n - m
    BY <1>1
  <2> QED
    BY <1>2, <2>1
<1> HIDE DEF R
<1> QED
  BY <1>3 DEF Labels!Max

LEMMA LatestIsLast ==
  ASSUME NEW n \in Nat, NEW S, S \subseteq 0..n
  PROVE  /\ S = {} => Labels!Latest(S) = -1
         /\ S # {} => Labels!Latest(S) \in S
         /\ \A m \in S : m <= Labels!Latest(S)
  BY MaxIsGreatest DEF Labels!Latest

(* The number of a sale is a natural number.                                *)
LEMMA SaleNumber ==
  ASSUME NEW i \in Nat
  PROVE  Labels!SaleKey(Traded, i).nr \in Nat
<1> DEFINE same == {j \in 1..(i - 1) : shown[Traded][j] = shown[Traded][i]}
<1>1. Labels!SaleKey(Traded, i).nr = Labels!Cardinality(same)
  BY DEF Labels!SaleKey
<1>2. Labels!Cardinality(same) = Cardinality(same)
  BY DEF Labels!Cardinality, Cardinality
<1>3. IsFiniteSet(same)
  <2>1. IsFiniteSet(1..(i - 1))
    BY FS_Interval
  <2> QED
    BY <2>1, FS_Subset
<1> QED
  BY <1>1, <1>2, <1>3, FS_CardinalityType

LEMMA SaleType ==
  ASSUME VenueSound
  PROVE  /\ \A s \in Labels!AllSales : s.at \in Nat /\ s.at <= clock /\ s.nr \in Nat
         /\ \A s, r \in Labels!AllSales : s.kind.listing = r.kind.listing => s.at = r.at
<1>0. shown[Traded] \in Seq([at : Nat, kind : TradedKinds])
  BY DEF VenueSound
<1>1. ASSUME NEW i \in Labels!UsableSales(Traded)
      PROVE  /\ i \in 1..Len(shown[Traded])
             /\ Labels!SaleKey(Traded, i).at = shown[Traded][i].at
             /\ Labels!SaleKey(Traded, i).kind = shown[Traded][i].kind
             /\ Labels!SaleKey(Traded, i).nr \in Nat
  <2>1. i \in 1..Len(shown[Traded])
    BY <1>0 DEF Labels!UsableSales
  <2> QED
    BY <2>1, SaleNumber DEF Labels!SaleKey
<1>2. \A i \in 1..Len(shown[Traded]) : shown[Traded][i].at \in Nat
  <2> SUFFICES ASSUME NEW i \in 1..Len(shown[Traded]) PROVE shown[Traded][i].at \in Nat
    OBVIOUS
  <2>1. shown[Traded][i] \in [at : Nat, kind : TradedKinds]
    BY <1>0, ElementOfSeq
  <2> QED
    BY <2>1
<1> QED
  BY <1>1, <1>2, OneTitle, SMTT(30) DEF VenueSound, Labels!AllSales

(* A sale shows up after the others, at most LabelLag late, and at the moment of the other sales of its listing. *)
LEMMA SaleAppended ==
  ASSUME VenueSound, NEW kind \in TradedKinds, Labels!Sale(kind)
  PROVE  \E sale \in [at : Nat, kind : TradedKinds] :
            /\ shown' = [shown EXCEPT ![Traded] = Append(@, sale)]
            /\ sale.kind = kind /\ clock - LabelLag <= sale.at /\ sale.at <= clock
            /\ \A i \in 1..Len(shown[Traded]) :
                  /\ shown[Traded][i].at <= sale.at
                  /\ shown[Traded][i].kind.listing = kind.listing =>
                        shown[Traded][i].at = clock /\ sale.at = clock
<1> DEFINE h == shown[Traded]
<1>0. /\ h \in Seq([at : Nat, kind : TradedKinds])
      /\ clock \in Nat
      /\ \A i, j \in 1..Len(h) : i <= j => h[i].at <= h[j].at
  BY DEF VenueSound
<1>1. PICK at \in Labels!Max({0, clock - LabelLag})..clock :
         /\ h # <<>> => at >= Labels!Last(h).at
         /\ shown' = [shown EXCEPT ![Traded] = Append(@, [at |-> at, kind |-> kind])]
  BY OneTitle DEF Labels!Sale, Labels!Appear
<1>2. at \in Nat /\ clock - LabelLag <= at /\ at <= clock
  BY <1>0, <1>1, MaxOfTwo, Constants
<1>3. \A i \in 1..Len(h) : h[i].kind.listing = kind.listing => h[i].at = clock
  BY <1>0, OneTitle DEF Labels!Sale
<1>4. \A i \in 1..Len(h) : h[i].at <= at
  <2> SUFFICES ASSUME NEW i \in 1..Len(h) PROVE h[i].at <= at
    OBVIOUS
  <2>1. Len(h) \in Nat /\ h # <<>> /\ i <= Len(h) /\ Len(h) \in 1..Len(h)
    BY <1>0
  <2>2. h[i].at <= h[Len(h)].at /\ at >= h[Len(h)].at
    BY <1>0, <1>1, <2>1 DEF Labels!Last
  <2>3. h[i] \in [at : Nat, kind : TradedKinds] /\ h[Len(h)] \in [at : Nat, kind : TradedKinds]
    BY <1>0, <2>1, ElementOfSeq
  <2> QED
    BY <1>2, <2>2, <2>3
<1>5. \A i \in 1..Len(h) : h[i].kind.listing = kind.listing => h[i].at = clock /\ at = clock
  BY <1>0, <1>2, <1>3, <1>4
<1>6. [at |-> at, kind |-> kind] \in [at : Nat, kind : TradedKinds]
  BY <1>2
<1> QED
  BY <1>1, <1>2, <1>4, <1>5, <1>6

(* The rows of the sales that had shown up stay. *)
LEMMA RowsOfSales ==
  ASSUME VenueSound, NEW sale \in [at : Nat, kind : TradedKinds],
         shown' = [shown EXCEPT ![Traded] = Append(@, sale)]
  PROVE  /\ \A i \in 1..Len(shown[Traded]) : shown'[Traded][i] = shown[Traded][i]
         /\ shown'[Traded][Len(shown[Traded]) + 1] = sale
         /\ shown'[Traded] \in Seq([at : Nat, kind : TradedKinds])
         /\ Len(shown'[Traded]) = Len(shown[Traded]) + 1
         /\ \A i \in 1..Len(shown[Traded]) : Labels!SaleKey(Traded, i)' = Labels!SaleKey(Traded, i)
         /\ Labels!UsableSales(Traded) = Labels!UsableSales(Traded)' \cap 1..Len(shown[Traded])
<1> DEFINE h == shown[Traded]
<1>0. h \in Seq([at : Nat, kind : TradedKinds]) /\ Len(h) \in Nat
  BY DEF VenueSound
<1>1. shown'[Traded] = Append(h, sale)
  BY DEF VenueSound
<1>2. /\ Append(h, sale) \in Seq([at : Nat, kind : TradedKinds])
      /\ Len(Append(h, sale)) = Len(h) + 1
      /\ \A i \in 1..Len(h) : Append(h, sale)[i] = h[i]
      /\ Append(h, sale)[Len(h) + 1] = sale
  BY <1>0, AppendProperties
<1>3. \A i \in 1..Len(h) : shown'[Traded][i] = h[i]
  BY <1>1, <1>2
<1>4. ASSUME NEW i \in 1..Len(h) PROVE Labels!SaleKey(Traded, i)' = Labels!SaleKey(Traded, i)
  <2>1. {j \in 1..(i - 1) : shown'[Traded][j] = shown'[Traded][i]} = {j \in 1..(i - 1) : h[j] = h[i]}
    BY <1>0, <1>3
  <2> QED
    BY <1>3, <2>1 DEF Labels!SaleKey
<1>5. DOMAIN h = 1..Len(h) /\ DOMAIN shown'[Traded] = 1..(Len(h) + 1)
  BY <1>0, <1>1, <1>2
<1>6. Labels!UsableSales(Traded) = Labels!UsableSales(Traded)' \cap 1..Len(h)
  BY <1>0, <1>3, <1>5 DEF Labels!UsableSales
<1> QED
  BY <1>1, <1>2, <1>3, <1>4, <1>6

(* A sale that shows up is one more row, of a moment that is not long past. *)
LEMMA SaleAdds ==
  ASSUME VenueSound, NEW kind \in TradedKinds, Labels!Sale(kind)
  PROVE  \E row : /\ Labels!AllSales \subseteq Labels!AllSales'
                  /\ Labels!AllSales' \subseteq Labels!AllSales \cup {row}
                  /\ row.at \in Nat /\ clock - LabelLag <= row.at
                  /\ \A s \in Labels!AllSales : s.kind.listing = row.kind.listing => s.at = clock
<1> DEFINE h == shown[Traded]
<1>0. PICK n \in Nat : n = Len(h)
  BY DEF VenueSound
<1>1. PICK sale \in [at : Nat, kind : TradedKinds] :
            /\ shown' = [shown EXCEPT ![Traded] = Append(@, sale)]
            /\ sale.kind = kind /\ clock - LabelLag <= sale.at /\ sale.at <= clock
            /\ \A i \in 1..n : h[i].kind.listing = kind.listing => h[i].at = clock
  BY <1>0, SaleAppended
<1>2. /\ h' [n + 1] = sale
      /\ Len(h') = n + 1
      /\ \A i \in 1..n : Labels!SaleKey(Traded, i)' = Labels!SaleKey(Traded, i)
      /\ Labels!UsableSales(Traded) = Labels!UsableSales(Traded)' \cap 1..n
  BY <1>0, <1>1, RowsOfSales
<1> DEFINE row == Labels!SaleKey(Traded, n + 1)'
<1>4. row.at = sale.at /\ row.kind = kind
  BY <1>1, <1>2 DEF Labels!SaleKey
<1>5. Labels!AllSales \subseteq Labels!AllSales'
  BY <1>2, OneTitle DEF Labels!AllSales
<1>6. Labels!UsableSales(Traded)' \subseteq 1..n + 1
  BY <1>0, <1>1, <1>2, RowsOfSales DEF Labels!UsableSales
<1>7. Labels!AllSales' \subseteq Labels!AllSales \cup {row}
  <2> SUFFICES ASSUME NEW i \in Labels!UsableSales(Traded)', i # n + 1
               PROVE  Labels!SaleKey(Traded, i)' \in Labels!AllSales
    BY OneTitle DEF Labels!AllSales
  <2>1. i \in 1..n
    BY <1>0, <1>6
  <2> QED
    BY <1>2, <2>1, OneTitle DEF Labels!AllSales
<1>8. \A s \in Labels!AllSales : s.kind.listing = kind.listing => s.at = clock
  <2> SUFFICES ASSUME NEW i \in Labels!UsableSales(Traded),
                      Labels!SaleKey(Traded, i).kind.listing = kind.listing
               PROVE  Labels!SaleKey(Traded, i).at = clock
    BY OneTitle DEF Labels!AllSales
  <2>1. i \in 1..n
    BY <1>2
  <2> QED
    BY <1>1, <2>1 DEF Labels!SaleKey
<1> HIDE DEF row
<1> QED
  BY <1>1, <1>4, <1>5, <1>7, <1>8

LEMMA SameSales ==
  ASSUME shown' = shown
  PROVE  /\ Labels!AllSales' = Labels!AllSales
         /\ Labels!UsableSales(Traded)' = Labels!UsableSales(Traded)
         /\ \A i : Labels!SaleKey(Traded, i)' = Labels!SaleKey(Traded, i)
  BY DEF Labels!AllSales, Labels!UsableSales, Labels!SaleKey

(* A build of a venue of one title is made when the title is known up to it. *)
LEMMA BuildKnows ==
  ASSUME VenueSound, Labels!StoreBuild
  PROVE  /\ built' = built \cup {clock} /\ UNCHANGED <<clock, shown, recorded, config, listed, outcomes, run>>
         /\ \A b \in built : b < clock
         /\ config.venue_sales
         /\ \A i \in Labels!UsableSales(Traded) :
               shown[Traded][i].at + LabelLag < clock => Labels!SaleKey(Traded, i) \in recorded
<1>1. /\ config.venue_sales
      /\ clock \in (Labels!LatestBuild + 1)..clock
      /\ 2 * Labels!Cardinality({t \in {Traded} : ~ Labels!KnownUpTo(t, clock)}) <= Labels!Cardinality({Traded})
      /\ built' = built \cup {clock} /\ UNCHANGED <<clock, shown, recorded, config, listed, outcomes, run>>
  BY DEF Labels!StoreBuild, Labels!Build
<1>2. Labels!KnownUpTo(Traded, clock)
  <2> SUFFICES ASSUME ~ Labels!KnownUpTo(Traded, clock) PROVE FALSE
    OBVIOUS
  <2>1. {t \in {Traded} : ~ Labels!KnownUpTo(t, clock)} = {Traded}
    OBVIOUS
  <2>2. Labels!Cardinality({Traded}) = Cardinality({Traded})
    BY DEF Labels!Cardinality, Cardinality
  <2>3. Cardinality({Traded}) = 1
    BY FS_Singleton
  <2> QED
    BY <1>1, <2>1, <2>2, <2>3
<1>3. clock \in Nat /\ clock <= LabelTime /\ built \subseteq 0..clock
  BY Constants DEF VenueSound
<1>4. \A b \in built : b < clock
  <2>1. \A b \in built : b <= Labels!LatestBuild
    BY <1>3, LatestIsLast DEF Labels!LatestBuild
  <2>2. Labels!LatestBuild \in Int
    <3>1. CASE built = {}
      BY <1>3, <3>1, LatestIsLast DEF Labels!LatestBuild
    <3>2. CASE built # {}
      <4>1. Labels!LatestBuild \in built
        BY <1>3, <3>2, LatestIsLast DEF Labels!LatestBuild
      <4>2. Labels!LatestBuild \in 0..clock
        BY <1>3, <4>1
      <4> QED
        BY <4>2
    <3> QED
      BY <3>1, <3>2
  <2> QED
    BY <1>1, <1>3, <2>1, <2>2
<1>5. \A i \in Labels!UsableSales(Traded) : shown[Traded][i].at \in Nat
  <2> SUFFICES ASSUME NEW i \in Labels!UsableSales(Traded) PROVE shown[Traded][i].at \in Nat
    OBVIOUS
  <2>1. shown[Traded] \in Seq([at : Nat, kind : TradedKinds])
    BY DEF VenueSound
  <2>2. i \in 1..Len(shown[Traded])
    BY <2>1 DEF Labels!UsableSales
  <2>3. shown[Traded][i] \in [at : Nat, kind : TradedKinds]
    BY <2>1, <2>2, ElementOfSeq
  <2> QED
    BY <2>3
<1>6. \A i \in Labels!UsableSales(Traded) :
         shown[Traded][i].at + LabelLag < clock => Labels!SaleKey(Traded, i) \in recorded
  BY <1>2, <1>3, <1>5, Constants DEF Labels!KnownUpTo
<1> QED
  BY <1>1, <1>4, <1>6

LEMMA VenueInit == Labels!Init => VenueSound
<1> SUFFICES ASSUME Labels!Init PROVE VenueSound
  OBVIOUS
<1>1. shown = [t \in {Traded} |-> <<>>] /\ clock = 0 /\ recorded = {} /\ built = {}
  BY DEF Labels!Init, Labels!StoreInit
<1>2. shown[Traded] = <<>> /\ <<>> \in Seq([at : Nat, kind : TradedKinds]) /\ Len(<<>>) = 0
  BY <1>1
<1>3. shown \in [{Traded} -> Seq([at : Nat, kind : TradedKinds])]
  BY <1>1, <1>2
<1> QED
  BY <1>1, <1>2, <1>3, Constants DEF VenueSound

LEMMA VenueStep ==
  ASSUME VenueSound, [Labels!Next]_(Labels!vars)
  PROVE  VenueSound'
<1>0. /\ clock \in Nat /\ clock <= LabelTime /\ built \subseteq 0..clock
      /\ shown[Traded] \in Seq([at : Nat, kind : TradedKinds])
  BY Constants DEF VenueSound
<1>1. ASSUME UNCHANGED <<clock, shown, recorded, built, config>> PROVE VenueSound'
  BY <1>1, SameSales DEF VenueSound
<1>2. CASE Labels!SyncSales
  <2>1. recorded' = Labels!AllSales /\ UNCHANGED <<clock, shown, built, config>>
    BY <1>2 DEF Labels!SyncSales, Labels!StoreTitle
  <2>2. \A i \in Labels!UsableSales(Traded) : Labels!SaleKey(Traded, i) \in Labels!AllSales
    BY OneTitle DEF Labels!AllSales
  <2> QED
    BY <2>1, <2>2, SameSales DEF VenueSound
<1>3. CASE Labels!StoreBuild
  <2>1. /\ built' = built \cup {clock} /\ UNCHANGED <<clock, shown, recorded, config>> /\ config.venue_sales
        /\ \A i \in Labels!UsableSales(Traded) :
              shown[Traded][i].at + LabelLag < clock => Labels!SaleKey(Traded, i) \in recorded
    BY <1>3, BuildKnows
  <2>2. built' \subseteq 0..clock
    <3>1. built' = built \cup {clock}
      BY <2>1
    <3>2. clock \in 0..clock
      BY <1>0
    <3>3. built \subseteq 0..clock
      BY <1>0
    <3> QED
      BY ONLY <3>1, <3>2, <3>3
  <2>3. \A b \in built' : \A i \in Labels!UsableSales(Traded) :
           shown[Traded][i].at + LabelLag < b => Labels!SaleKey(Traded, i) \in recorded
    BY <2>1 DEF VenueSound
  <2> QED
    BY <2>1, <2>2, <2>3, SameSales DEF VenueSound
<1>4. CASE Labels!Tick
  <2>1. clock' = clock + 1 /\ clock < LabelTime /\ UNCHANGED <<shown, recorded, built, config>>
    BY <1>4 DEF Labels!Tick, Labels!StoreTick
  <2>2. \A i \in 1..Len(shown[Traded]) : shown[Traded][i].at <= clock + 1
    <3> SUFFICES ASSUME NEW i \in 1..Len(shown[Traded]) PROVE shown[Traded][i].at <= clock + 1
      OBVIOUS
    <3>1. shown[Traded][i] \in [at : Nat, kind : TradedKinds]
      BY <1>0, ElementOfSeq
    <3>2. shown[Traded][i].at <= clock
      BY DEF VenueSound
    <3> QED
      BY <1>0, <3>1, <3>2
  <2>3. clock' \in 0..LabelTime /\ built \subseteq 0..clock'
    BY <1>0, <2>1, Constants DEF VenueSound
  <2> QED
    BY <2>1, <2>2, <2>3, SameSales DEF VenueSound
<1>5. ASSUME NEW kind \in TradedKinds, Labels!Sale(kind) PROVE VenueSound'
  <2> DEFINE h == shown[Traded]
  <2>0. PICK n \in Nat : n = Len(h)
    BY <1>0
  <2>1. PICK sale \in [at : Nat, kind : TradedKinds] :
            /\ shown' = [shown EXCEPT ![Traded] = Append(@, sale)]
            /\ sale.kind = kind /\ clock - LabelLag <= sale.at /\ sale.at <= clock
            /\ \A i \in 1..n : /\ h[i].at <= sale.at
                               /\ h[i].kind.listing = kind.listing => h[i].at = clock /\ sale.at = clock
    BY <1>5, <2>0, SaleAppended
  <2>2. UNCHANGED <<clock, recorded, built, config>>
    BY <1>5 DEF Labels!Sale, Labels!Appear
  <2>3. /\ \A i \in 1..n : h'[i] = h[i]
        /\ h'[n + 1] = sale
        /\ h' \in Seq([at : Nat, kind : TradedKinds])
        /\ Len(h') = n + 1
        /\ \A i \in 1..n : Labels!SaleKey(Traded, i)' = Labels!SaleKey(Traded, i)
        /\ Labels!UsableSales(Traded) = Labels!UsableSales(Traded)' \cap 1..n
    BY <2>0, <2>1, RowsOfSales
  <2>4. shown' \in [{Traded} -> Seq([at : Nat, kind : TradedKinds])]
    BY <2>1, <2>3 DEF VenueSound
  <2>5. \A i \in 1..n : h[i].at \in Nat /\ h[i].at <= clock
    <3> SUFFICES ASSUME NEW i \in 1..n PROVE h[i].at \in Nat /\ h[i].at <= clock
      OBVIOUS
    <3>1. h[i] \in [at : Nat, kind : TradedKinds]
      BY <1>0, <2>0, ElementOfSeq
    <3> QED
      BY <2>0, <3>1 DEF VenueSound
  <2>6. \A i \in 1..(n + 1) : i \in 1..n \/ i = n + 1
    OBVIOUS
  <2>7. \A i \in 1..(n + 1) : h'[i].at <= clock
    BY <2>1, <2>3, <2>5, <2>6
  <2>8. \A i, j \in 1..(n + 1) : i <= j => h'[i].at <= h'[j].at
    <3>1. \A i, j \in 1..n : i <= j => h[i].at <= h[j].at
      BY <2>0 DEF VenueSound
    <3>2. \A i \in 1..(n + 1) : h'[i].at <= sale.at
      BY <2>1, <2>3, <2>6
    <3> QED
      BY <2>1, <2>3, <2>6, <3>1, <3>2, SMTT(30)
  <2>9. \A i, j \in 1..(n + 1) : h'[i].kind.listing = h'[j].kind.listing => h'[i].at = h'[j].at
    <3>1. \A i, j \in 1..n : h[i].kind.listing = h[j].kind.listing => h[i].at = h[j].at
      BY <2>0 DEF VenueSound
    <3> QED
      BY <2>1, <2>3, <2>6, <3>1
  <2>10. recorded \subseteq Labels!AllSales'
    BY <1>5, SaleAdds DEF VenueSound
  <2>11. \A b \in built : \A i \in Labels!UsableSales(Traded)' :
            h'[i].at + LabelLag < b => Labels!SaleKey(Traded, i)' \in recorded
    <3> SUFFICES ASSUME NEW b \in built, NEW i \in Labels!UsableSales(Traded)', h'[i].at + LabelLag < b
                 PROVE  Labels!SaleKey(Traded, i)' \in recorded
      OBVIOUS
    <3>1. b \in Nat /\ b <= clock
      BY <1>0
    <3>2. i \in 1..(n + 1)
      BY <2>3 DEF Labels!UsableSales
    <3>3. i # n + 1
      BY <1>0, <2>1, <2>3, <3>1, Constants
    <3>4. i \in 1..n
      BY <2>6, <3>2, <3>3
    <3> QED
      BY <2>3, <3>4 DEF VenueSound
  <2>12. /\ Len(h') = n + 1 /\ clock' = clock /\ built' = built /\ recorded' = recorded /\ config' = config
         /\ clock \in 0..LabelTime /\ built \subseteq 0..clock /\ (~ config.venue_sales => built = {})
    BY <2>2, <2>3 DEF VenueSound
  <2> QED
    BY <2>4, <2>7, <2>8, <2>9, <2>10, <2>11, <2>12 DEF VenueSound
<1>6. \/ UNCHANGED <<clock, shown, recorded, built, config>> \/ Labels!SyncSales \/ Labels!StoreBuild \/ Labels!Tick
      \/ \E kind \in TradedKinds : Labels!Sale(kind)
  BY DEF Labels!Next, Labels!vars, Labels!store, Labels!LabelWindow, Labels!StopRun, Labels!ReadFinal, Labels!Sight,
         Labels!StartRun
<1> QED
  BY <1>1, <1>2, <1>3, <1>4, <1>5, <1>6

-----------------------------------------------------------------------------
(* What a label depends on.                                                 *)

Offers == {s \in Labels!AllSales : s.kind.type = "offer"}

\* What a run would know that had waited for all there is
Everything == Labels!SoldIndex(config, Offers)

Settle == IF config.venue_sales THEN config.sales_settle ELSE config.settle

\* The sales of a listing seen at a moment have all shown up, and so has the build of its time.
Closed(at) ==
    /\ at + config.horizon + Settle < clock
    /\ config.venue_sales => \E b \in built : at + config.horizon + Settle < b

Seen(l, at) == [id |-> l, at |-> at]
Truth(l, at) == Labels!LabelListing(config, Seen(l, at), Everything, built)

\* From when on a label looks at sales
LooksBackTo(at) == IF config.venue_sales THEN at - Skew ELSE at

EverythingSound ==
    /\ Everything \subseteq Offers
    /\ \A s \in Everything : s.at \in Nat /\ s.at <= clock /\ s.nr \in Nat
    /\ ~ config.venue_sales => \A s, r \in Everything : s.kind.listing = r.kind.listing => s.at = r.at

LEMMA EverythingType == VenueSound => EverythingSound
<1> SUFFICES ASSUME VenueSound PROVE EverythingSound
  OBVIOUS
<1>1. Everything \subseteq Offers
  BY DEF Everything, Labels!SoldIndex
<1> QED
  BY <1>1, SaleType DEF Offers, EverythingSound

(* The sales of a listing are of one moment, so SoldIndex keeps what it keeps of a part of the sales. *)
LEMMA SoldIndexOfPart ==
  ASSUME VenueSound, NEW start \in Nat, NEW end \in Int
  PROVE  Labels!SoldIndex(config, {s \in Offers : start <= s.at /\ s.at < end})
            = {s \in Everything : start <= s.at /\ s.at < end}
<1>1. CASE config.venue_sales
  BY <1>1 DEF Everything, Labels!SoldIndex
<1>2. CASE ~ config.venue_sales
  <2>1. \A s, r \in Offers : s.kind.listing = r.kind.listing => s.at = r.at
    BY SaleType DEF Offers
  <2> QED
    BY <1>2, <2>1 DEF Everything, Labels!SoldIndex
<1> QED
  BY <1>1, <1>2

(* A set of sales has an earliest one.                                      *)
LEMMA EarliestExists ==
  ASSUME NEW S, S # {}, \A s \in S : s.at \in Nat /\ s.nr \in Nat
  PROVE  Labels!Earliest(S) \in S
<1> DEFINE Ats == {s.at : s \in S}
<1>1. PICK at \in Ats : \A other \in Ats : at <= other
  <2>1. Ats \subseteq Nat /\ Ats # {} OBVIOUS
  <2> HIDE DEF Ats
  <2> QED BY <2>1, Least
<1> DEFINE First == {s \in S : s.at = at}
           Nrs == {s.nr : s \in First}
<1>2. PICK nr \in Nrs : \A other \in Nrs : nr <= other
  <2>1. Nrs \subseteq Nat /\ Nrs # {} OBVIOUS
  <2> HIDE DEF Nrs
  <2> QED BY <2>1, Least
<1>3. PICK s \in S : s.at = at /\ s.nr = nr
  BY <1>2
<1>4. \A other \in S : s.at < other.at \/ (s.at = other.at /\ s.nr <= other.nr)
  <2> SUFFICES ASSUME NEW other \in S PROVE s.at < other.at \/ (s.at = other.at /\ s.nr <= other.nr)
    OBVIOUS
  <2>1. s.at <= other.at
    BY <1>1, <1>3
  <2>2. s.at = other.at => s.nr <= other.nr
    BY <1>2, <1>3
  <2> QED
    BY <2>1, <2>2
<1> QED
  BY <1>4 DEF Labels!Earliest

(* Two indexes that agree on the sales a label looks at, and on the fee, give the same label. *)
LEMMA LabelDepends ==
  ASSUME config \in Configs, NEW l \in Listings, NEW at \in Nat, NEW I, NEW J, NEW F, NEW G,
         \A s \in I \cup J : s.at \in Nat /\ s.nr \in Nat,
         \A s \in I \cup J : LooksBackTo(at) <= s.at /\ s.at <= at + config.horizon => (s \in I <=> s \in J),
         ~ config.venue_sales => \A s, r \in I : s.kind.listing = r.kind.listing => s.at = r.at,
         ~ config.venue_sales => \A s, r \in J : s.kind.listing = r.kind.listing => s.at = r.at,
         Labels!Fee(config, at, F) = Labels!Fee(config, at, G)
  PROVE  Labels!LabelListing(config, Seen(l, at), I, F) = Labels!LabelListing(config, Seen(l, at), J, G)
<1> DEFINE c == config
           x == Seen(l, at)
           ownI == Labels!OwnSale(c, x, I)
           ownJ == Labels!OwnSale(c, x, J)
           inTime(own) == {s \in own : c.venue_sales \/ (x.at <= s.at /\ s.at <= x.at + c.horizon)}
<1>0. /\ c.horizon \in Nat /\ c.hold \in Nat /\ Skew \in Nat
      /\ x.at = at /\ x.id = l
  BY Parameters, Constants DEF Seen
<1>1. /\ Labels!Comparable(c, x, I, ownI) = Labels!Comparable(c, x, J, ownJ)
      /\ inTime(ownI) = inTime(ownJ)
      /\ inTime(ownI) # {} => Labels!Earliest(ownI).at = Labels!Earliest(ownJ).at
  <2>1. CASE c.venue_sales
    <3> DEFINE inside(S) == {s \in S : /\ s.kind.item = Item[x.id]
                                      /\ x.at - Skew <= s.at /\ s.at <= x.at + c.horizon}
    <3>1. inside(I) = inside(J)
      BY <1>0, <2>1 DEF LooksBackTo
    <3>2. ownI = ownJ
      BY <2>1, <3>1 DEF Labels!OwnSale, Labels!ItemSale
    <3>3. {s \in I : x.at + c.hold <= s.at /\ s.at <= x.at + c.horizon}
             = {s \in J : x.at + c.hold <= s.at /\ s.at <= x.at + c.horizon}
      BY <1>0, <2>1 DEF LooksBackTo
    <3> HIDE DEF ownI, ownJ, c, x
    <3>4. Labels!Comparable(c, x, I, ownI) = Labels!Comparable(c, x, J, ownJ)
      BY <3>2, <3>3 DEF Labels!Comparable
    <3> QED
      BY <3>2, <3>4
  <2>2. CASE ~ c.venue_sales
    <3>1. ownI = {s \in I : s.kind.listing = l} /\ ownJ = {s \in J : s.kind.listing = l}
      BY <1>0, <2>2 DEF Labels!OwnSale
    <3>2. \A s \in I \cup J : at <= s.at /\ s.at <= at + c.horizon => (s \in I <=> s \in J)
      BY <2>2 DEF LooksBackTo
    <3> HIDE DEF ownI, ownJ, c, x
    <3>3. Labels!Comparable(c, x, I, ownI) = Labels!Comparable(c, x, J, ownJ)
      BY <1>0, <3>1, <3>2 DEF Labels!Comparable
    <3>4. inTime(ownI) = inTime(ownJ)
      BY <1>0, <2>2, <3>1, <3>2
    <3>5. ASSUME inTime(ownI) # {} PROVE Labels!Earliest(ownI).at = Labels!Earliest(ownJ).at
      <4>1. PICK s : s \in ownI /\ s \in ownJ
        BY <3>4, <3>5
      <4>2. Labels!Earliest(ownI) \in ownI /\ Labels!Earliest(ownJ) \in ownJ
        BY <3>1, <4>1, EarliestExists
      <4>3. Labels!Earliest(ownI).at = s.at /\ Labels!Earliest(ownJ).at = s.at
        BY <2>2, <3>1, <4>1, <4>2 DEF c
      <4> QED
        BY <4>3
    <3> QED
      BY <3>3, <3>4, <3>5
  <2> QED
    BY <2>1, <2>2
<1> HIDE DEF ownI, ownJ, c, x
<1>2. Labels!Fee(c, x.at, F) = Labels!Fee(c, x.at, G)
  BY <1>0 DEF c
<1>3. Labels!LabelListing(c, x, I, F) = Labels!LabelListing(c, x, J, G)
  BY <1>1, <1>2 DEF Labels!LabelListing, ownI, ownJ
<1> QED
  BY <1>3 DEF c, x

-----------------------------------------------------------------------------
(* What is closed stays as it is.                                           *)

LEMMA SettleCovers ==
  ASSUME config \in Configs
  PROVE  config.horizon \in Nat /\ Settle \in Nat /\ LabelLag \in Nat /\ LabelLag <= Settle
  BY Parameters, Constants DEF Settle

(* What a step does to the builds and the listings, in one place            *)
LEMMA VenueMoves ==
  ASSUME VenueSound, [Labels!Next]_(Labels!vars)
  PROVE  /\ config' = config /\ clock \in Nat /\ clock' \in Nat /\ clock <= clock'
         /\ built' = built \/ (built' = built \cup {clock} /\ listed' = listed /\ shown' = shown)
         /\ \/ listed' = listed
            \/ /\ built' = built /\ shown' = shown
               /\ \E l \in Listings : listed' = listed \cup {[id |-> l, at |-> clock]}
<1>0. clock \in Nat
  BY DEF VenueSound
<1>1. CASE Labels!StoreBuild
  BY <1>0, <1>1, BuildKnows DEF Labels!StoreBuild
<1>2. CASE Labels!Tick
  BY <1>0, <1>2 DEF Labels!Tick, Labels!StoreTick
<1>3. ASSUME NEW l \in Listings, Labels!Sight(l)
      PROVE  /\ UNCHANGED <<config, clock, built, shown>>
             /\ listed' = listed \cup {[id |-> l, at |-> clock]}
  BY <1>3 DEF Labels!Sight, Labels!store
<1>4. CASE UNCHANGED <<config, clock, built, listed>>
  BY <1>0, <1>4
<1>5. \/ Labels!StoreBuild \/ Labels!Tick \/ (\E l \in Listings : Labels!Sight(l))
      \/ UNCHANGED <<config, clock, built, listed>>
  BY DEF Labels!Next, Labels!vars, Labels!store, Labels!SyncSales, Labels!StoreTitle, Labels!LabelWindow,
         Labels!StopRun, Labels!ReadFinal, Labels!StartRun, Labels!Sale, Labels!Appear
<1> QED
  BY <1>0, <1>1, <1>2, <1>3, <1>4, <1>5

LEMMA PastStays ==
  ASSUME VenueSound, [Labels!Next]_(Labels!vars), NEW t \in Int, t < clock - LabelLag, NEW s, s.at <= t
  PROVE  s \in Everything' <=> s \in Everything
<1>0. config' = config /\ clock \in Nat
  BY VenueMoves
<1>1. CASE shown' = shown
  BY <1>0, <1>1, SameSales DEF Everything, Offers, Labels!SoldIndex
<1>2. ASSUME NEW kind \in TradedKinds, Labels!Sale(kind) PROVE s \in Everything' <=> s \in Everything
  <2>1. PICK row : /\ Labels!AllSales \subseteq Labels!AllSales'
                   /\ Labels!AllSales' \subseteq Labels!AllSales \cup {row}
                   /\ row.at \in Nat /\ clock - LabelLag <= row.at
                   /\ \A r \in Labels!AllSales : r.kind.listing = row.kind.listing => r.at = clock
    BY <1>2, SaleAdds
  <2>2. Offers \subseteq Offers' /\ Offers' \subseteq Offers \cup {row}
    BY <2>1 DEF Offers
  <2>3. s # row /\ s.at # clock
    BY <1>0, <2>1, Constants
  <2>4. CASE config.venue_sales
    BY <1>0, <2>2, <2>3, <2>4 DEF Everything, Labels!SoldIndex
  <2>5. CASE ~ config.venue_sales
    <3> DEFINE First(S) == \A other \in S : other.kind.listing = s.kind.listing =>
                              s.at < other.at \/ (s.at = other.at /\ s.kind.price <= other.kind.price)
    <3>1. s \in Everything' <=> s \in Offers' /\ First(Offers')
      BY <1>0, <2>5 DEF Everything, Labels!SoldIndex
    <3>2. s \in Everything <=> s \in Offers /\ First(Offers)
      BY <2>5 DEF Everything, Labels!SoldIndex
    <3>3. s \in Offers => s.kind.listing # row.kind.listing
      BY <2>1, <2>3 DEF Offers
    <3>4. s \in Offers /\ First(Offers) => First(Offers')
      BY <2>2, <3>3
    <3>5. First(Offers') => First(Offers)
      BY <2>2
    <3> QED
      BY <2>2, <2>3, <3>1, <3>2, <3>4, <3>5
  <2> QED
    BY <2>4, <2>5
<1>3. shown' = shown \/ \E kind \in TradedKinds : Labels!Sale(kind)
  BY DEF Labels!Next, Labels!vars, Labels!store, Labels!SyncSales, Labels!StoreTitle, Labels!StoreBuild,
         Labels!Build, Labels!Tick, Labels!StoreTick, Labels!LabelWindow, Labels!StopRun, Labels!ReadFinal, Labels!Sight,
         Labels!StartRun
<1> QED
  BY <1>1, <1>2, <1>3

LEMMA ClosedStays ==
  ASSUME VenueSound, config \in Configs, [Labels!Next]_(Labels!vars), NEW at \in Nat, Closed(at)
  PROVE  /\ Closed(at)'
         /\ Labels!Fee(config, at, built') = Labels!Fee(config, at, built)
         /\ at + config.horizon < clock - LabelLag /\ at < clock
<1>0. /\ config' = config /\ clock \in Nat /\ clock' \in Nat /\ clock <= clock'
      /\ built' = built \/ built' = built \cup {clock}
  BY VenueMoves
<1>1. config.horizon \in Nat /\ Settle \in Nat /\ LabelLag \in Nat /\ LabelLag <= Settle /\ Settle' = Settle
  BY <1>0, SettleCovers DEF Settle
<1>2. at + config.horizon < clock - LabelLag /\ at < clock
  BY <1>0, <1>1 DEF Closed
<1>3. Closed(at)'
  BY <1>0, <1>1 DEF Closed
<1>4. {b \in built' : b <= at} = {b \in built : b <= at}
  BY <1>0, <1>2
<1>5. Labels!Fee(config, at, built') = Labels!Fee(config, at, built)
  BY <1>4 DEF Labels!Fee
<1> QED
  BY <1>2, <1>3, <1>5

(* A listing of a later moment does not tell whose a closed sale is.        *)
LEMMA NextListedStays ==
  ASSUME VenueSound, LabelsSound, NEW l \in Listings, NEW at \in Nat, NEW by \in Int, by < clock,
         NEW other \in Listings, listed' = listed \cup {[id |-> other, at |-> clock]}
  PROVE  by < Labels!NextListedAt(Seen(l, at))' <=> by < Labels!NextListedAt(Seen(l, at))
<1> DEFINE later == {s.at : s \in {o \in listed : /\ Item[o.id] = Item[l] /\ o.id # l /\ o.at > at}}
           Next_(S) == IF S = {} THEN LabelTime + 1 ELSE Labels!Min(S)
<1>0. clock \in Nat /\ clock <= LabelTime /\ LabelTime \in Nat
  BY Constants DEF VenueSound
<1>1. later \subseteq Nat
  BY DEF LabelsSound
<1>2. Labels!NextListedAt(Seen(l, at)) = Next_(later)
  BY DEF Labels!NextListedAt, Seen
<1>3. Labels!NextListedAt(Seen(l, at))' = Next_(later')
  BY DEF Labels!NextListedAt, Seen
<1>4. later' \subseteq later \cup {clock} /\ later \subseteq later'
  OBVIOUS
<1> HIDE DEF later
<1>5. later' \subseteq Nat
  BY <1>0, <1>1, <1>4
<1>6. later # {} => Labels!Min(later) \in later /\ \A m \in later : Labels!Min(later) <= m
  BY <1>1, MinIsLeast
<1>7. later' # {} => Labels!Min(later') \in later' /\ \A m \in later' : Labels!Min(later') <= m
  BY <1>5, MinIsLeast
<1>8. CASE later' = later
  BY <1>2, <1>3, <1>8
<1>9. CASE later' = later \cup {clock}
  <2>1. CASE later = {}
    BY <1>0, <1>2, <1>3, <1>7, <1>9, <2>1
  <2>2. CASE later # {}
    <3> DEFINE m == Labels!Min(later)
               n == Labels!Min(later')
    <3>1. m \in Nat /\ n \in Nat /\ n <= m /\ (n = clock \/ m <= n)
      BY <1>1, <1>4, <1>5, <1>6, <1>7, <1>9, <2>2
    <3>2. by < n <=> by < m
      BY <1>0, <3>1
    <3> QED
      BY <1>2, <1>3, <1>9, <2>2, <3>2
  <2> QED
    BY <2>1, <2>2
<1> QED
  BY <1>4, <1>8, <1>9

(* What a label looks at depends on the state only through whose a sale is. *)
LEMMA LabelMoves ==
  ASSUME NEW c, NEW x, NEW I, NEW F, Labels!OwnSale(c, x, I)' = Labels!OwnSale(c, x, I)
  PROVE  Labels!LabelListing(c, x, I, F)' = Labels!LabelListing(c, x, I, F)
  BY DEF Labels!LabelListing, Labels!Comparable, Labels!Fee, Labels!MedianLow, Labels!Earliest, Labels!Max, Labels!Cardinality

LEMMA OwnMoves ==
  ASSUME NEW c, NEW x, NEW I, listed' = listed
  PROVE  Labels!OwnSale(c, x, I)' = Labels!OwnSale(c, x, I)
  BY DEF Labels!OwnSale, Labels!ItemSale, Labels!NextListedAt, Labels!Min, Labels!Earliest

(* The label that the whole history gives a closed sighting stays.          *)
LEMMA TruthStays ==
  ASSUME VenueSound, VenueSound', LabelsSound, [Labels!Next]_(Labels!vars), NEW l \in Listings, NEW at \in Nat, Closed(at)
  PROVE  Truth(l, at)' = Truth(l, at)
<1>0. /\ config \in Configs /\ config' = config /\ clock \in Nat
      /\ at + config.horizon < clock - LabelLag
      /\ Labels!Fee(config, at, built') = Labels!Fee(config, at, built)
      /\ config.horizon \in Nat /\ LabelLag \in Nat
  BY VenueMoves, ClosedStays, SettleCovers DEF LabelsSound
<1> DEFINE x == Seen(l, at)
<1>1. EverythingSound /\ EverythingSound'
  <2>1. EverythingSound'
    BY EverythingType, PTL
  <2> QED
    BY <2>1, EverythingType
<1>2. Labels!LabelListing(config, x, Everything', built') = Truth(l, at)
  <2>1. \A s \in Everything' \cup Everything :
           LooksBackTo(at) <= s.at /\ s.at <= at + config.horizon => (s \in Everything' <=> s \in Everything)
    <3> SUFFICES ASSUME NEW s \in Everything' \cup Everything, s.at <= at + config.horizon
                 PROVE  s \in Everything' <=> s \in Everything
      OBVIOUS
    <3> QED
      BY <1>0, PastStays
  <2>2. /\ \A s \in Everything : s.at \in Nat /\ s.nr \in Nat
        /\ ~ config.venue_sales => \A s, r \in Everything : s.kind.listing = r.kind.listing => s.at = r.at
    BY <1>1 DEF EverythingSound
  <2>3. /\ \A s \in Everything' : s.at \in Nat /\ s.nr \in Nat
        /\ ~ config.venue_sales => \A s, r \in Everything' : s.kind.listing = r.kind.listing => s.at = r.at
    BY <1>0, <1>1 DEF EverythingSound
  <2> QED
    BY <1>0, <2>1, <2>2, <2>3, LabelDepends DEF Truth
<1>3. PICK c, E, F : c = config /\ E = Everything' /\ F = built'
  OBVIOUS
<1>4. Labels!OwnSale(c, x, E)' = Labels!OwnSale(c, x, E)
  <2>1. CASE listed' = listed
    BY <2>1, OwnMoves
  <2>2. CASE ~ c.venue_sales
    BY <2>2 DEF Labels!OwnSale
  <2>3. ASSUME NEW other \in Listings, listed' = listed \cup {[id |-> other, at |-> clock]}, c.venue_sales
        PROVE  Labels!OwnSale(c, x, E)' = Labels!OwnSale(c, x, E)
    <3> DEFINE inside == {s \in E : /\ s.kind.item = Item[x.id]
                                   /\ x.at - Skew <= s.at /\ s.at <= x.at + c.horizon}
               first == Labels!Earliest(inside)
    <3>1. Labels!OwnSale(c, x, E) =
             IF inside = {} THEN {}
             ELSE {s \in {first} : s.at < Labels!NextListedAt(x) /\ s.kind.price = Price[x.id]}
      BY <2>3 DEF Labels!OwnSale, Labels!ItemSale
    <3>2. Labels!OwnSale(c, x, E)' =
             IF inside = {} THEN {}
             ELSE {s \in {first} : s.at < Labels!NextListedAt(x)' /\ s.kind.price = Price[x.id]}
      BY <2>3 DEF Labels!OwnSale, Labels!ItemSale, Labels!Earliest
    <3>3. \A s \in inside : s.at \in Nat /\ s.nr \in Nat /\ s.at <= at + c.horizon
      BY <1>1, <1>3 DEF EverythingSound, Seen
    <3> HIDE DEF inside
    <3>4. CASE inside = {}
      BY <3>1, <3>2, <3>4
    <3>5. CASE inside # {}
      <4>1. first \in inside
        BY <3>3, <3>5, EarliestExists
      <4>2. first.at \in Int /\ first.at < clock
        BY <1>0, <1>3, <3>3, <4>1
      <4>3. first.at < Labels!NextListedAt(x)' <=> first.at < Labels!NextListedAt(x)
        <5> HIDE DEF first
        <5>1. PICK by : by = first.at
          OBVIOUS
        <5> QED
          BY <2>3, <4>2, <5>1, NextListedStays
      <4> HIDE DEF first, x
      <4> QED
        BY <3>1, <3>2, <3>5, <4>3
    <3> QED
      BY <3>4, <3>5
  <2> QED
    BY <2>1, <2>2, <2>3, VenueMoves
<1>5. Labels!LabelListing(c, x, E, F)' = Labels!LabelListing(c, x, E, F)
  BY <1>4, LabelMoves
<1>6. Truth(l, at)' = Labels!LabelListing(c, x, E, F)'
  BY <1>0, <1>3 DEF Truth, Seen
<1> QED
  BY <1>2, <1>3, <1>5, <1>6

-----------------------------------------------------------------------------
(* A run sees all there is to see of the listings it labels.                *)

RunSees ==
    run # None =>
        /\ run.start \in Nat /\ run.cursor \in Nat /\ run.end \in Nat
        /\ run.start <= run.cursor /\ run.start < run.end
        /\ \A at \in Nat : at < run.end => Closed(at)
        /\ run.index = {s \in Everything : run.start <= s.at /\ s.at < run.end + config.horizon}
        /\ \A at \in Nat : run.start <= at /\ at < run.end =>
              Labels!Fee(config, at, run.fees) = Labels!Fee(config, at, built)

LabelsExact ==
    \A l \in Listings : outcomes[l] # None =>
        /\ Closed(outcomes[l].listed_at)
        /\ outcomes[l].listed_at >= outcomes[l].run_start + Skew \/ ~ config.venue_sales =>
              outcomes[l].label = Truth(l, outcomes[l].listed_at)

ExactInv == LabelsSound /\ VenueSound /\ RunSees /\ LabelsExact

(* A run in progress sees what it saw.                                      *)
LEMMA RunStays ==
  ASSUME VenueSound, LabelsSound, RunSees, [Labels!Next]_(Labels!vars), run # None
  PROVE  /\ \A at \in Nat : at < run.end => Closed(at)'
         /\ run.index = {s \in Everything' : run.start <= s.at /\ s.at < run.end + config.horizon}
         /\ \A at \in Nat : run.start <= at /\ at < run.end =>
              Labels!Fee(config, at, run.fees) = Labels!Fee(config, at, built')
<1>0. /\ config \in Configs /\ config' = config /\ clock \in Nat
      /\ config.horizon \in Nat /\ Settle \in Nat /\ LabelLag \in Nat /\ LabelLag <= Settle
  BY VenueMoves, SettleCovers DEF LabelsSound
<1>1. /\ run.start \in Nat /\ run.end \in Nat /\ run.start < run.end
      /\ \A at \in Nat : at < run.end => Closed(at)
      /\ run.index = {s \in Everything : run.start <= s.at /\ s.at < run.end + config.horizon}
      /\ \A at \in Nat : run.start <= at /\ at < run.end =>
            Labels!Fee(config, at, run.fees) = Labels!Fee(config, at, built)
  BY DEF RunSees
<1>2. run.end + config.horizon + Settle <= clock
  <2>1. Closed(run.end - 1) /\ run.end - 1 \in Nat
    BY <1>1
  <2> QED
    BY <1>0, <1>1, <2>1 DEF Closed
<1>3. EverythingSound /\ (VenueSound' => EverythingSound')
  <2>1. VenueSound' => EverythingSound'
    BY EverythingType, PTL
  <2> QED
    BY <2>1, EverythingType
<1>4. \A s \in Everything \cup Everything' : s.at \in Nat
  BY <1>3, VenueStep DEF EverythingSound
<1>5. \A s \in Everything \cup Everything' : s.at < run.end + config.horizon => (s \in Everything' <=> s \in Everything)
  <2> SUFFICES ASSUME NEW s \in Everything \cup Everything', s.at < run.end + config.horizon
               PROVE  s \in Everything' <=> s \in Everything
    OBVIOUS
  <2>1. s.at \in Int /\ s.at < clock - LabelLag
    BY <1>0, <1>1, <1>2, <1>4
  <2>2. PICK t \in Int : t = s.at
    BY <2>1
  <2> QED
    BY <2>1, <2>2, PastStays
<1>6. run.index = {s \in Everything' : run.start <= s.at /\ s.at < run.end + config.horizon}
  BY <1>1, <1>5
<1>7. \A at \in Nat : at < run.end => Closed(at)' /\ Labels!Fee(config, at, built') = Labels!Fee(config, at, built)
  BY <1>0, <1>1, ClosedStays
<1> QED
  BY <1>1, <1>6, <1>7

(* The range of a run is of listings whose sales have all shown up, and are recorded. *)
LEMMA LabelableIsClosed ==
  ASSUME VenueSound, config \in Configs, NEW start \in Nat, NEW end,
         end = Labels!Min({clock, Labels!LatestLabelable(config, clock)}), start < end
  PROVE  /\ end \in Nat
         /\ \A at \in Nat : at < end => Closed(at)
         /\ config.venue_sales => \E b \in built : end + config.horizon + Settle <= b
<1>0. /\ clock \in Nat /\ built \subseteq 0..clock
      /\ config.horizon \in Nat /\ config.settle \in Nat /\ config.sales_settle \in Nat
  BY Parameters DEF VenueSound
<1>1. PICK cutoff \in Int : cutoff = clock - config.horizon - config.settle
  BY <1>0
<1>2. ASSUME NEW latest \in Int, Labels!LatestLabelable(config, clock) = latest
      PROVE  end \in Int /\ end <= latest /\ end <= clock
  <2>1. Labels!Min({clock, latest}) = IF clock <= latest THEN clock ELSE latest
    <3>1. PICK moment \in Int : moment = clock
      BY <1>0
    <3> QED
      BY <3>1, MaxOfTwo
  <2> QED
    BY <1>0, <1>2, <2>1
<1>3. CASE ~ config.venue_sales
  <2>1. Labels!LatestLabelable(config, clock) = cutoff
    BY <1>1, <1>3 DEF Labels!LatestLabelable
  <2>2. end \in Nat /\ end <= cutoff
    BY <1>2, <2>1
  <2>3. Settle = config.settle
    BY <1>3 DEF Settle
  <2>4. \A at \in Nat : at < end => at + config.horizon + Settle < clock
    BY <1>0, <1>1, <2>2, <2>3
  <2> QED
    BY <1>3, <2>2, <2>4 DEF Closed
<1>4. CASE config.venue_sales
  <2>1. built # {}
    <3> SUFFICES ASSUME built = {} PROVE FALSE
      OBVIOUS
    <3>1. Labels!LatestLabelable(config, clock) = -1
      BY <1>4 DEF Labels!LatestLabelable
    <3> QED
      BY <1>2, <3>1
  <2>2. PICK b \in built : b = Labels!LatestBuild
    BY <1>0, <2>1, LatestIsLast DEF Labels!LatestBuild
  <2>3. b \in Nat /\ b <= clock
    BY <1>0
  <2>4. PICK synced \in Int : synced = b - config.horizon - config.sales_settle
    BY <1>0, <2>3
  <2>5. Labels!LatestLabelable(config, clock) = Labels!Min({cutoff, synced})
    BY <1>1, <1>4, <2>1, <2>2, <2>4 DEF Labels!LatestLabelable
  <2>6. Labels!Min({cutoff, synced}) = IF cutoff <= synced THEN cutoff ELSE synced
    BY MaxOfTwo
  <2>7. end \in Nat /\ end <= synced
    BY <1>2, <2>5, <2>6
  <2>8. Settle = config.sales_settle
    BY <1>4 DEF Settle
  <2>9. end + config.horizon + Settle <= b
    BY <1>0, <2>3, <2>4, <2>7, <2>8
  <2>10. \A at \in Nat : at < end => at + config.horizon + Settle < b /\ at + config.horizon + Settle < clock
    BY <1>0, <2>3, <2>7, <2>8, <2>9
  <2> QED
    BY <1>4, <2>7, <2>9, <2>10 DEF Closed
<1> QED
  BY <1>3, <1>4

(* Fees of a range: the builds in force for its listings.                   *)
LEMMA FeesOfRange ==
  ASSUME VenueSound, NEW start \in Nat, NEW end \in Nat, NEW at \in Nat, start <= at, at < end
  PROVE  Labels!Fee(config, at, Labels!FetchFees(start, end)) = Labels!Fee(config, at, built)
<1> DEFINE fees == Labels!FetchFees(start, end)
           of(F) == {b \in F : b <= at}
           first == Labels!Latest({e \in built : e <= start})
<1>0. clock \in Nat /\ built \subseteq 0..clock
  BY DEF VenueSound
<1>1. fees = {b \in built : b <= end /\ b >= first}
  BY DEF Labels!FetchFees
<1>2. of(fees) \subseteq of(built) /\ of(built) \subseteq 0..clock
  BY <1>0, <1>1
<1>3. CASE of(built) = {}
  BY <1>2, <1>3 DEF Labels!Fee
<1>4. CASE of(built) # {}
  <2> DEFINE m == Labels!Max(of(built))
  <2>1. m \in of(built) /\ \A b \in of(built) : b <= m
    <3> HIDE DEF of
    <3> QED
      BY <1>0, <1>2, <1>4, MaxIsGreatest
  <2>0. m \in Nat /\ m \in built /\ m <= at
    <3> HIDE DEF m
    <3> QED
      BY <1>0, <2>1
  <2>2. first <= m
    <3> DEFINE early == {e \in built : e <= start}
    <3>1. early \subseteq of(built) /\ early \subseteq 0..clock
      <4>1. \A e \in built : e \in Nat
        BY <1>0
      <4>2. \A e \in built : e <= start => e <= at
        BY <4>1
      <4> QED
        BY <1>0, <4>2
    <3> HIDE DEF early
    <3>2. CASE early = {}
      <4>1. Labels!Latest(early) = -1
        BY <3>2 DEF Labels!Latest
      <4> HIDE DEF m
      <4> QED
        BY <2>0, <4>1 DEF early
    <3>3. CASE early # {}
      <4>1. Labels!Latest(early) \in early
        BY <1>0, <3>1, <3>3, LatestIsLast
      <4> QED
        BY <2>1, <3>1, <4>1 DEF early
    <3> QED
      BY <3>2, <3>3
  <2>3. m \in of(fees)
    <3> HIDE DEF m, first, fees
    <3>1. m <= end
      BY <2>0
    <3> QED
      BY <1>1, <2>0, <2>2, <3>1
  <2>4. Labels!Max(of(fees)) \in of(fees) /\ \A b \in of(fees) : b <= Labels!Max(of(fees))
    <3>1. of(fees) \subseteq 0..clock /\ of(fees) # {}
      BY <1>2, <2>3
    <3> HIDE DEF of, fees
    <3> QED
      BY <1>0, <3>1, MaxIsGreatest
  <2>5. Labels!Max(of(fees)) = m
    BY <1>0, <1>2, <2>1, <2>3, <2>4
  <2>6. of(fees) # {}
    BY <2>3
  <2> QED
    BY <1>4, <2>5, <2>6 DEF Labels!Fee
<1> QED
  BY <1>3, <1>4

(* A run that starts has read all there is of its range.                    *)
LEMMA StartSees ==
  ASSUME VenueSound, LabelsSound, NEW c \in Configs, NEW start \in Labels!Times, Labels!StartRun(c, start)
  PROVE  RunSees'
<1> DEFINE end == Labels!Min({clock, Labels!LatestLabelable(config, clock)})
<1>0. /\ config \in Configs /\ c = config /\ start \in Nat /\ config.horizon \in Nat /\ LabelLag \in Nat
      /\ Settle \in Nat /\ LabelLag <= Settle
      /\ UNCHANGED <<clock, shown, recorded, built, config>>
  BY SettleCovers, Constants DEF LabelsSound, Labels!StartRun, Labels!Registered, Labels!store, Labels!Times
<1>1. /\ start < end
      /\ run' = [config |-> c, as_of |-> clock, start |-> start, cursor |-> start, end |-> end,
                 index |-> Labels!SoldIndex(c, Labels!FetchSales(c, start, end + c.horizon)),
                 fees |-> Labels!FetchFees(start, end)]
  BY <1>0 DEF Labels!StartRun
<1> HIDE DEF end
<1>2. /\ end \in Nat
      /\ \A at \in Nat : at < end => Closed(at)
      /\ config.venue_sales => \E b \in built : end + config.horizon + Settle <= b
  BY <1>0, <1>1, LabelableIsClosed DEF end
<1>3. Labels!FetchSales(config, start, end + config.horizon)
         = {s \in Offers : start <= s.at /\ s.at < end + config.horizon}
  <2>1. CASE ~ config.venue_sales
    BY <2>1 DEF Labels!FetchSales, Labels!RecordedSales, Offers
  <2>2. CASE config.venue_sales
    <3>1. \A s \in Labels!AllSales : s.at < end + config.horizon => s \in recorded
      <4> SUFFICES ASSUME NEW i \in Labels!UsableSales(Traded),
                          Labels!SaleKey(Traded, i).at < end + config.horizon
                   PROVE  Labels!SaleKey(Traded, i) \in recorded
        BY OneTitle DEF Labels!AllSales
      <4>1. PICK b \in built : end + config.horizon + Settle <= b
        BY <1>2, <2>2
      <4>2. Labels!SaleKey(Traded, i) \in Labels!AllSales
        BY OneTitle DEF Labels!AllSales
      <4>3. Labels!SaleKey(Traded, i).at \in Nat
        BY <4>2, SaleType
      <4>4. shown[Traded][i].at = Labels!SaleKey(Traded, i).at
        BY DEF Labels!SaleKey
      <4>5. b \in Nat
        BY DEF VenueSound
      <4>6. shown[Traded][i].at + LabelLag < b
        BY <1>0, <1>2, <4>1, <4>3, <4>4, <4>5
      <4> QED
        BY <4>6 DEF VenueSound
    <3>2. recorded \subseteq Labels!AllSales
      BY DEF VenueSound
    <3> QED
      BY <2>2, <3>1, <3>2 DEF Labels!FetchSales, Labels!RecordedSales, Offers
  <2> QED
    BY <2>1, <2>2
<1>4. run'.index = {s \in Everything : start <= s.at /\ s.at < end + config.horizon}
  <2>1. end + config.horizon \in Int
    BY <1>0, <1>2
  <2>2. PICK until \in Int : until = end + config.horizon
    BY <2>1
  <2>3. Labels!SoldIndex(config, {s \in Offers : start <= s.at /\ s.at < until})
           = {s \in Everything : start <= s.at /\ s.at < until}
    BY <1>0, SoldIndexOfPart
  <2> QED
    BY <1>0, <1>1, <1>3, <2>2, <2>3
<1>5. Everything' = Everything
  BY <1>0, SameSales DEF Everything, Offers, Labels!SoldIndex
<1>6. \A at \in Nat : at < end => Closed(at)'
  BY <1>0, <1>2 DEF Closed, Settle
<1>7. \A at \in Nat : start <= at /\ at < end =>
         Labels!Fee(config, at, Labels!FetchFees(start, end)) = Labels!Fee(config, at, built)
  BY <1>0, <1>2, FeesOfRange
<1>8. run'.start = start /\ run'.cursor = start /\ run'.end = end /\ run'.fees = Labels!FetchFees(start, end)
  BY <1>1
<1>9. \A at \in Nat : Labels!Fee(config, at, run.fees)' = Labels!Fee(config, at, Labels!FetchFees(start, end))
  <2>1. PICK x, F : x = config /\ F = Labels!FetchFees(start, end)
    OBVIOUS
  <2>2. x = config' /\ F = run'.fees
    BY <1>0, <1>8, <2>1
  <2>3. \A at : Labels!Fee(x, at, F)' = Labels!Fee(x, at, F)
    BY DEF Labels!Fee, Labels!Max
  <2>4. \A at : Labels!Fee(config, at, run.fees)' = Labels!Fee(x, at, F)'
    BY <2>2
  <2> QED
    BY <2>1, <2>3, <2>4
<1>10. \A at \in Nat : Labels!Fee(config, at, built)' = Labels!Fee(config, at, built)
  BY <1>0 DEF Labels!Fee, Labels!Max
<1> QED
  BY <1>0, <1>1, <1>2, <1>4, <1>5, <1>6, <1>7, <1>8, <1>9, <1>10 DEF RunSees

(* The window a run has labeled is behind it, within its range.             *)
LEMMA WindowInRange ==
  ASSUME RunSees, run # None
  PROVE  /\ Labels!WindowEnd(run.cursor, run.end) \in Nat
         /\ Labels!WindowEnd(run.cursor, run.end) <= run.end
         /\ run.start <= Labels!WindowEnd(run.cursor, run.end)
<1>1. run.start \in Nat /\ run.cursor \in Nat /\ run.end \in Nat /\ run.start <= run.cursor /\ run.start < run.end
  BY DEF RunSees
<1>2. PICK far \in Nat, end \in Nat : far = run.cursor + Window /\ end = run.end
  BY <1>1, Constants
<1>3. Labels!WindowEnd(run.cursor, run.end) = IF far <= end THEN far ELSE end
  <2>1. Labels!Min({far, end}) = IF far <= end THEN far ELSE end
    BY MaxOfTwo
  <2> QED
    BY <1>2, <2>1 DEF Labels!WindowEnd
<1>4. run.start <= far
  BY <1>1, <1>2, Constants
<1> QED
  BY <1>1, <1>2, <1>3, <1>4

LEMMA RunStep ==
  ASSUME VenueSound, LabelsSound, RunSees, [Labels!Next]_(Labels!vars)
  PROVE  RunSees'
<1>1. CASE UNCHANGED run
  <2> SUFFICES ASSUME run # None PROVE RunSees'
    BY <1>1 DEF RunSees
  <2>1. config' = config
    BY VenueMoves
  <2>2. \A at \in Nat : run.start <= at /\ at < run.end =>
           Labels!Fee(config, at, run.fees)' = Labels!Fee(config, at, built)'
    <3>1. PICK x, F, B : x = config /\ F = run.fees /\ B = built'
      OBVIOUS
    <3>2. \A at : Labels!Fee(x, at, F)' = Labels!Fee(x, at, F) /\ Labels!Fee(x, at, B)' = Labels!Fee(x, at, B)
      BY DEF Labels!Fee, Labels!Max
    <3>3. \A at : /\ Labels!Fee(config, at, run.fees)' = Labels!Fee(x, at, F)'
                  /\ Labels!Fee(config, at, built)' = Labels!Fee(x, at, B)'
      BY <1>1, <2>1, <3>1
    <3>4. \A at \in Nat : run.start <= at /\ at < run.end => Labels!Fee(x, at, F) = Labels!Fee(x, at, B)
      BY <3>1, RunStays
    <3> QED
      BY <3>2, <3>3, <3>4
  <2>3. /\ \A at \in Nat : at < run.end => Closed(at)'
        /\ run.index = {s \in Everything' : run.start <= s.at /\ s.at < run.end + config.horizon}
    BY RunStays
  <2>4. /\ run.start \in Nat /\ run.cursor \in Nat /\ run.end \in Nat
        /\ run.start <= run.cursor /\ run.start < run.end
    BY DEF RunSees
  <2> QED
    BY <1>1, <2>1, <2>2, <2>3, <2>4 DEF RunSees
<1>2. CASE Labels!LabelWindow
  <2>1. /\ run # None /\ DOMAIN run = RunKeys
        /\ UNCHANGED <<clock, shown, recorded, built, config>>
    BY <1>2 DEF LabelsSound, Labels!LabelWindow, Labels!store
  <2> SUFFICES ASSUME run' # None PROVE RunSees'
    BY DEF RunSees
  <2> DEFINE end == Labels!WindowEnd(run.cursor, run.end)
  <2>2. end \in Nat /\ run.start <= end
    BY <2>1, WindowInRange
  <2>3. run' = [run EXCEPT !.cursor = end]
    BY <1>2 DEF Labels!LabelWindow
  <2> HIDE DEF end
  <2>4. run'.start = run.start /\ run'.cursor = end /\ run'.end = run.end /\ run'.index = run.index /\ run'.fees = run.fees
    BY <2>1, <2>3 DEF RunKeys
  <2>5. Everything' = Everything
    BY <2>1, SameSales DEF Everything, Offers, Labels!SoldIndex
  <2>6. \A at : Closed(at)' <=> Closed(at)
    BY <2>1 DEF Closed, Settle
  <2>7. /\ \A at : Labels!Fee(config, at, run.fees)' = Labels!Fee(config, at, run.fees)
        /\ \A at : Labels!Fee(config, at, built)' = Labels!Fee(config, at, built)
    BY <2>1, <2>4 DEF Labels!Fee, Labels!Max
  <2> QED
    BY <2>1, <2>2, <2>4, <2>5, <2>6, <2>7 DEF RunSees
<1>3. CASE run' = None
  BY <1>3 DEF RunSees
<1>4. ASSUME NEW c \in Configs, NEW start \in Labels!Times, Labels!StartRun(c, start) PROVE RunSees'
  BY <1>4, StartSees
<1>5. \/ UNCHANGED run \/ Labels!LabelWindow \/ run' = None
      \/ \E c \in Configs, start \in Labels!Times : Labels!StartRun(c, start)
  BY DEF Labels!Next, Labels!vars, Labels!SyncSales, Labels!StoreBuild, Labels!Tick, Labels!StopRun, Labels!ReadFinal,
         Labels!Sight, Labels!Sale
<1> QED
  BY <1>1, <1>2, <1>3, <1>4, <1>5

(* The label a run writes is the one that the whole history gives.          *)
LEMMA WritesTruth ==
  ASSUME VenueSound, LabelsSound, RunSees, run # None, NEW l \in Listings, NEW at \in Nat,
         run.start <= at, at < run.end, at >= run.start + Skew \/ ~ config.venue_sales
  PROVE  Labels!LabelListing(run.config, Seen(l, at), run.index, run.fees) = Truth(l, at)
<1>1. /\ config \in Configs /\ run.config = config /\ config.horizon \in Nat /\ Skew \in Nat
      /\ run.start \in Nat /\ run.end \in Nat
      /\ run.index = {s \in Everything : run.start <= s.at /\ s.at < run.end + config.horizon}
      /\ Labels!Fee(config, at, run.fees) = Labels!Fee(config, at, built)
  BY SettleCovers, Constants DEF LabelsSound, RunSees
<1>2. EverythingSound
  BY EverythingType
<1>3. /\ \A s \in Everything : s.at \in Nat /\ s.nr \in Nat
      /\ ~ config.venue_sales => \A s, r \in Everything : s.kind.listing = r.kind.listing => s.at = r.at
  BY <1>2 DEF EverythingSound
<1>4. run.start <= LooksBackTo(at) /\ LooksBackTo(at) \in Int
  BY <1>1 DEF LooksBackTo
<1>5. \A s \in run.index \cup Everything :
         LooksBackTo(at) <= s.at /\ s.at <= at + config.horizon => (s \in run.index <=> s \in Everything)
  <2> SUFFICES ASSUME NEW s \in Everything, LooksBackTo(at) <= s.at, s.at <= at + config.horizon
               PROVE  run.start <= s.at /\ s.at < run.end + config.horizon
    BY <1>1
  <2> QED
    BY <1>1, <1>3, <1>4
<1> HIDE DEF LooksBackTo
<1>6. /\ \A s \in run.index : s.at \in Nat /\ s.nr \in Nat
      /\ ~ config.venue_sales => \A s, r \in run.index : s.kind.listing = r.kind.listing => s.at = r.at
  BY <1>1, <1>3
<1> QED
  BY <1>1, <1>3, <1>5, <1>6, LabelDepends DEF Truth

LEMMA LabelsStep ==
  ASSUME VenueSound, LabelsSound, RunSees, LabelsExact, [Labels!Next]_(Labels!vars)
  PROVE  LabelsExact'
<1>0. /\ VenueSound' /\ config' = config /\ config \in Configs
  BY VenueStep, VenueMoves DEF LabelsSound
<1> SUFFICES ASSUME NEW l \in Listings, outcomes'[l] # None
             PROVE  /\ Closed(outcomes[l].listed_at)'
                    /\ outcomes'[l].listed_at >= outcomes'[l].run_start + Skew \/ ~ config'.venue_sales =>
                          outcomes'[l].label = Truth(l, outcomes[l].listed_at)'
  BY DEF LabelsExact
<1>1. CASE outcomes'[l] = outcomes[l]
  <2>1. PICK at \in Nat : at = outcomes[l].listed_at
    BY <1>1 DEF LabelsSound
  <2>2. Closed(at) /\ (at >= outcomes[l].run_start + Skew \/ ~ config.venue_sales => outcomes[l].label = Truth(l, at))
    BY <1>1, <2>1 DEF LabelsExact
  <2>3. Closed(at)' /\ Truth(l, at)' = Truth(l, at)
    BY <1>0, <2>2, ClosedStays, TruthStays
  <2>4. Closed(outcomes[l].listed_at)' <=> Closed(at)'
    BY <1>1, <2>1 DEF Closed
  <2>5. Truth(l, outcomes[l].listed_at)' = Truth(l, at)'
    BY <1>1, <2>1
  <2> QED
    BY <1>0, <1>1, <2>1, <2>2, <2>3, <2>4, <2>5
<1>2. CASE Labels!LabelWindow /\ outcomes'[l] # outcomes[l]
  <2>1. PICK at \in Nat : /\ run.cursor <= at /\ at < Labels!WindowEnd(run.cursor, run.end)
                          /\ outcomes'[l] = Labels!Outcome(l, at)
    BY <1>2, WindowWrites
  <2>2. run # None
    BY <1>2 DEF Labels!LabelWindow
  <2>3. run.start <= at /\ at < run.end /\ run.start \in Nat
    BY <2>1, <2>2, WindowInRange DEF RunSees
  <2>4. Closed(at)
    BY <2>2, <2>3 DEF RunSees
  <2>5. Closed(at)' /\ Truth(l, at)' = Truth(l, at)
    BY <1>0, <2>4, ClosedStays, TruthStays
  <2>6. /\ outcomes'[l].listed_at = at /\ outcomes'[l].run_start = run.start
        /\ outcomes'[l].label = Labels!LabelListing(run.config, Seen(l, at), run.index, run.fees)
    BY <2>1 DEF Labels!Outcome, Seen
  <2>7. at >= run.start + Skew \/ ~ config.venue_sales => outcomes'[l].label = Truth(l, at)
    BY <2>2, <2>3, <2>6, WritesTruth
  <2>8. Closed(outcomes[l].listed_at)' <=> Closed(at)'
    BY <2>6 DEF Closed
  <2>9. Truth(l, outcomes[l].listed_at)' = Truth(l, at)'
    BY <2>6
  <2> QED
    BY <1>0, <2>5, <2>6, <2>7, <2>8, <2>9
<1>3. Labels!LabelWindow \/ outcomes' = outcomes
  BY DEF Labels!Next, Labels!vars, Labels!SyncSales, Labels!StoreBuild, Labels!Tick, Labels!StopRun, Labels!Sight,
         Labels!Sale, Labels!StartRun, Labels!ReadFinal
<1> QED
  BY <1>1, <1>2, <1>3

(* A label never contains information from after it became available, and misses none from before: whichever run wrote
   it over whichever range of listings, with whatever sales, builds and listings since, a stored label is the one that
   the whole history of the venue gives its sighting.  Runs wait for the settle time, so what they look at has all shown
   up (Closed), and what shows up later is later than what a label looks at. *)
THEOREM ExactLabelHolds == Labels!Spec => []ExactLabel
<1>1. Labels!Init => ExactInv
  <2>1. Labels!Init => RunSees /\ LabelsExact
    BY DEF Labels!Init, RunSees, LabelsExact
  <2> QED
    BY <2>1, SoundInit, VenueInit DEF ReadInv, ExactInv
<1>2. ExactInv /\ [Labels!Next]_(Labels!vars) => ExactInv'
  BY SoundStep, VenueStep, RunStep, LabelsStep DEF ExactInv
<1>3. ExactInv => ExactLabel
  BY DEF ExactInv, LabelsExact, ExactLabel, Labels!ExactLabel, Truth, Seen, Everything, Offers
<1> QED
  BY <1>1, <1>2, <1>3, PTL DEF Labels!Spec

-----------------------------------------------------------------------------
(* The sync (SalesSync) keeps the promises of SalesStore.  First, numbers:  *)
(* sale_keys numbers identical sales as they are listed, the newest first,  *)
(* and gives them the rows that numbering them from the oldest gives.       *)

Below(P, i) == {j \in P : j < i}
Above(P, i) == {j \in P : j > i}

LEMMA FinitePart ==
  ASSUME NEW n \in Nat, NEW P, P \subseteq 1..n
  PROVE  /\ IsFiniteSet(P) /\ Cardinality(P) \in Nat
         /\ \A i : /\ IsFiniteSet(Below(P, i)) /\ Cardinality(Below(P, i)) \in Nat
                   /\ IsFiniteSet(Above(P, i)) /\ Cardinality(Above(P, i)) \in Nat
<1>1. IsFiniteSet(P)
  <2>1. IsFiniteSet(1..n)
    BY FS_Interval
  <2> QED
    BY <2>1, FS_Subset
<1>2. \A i : Below(P, i) \subseteq P /\ Above(P, i) \subseteq P
  BY DEF Below, Above
<1>3. \A i : IsFiniteSet(Below(P, i)) /\ IsFiniteSet(Above(P, i))
  BY <1>1, <1>2, FS_Subset
<1> QED
  BY <1>1, <1>3, FS_CardinalityType

(* A position has the rest of the positions before and after it.            *)
LEMMA BelowAndAbove ==
  ASSUME NEW n \in Nat, NEW P, P \subseteq 1..n, NEW i \in P
  PROVE  Cardinality(Below(P, i)) + Cardinality(Above(P, i)) + 1 = Cardinality(P)
<1>0. \A j \in P : j \in Int
  OBVIOUS
<1>1. i \notin Above(P, i) /\ Below(P, i) \cap (Above(P, i) \cup {i}) = {}
  <2>1. ~ (i > i) /\ ~ (i < i) /\ \A j \in P : ~ (j < i /\ j > i)
    BY <1>0
  <2> QED
    BY <2>1 DEF Below, Above
<1>2. P = Below(P, i) \cup (Above(P, i) \cup {i})
  <2>1. \A j \in P : j < i \/ j > i \/ j = i
    BY <1>0
  <2> QED
    BY <2>1 DEF Below, Above
<1>3. /\ IsFiniteSet(Above(P, i) \cup {i})
      /\ Cardinality(Above(P, i) \cup {i}) = Cardinality(Above(P, i)) + 1
  BY <1>1, FinitePart, FS_AddElement
<1>4. Cardinality(Below(P, i) \cup (Above(P, i) \cup {i}))
         = Cardinality(Below(P, i)) + Cardinality(Above(P, i) \cup {i})
             - Cardinality(Below(P, i) \cap (Above(P, i) \cup {i}))
  BY <1>3, FinitePart, FS_Union
<1>5. Cardinality({}) = 0
  BY FS_EmptySet
<1>6. /\ Cardinality(P) = Cardinality(Below(P, i)) + Cardinality(Above(P, i) \cup {i}) - 0
      /\ Cardinality(Below(P, i)) \in Nat /\ Cardinality(Above(P, i)) \in Nat
  <2>1. Cardinality(P) = Cardinality(Below(P, i) \cup (Above(P, i) \cup {i}))
    BY <1>2
  <2> QED
    BY <1>1, <1>4, <1>5, <2>1, FinitePart
<1> QED
  BY <1>3, <1>6

(* Every number below their count is of one of the positions.               *)
LEMMA RankTaken ==
  ASSUME NEW n \in Nat, NEW P, P \subseteq 1..n, NEW r \in Nat, r < Cardinality(P)
  PROVE  \E i \in P : Cardinality(Below(P, i)) = r
<1> DEFINE S == {m \in 1..(n + 1) : Cardinality(Below(P, m)) > r}
<1>0. \A j \in P : j \in Nat /\ 1 <= j /\ j <= n
  OBVIOUS
<1>1. n + 1 \in S
  <2>1. Below(P, n + 1) = P
    <3>1. \A j \in P : j < n + 1
      BY <1>0
    <3> QED
      BY <3>1 DEF Below
  <2> QED
    BY <2>1, FinitePart
<1>2. PICK m \in S : \A k \in S : m <= k
  <2>1. S \subseteq Nat /\ S # {}
    BY <1>1
  <2> HIDE DEF S
  <2> QED
    BY <2>1, Least
<1>3. m \in 1..(n + 1) /\ Cardinality(Below(P, m)) > r
  BY <1>2
<1>4. m # 1
  <2> SUFFICES ASSUME m = 1 PROVE FALSE
    OBVIOUS
  <2>1. Below(P, 1) = {}
    <3>1. \A j \in P : ~ (j < 1)
      BY <1>0
    <3> QED
      BY <3>1 DEF Below
  <2>2. Cardinality(Below(P, 1)) = 0
    BY <2>1, FS_EmptySet
  <2> QED
    BY <1>3, <2>2
<1>5. PICK k \in 1..n : k = m - 1
  BY <1>3, <1>4
<1>6. Cardinality(Below(P, k)) \in Nat /\ Cardinality(Below(P, m)) \in Nat /\ Cardinality(Below(P, k)) <= r
  <2>1. Cardinality(Below(P, k)) \in Nat /\ Cardinality(Below(P, m)) \in Nat
    BY FinitePart
  <2>2. k \notin S
    BY <1>2, <1>3, <1>5
  <2>3. ~ (Cardinality(Below(P, k)) > r)
    BY <1>5, <2>2
  <2> QED
    BY <2>1, <2>3
<1>7. \A j \in P : j < m <=> j < k \/ j = k
  BY <1>0, <1>3, <1>5
<1>8. k \notin Below(P, k)
  BY DEF Below
<1>9. k \in P
  <2> SUFFICES ASSUME k \notin P PROVE FALSE
    OBVIOUS
  <2>1. Below(P, m) = Below(P, k)
    BY <1>7 DEF Below
  <2> QED
    BY <1>3, <1>6, <2>1
<1>10. Below(P, m) = Below(P, k) \cup {k}
  BY <1>7, <1>9 DEF Below
<1>11. Cardinality(Below(P, m)) = Cardinality(Below(P, k)) + 1
  BY <1>8, <1>10, FinitePart, FS_AddElement
<1> QED
  BY <1>3, <1>6, <1>9, <1>11

(* Positions counted backwards                                              *)
LEMMA Mirrored ==
  ASSUME NEW n \in Nat, NEW P, P \subseteq 1..n, NEW Q, Q = {n - j + 1 : j \in P}
  PROVE  IsFiniteSet(Q) /\ Cardinality(Q) = Cardinality(P)
<1> DEFINE f == [j \in P |-> n - j + 1]
<1>1. f \in Bijection(P, Q)
  <2>1. f \in [P -> Q]
    OBVIOUS
  <2>2. \A j, k \in P : f[j] = f[k] => j = k
    <3>1. \A j, k \in P : j \in Int /\ k \in Int
      OBVIOUS
    <3>2. \A j, k \in P : n - j + 1 = n - k + 1 => j = k
      BY <3>1
    <3> QED
      BY <3>2
  <2>3. \A q \in Q : \E j \in P : f[j] = q
    OBVIOUS
  <2>4. f \in Injection(P, Q)
    BY <2>1, <2>2 DEF Injection, IsInjective
  <2>5. f \in Surjection(P, Q)
    BY <2>1, <2>3 DEF Surjection
  <2> QED
    BY <2>4, <2>5 DEF Bijection
<1>2. IsFiniteSet(P)
  BY FinitePart
<1> QED
  BY <1>1, <1>2, FS_Bijection DEF ExistsBijection

-----------------------------------------------------------------------------
(* What the sync relies on: DMarket's history is in order, and what is      *)
(* stored is of it, without a gap before a title's newest stored sale.      *)

RowKeysOf(t) == {SaleKey(t, i) : i \in UsableSales(t)}

StoreSound ==
    /\ now \in Times
    /\ sold \in [Titles -> Seq(Sales)]
    /\ \A t \in Titles : \A i \in 1..Len(sold[t]) : sold[t][i].at <= now
    /\ \A t \in Titles : \A i, j \in 1..Len(sold[t]) : i <= j => sold[t][i].at <= sold[t][j].at
    /\ \A row \in stored : \E t \in Titles : row \in RowKeysOf(t)
    /\ builds \subseteq 0..now
    /\ IsFiniteSet(Happened) /\ Cardinality(Happened) <= MaxSales

\* No usable sale of a title before its newest stored one, and after `from`, is missing.
NoGap(t, from) ==
    \A i \in UsableSales(t) : sold[t][i].at < NewestSale(t) /\ sold[t][i].at >= from => SaleKey(t, i) \in stored

GapFree == \A t \in Titles : NoGap(t, now - History)

LEMMA SyncConstants ==
  /\ IsFiniteSet(Titles)
  /\ History \in Nat /\ Lag \in Nat /\ MaxTime \in Nat /\ MaxSales \in Nat /\ MaxPages \in Nat
  /\ PageSize \in Nat /\ PageSize >= 1 /\ MaxAge \in Nat /\ MaxAge >= 1
  BY SyncAssumption

LEMMA GreatestOf ==
  ASSUME NEW n \in Nat, NEW S, S \subseteq 0..n, S # {}
  PROVE  Max(S) \in S /\ \A m \in S : m <= Max(S)
<1> DEFINE R == {n - m : m \in S}
<1>1. PICK k \in R : \A r \in R : k <= r
  <2>1. R \subseteq Nat /\ R # {}
    <3>1. \A m \in S : n - m \in Nat OBVIOUS
    <3> QED BY <3>1
  <2> HIDE DEF R
  <2> QED BY <2>1, Least
<1>2. PICK x \in S : k = n - x
  OBVIOUS
<1>3. \A m \in S : m <= x
  <2> SUFFICES ASSUME NEW m \in S PROVE m <= x
    OBVIOUS
  <2>1. k <= n - m
    BY <1>1
  <2> QED
    BY <1>2, <2>1
<1> HIDE DEF R
<1> QED
  BY <1>3 DEF Max

LEMMA GreatestOfTwo ==
  ASSUME NEW a \in Int, NEW b \in Int
  PROVE  /\ Max({a, b}) = IF a >= b THEN a ELSE b
         /\ Min({a, b}) = IF a <= b THEN a ELSE b
  BY DEF Max, Min

LEMMA GreatestOfThree ==
  ASSUME NEW a \in Int, NEW b \in Int, NEW c \in Int
  PROVE  /\ Max({a, b, c}) \in Int
         /\ a <= Max({a, b, c}) /\ b <= Max({a, b, c}) /\ c <= Max({a, b, c})
<1>1. \E x \in {a, b, c} : \A y \in {a, b, c} : x >= y
  OBVIOUS
<1>2. Max({a, b, c}) \in {a, b, c} /\ \A y \in {a, b, c} : Max({a, b, c}) >= y
  BY <1>1 DEF Max
<1> QED
  BY <1>2

(* Positions, sales and rows of a title                                     *)
LEMMA SoldType ==
  ASSUME StoreSound, NEW t \in Titles
  PROVE  /\ sold[t] \in Seq(Sales) /\ Len(sold[t]) \in Nat
         /\ \A i \in 1..Len(sold[t]) : sold[t][i].at \in Nat /\ sold[t][i].at <= now
         /\ \A i, j \in 1..Len(sold[t]) : i <= j => sold[t][i].at <= sold[t][j].at
         /\ UsableSales(t) \subseteq 1..Len(sold[t])
         /\ \A i : /\ SaleKey(t, i).title = t /\ SaleKey(t, i).at = sold[t][i].at
                   /\ SaleKey(t, i).kind = sold[t][i].kind
         /\ now \in Nat
<1>1. sold[t] \in Seq(Sales) /\ Len(sold[t]) \in Nat
  BY DEF StoreSound
<1>2. \A i \in 1..Len(sold[t]) : sold[t][i].at \in Nat
  <2> SUFFICES ASSUME NEW i \in 1..Len(sold[t]) PROVE sold[t][i].at \in Nat
    OBVIOUS
  <2>1. sold[t][i] \in Sales
    BY <1>1, ElementOfSeq
  <2> QED
    BY <2>1 DEF Sales, Times
<1>3. UsableSales(t) \subseteq 1..Len(sold[t])
  BY <1>1 DEF UsableSales
<1> QED
  BY <1>1, <1>2, <1>3 DEF StoreSound, SaleKey, Times

(* The newest stored sale of a title is a sale of it, and none is newer.    *)
LEMMA NewestIsStored ==
  ASSUME StoreSound, NEW t \in Titles
  PROVE  /\ NewestSale(t) \in Int /\ NewestSale(t) >= -1 /\ NewestSale(t) <= now
         /\ NewestSale(t) # -1 => \E i \in UsableSales(t) : /\ SaleKey(t, i) \in stored
                                                             /\ sold[t][i].at = NewestSale(t)
         /\ \A i \in UsableSales(t) : SaleKey(t, i) \in stored => sold[t][i].at <= NewestSale(t)
<1> DEFINE Ats == {row.at : row \in {r \in stored : r.title = t}}
<1>0. now \in Nat
  BY SoldType
<1>1. \A row \in stored : row.title = t => \E i \in UsableSales(t) : row = SaleKey(t, i)
  <2> SUFFICES ASSUME NEW row \in stored, row.title = t PROVE \E i \in UsableSales(t) : row = SaleKey(t, i)
    OBVIOUS
  <2>1. PICK u \in Titles : row \in RowKeysOf(u)
    BY DEF StoreSound
  <2>2. PICK i \in UsableSales(u) : row = SaleKey(u, i)
    BY <2>1 DEF RowKeysOf
  <2>3. u = t
    BY <2>2 DEF SaleKey
  <2> QED
    BY <2>2, <2>3
<1>2. Ats \subseteq 0..now
  BY <1>0, <1>1, SoldType
<1>3. NewestSale(t) = IF Ats = {} THEN -1 ELSE Max(Ats)
  BY DEF NewestSale, Latest
<1>4. \A i \in UsableSales(t) : SaleKey(t, i) \in stored => sold[t][i].at \in Ats
  BY SoldType
<1>5. \A at \in Ats : \E i \in UsableSales(t) : SaleKey(t, i) \in stored /\ sold[t][i].at = at
  BY <1>1, SoldType
<1> HIDE DEF Ats
<1>6. CASE Ats = {}
  BY <1>0, <1>3, <1>4, <1>6
<1>7. CASE Ats # {}
  <2>1. Max(Ats) \in Ats /\ \A at \in Ats : at <= Max(Ats)
    BY <1>0, <1>2, <1>7, GreatestOf
  <2>2. Max(Ats) \in 0..now
    BY <1>2, <2>1
  <2> QED
    BY <1>0, <1>3, <1>4, <1>5, <1>7, <2>1, <2>2
<1> QED
  BY <1>6, <1>7

(* A sale shows up after the others of its title, at most Lag late.         *)
LEMMA SaleShows ==
  ASSUME StoreSound, NEW t \in Titles, NEW kind \in Kinds, Appear(t, kind)
  PROVE  /\ \E sale \in Sales :
               /\ sold' = [sold EXCEPT ![t] = Append(@, sale)]
               /\ now - Lag <= sale.at /\ sale.at <= now
               /\ \A i \in 1..Len(sold[t]) : sold[t][i].at <= sale.at
         /\ UNCHANGED <<now, stored, builds>>
         /\ Cardinality(Happened) < MaxSales
<1> DEFINE h == sold[t]
<1>0. /\ h \in Seq(Sales) /\ Len(h) \in Nat /\ now \in Nat /\ now <= MaxTime /\ MaxTime \in Nat /\ Lag \in Nat
      /\ \A i, j \in 1..Len(h) : i <= j => h[i].at <= h[j].at
      /\ \A i \in 1..Len(h) : h[i].at \in Nat
  <2>1. now <= MaxTime
    BY SyncConstants DEF StoreSound, Times
  <2> QED
    BY <2>1, SoldType, SyncConstants
<1>1. PICK at \in Max({0, now - Lag})..now :
         /\ h # <<>> => at >= Last(h).at
         /\ sold' = [sold EXCEPT ![t] = Append(@, [at |-> at, kind |-> kind])]
  BY DEF Appear
<1>2. at \in Nat /\ now - Lag <= at /\ at <= now
  BY <1>0, <1>1, GreatestOfTwo
<1>3. \A i \in 1..Len(h) : h[i].at <= at
  <2> SUFFICES ASSUME NEW i \in 1..Len(h) PROVE h[i].at <= at
    OBVIOUS
  <2>1. h # <<>> /\ i <= Len(h) /\ Len(h) \in 1..Len(h)
    BY <1>0
  <2>2. h[i].at <= h[Len(h)].at /\ at >= h[Len(h)].at
    BY <1>0, <1>1, <2>1 DEF Last
  <2> QED
    BY <1>0, <1>2, <2>1, <2>2
<1>4. [at |-> at, kind |-> kind] \in Sales
  BY <1>0, <1>2 DEF Sales, Times
<1> QED
  BY <1>1, <1>2, <1>3, <1>4 DEF Appear

LEMMA PositionsStay ==
  ASSUME StoreSound, NEW t \in Titles, NEW sale \in Sales, sold' = [sold EXCEPT ![t] = Append(@, sale)]
  PROVE  /\ sold' \in [Titles -> Seq(Sales)]
         /\ Len(sold'[t]) = Len(sold[t]) + 1 /\ sold'[t][Len(sold[t]) + 1] = sale
         /\ \A u \in Titles : u # t => sold'[u] = sold[u]
         /\ \A u \in Titles : \A i \in 1..Len(sold[u]) :
               sold'[u][i] = sold[u][i] /\ SaleKey(u, i)' = SaleKey(u, i)
         /\ \A u \in Titles : UsableSales(u) = UsableSales(u)' \cap 1..Len(sold[u])
<1> DEFINE h == sold[t]
<1>0. h \in Seq(Sales) /\ Len(h) \in Nat /\ sold'[t] = Append(h, sale)
  BY DEF StoreSound
<1>1. /\ Append(h, sale) \in Seq(Sales)
      /\ Len(Append(h, sale)) = Len(h) + 1
      /\ \A i \in 1..Len(h) : Append(h, sale)[i] = h[i]
      /\ Append(h, sale)[Len(h) + 1] = sale
  BY <1>0, AppendProperties
<1>2. sold' \in [Titles -> Seq(Sales)] /\ \A u \in Titles : u # t => sold'[u] = sold[u]
  BY <1>0, <1>1 DEF StoreSound
<1>3. \A u \in Titles : \A i \in 1..Len(sold[u]) : sold'[u][i] = sold[u][i]
  BY <1>0, <1>1, <1>2
<1>4. ASSUME NEW u \in Titles, NEW i \in 1..Len(sold[u]) PROVE SaleKey(u, i)' = SaleKey(u, i)
  <2>1. {j \in 1..(i - 1) : sold'[u][j] = sold'[u][i]} = {j \in 1..(i - 1) : sold[u][j] = sold[u][i]}
    <3>1. \A j \in 1..(i - 1) : j \in 1..Len(sold[u])
      BY SoldType
    <3> QED
      BY <1>3, <3>1
  <2> QED
    BY <1>3, <2>1 DEF SaleKey
<1>5. ASSUME NEW u \in Titles PROVE UsableSales(u) = UsableSales(u)' \cap 1..Len(sold[u])
  <2>1. DOMAIN sold[u] = 1..Len(sold[u]) /\ Len(sold[u]) \in Nat
    BY SoldType
  <2>2. DOMAIN sold'[u] = IF u = t THEN 1..(Len(h) + 1) ELSE 1..Len(sold[u])
    BY <1>0, <1>1, <1>2, <2>1
  <2>3. 1..Len(sold[u]) \subseteq DOMAIN sold'[u]
    BY <2>1, <2>2
  <2> QED
    BY <1>3, <2>1, <2>3 DEF UsableSales
<1> QED
  BY <1>0, <1>1, <1>2, <1>3, <1>4, <1>5

LEMMA HappenedGrows ==
  ASSUME StoreSound, NEW t \in Titles, NEW sale \in Sales, sold' = [sold EXCEPT ![t] = Append(@, sale)],
         Cardinality(Happened) < MaxSales
  PROVE  IsFiniteSet(Happened)' /\ Cardinality(Happened)' <= MaxSales
<1>1. PICK n \in Nat : n = Len(sold[t])
  BY SoldType
<1>2. /\ \A u \in Titles : u # t => DOMAIN sold'[u] = DOMAIN sold[u]
      /\ DOMAIN sold[t] = 1..n /\ DOMAIN sold'[t] = 1..(n + 1)
  <2>1. sold[t] \in Seq(Sales) /\ sold'[t] \in Seq(Sales) /\ Len(sold'[t]) = n + 1
    BY <1>1, SoldType, PositionsStay
  <2> QED
    BY <1>1, <2>1, PositionsStay
<1>3. 1..(n + 1) = 1..n \cup {n + 1}
  BY <1>1
<1>4. Happened' = Happened \cup {<<t, n + 1>>}
  <2>1. Happened' \subseteq Happened \cup {<<t, n + 1>>}
    BY <1>2, <1>3 DEF Happened
  <2>2. Happened \subseteq Happened'
    BY <1>2, <1>3 DEF Happened
  <2>3. <<t, n + 1>> \in Happened'
    BY <1>2, <1>3 DEF Happened
  <2> QED
    BY <2>1, <2>2, <2>3
<1>5. /\ IsFiniteSet(Happened \cup {<<t, n + 1>>})
      /\ Cardinality(Happened \cup {<<t, n + 1>>}) \in {Cardinality(Happened), Cardinality(Happened) + 1}
      /\ Cardinality(Happened) \in Nat
  BY FS_AddElement, FS_CardinalityType DEF StoreSound
<1>6. Cardinality(Happened \cup {<<t, n + 1>>}) <= MaxSales
  BY <1>5, SyncConstants
<1> QED
  BY <1>4, <1>5, <1>6

(* No title has more sales than there were.                                 *)
LEMMA FewSales ==
  ASSUME StoreSound, NEW t \in Titles
  PROVE  Len(sold[t]) <= MaxSales
<1>1. PICK n \in Nat : n = Len(sold[t]) /\ DOMAIN sold[t] = 1..n
  BY SoldType
<1> DEFINE own == {t} \X (1..n)
           f == [i \in 1..n |-> <<t, i>>]
<1>2. own \subseteq Happened
  BY <1>1 DEF Happened
<1>3. f \in Bijection(1..n, own)
  <2>1. f \in Injection(1..n, own)
    BY DEF Injection, IsInjective
  <2>2. f \in Surjection(1..n, own)
    <3>1. f \in [1..n -> own]
      OBVIOUS
    <3>2. \A q \in own : \E i \in 1..n : f[i] = q
      <4> SUFFICES ASSUME NEW i \in 1..n PROVE \E k \in 1..n : f[k] = <<t, i>>
        OBVIOUS
      <4> QED
        OBVIOUS
    <3> HIDE DEF f, own
    <3> QED
      BY <3>1, <3>2 DEF Surjection
  <2> QED
    BY <2>1, <2>2 DEF Bijection
<1>4. IsFiniteSet(1..n) /\ Cardinality(1..n) = n
  BY FS_Interval
<1> HIDE DEF f, own
<1>5. Cardinality(own) = n /\ Cardinality(own) <= Cardinality(Happened) /\ Cardinality(Happened) \in Nat
  <2>1. Cardinality(own) = n
    BY <1>3, <1>4, FS_Bijection DEF ExistsBijection
  <2> QED
    BY <1>2, <2>1, FS_Subset, FS_CardinalityType DEF StoreSound
<1>6. Cardinality(Happened) <= MaxSales
  BY DEF StoreSound
<1> QED
  BY <1>1, <1>5, <1>6, SyncConstants

-----------------------------------------------------------------------------
(* The inductive invariant of the sync: what a title's pages hold is its    *)
(* newest sales, without a gap, and a title that is done is known up to the *)
(* start of the check.                                                      *)

Phases == {"waiting", "reading", "read", "done", "failed"}

\* The pages of t hold its sales down from position n.
ReadFrom(t, n) ==
    /\ n \in 0..Len(sold[t]) /\ Len(reading[t].sales) <= n
    /\ \A i \in 1..Len(reading[t].sales) : reading[t].sales[i] = sold[t][n - i + 1]

\* They hold all that were wanted of them, and the sales after position n are too recent to be owed.
ReadEnough(t, n) ==
    /\ \A j \in UsableSales(t) : j <= n - Len(reading[t].sales) => sold[t][j].at < ReadBackTo(t)
    /\ \A j \in 1..Len(sold[t]) : j > n => sold[t][j].at + Lag >= started

Unstored(t) == newest[t] = NewestSale(t) /\ NoGap(t, started - History)

TitleSound(t) ==
    /\ reading[t].phase = "waiting" => reading[t] = Waiting
    /\ reading[t].phase = "reading" => ReadFrom(t, Len(sold[t])) /\ Len(reading[t].sales) = reading[t].pages * PageSize
    /\ reading[t].phase = "read" => \E n \in 0..Len(sold[t]) : ReadFrom(t, n) /\ ReadEnough(t, n)
    /\ reading[t].phase = "done" => KnownUpTo(t, started)
    /\ ~ Idle /\ reading[t].phase \in {"waiting", "reading", "read"} => Unstored(t)
    /\ Idle => reading[t].phase = "waiting"

SyncInv ==
    /\ StoreSound /\ GapFree
    /\ started \in -1..now
    /\ reading \in [Titles -> [phase : Phases, pages : Nat, sales : Seq(Sales)]]
    /\ \A t \in Titles : TitleSound(t)
    /\ ~ Idle => \A moment \in builds : moment < started

(* What the other titles' steps leave of a title                            *)
RowsSame(t) == \A row \in stored \cup stored' : row.title = t => row \in stored /\ row \in stored'

LEMMA KeysStay ==
  ASSUME NEW t \in Titles, sold'[t] = sold[t], RowsSame(t)
  PROVE  /\ UsableSales(t)' = UsableSales(t) /\ NewestSale(t)' = NewestSale(t)
         /\ \A i : SaleKey(t, i)' = SaleKey(t, i) /\ (SaleKey(t, i) \in stored' <=> SaleKey(t, i) \in stored)
<1>1. UsableSales(t)' = UsableSales(t)
  BY DEF UsableSales
<1>2. {r \in stored' : r.title = t} = {r \in stored : r.title = t}
  BY DEF RowsSame
<1>3. NewestSale(t)' = NewestSale(t)
  BY <1>2 DEF NewestSale, Latest
<1>4. \A i : SaleKey(t, i)' = SaleKey(t, i)
  BY DEF SaleKey
<1>5. \A i : SaleKey(t, i).title = t
  BY DEF SaleKey
<1>6. \A i : SaleKey(t, i) \in stored' <=> SaleKey(t, i) \in stored
  BY <1>5 DEF RowsSame
<1> QED
  BY <1>1, <1>3, <1>4, <1>6

LEMMA TitleStays ==
  ASSUME NEW t \in Titles, TitleSound(t), reading'[t] = reading[t], newest'[t] = newest[t], started' = started,
         sold'[t] = sold[t], RowsSame(t)
  PROVE  TitleSound(t)'
<1>1. UsableSales(t)' = UsableSales(t) /\ NewestSale(t)' = NewestSale(t)
  BY KeysStay
<1>2. \A i : SaleKey(t, i)' = SaleKey(t, i) /\ (SaleKey(t, i) \in stored' <=> SaleKey(t, i) \in stored)
  BY KeysStay
<1>3. \A n : ReadFrom(t, n) => ReadFrom(t, n)'
  BY DEF ReadFrom
<1>4. \A n : ReadEnough(t, n) => ReadEnough(t, n)'
  BY <1>1 DEF ReadEnough, ReadBackTo
<1>5. KnownUpTo(t, started) => KnownUpTo(t, started)'
  BY <1>1, <1>2 DEF KnownUpTo
<1>6. Unstored(t) => Unstored(t)'
  BY <1>1, <1>2 DEF Unstored, NoGap
<1>7. (Idle' <=> Idle) /\ Waiting' = Waiting
  BY DEF Idle, Waiting
<1>8. ReadFrom(t, Len(sold[t]))' <=> ReadFrom(t, Len(sold[t]))
  BY DEF ReadFrom
<1> QED
  BY <1>3, <1>4, <1>5, <1>6, <1>7, <1>8 DEF TitleSound

LEMMA StoreStays ==
  ASSUME StoreSound, GapFree, UNCHANGED <<now, sold, stored>>, builds' \subseteq 0..now
  PROVE  StoreSound' /\ GapFree'
<1>1. \A t \in Titles : /\ UsableSales(t)' = UsableSales(t) /\ NewestSale(t)' = NewestSale(t)
                        /\ \A i : SaleKey(t, i)' = SaleKey(t, i)
  BY KeysStay DEF RowsSame
<1>2. \A t \in Titles : RowKeysOf(t)' = RowKeysOf(t)
  BY <1>1 DEF RowKeysOf
<1>3. StoreSound'
  BY <1>2 DEF StoreSound, Happened
<1>4. GapFree'
  BY <1>1 DEF GapFree, NoGap
<1> QED
  BY <1>3, <1>4

(* A check that ends leaves nothing behind.                                 *)
LEMMA ResetStep ==
  ASSUME SyncInv, Reset, UNCHANGED <<now, sold, stored>>, builds' \subseteq 0..now
  PROVE  SyncInv'
<1>1. StoreSound' /\ GapFree'
  BY StoreStays DEF SyncInv
<1>2. Idle' /\ started' \in -1..now' /\ now' \in Nat
  <2>1. now \in Nat
    BY SyncConstants DEF SyncInv, StoreSound, Times
  <2> QED
    BY <2>1 DEF Reset, Idle
<1>3. reading' \in [Titles -> [phase : Phases, pages : Nat, sales : Seq(Sales)]]
  <2>1. Waiting \in [phase : Phases, pages : Nat, sales : Seq(Sales)]
    BY DEF Waiting, Phases
  <2> QED
    BY <2>1 DEF Reset
<1>4. ASSUME NEW t \in Titles PROVE TitleSound(t)'
  <2>1. reading'[t] = Waiting /\ Waiting' = Waiting /\ Waiting.phase = "waiting"
    BY DEF Reset, Waiting
  <2> QED
    BY <1>2, <2>1 DEF TitleSound
<1> QED
  BY <1>1, <1>2, <1>3, <1>4 DEF SyncInv

LEMMA InitSync == Init => SyncInv
<1> SUFFICES ASSUME Init PROVE SyncInv
  OBVIOUS
<1>1. /\ now = 0 /\ sold = [t \in Titles |-> <<>>] /\ stored = {} /\ builds = {}
      /\ started = -1 /\ reading = [t \in Titles |-> Waiting]
  BY DEF Init, StoreInit
<1>2. StoreSound
  <2>1. Happened = {}
    BY <1>1 DEF Happened
  <2>2. IsFiniteSet(Happened) /\ Cardinality(Happened) <= MaxSales
    BY <2>1, FS_EmptySet, SyncConstants
  <2> QED
    BY <1>1, <2>2, SyncConstants DEF StoreSound, Times
<1>3. GapFree
  BY <1>1 DEF GapFree, NoGap, UsableSales
<1>4. reading \in [Titles -> [phase : Phases, pages : Nat, sales : Seq(Sales)]]
  <2>1. Waiting \in [phase : Phases, pages : Nat, sales : Seq(Sales)]
    BY DEF Waiting, Phases
  <2> QED
    BY <1>1, <2>1
<1>5. \A t \in Titles : TitleSound(t)
  <2>1. \A t \in Titles : reading[t] = Waiting /\ Waiting.phase = "waiting"
    BY <1>1 DEF Waiting
  <2> QED
    BY <1>1, <2>1 DEF TitleSound, Idle
<1> QED
  BY <1>1, <1>2, <1>3, <1>4, <1>5 DEF SyncInv, Idle

(* A check starts: the newest stored sales are read.                        *)
LEMMA CheckStep ==
  ASSUME SyncInv, Check
  PROVE  SyncInv'
<1>0. now \in Nat /\ UNCHANGED <<now, sold, stored, builds>> /\ builds' \subseteq 0..now
  BY SyncConstants DEF Check, venue, SyncInv, StoreSound, Times
<1>1. CASE Recent
  BY <1>0, <1>1, ResetStep DEF Check, Ended
<1>2. CASE ~ Recent
  <2>1. started' = now /\ newest' = [t \in Titles |-> NewestSale(t)] /\ reading' = reading /\ Idle
    BY <1>2 DEF Check
  <2>2. StoreSound' /\ GapFree'
    BY <1>0, StoreStays DEF SyncInv
  <2>3. ~ Idle'
    BY <1>0, <2>1 DEF Idle
  <2>4. ASSUME NEW t \in Titles PROVE TitleSound(t)'
    <3>1. reading'[t] = Waiting /\ Waiting' = Waiting /\ Waiting.phase = "waiting"
      BY <2>1 DEF SyncInv, TitleSound, Waiting
    <3>2. NewestSale(t)' = NewestSale(t)
      BY <1>0, KeysStay DEF RowsSame
    <3>3. newest'[t] = NewestSale(t)' /\ started' = now'
      BY <1>0, <2>1, <3>2
    <3>4. NoGap(t, now - History)'
      BY <2>2 DEF GapFree
    <3>5. NoGap(t, started - History)'
      BY <3>3, <3>4 DEF NoGap
    <3> QED
      BY <2>3, <3>1, <3>3, <3>5 DEF TitleSound, Unstored
  <2>5. \A moment \in builds : moment < now
    <3>1. CASE builds = {}
      BY <3>1
    <3>2. CASE builds # {}
      <4>1. builds \subseteq 0..now
        BY DEF SyncInv, StoreSound
      <4>2. Max(builds) \in builds /\ \A m \in builds : m <= Max(builds)
        BY <1>0, <3>2, <4>1, GreatestOf
      <4>3. LatestBuild = Max(builds)
        BY <3>2 DEF LatestBuild, Latest
      <4>4. Max(builds) \in 0..now
        BY <4>1, <4>2
      <4>5. Max(builds) < now
        BY <1>0, <1>2, <4>3, <4>4, SyncConstants DEF Recent
      <4> QED
        BY <1>0, <4>1, <4>2, <4>4, <4>5
    <3> QED
      BY <3>1, <3>2
  <2> QED
    BY <1>0, <2>1, <2>2, <2>4, <2>5 DEF SyncInv
<1> QED
  BY <1>1, <1>2

(* A step of one title leaves the others as they were.                      *)
LEMMA TitleStep ==
  ASSUME SyncInv, ~ Idle, NEW t \in Titles, NEW r \in [phase : Phases, pages : Nat, sales : Seq(Sales)],
         reading' = [reading EXCEPT ![t] = r], UNCHANGED <<now, sold, builds, started, newest>>,
         \A u \in Titles : u # t => RowsSame(u), StoreSound', GapFree', TitleSound(t)'
  PROVE  SyncInv'
<1>1. ASSUME NEW u \in Titles, u # t PROVE TitleSound(u)'
  BY <1>1, TitleStays DEF SyncInv
<1>2. ~ Idle' /\ started' \in -1..now' /\ \A moment \in builds' : moment < started'
  BY DEF SyncInv, Idle
<1>3. reading' \in [Titles -> [phase : Phases, pages : Nat, sales : Seq(Sales)]]
  BY DEF SyncInv
<1> QED
  BY <1>1, <1>2, <1>3 DEF SyncInv

LEMMA FailTitleStep ==
  ASSUME SyncInv, NEW t \in Titles, FailTitle(t)
  PROVE  SyncInv'
<1> DEFINE r == [Waiting EXCEPT !.phase = "failed"]
<1>1. /\ reading' = [reading EXCEPT ![t] = r] /\ ~ Idle
      /\ UNCHANGED <<now, sold, stored, builds, started, newest>>
  BY DEF FailTitle, venue
<1>2. r \in [phase : Phases, pages : Nat, sales : Seq(Sales)] /\ r.phase = "failed"
  <2>1. r = [phase |-> "failed", pages |-> 0, sales |-> <<>>]
    BY DEF Waiting
  <2> HIDE DEF r
  <2>2. "failed" \in Phases /\ <<>> \in Seq(Sales)
    BY DEF Phases
  <2> QED
    BY <2>1, <2>2
<1>3. StoreSound' /\ GapFree'
  <2>1. builds' \subseteq 0..now
    BY <1>1 DEF SyncInv, StoreSound
  <2> QED
    BY <1>1, <2>1, StoreStays DEF SyncInv
<1>4. TitleSound(t)'
  <2>1. reading'[t].phase = "failed" /\ ~ Idle'
    BY <1>1, <1>2 DEF SyncInv, Idle
  <2> QED
    BY <2>1 DEF TitleSound
<1>5. \A u \in Titles : RowsSame(u)
  BY <1>1 DEF RowsSame
<1> HIDE DEF r
<1> QED
  BY <1>1, <1>2, <1>3, <1>4, <1>5, TitleStep

(* The next page of a title: its next sales down from those already read,   *)
(* and all the rest when it is short.                                       *)
LEMMA PageOf ==
  ASSUME SyncInv, ~ Idle, NEW t \in Titles, reading[t].phase \in {"waiting", "reading"},
         NEW k, k = Len(reading[t].sales), NEW page, page = Page(t, reading[t].pages)
  PROVE  /\ k \in Nat /\ k = reading[t].pages * PageSize /\ reading[t].pages \in Nat
         /\ ReadFrom(t, Len(sold[t]))
         /\ page \in Seq(Sales) /\ Len(page) <= PageSize /\ k + Len(page) <= Len(sold[t])
         /\ Len(page) < PageSize => k + Len(page) = Len(sold[t])
         /\ \A i \in 1..Len(page) : page[i] = sold[t][Len(sold[t]) - (k + i) + 1]
<1>1. PICK L \in Nat : L = Len(sold[t])
  BY SoldType DEF SyncInv
<1>2. reading[t] \in [phase : Phases, pages : Nat, sales : Seq(Sales)] /\ TitleSound(t)
  BY DEF SyncInv
<1>3. PICK p \in Nat : p = reading[t].pages
  BY <1>2
<1>4. k \in Nat /\ k = p * PageSize /\ k <= L /\ ReadFrom(t, Len(sold[t]))
  <2>1. CASE reading[t].phase = "waiting"
    <3>1. reading[t] = [phase |-> "waiting", pages |-> 0, sales |-> <<>>]
      BY <1>2, <2>1 DEF TitleSound, Waiting
    <3>2. k = 0 /\ p = 0
      BY <1>3, <3>1
    <3> QED
      BY <1>1, <3>1, <3>2, SyncConstants DEF ReadFrom
  <2>2. CASE reading[t].phase = "reading"
    <3>1. ReadFrom(t, Len(sold[t])) /\ k = reading[t].pages * PageSize
      BY <1>2, <2>2 DEF TitleSound
    <3>2. k \in Nat
      BY <1>2
    <3> QED
      BY <1>1, <1>3, <3>1, <3>2 DEF ReadFrom
  <2> QED
    BY <2>1, <2>2
<1> DEFINE h == sold[t]
           back == Reverse(h)
           end == IF k + PageSize <= L THEN k + PageSize ELSE L
<1>5. /\ h \in Seq(Sales) /\ Len(h) = L
      /\ DOMAIN back = 1..L /\ \A i \in 1..L : back[i] = h[L - i + 1] /\ back[i] \in Sales
  <2>1. h \in Seq(Sales) /\ Len(h) = L
    BY <1>1, SoldType DEF SyncInv
  <2>2. back = [i \in 1..L |-> h[(L - i) + 1]]
    BY <2>1 DEF Reverse
  <2>3. \A i \in 1..L : (L - i) + 1 \in 1..Len(h)
    BY <2>1
  <2>4. \A i \in 1..L : h[(L - i) + 1] \in Sales
    BY <2>1, <2>3, ElementOfSeq
  <2> QED
    BY <2>1, <2>2, <2>4
<1>6. Len(back) = L
  <2>1. back \in Seq(Sales)
    <3>1. back = [i \in 1..L |-> h[(L - i) + 1]]
      BY <1>5 DEF Reverse
    <3> QED
      BY <1>5, <3>1
  <2> QED
    BY <1>5, <2>1
<1>7. page = SubSeq(back, k + 1, end)
  <2>1. (p + 1) * PageSize = k + PageSize
    BY <1>4, SyncConstants
  <2>2. p * PageSize + 1 = k + 1
    BY <1>4
  <2>3. page = SubSeq(back, p * PageSize + 1, Min({(p + 1) * PageSize, Len(back)}))
    BY <1>3 DEF Page
  <2>4. Min({k + PageSize, L}) = end
    <3>1. PICK e \in Int, l \in Int : e = k + PageSize /\ l = L
      BY <1>4, SyncConstants
    <3>2. Min({e, l}) = IF e <= l THEN e ELSE l
      BY GreatestOfTwo
    <3> QED
      BY <3>1, <3>2
  <2> HIDE DEF back, end
  <2> QED
    BY <1>6, <2>1, <2>2, <2>3, <2>4
<1>8. end \in Nat /\ k <= end /\ end <= L /\ end <= k + PageSize /\ (end < k + PageSize => end = L)
  BY <1>1, <1>4, SyncConstants
<1> HIDE DEF back, end, h
<1>9. /\ page \in Seq(Sales) /\ Len(page) = end - k
      /\ \A i \in 1..(end - k) : page[i] = back[k + i]
  <2>1. \A i \in (k + 1)..end : back[i] \in Sales
    BY <1>1, <1>4, <1>5, <1>8
  <2>2. PICK m \in Int, n \in Int : m = k + 1 /\ n = end
    BY <1>4, <1>8
  <2>3. /\ SubSeq(back, m, n) \in Seq(Sales)
        /\ Len(SubSeq(back, m, n)) = IF m <= n THEN n - m + 1 ELSE 0
        /\ \A i \in 1..(n - m + 1) : SubSeq(back, m, n)[i] = back[m + i - 1]
    <3>1. \A i \in m..n : back[i] \in Sales
      BY <2>1, <2>2
    <3> HIDE <2>2, <2>1
    <3> QED
      BY <3>1, SubSeqProperties
  <2>4. n - m + 1 = end - k /\ (m <= n <=> end - k > 0) /\ \A i \in 1..(end - k) : m + i - 1 = k + i
    BY <1>4, <1>8, <2>2, SMTT(30)
  <2>5. page = SubSeq(back, m, n)
    BY <1>7, <2>2
  <2> QED
    BY <1>4, <1>8, <2>3, <2>4, <2>5
<1>10. \A i \in 1..Len(page) : page[i] = sold[t][Len(sold[t]) - (k + i) + 1]
  <2> SUFFICES ASSUME NEW i \in 1..Len(page) PROVE page[i] = sold[t][Len(sold[t]) - (k + i) + 1]
    OBVIOUS
  <2>1. i \in 1..(end - k) /\ k + i \in 1..L
    BY <1>1, <1>4, <1>8, <1>9
  <2>2. page[i] = h[L - (k + i) + 1]
    BY <1>5, <1>9, <2>1
  <2> QED
    BY <1>1, <2>2 DEF h
<1>11. /\ Len(page) <= PageSize /\ k + Len(page) <= L
       /\ Len(page) < PageSize => k + Len(page) = L
  <2>1. PICK l \in Nat : l = Len(page) /\ l = end - k
    BY <1>4, <1>8, <1>9
  <2>2. PICK e \in Nat : e = end
    BY <1>8
  <2>3. PICK z \in Nat : z = PageSize
    BY SyncConstants
  <2>4. l = e - k /\ k \in Nat /\ L \in Nat /\ e <= L /\ e <= k + z /\ (e < k + z => e = L)
    BY <1>1, <1>4, <1>8, <2>1, <2>2, <2>3
  <2>5. l <= z /\ k + l <= L /\ (l < z => k + l = L)
    BY ONLY <2>4, l \in Nat, e \in Nat, z \in Nat
  <2> QED
    BY ONLY <2>1, <2>3, <2>5
<1> QED
  BY <1>1, <1>3, <1>4, <1>9, <1>10, <1>11

(* How far back a title is read                                             *)
LEMMA ReadBack ==
  ASSUME SyncInv, ~ Idle, NEW t \in Titles, reading[t].phase \in {"waiting", "reading", "read"}
  PROVE  /\ Unstored(t) /\ started \in Nat /\ started <= now /\ now \in Nat
         /\ NewestSale(t) \in Int /\ newest[t] = NewestSale(t)
         /\ ReadBackTo(t) = IF newest[t] >= started - History THEN newest[t] ELSE started - History
         /\ ReadBackTo(t) \in Int
<1>1. Unstored(t) /\ newest[t] = NewestSale(t)
  BY DEF SyncInv, TitleSound, Unstored
<1>2. started \in Nat /\ started <= now /\ now \in Nat
  BY SoldType DEF SyncInv, Idle
<1>3. PICK a \in Int, b \in Int : a = newest[t] /\ b = started - History
  BY <1>1, <1>2, NewestIsStored, SyncConstants DEF SyncInv
<1>4. ReadBackTo(t) = IF a >= b THEN a ELSE b
  BY <1>3, GreatestOfTwo DEF ReadBackTo
<1> QED
  BY <1>1, <1>2, <1>3, <1>4

(* The page guard never stops a title: it reads more than there are sales.  *)
LEMMA GuardNeverStops ==
  ASSUME SyncInv, PageSize * MaxPages > MaxSales, NEW t \in Titles, NEW p \in Nat, p + 1 >= MaxPages
  PROVE  (p + 1) * PageSize > Len(sold[t])
<1>1. PICK n \in Nat : p + 1 = MaxPages + n
  <2>1. p + 1 - MaxPages \in Nat /\ p + 1 = MaxPages + (p + 1 - MaxPages)
    BY SyncConstants
  <2> QED
    BY <2>1
<1>2. (MaxPages + n) * PageSize = PageSize * MaxPages + n * PageSize
  BY SyncConstants
<1>3. n * PageSize \in Nat /\ PageSize * MaxPages \in Nat
  BY SyncConstants
<1>4. Len(sold[t]) <= MaxSales /\ Len(sold[t]) \in Nat
  BY FewSales, SoldType DEF SyncInv
<1>5. ASSUME NEW a \in Nat, NEW b \in Nat, NEW c \in Nat, a > MaxSales, c <= MaxSales PROVE a + b > c
  BY <1>5, SyncConstants
<1> QED
  BY <1>1, <1>2, <1>3, <1>4, <1>5

LEMMA FetchStep ==
  ASSUME SyncInv, PageSize * MaxPages > MaxSales, NEW t \in Titles, FetchPage(t)
  PROVE  SyncInv'
<1> DEFINE s == reading[t].sales
           page == Page(t, reading[t].pages)
           r == [phase |-> IF LastPage(t, page, reading[t].pages) THEN "read" ELSE "reading",
                 pages |-> reading[t].pages + 1, sales |-> s \o page]
<1>1. /\ ~ Idle /\ reading[t].phase \in {"waiting", "reading"}
      /\ UNCHANGED <<now, sold, stored, builds, started, newest>>
  BY DEF FetchPage, venue
<1>2. reading' = [reading EXCEPT ![t] = r]
  BY DEF FetchPage
<1>3. PICK k, l \in Nat, p \in Nat, L \in Nat : k = Len(s) /\ l = Len(page) /\ p = reading[t].pages /\ L = Len(sold[t])
  <2>1. Len(s) \in Nat /\ reading[t].pages \in Nat /\ s \in Seq(Sales)
    BY DEF SyncInv
  <2>2. page \in Seq(Sales)
    BY <1>1, PageOf
  <2>3. Len(page) \in Nat /\ Len(sold[t]) \in Nat
    BY <2>2, SoldType DEF SyncInv
  <2> QED
    BY <2>1, <2>3
<1> DEFINE q == reading[t].pages
<1>a. /\ Len(s) \in Nat /\ Len(s) = q * PageSize /\ ReadFrom(t, Len(sold[t]))
      /\ page \in Seq(Sales) /\ Len(page) <= PageSize /\ Len(s) + Len(page) <= Len(sold[t])
      /\ Len(page) < PageSize => Len(s) + Len(page) = Len(sold[t])
      /\ \A i \in 1..Len(page) : page[i] = sold[t][Len(sold[t]) - (Len(s) + i) + 1]
  <2>1. PICK n, some : n = Len(reading[t].sales) /\ some = Page(t, reading[t].pages)
    OBVIOUS
  <2>2. /\ n \in Nat /\ n = reading[t].pages * PageSize
        /\ ReadFrom(t, Len(sold[t]))
        /\ some \in Seq(Sales) /\ Len(some) <= PageSize /\ n + Len(some) <= Len(sold[t])
        /\ Len(some) < PageSize => n + Len(some) = Len(sold[t])
        /\ \A i \in 1..Len(some) : some[i] = sold[t][Len(sold[t]) - (n + i) + 1]
    BY <1>1, <2>1, PageOf, ZenonT(60)
  <2> QED
    BY <2>1, <2>2
<1>4. k = p * PageSize /\ l <= PageSize /\ k + l <= L /\ (l < PageSize => k + l = L)
  BY <1>3, <1>a
<1>b. ReadFrom(t, L) /\ page \in Seq(Sales) /\ \A i \in 1..l : page[i] = sold[t][L - (k + i) + 1]
  BY <1>3, <1>a
<1>5. s \in Seq(Sales)
  BY DEF SyncInv
<1> HIDE DEF s, page, q
<1>6. /\ s \o page \in Seq(Sales) /\ Len(s \o page) = k + l
      /\ \A i \in 1..(k + l) : (s \o page)[i] = sold[t][L - i + 1]
  <2>0. /\ s \o page \in Seq(Sales) /\ Len(s \o page) = Len(s) + Len(page)
        /\ \A i \in 1..(Len(s) + Len(page)) : (s \o page)[i] = IF i <= Len(s) THEN s[i] ELSE page[i - Len(s)]
    BY <1>b, <1>5, ConcatProperties
  <2>1. /\ s \o page \in Seq(Sales) /\ Len(s \o page) = k + l
        /\ \A i \in 1..(k + l) : (s \o page)[i] = IF i <= k THEN s[i] ELSE page[i - k]
    BY <1>3, <2>0
  <2>2. \A i \in 1..k : s[i] = sold[t][L - i + 1]
    BY <1>3, <1>b DEF ReadFrom, s
  <2>3. ASSUME NEW i \in 1..(k + l) PROVE (s \o page)[i] = sold[t][L - i + 1]
    <3>1. CASE i <= k
      <4>1. i \in 1..k
        BY <3>1
      <4> QED
        BY <2>1, <2>2, <3>1, <4>1
    <3>2. CASE i > k
      <4>1. i - k \in 1..l /\ k + (i - k) = i
        BY <3>2
      <4>2. page[i - k] = sold[t][L - (k + (i - k)) + 1]
        BY <1>b, <4>1
      <4>3. ~ (i <= k)
        BY <3>2
      <4> QED
        BY <2>1, <4>1, <4>2, <4>3
    <3> QED
      <4>1. i <= k \/ i > k
        OBVIOUS
      <4> QED
        BY <3>1, <3>2, <4>1
  <2> QED
    BY <2>1, <2>3
<1>7. r \in [phase : Phases, pages : Nat, sales : Seq(Sales)] /\ reading'[t] = r
  <2>1. p + 1 \in Nat /\ r.phase \in {"read", "reading"}
    BY <1>3
  <2>2. PICK f \in {"read", "reading"}, n \in Nat, all \in Seq(Sales) : r = [phase |-> f, pages |-> n, sales |-> all]
    BY <1>3, <1>6, <2>1
  <2>3. f \in Phases
    BY DEF Phases
  <2>4. r \in [phase : Phases, pages : Nat, sales : Seq(Sales)]
    BY ONLY <2>2, <2>3
  <2>5. t \in DOMAIN reading
    BY DEF SyncInv
  <2> QED
    BY <1>2, <2>4, <2>5
<1>8. ReadFrom(t, L)'
  BY <1>1, <1>3, <1>4, <1>b, <1>6, <1>7 DEF ReadFrom
<1>9. Unstored(t)'
  <2>1. RowsSame(t)
    BY <1>1 DEF RowsSame
  <2>2. /\ UsableSales(t)' = UsableSales(t) /\ NewestSale(t)' = NewestSale(t)
        /\ \A i : SaleKey(t, i)' = SaleKey(t, i) /\ (SaleKey(t, i) \in stored' <=> SaleKey(t, i) \in stored)
    BY <1>1, <2>1, KeysStay
  <2>3. Unstored(t)
    BY <1>1, ReadBack
  <2> QED
    BY <1>1, <2>2, <2>3 DEF Unstored, NoGap
<1>10. ASSUME LastPage(t, page, p) PROVE TitleSound(t)'
  <2>1. r.phase = "read" /\ r.sales = s \o page
    BY <1>3, <1>10
  <2>2. PICK back \in Int : back = ReadBackTo(t) /\ ReadBackTo(t)' = back
    <3>1. ReadBackTo(t) \in Int /\ ReadBackTo(t)' = ReadBackTo(t)
      BY <1>1, ReadBack DEF ReadBackTo
    <3> QED
      BY <3>1
  <2>3. \A j \in UsableSales(t) : j <= L - (k + l) => sold[t][j].at < back
    <3> SUFFICES ASSUME NEW j \in UsableSales(t), j <= L - (k + l) PROVE sold[t][j].at < back
      OBVIOUS
    <3>1. j \in 1..L /\ k + l < L
      <4>1. j \in 1..L
        BY <1>3, SoldType DEF SyncInv
      <4> QED
        BY <1>3, <1>4, <4>1, SMTT(30)
    <3>2. ~ (l < PageSize)
      BY <1>3, <1>4, <3>1
    <3>3. ~ (p + 1 >= MaxPages)
      <4>1. k + l = (p + 1) * PageSize
        BY <1>3, <1>4, <3>2, SyncConstants
      <4>2. p + 1 >= MaxPages => (p + 1) * PageSize > L
        BY <1>3, GuardNeverStops
      <4>3. k + l <= L /\ k + l \in Nat
        BY <1>4
      <4> QED
        BY <4>1, <4>2, <4>3
    <3>4. Wanted(t, page) # UsableIn(page)
      BY <1>3, <1>10, <3>2, <3>3 DEF LastPage
    <3>5. PICK i \in UsableIn(page) : ~ (page[i].at >= back)
      BY <2>2, <3>4 DEF Wanted
    <3>6. i \in 1..l
      BY <1>3, <1>b DEF UsableIn
    <3>7. PICK m \in 1..L : m = L - (k + i) + 1 /\ j <= m
      <4>1. L - (k + i) + 1 \in 1..L /\ j <= L - (k + i) + 1
        BY <1>4, <3>1, <3>6
      <4> QED
        BY <4>1
    <3>8. sold[t][j].at <= sold[t][m].at /\ sold[t][m].at \in Nat /\ sold[t][j].at \in Nat
      BY <1>3, <3>1, <3>7, SoldType, SMTT(30) DEF SyncInv
    <3>9. sold[t][m].at < back
      BY <1>b, <2>2, <3>5, <3>6, <3>7, <3>8, SMTT(30)
    <3> QED
      BY <2>2, <3>8, <3>9
  <2>4. ReadEnough(t, L)'
    <3>1. UsableSales(t)' = UsableSales(t)
      BY <1>1 DEF UsableSales
    <3>2. Len(reading'[t].sales) = k + l
      BY <1>6, <1>7, <2>1
    <3>3. \A j \in 1..Len(sold'[t]) : ~ (j > L)
      BY <1>1, <1>3
    <3> QED
      BY <1>1, <2>2, <2>3, <3>1, <3>2, <3>3 DEF ReadEnough
  <2>5. L \in 0..Len(sold'[t])
    BY <1>1, <1>3
  <2>6. reading'[t].phase = "read" /\ ~ Idle'
    BY <1>1, <1>7, <2>1 DEF Idle
  <2> QED
    BY <1>8, <1>9, <2>4, <2>5, <2>6 DEF TitleSound
<1>11. ASSUME ~ LastPage(t, page, p) PROVE TitleSound(t)'
  <2>1. r.phase = "reading" /\ r.pages = p + 1 /\ r.sales = s \o page
    BY <1>3, <1>11
  <2>2. l = PageSize
    BY <1>3, <1>4, <1>11, SyncConstants DEF LastPage
  <2>3. Len(reading'[t].sales) = reading'[t].pages * PageSize
    BY <1>3, <1>4, <1>6, <1>7, <2>1, <2>2, SyncConstants
  <2>4. reading'[t].phase = "reading" /\ ~ Idle'
    BY <1>1, <1>7, <2>1 DEF Idle
  <2>5. ReadFrom(t, Len(sold[t]))'
    BY <1>1, <1>3, <1>8 DEF ReadFrom
  <2> QED
    BY <1>9, <2>3, <2>4, <2>5 DEF TitleSound
<1>12. StoreSound' /\ GapFree'
  <2>1. builds' \subseteq 0..now
    BY <1>1 DEF SyncInv, StoreSound
  <2> QED
    BY <1>1, <2>1, StoreStays DEF SyncInv
<1>13. \A u \in Titles : RowsSame(u)
  BY <1>1 DEF RowsSame
<1> HIDE DEF r
<1> QED
  BY <1>1, <1>2, <1>7, <1>10, <1>11, <1>12, <1>13, TitleStep

(* A title's rows, numbered as sale_keys does, are a stretch of its sales.  *)
Same(t, n, k) == {j \in 1..n : sold[t][j] = sold[t][k]}

RowOf(t, k, number) == [title |-> t, at |-> sold[t][k].at, kind |-> sold[t][k].kind, nr |-> number]

Before(s, i) == {j \in 1..(i - 1) : s[j] = s[i]}

LEMMA BothWays ==
  ASSUME NEW n \in Nat, NEW P, P \subseteq 1..n, NEW k \in P
  PROVE  /\ \E j \in P : Cardinality(Below(P, j)) = Cardinality(Above(P, k))
         /\ \E j \in P : Cardinality(Above(P, j)) = Cardinality(Below(P, k))
<1>1. PICK c \in Nat, a \in Nat, b \in Nat :
         c = Cardinality(P) /\ a = Cardinality(Above(P, k)) /\ b = Cardinality(Below(P, k))
  BY FinitePart
<1>2. b + a + 1 = c
  BY <1>1, BelowAndAbove
<1>3. \E j \in P : Cardinality(Below(P, j)) = a
  <2>1. a < Cardinality(P)
    BY <1>1, <1>2
  <2> QED
    BY <2>1, RankTaken, ZenonT(60)
<1>4. PICK j \in P : Cardinality(Below(P, j)) = c - 1 - b
  <2>1. c - 1 - b \in Nat /\ c - 1 - b < Cardinality(P)
    BY <1>1, <1>2
  <2> QED
    BY <2>1, RankTaken, ZenonT(60)
<1>5. Cardinality(Above(P, j)) = b
  <2>1. Cardinality(Below(P, j)) + Cardinality(Above(P, j)) + 1 = c
    BY <1>1, BelowAndAbove
  <2>2. Cardinality(Above(P, j)) \in Nat
    BY FinitePart
  <2> QED
    BY <1>1, <1>4, <2>1, <2>2
<1> QED
  BY <1>1, <1>3, <1>5

LEMMA KeyNumber ==
  ASSUME NEW t \in Titles, NEW n \in Nat, NEW k \in 1..n
  PROVE  SaleKey(t, k) = RowOf(t, k, Cardinality(Below(Same(t, n, k), k)))
<1>1. \A j : j \in 1..(k - 1) <=> j \in 1..n /\ j < k
  OBVIOUS
<1>2. {j \in 1..(k - 1) : sold[t][j] = sold[t][k]} = Below(Same(t, n, k), k)
  BY <1>1 DEF Below, Same
<1> QED
  BY <1>2 DEF SaleKey, RowOf

LEMMA ReadNumber ==
  ASSUME NEW t \in Titles, NEW n \in Nat, NEW s, Len(s) \in Nat, Len(s) <= n,
         \A i \in 1..Len(s) : s[i] = sold[t][n - i + 1], NEW i \in 1..Len(s), NEW k, k = n - i + 1
  PROVE  Cardinality(Before(s, i)) = Cardinality(Above(Same(t, n, k), k))
<1> DEFINE P == Above(Same(t, n, k), k)
           Q == {j \in 1..(i - 1) : s[j] = s[i]}
<1>1. /\ \A j \in P : j \in 1..n /\ j > k /\ n - j + 1 \in 1..(i - 1)
                      /\ n - (n - j + 1) + 1 = j
      /\ P \subseteq 1..n
  BY DEF Above, Same
<1>2. \A j \in 1..(i - 1) : j \in 1..Len(s) /\ n - j + 1 \in 1..n /\ n - j + 1 > k /\ n - (n - j + 1) + 1 = j
  OBVIOUS
<1>3. s[i] = sold[t][k]
  OBVIOUS
<1>4. ASSUME NEW q \in Q PROVE \E j \in P : q = n - j + 1
  <2>1. q \in 1..(i - 1) /\ s[q] = sold[t][n - q + 1]
    BY <1>2
  <2>2. n - q + 1 \in P
    BY <1>2, <1>3, <2>1 DEF Above, Same
  <2> QED
    BY <1>2, <2>1, <2>2
<1>5. ASSUME NEW j \in P PROVE n - j + 1 \in Q
  <2>1. PICK q \in 1..(i - 1) : q = n - j + 1 /\ n - q + 1 = j
    BY <1>1
  <2>2. s[q] = sold[t][j] /\ sold[t][j] = sold[t][k]
    BY <1>2, <2>1 DEF Above, Same
  <2> QED
    BY <1>3, <2>1, <2>2
<1> HIDE DEF P, Q
<1>6. Q = {n - j + 1 : j \in P}
  BY <1>4, <1>5
<1>7. Cardinality(Q) = Cardinality(P)
  BY <1>1, <1>6, Mirrored, ZenonT(60)
<1> QED
  BY <1>7 DEF P, Q, Before

LEMMA RowsAreStretch ==
  ASSUME SyncInv, ~ Idle, NEW t \in Titles, reading[t].phase = "read",
         NEW n \in 0..Len(sold[t]), ReadFrom(t, n), ReadEnough(t, n),
         NEW from, from = IF ReadBackTo(t) >= 0 THEN ReadBackTo(t) ELSE 0
  PROVE  ReadRows(t) = Stretch(t, from, n)
<1>1. PICK L \in Nat : L = Len(sold[t])
  BY SoldType DEF SyncInv
<1>2. PICK s \in Seq(Sales) : s = reading[t].sales
  BY DEF SyncInv
<1>3. PICK l \in Nat : l = Len(s) /\ DOMAIN s = 1..l
  BY <1>2
<1>4. n \in Nat /\ n <= L /\ l <= n /\ \A i \in 1..l : s[i] = sold[t][n - i + 1]
  BY <1>1, <1>2, <1>3 DEF ReadFrom
<1>5. ReadBackTo(t) \in Int
  BY ReadBack
<1> DEFINE W == {u \in UsableSales(t) : sold[t][u].at >= from /\ u <= n}
<1>6. ASSUME NEW u \in UsableSales(t)
      PROVE  u \in 1..L /\ sold[t][u].kind # Unusable
             /\ (sold[t][u].at >= from <=> ~ (sold[t][u].at < ReadBackTo(t)))
             /\ (sold[t][u].at >= from <=> sold[t][u].at >= ReadBackTo(t))
  <2>1. u \in 1..L /\ sold[t][u].at \in Nat
    BY <1>1, SoldType DEF SyncInv
  <2> QED
    BY <1>5, <2>1 DEF UsableSales
<1>7. ASSUME NEW k \in W PROVE k \in 1..n /\ n - k + 1 \in Wanted(t, s) /\ n - (n - k + 1) + 1 = k
  <2>1. k \in 1..n /\ n - (n - k + 1) + 1 = k
    BY <1>1, <1>4, <1>6
  <2>2. ~ (k <= n - l)
    BY <1>2, <1>3, <1>6 DEF ReadEnough
  <2>3. n - k + 1 \in 1..l
    BY <1>4, <2>1, <2>2
  <2>4. s[n - k + 1] = sold[t][k]
    BY <1>4, <2>1, <2>3
  <2> QED
    BY <1>3, <1>6, <2>1, <2>3, <2>4 DEF Wanted, UsableIn
<1>8. ASSUME NEW i \in Wanted(t, s)
      PROVE  i \in 1..l /\ n - i + 1 \in 1..n /\ s[i] = sold[t][n - i + 1] /\ n - i + 1 \in W
  <2>1. i \in 1..l /\ s[i].kind # Unusable /\ s[i].at >= ReadBackTo(t)
    BY <1>3 DEF Wanted, UsableIn
  <2>2. n - i + 1 \in 1..n /\ n - i + 1 \in 1..L /\ s[i] = sold[t][n - i + 1]
    BY <1>1, <1>4, <2>1
  <2>3. n - i + 1 \in UsableSales(t)
    <3>1. DOMAIN sold[t] = 1..L
      BY <1>1, SoldType DEF SyncInv
    <3> QED
      BY <2>1, <2>2, <3>1 DEF UsableSales
  <2>4. sold[t][n - i + 1].at >= from /\ n - i + 1 <= n
    BY <1>6, <2>1, <2>2, <2>3
  <2> QED
    BY <2>1, <2>2, <2>3, <2>4
<1>9. ASSUME NEW k \in W, NEW j \in Same(t, n, k)
      PROVE  j \in W /\ Same(t, n, j) = Same(t, n, k) /\ \A c : RowOf(t, j, c) = RowOf(t, k, c)
  <2>1. j \in 1..n /\ sold[t][j] = sold[t][k]
    BY DEF Same
  <2>2. j \in UsableSales(t)
    <3>1. DOMAIN sold[t] = 1..L
      BY <1>1, SoldType DEF SyncInv
    <3>2. j \in 1..L
      BY <1>1, <1>4, <2>1
    <3> QED
      BY <1>6, <2>1, <3>1, <3>2 DEF UsableSales
  <2> QED
    BY <2>1, <2>2 DEF Same, RowOf
<1>10. \A k \in W : k \in Same(t, n, k) /\ Same(t, n, k) \subseteq 1..n
  BY <1>7 DEF Same
<1> DEFINE Nr(i) == Cardinality(Before(s, i))
<1>11. ReadRows(t) = {[title |-> t, at |-> s[i].at, kind |-> s[i].kind, nr |-> Nr(i)] : i \in Wanted(t, s)}
  BY <1>2 DEF ReadRows, Before
<1>12. Stretch(t, from, n) = {SaleKey(t, i) : i \in W}
  BY DEF Stretch
<1>13. ASSUME NEW i \in Wanted(t, s)
       PROVE  [title |-> t, at |-> s[i].at, kind |-> s[i].kind, nr |-> Nr(i)]
                = RowOf(t, n - i + 1, Cardinality(Above(Same(t, n, n - i + 1), n - i + 1)))
  <2>1. Nr(i) = Cardinality(Above(Same(t, n, n - i + 1), n - i + 1))
    <3>1. i \in 1..l
      BY <1>8
    <3>2. PICK k : k = n - i + 1
      OBVIOUS
    <3>3. n \in Nat /\ Len(s) \in Nat /\ Len(s) <= n /\ \A m \in 1..Len(s) : s[m] = sold[t][n - m + 1]
      BY <1>3, <1>4
    <3>4. i \in 1..Len(s)
      BY <1>3, <3>1
    <3> HIDE DEF Nr
    <3>5. Cardinality(Before(s, i)) = Cardinality(Above(Same(t, n, k), k))
      BY <3>2, <3>3, <3>4, ReadNumber
    <3> QED
      BY <3>2, <3>5 DEF Nr
  <2> QED
    BY <1>8, <2>1 DEF RowOf
<1> HIDE DEF W, Nr
<1>14. ASSUME NEW i \in Wanted(t, s)
       PROVE  \E j \in W : SaleKey(t, j) = [title |-> t, at |-> s[i].at, kind |-> s[i].kind, nr |-> Nr(i)]
  <2>1. PICK k \in W : k = n - i + 1
    BY <1>8
  <2>2. PICK j \in Same(t, n, k) : Cardinality(Below(Same(t, n, k), j)) = Cardinality(Above(Same(t, n, k), k))
    BY <1>4, <1>10, BothWays
  <2>3. j \in W /\ Same(t, n, j) = Same(t, n, k) /\ \A c : RowOf(t, j, c) = RowOf(t, k, c)
    BY <1>9
  <2>4. SaleKey(t, j) = RowOf(t, j, Cardinality(Below(Same(t, n, j), j)))
    BY <1>4, <1>7, <2>3, KeyNumber
  <2> QED
    BY <1>13, <2>1, <2>2, <2>3, <2>4
<1>15. ASSUME NEW k \in W
       PROVE  \E i \in Wanted(t, s) : SaleKey(t, k) = [title |-> t, at |-> s[i].at, kind |-> s[i].kind, nr |-> Nr(i)]
  <2>1. PICK j \in Same(t, n, k) : Cardinality(Above(Same(t, n, k), j)) = Cardinality(Below(Same(t, n, k), k))
    BY <1>4, <1>10, BothWays
  <2>2. j \in W /\ Same(t, n, j) = Same(t, n, k) /\ \A c : RowOf(t, j, c) = RowOf(t, k, c)
    BY <1>9
  <2>3. PICK i \in Wanted(t, s) : i = n - j + 1 /\ n - i + 1 = j
    BY <1>7, <2>2
  <2>4. SaleKey(t, k) = RowOf(t, k, Cardinality(Below(Same(t, n, k), k)))
    BY <1>4, <1>7, KeyNumber
  <2> QED
    BY <1>13, <2>1, <2>2, <2>3, <2>4
<1> QED
  BY <1>11, <1>12, <1>14, <1>15

(* Storing a title: the stretch it adds leaves no gap.                      *)
NewestIs(t) ==
    /\ NewestSale(t) \in Int
    /\ NewestSale(t) # -1 => \E i \in UsableSales(t) : SaleKey(t, i) \in stored /\ sold[t][i].at = NewestSale(t)

LEMMA NewestNow == StoreSound => \A t \in Titles : NewestIs(t)
  BY NewestIsStored DEF NewestIs

LEMMA NewestThen == StoreSound' => (\A t \in Titles : NewestIs(t))'
  BY NewestNow, PTL

LEMMA StoreStep ==
  ASSUME SyncInv, NEW t \in Titles, Store(t)
  PROVE  SyncInv' /\ StoreTitle(t)
<1>1. /\ reading[t].phase = "read" /\ ~ Idle
      /\ stored' = stored \cup ReadRows(t)
      /\ UNCHANGED <<now, sold, builds, started, newest>>
  BY DEF Store, venue, SyncInv, TitleSound
<1>2. PICK n \in 0..Len(sold[t]) : ReadFrom(t, n) /\ ReadEnough(t, n)
  BY <1>1 DEF SyncInv, TitleSound
<1>3. /\ Unstored(t) /\ started \in Nat /\ started <= now /\ now \in Nat /\ History \in Nat /\ Lag \in Nat
      /\ newest[t] \in Int /\ newest[t] = NewestSale(t) /\ NewestSale(t) >= -1
      /\ ReadBackTo(t) = IF newest[t] >= started - History THEN newest[t] ELSE started - History
      /\ ReadBackTo(t) \in Int
  BY <1>1, ReadBack, NewestIsStored, SyncConstants DEF SyncInv
<1>4. PICK from \in Nat : from = IF ReadBackTo(t) >= 0 THEN ReadBackTo(t) ELSE 0
  BY <1>3
<1>5. stored' = stored \cup Stretch(t, from, n)
  BY <1>1, <1>2, <1>4, RowsAreStretch
<1>6. PICK L \in Nat : L = Len(sold[t]) /\ n \in 0..L
  BY <1>2, SoldType DEF SyncInv
<1>7. \A i \in UsableSales(t) : i \in 1..L /\ sold[t][i].at \in Nat /\ sold[t][i].at <= now
  BY <1>6, SoldType DEF SyncInv
<1>8. \A i \in UsableSales(t) : sold[t][i].at >= from /\ i <= n => SaleKey(t, i) \in stored'
  BY <1>5 DEF Stretch
<1>9. \A row \in stored' : row \in stored \/ \E i \in UsableSales(t) : i <= n /\ row = SaleKey(t, i)
  BY <1>5 DEF Stretch
<1>10. \A u \in Titles : u # t => RowsSame(u)
  <2>1. \A row \in stored' : row \in stored \/ row.title = t
    <3>1. \A i : SaleKey(t, i).title = t
      BY DEF SaleKey
    <3> QED
      BY <1>9, <3>1
  <2>2. stored \subseteq stored'
    BY <1>5
  <2> QED
    BY <2>1, <2>2 DEF RowsSame
<1>11. \A u \in Titles : UsableSales(u)' = UsableSales(u) /\ \A i : SaleKey(u, i)' = SaleKey(u, i)
  BY <1>1 DEF UsableSales, SaleKey
<1>12. StoreSound'
  <2>1. \A u \in Titles : RowKeysOf(u)' = RowKeysOf(u)
    BY <1>11 DEF RowKeysOf
  <2>2. \A row \in stored' : \E u \in Titles : row \in RowKeysOf(u)
    BY <1>9 DEF RowKeysOf, SyncInv, StoreSound
  <2> QED
    BY <1>1, <2>1, <2>2 DEF SyncInv, StoreSound, Happened
<1>13. ASSUME NEW i \in UsableSales(t), sold[t][i].at >= started - History, sold[t][i].at < NewestSale(t)'
       PROVE  SaleKey(t, i) \in stored'
  <2>1. CASE sold[t][i].at < NewestSale(t)
    BY <1>3, <1>5, <1>13, <2>1 DEF Unstored, NoGap
  <2>2. CASE ~ (sold[t][i].at < NewestSale(t))
    <3>1. sold[t][i].at >= from
      BY <1>3, <1>4, <1>7, <1>13, <2>2
    <3>2. PICK m \in UsableSales(t) : SaleKey(t, m) \in stored' /\ sold[t][m].at = NewestSale(t)'
      <4>1. NewestIs(t)'
        BY <1>12, NewestThen
      <4>2. NewestSale(t)' # -1
        BY <1>7, <1>13, <4>1 DEF NewestIs
      <4> QED
        BY <1>1, <1>11, <4>1, <4>2 DEF NewestIs
    <3>3. ~ (SaleKey(t, m) \in stored)
      <4>1. SaleKey(t, m) \in stored => sold[t][m].at <= NewestSale(t)
        BY NewestIsStored DEF SyncInv
      <4> QED
        BY <1>3, <1>7, <1>13, <2>2, <3>2, <4>1, SMTT(30)
    <3>4. PICK j \in UsableSales(t) : j <= n /\ SaleKey(t, m) = SaleKey(t, j)
      BY <1>9, <3>2, <3>3
    <3>5. sold[t][j].at = sold[t][m].at
      BY <3>4 DEF SaleKey
    <3>6. i <= n
      <4>1. ~ (i >= j)
        <5>1. i >= j => sold[t][j].at <= sold[t][i].at
          BY <1>6, <1>7, SoldType DEF SyncInv
        <5> QED
          BY <1>7, <1>13, <3>2, <3>5, <5>1
      <4> QED
        BY <1>6, <1>7, <3>4, <4>1
    <3> QED
      BY <1>8, <3>1, <3>6
  <2> QED
    BY <2>1, <2>2
<1>14. GapFree'
  <2>1. NoGap(t, now - History)'
    <3>1. \A i \in UsableSales(t) : sold[t][i].at >= now - History => sold[t][i].at >= started - History
      BY <1>3, <1>7
    <3> QED
      BY <1>1, <1>11, <1>13, <3>1 DEF NoGap
  <2>2. ASSUME NEW u \in Titles, u # t PROVE NoGap(u, now - History)'
    <3>1. /\ NewestSale(u)' = NewestSale(u)
          /\ \A i : SaleKey(u, i)' = SaleKey(u, i) /\ (SaleKey(u, i) \in stored' <=> SaleKey(u, i) \in stored)
      BY <1>1, <1>10, <2>2, KeysStay
    <3> QED
      BY <1>1, <1>11, <3>1 DEF NoGap, GapFree, SyncInv
  <2> QED
    BY <2>1, <2>2 DEF GapFree
<1> DEFINE r == [Waiting EXCEPT !.phase = "done"]
<1>15. r \in [phase : Phases, pages : Nat, sales : Seq(Sales)] /\ r.phase = "done"
  <2>1. r = [phase |-> "done", pages |-> 0, sales |-> <<>>]
    BY DEF Waiting
  <2> HIDE DEF r
  <2>2. "done" \in Phases /\ <<>> \in Seq(Sales)
    BY DEF Phases
  <2> QED
    BY <2>1, <2>2
<1>16. reading' = [reading EXCEPT ![t] = r]
  BY DEF Store
<1> HIDE DEF r
<1>17. TitleSound(t)'
  <2>1. reading'[t].phase = "done" /\ ~ Idle'
    BY <1>1, <1>15, <1>16 DEF SyncInv, Idle
  <2>2. ASSUME NEW i \in UsableSales(t), sold[t][i].at >= started - History, sold[t][i].at + Lag < started
        PROVE  SaleKey(t, i) \in stored'
    <3>1. i <= n
      BY <1>3, <1>6, <1>7, <2>2, <1>2, SMTT(30) DEF ReadEnough
    <3>2. CASE sold[t][i].at >= from
      BY <1>8, <3>1, <3>2
    <3>3. CASE ~ (sold[t][i].at >= from)
      <4>1. sold[t][i].at < NewestSale(t)
        BY <1>3, <1>4, <1>7, <2>2, <3>3, SMTT(30)
      <4> QED
        BY <1>3, <1>5, <2>2, <4>1 DEF Unstored, NoGap
    <3> QED
      BY <3>2, <3>3
  <2>3. KnownUpTo(t, started)'
    BY <1>1, <1>11, <2>2 DEF KnownUpTo
  <2> QED
    BY <2>1, <2>3 DEF TitleSound
<1>18. SyncInv'
  BY <1>1, <1>10, <1>12, <1>14, <1>15, <1>16, <1>17, TitleStep
<1>19. StoreTitle(t)
  <2>1. PICK a \in Int, b \in Int : a = NewestSale(t) /\ b = now - History
    BY <1>3
  <2>2. /\ Max({a, b, 0}) \in Int
        /\ a <= Max({a, b, 0}) /\ b <= Max({a, b, 0}) /\ 0 <= Max({a, b, 0})
    <3>1. 0 \in Int
      OBVIOUS
    <3> QED
      BY <3>1, GreatestOfThree
  <2>3. from \in 0..Max({a, b, 0})
    BY <1>3, <1>4, <2>1, <2>2
  <2>4. from \in 0..Max({NewestSale(t), now - History, 0})
    BY <2>1, <2>3
  <2> QED
    BY <1>1, <1>2, <1>5, <2>4 DEF StoreTitle
<1> QED
  BY <1>18, <1>19

(* A sale that shows up is newer than a title's others, and too recent to   *)
(* be owed by the check that is running.                                    *)
LEMMA SellStep ==
  ASSUME SyncInv, ~ SalesWhilePaging, NEW t \in Titles, NEW kind \in Kinds, Sell(t, kind)
  PROVE  SyncInv'
<1>1. /\ reading[t].phase # "reading" /\ Appear(t, kind)
      /\ UNCHANGED <<started, newest, reading>>
  BY DEF Sell
<1>2. PICK sale \in Sales : /\ sold' = [sold EXCEPT ![t] = Append(@, sale)]
                            /\ now - Lag <= sale.at /\ sale.at <= now
                            /\ \A i \in 1..Len(sold[t]) : sold[t][i].at <= sale.at
  BY <1>1, SaleShows DEF SyncInv
<1>3. UNCHANGED <<now, stored, builds>> /\ Cardinality(Happened) < MaxSales
  BY <1>1, SaleShows DEF SyncInv
<1>4. PICK L \in Nat : L = Len(sold[t])
  BY SoldType DEF SyncInv
<1>5. /\ sold' \in [Titles -> Seq(Sales)]
      /\ Len(sold'[t]) = L + 1 /\ sold'[t][L + 1] = sale
      /\ \A u \in Titles : u # t => sold'[u] = sold[u]
      /\ \A u \in Titles : \A i \in 1..Len(sold[u]) : sold'[u][i] = sold[u][i]
      /\ \A u \in Titles : \A i \in 1..Len(sold[u]) : SaleKey(u, i)' = SaleKey(u, i)
      /\ \A u \in Titles : UsableSales(u) = UsableSales(u)' \cap 1..Len(sold[u])
  BY <1>2, <1>4, PositionsStay DEF SyncInv
<1>6. /\ now \in Nat /\ sale.at \in Nat /\ Lag \in Nat /\ History \in Nat
      /\ \A u \in Titles : /\ Len(sold[u]) \in Nat /\ UsableSales(u) \subseteq 1..Len(sold[u])
                           /\ \A i \in 1..Len(sold[u]) : sold[u][i].at \in Nat /\ sold[u][i].at <= now
  BY SoldType, SyncConstants DEF SyncInv, Sales, Times
<1>7. \A i \in 1..(L + 1) : i \in 1..L \/ i = L + 1
  BY <1>4
<1>8. \A i \in UsableSales(t)' : i \in UsableSales(t) \/ i = L + 1
  <2>1. \A i \in UsableSales(t)' : i \in 1..(L + 1)
    BY <1>4, <1>5 DEF UsableSales
  <2> QED
    BY <1>4, <1>5, <1>7, <2>1
<1>9. StoreSound'
  <2>1. \A i \in 1..Len(sold'[t]) : sold'[t][i].at <= now
    BY <1>2, <1>4, <1>5, <1>6, <1>7
  <2>2. \A i, j \in 1..Len(sold'[t]) : i <= j => sold'[t][i].at <= sold'[t][j].at
    <3> SUFFICES ASSUME NEW i \in 1..(L + 1), NEW j \in 1..(L + 1), i <= j
                 PROVE  sold'[t][i].at <= sold'[t][j].at
      BY <1>5
    <3>1. CASE j \in 1..L
      <4>1. i \in 1..L
        BY <1>4, <3>1
      <4> QED
        BY <1>4, <1>5, <3>1, <4>1, SoldType, ZenonT(60) DEF SyncInv
    <3>2. CASE j = L + 1 /\ i \in 1..L
      BY <1>2, <1>4, <1>5, <3>2
    <3>3. CASE j = L + 1 /\ i = L + 1
      BY <1>5, <1>6, <3>3
    <3> QED
      BY <1>7, <3>1, <3>2, <3>3
  <2>3. \A u \in Titles : \A i \in 1..Len(sold'[u]) : sold'[u][i].at <= now
    BY <1>5, <2>1 DEF SyncInv, StoreSound
  <2>4. \A u \in Titles : \A i, j \in 1..Len(sold'[u]) : i <= j => sold'[u][i].at <= sold'[u][j].at
    <3> SUFFICES ASSUME NEW u \in Titles, u # t
                 PROVE  \A i, j \in 1..Len(sold'[u]) : i <= j => sold'[u][i].at <= sold'[u][j].at
      BY <2>2
    <3>1. sold'[u] = sold[u]
      BY <1>5
    <3> QED
      BY <3>1, SoldType DEF SyncInv
  <2>5. \A row \in stored' : \E u \in Titles : row \in RowKeysOf(u)'
    <3> SUFFICES ASSUME NEW row \in stored PROVE \E u \in Titles : row \in RowKeysOf(u)'
      BY <1>3
    <3>0. PICK u \in Titles : row \in RowKeysOf(u)
      BY DEF SyncInv, StoreSound
    <3>1. PICK i \in UsableSales(u) : row = SaleKey(u, i)
      BY <3>0 DEF RowKeysOf
    <3>2. i \in UsableSales(u)' /\ SaleKey(u, i)' = row
      BY <1>5, <1>6, <3>1
    <3> QED
      BY <3>2 DEF RowKeysOf
  <2>6. IsFiniteSet(Happened)' /\ Cardinality(Happened)' <= MaxSales
    BY <1>2, <1>3, HappenedGrows DEF SyncInv
  <2> QED
    BY <1>3, <1>5, <2>3, <2>4, <2>5, <2>6 DEF SyncInv, StoreSound
<1>10. \A u \in Titles : NewestSale(u)' = NewestSale(u) /\ NewestSale(u) <= now /\ NewestSale(u) \in Int
  BY <1>3, NewestIsStored DEF NewestSale, SyncInv
<1>11. NewestSale(t) <= sale.at
  <2>1. CASE NewestSale(t) = -1
    BY <1>6, <2>1
  <2>2. CASE NewestSale(t) # -1
    <3>1. PICK i \in UsableSales(t) : sold[t][i].at = NewestSale(t)
      BY <2>2, NewestIsStored DEF SyncInv
    <3> QED
      BY <1>2, <1>6, <3>1
  <2> QED
    BY <2>1, <2>2
<1>12. ASSUME NEW u \in Titles, NEW from \in Int, NoGap(u, from)
       PROVE  NoGap(u, from)'
  <2> SUFFICES ASSUME NEW i \in UsableSales(u)', sold'[u][i].at < NewestSale(u)', sold'[u][i].at >= from
               PROVE  SaleKey(u, i)' \in stored'
    BY DEF NoGap
  <2>1. i \in UsableSales(u)
    <3>1. CASE u = t
      <4>1. i # L + 1
        BY <1>5, <1>6, <1>10, <1>11, <3>1
      <4> QED
        BY <1>8, <3>1, <4>1
    <3>2. CASE u # t
      BY <1>5, <3>2 DEF UsableSales
    <3> QED
      BY <3>1, <3>2
  <2> QED
    BY <1>3, <1>5, <1>6, <1>10, <1>12, <2>1 DEF NoGap
<1>13. GapFree'
  <2>1. now - History \in Int /\ \A u \in Titles : NoGap(u, now - History)
    BY <1>6 DEF SyncInv, GapFree
  <2>2. PICK from \in Int : from = now - History
    BY <2>1
  <2>3. \A u \in Titles : NoGap(u, from)'
    BY <1>12, <2>1, <2>2
  <2> QED
    BY <1>3, <2>2, <2>3 DEF GapFree, NoGap
<1>14. ASSUME NEW u \in Titles, u # t PROVE TitleSound(u)'
  <2>1. TitleSound(u) /\ sold'[u] = sold[u] /\ RowsSame(u)
    BY <1>3, <1>5, <1>14 DEF SyncInv, RowsSame
  <2> QED
    BY <1>1, <2>1, TitleStays
<1>15. started \in Int /\ started <= now /\ sale.at + Lag >= started /\ (Idle' <=> Idle)
  BY <1>1, <1>2, <1>6 DEF SyncInv, Idle
<1>16. reading[t].phase = "read" => \E n \in 0..(L + 1) : ReadFrom(t, n)' /\ ReadEnough(t, n)'
  <2> SUFFICES ASSUME reading[t].phase = "read" PROVE \E n \in 0..(L + 1) : ReadFrom(t, n)' /\ ReadEnough(t, n)'
    OBVIOUS
  <2>1. PICK n \in 0..L : ReadFrom(t, n) /\ ReadEnough(t, n)
    BY <1>4 DEF SyncInv, TitleSound
  <2>2. PICK l \in Nat : l = Len(reading[t].sales) /\ l <= n
    <3>1. reading[t].sales \in Seq(Sales)
      BY DEF SyncInv
    <3>2. Len(reading[t].sales) \in Nat
      BY <3>1
    <3>3. Len(reading[t].sales) <= n
      BY <2>1 DEF ReadFrom
    <3> QED
      BY <3>2, <3>3
  <2>3. ReadFrom(t, n)'
    <3>1. ASSUME NEW i \in 1..l PROVE reading[t].sales[i] = sold'[t][n - i + 1]
      <4>1. n - i + 1 \in 1..L
        BY <2>1, <2>2
      <4> QED
        BY <1>4, <1>5, <2>1, <2>2, <4>1 DEF ReadFrom
    <3>2. n \in 0..(L + 1)
      BY <1>4, <2>1
    <3> QED
      BY <1>1, <1>5, <2>2, <3>1, <3>2 DEF ReadFrom
  <2>4. ReadEnough(t, n)'
    <3>1. ReadBackTo(t)' = ReadBackTo(t)
      BY <1>1 DEF ReadBackTo
    <3>2. ASSUME NEW j \in UsableSales(t)', j <= n - l PROVE sold'[t][j].at < ReadBackTo(t)
      <4>1. j # L + 1
        BY <1>4, <2>1, <2>2, <3>2
      <4>2. j \in UsableSales(t) /\ j \in 1..Len(sold[t])
        BY <1>6, <1>8, <4>1
      <4> QED
        BY <1>5, <2>1, <2>2, <3>2, <4>2 DEF ReadEnough
    <3>3. ASSUME NEW j \in 1..(L + 1), j > n PROVE sold'[t][j].at + Lag >= started
      <4>1. CASE j = L + 1
        BY <1>5, <1>15, <4>1
      <4>2. CASE j \in 1..L
        BY <1>4, <1>5, <2>1, <3>3, <4>2 DEF ReadEnough
      <4> QED
        BY <1>7, <4>1, <4>2
    <3> QED
      BY <1>1, <1>5, <2>2, <3>1, <3>2, <3>3 DEF ReadEnough
  <2>5. n \in 0..(L + 1)
    BY <1>4, <2>1
  <2> QED
    BY <2>3, <2>4, <2>5
<1>17. KnownUpTo(t, started) => KnownUpTo(t, started)'
  <2> SUFFICES ASSUME KnownUpTo(t, started), NEW i \in UsableSales(t)',
                      sold'[t][i].at >= started - History, sold'[t][i].at + Lag < started
               PROVE  SaleKey(t, i)' \in stored'
    BY <1>1 DEF KnownUpTo
  <2>1. i # L + 1
    BY <1>5, <1>6, <1>15
  <2>2. i \in UsableSales(t)
    BY <1>8, <2>1
  <2> QED
    BY <1>3, <1>5, <1>6, <2>2 DEF KnownUpTo
<1>18. ~ Idle /\ reading[t].phase \in {"waiting", "read"} => Unstored(t)'
  <2> SUFFICES ASSUME ~ Idle, reading[t].phase \in {"waiting", "read"} PROVE Unstored(t)'
    OBVIOUS
  <2>1. Unstored(t)
    BY DEF SyncInv, TitleSound
  <2>2. PICK from \in Int : from = started - History
    BY <1>6, <1>15
  <2>3. NoGap(t, from)'
    BY <1>12, <2>1, <2>2 DEF Unstored
  <2> QED
    BY <1>1, <1>10, <2>1, <2>2, <2>3 DEF Unstored, NoGap
<1>19. TitleSound(t)'
  <2>1. reading'[t] = reading[t] /\ Len(sold'[t]) = L + 1 /\ Waiting' = Waiting
    BY <1>1, <1>5 DEF Waiting
  <2>2. TitleSound(t)
    BY DEF SyncInv
  <2> QED
    BY <1>1, <1>15, <1>16, <1>17, <1>18, <2>1, <2>2 DEF TitleSound
<1>20. \A u \in Titles : TitleSound(u)'
  BY <1>14, <1>19
<1> QED
  BY <1>1, <1>3, <1>9, <1>13, <1>15, <1>20 DEF SyncInv

LEMMA TickStep ==
  ASSUME SyncInv, Tick
  PROVE  SyncInv'
<1>1. /\ now < MaxTime /\ now' = now + 1 /\ now \in Nat /\ MaxTime \in Nat /\ History \in Nat
      /\ UNCHANGED <<sold, stored, builds, started, newest, reading>>
  BY SoldType, SyncConstants DEF Tick, StoreTick, SyncInv, StoreSound, Times
<1>2. \A u \in Titles : RowsSame(u)
  BY <1>1 DEF RowsSame
<1>3. \A u \in Titles : /\ UsableSales(u)' = UsableSales(u) /\ NewestSale(u)' = NewestSale(u)
                        /\ \A i : SaleKey(u, i)' = SaleKey(u, i)
  BY <1>1, <1>2, KeysStay
<1>4. \A u \in Titles : UsableSales(u) \subseteq 1..Len(sold[u])
                        /\ \A i \in 1..Len(sold[u]) : sold[u][i].at \in Nat /\ sold[u][i].at <= now
  BY SoldType DEF SyncInv
<1>5. StoreSound'
  <2>1. now' \in Times /\ builds' \subseteq 0..now'
    BY <1>1 DEF SyncInv, StoreSound, Times
  <2>2. \A u \in Titles : \A i \in 1..Len(sold'[u]) : sold'[u][i].at <= now'
    BY <1>1, <1>4
  <2>3. \A u \in Titles : RowKeysOf(u)' = RowKeysOf(u)
    BY <1>3 DEF RowKeysOf
  <2> QED
    BY <1>1, <2>1, <2>2, <2>3 DEF SyncInv, StoreSound, Happened
<1>6. GapFree'
  <2> SUFFICES ASSUME NEW u \in Titles, NEW i \in UsableSales(u),
                      sold[u][i].at < NewestSale(u), sold[u][i].at >= now' - History
               PROVE  SaleKey(u, i) \in stored
    BY <1>1, <1>3 DEF GapFree, NoGap
  <2>1. sold[u][i].at >= now - History
    BY <1>1, <1>4
  <2> QED
    BY <2>1 DEF SyncInv, GapFree, NoGap
<1>7. \A u \in Titles : TitleSound(u)'
  BY <1>1, <1>2, TitleStays DEF SyncInv
<1>8. started' \in -1..now' /\ (Idle' <=> Idle)
  BY <1>1 DEF SyncInv, Idle
<1> QED
  BY <1>1, <1>5, <1>6, <1>7, <1>8 DEF SyncInv

(* A build is dated with the start of its check.                            *)
LEMMA BuildStep ==
  ASSUME SyncInv, StoreBuild
  PROVE  /\ SyncInv'
         /\ UNCHANGED <<now, sold, stored, builds>> \/ (started \in Times /\ Build(started))
<1>1. ~ Idle /\ InPhase("done") \cup InPhase("failed") = Titles /\ UNCHANGED <<now, sold, stored>> /\ Reset
  BY DEF StoreBuild, Ended, venue
<1>2. started \in Nat /\ started <= now /\ now \in Nat /\ now <= MaxTime /\ MaxTime \in Nat /\ builds \subseteq 0..now
  BY <1>1, SoldType, SyncConstants DEF SyncInv, StoreSound, Times, Idle
<1>3. builds' \in {builds, builds \cup {started}}
  BY DEF StoreBuild
<1>4. SyncInv'
  <2>1. builds' \subseteq 0..now
    BY <1>2, <1>3
  <2> QED
    BY <1>1, <2>1, ResetStep
<1>5. CASE TooManyFailed \/ ~ HasBaselines
  <2>1. UNCHANGED builds
    BY <1>5 DEF StoreBuild
  <2>2. UNCHANGED <<now, sold, stored, builds>>
    BY <1>1, <2>1
  <2> QED
    BY <1>4, <2>2
<1>6. CASE ~ TooManyFailed /\ HasBaselines
  <2>1. started \in (LatestBuild + 1)..now
    <3>1. CASE builds = {}
      BY <1>2, <3>1 DEF LatestBuild, Latest
    <3>2. CASE builds # {}
      <4>1. Max(builds) \in builds
        BY <1>2, <3>2, GreatestOf
      <4>2. LatestBuild = Max(builds) /\ Max(builds) < started /\ Max(builds) \in 0..now
        BY <1>1, <1>2, <3>2, <4>1 DEF LatestBuild, Latest, SyncInv
      <4> QED
        BY <1>2, <4>2
    <3> QED
      BY <3>1, <3>2
  <2> DEFINE behind == {t \in Titles : ~ KnownUpTo(t, started)}
             failed == InPhase("failed")
  <2>2. behind \subseteq failed
    <3> SUFFICES ASSUME NEW t \in Titles, t \notin failed PROVE KnownUpTo(t, started)
      OBVIOUS
    <3>1. reading[t].phase = "done"
      BY <1>1 DEF InPhase
    <3> QED
      BY <3>1 DEF SyncInv, TitleSound
  <2>3. IsFiniteSet(failed) /\ failed \subseteq Titles
    BY SyncConstants, FS_Subset DEF InPhase
  <2>4. PICK a \in Nat, b \in Nat, c \in Nat :
           a = Cardinality(behind) /\ b = Cardinality(failed) /\ c = Cardinality(Titles) /\ a <= b
    <3> HIDE DEF behind, failed
    <3>1. IsFiniteSet(behind) /\ Cardinality(behind) <= Cardinality(failed)
      BY <2>2, <2>3, FS_Subset
    <3> QED
      BY <2>3, <3>1, SyncConstants, FS_CardinalityType
  <2>5. ~ (2 * b > c)
    BY <1>6, <2>4 DEF TooManyFailed
  <2>6. 2 * Cardinality(behind) <= Cardinality(Titles)
    <3> HIDE DEF behind, failed
    <3> QED
      BY <2>4, <2>5
  <2>7. builds' = builds \cup {started}
    BY <1>6 DEF StoreBuild
  <2> QED
    BY <1>1, <1>2, <1>4, <2>1, <2>6, <2>7 DEF Build, Times
<1> QED
  BY <1>5, <1>6

LEMMA SyncStep ==
  ASSUME ~ SalesWhilePaging, PageSize * MaxPages > MaxSales, SyncInv, [Next]_vars
  PROVE  /\ SyncInv'
         /\ [StoreNext]_<<now, sold, stored, builds>>
<1>1. CASE Check
  <2>1. UNCHANGED <<now, sold, stored, builds>>
    BY <1>1 DEF Check, venue
  <2> QED
    BY <1>1, <2>1, CheckStep
<1>2. CASE FailCheck \/ Crash
  <2>1. Reset /\ UNCHANGED <<now, sold, stored, builds>>
    BY <1>2 DEF FailCheck, Crash, Ended, venue
  <2>2. builds' \subseteq 0..now
    BY <2>1 DEF SyncInv, StoreSound
  <2> QED
    BY <2>1, <2>2, ResetStep
<1>3. CASE StoreBuild
  BY <1>3, BuildStep DEF StoreNext
<1>4. CASE Tick
  BY <1>4, TickStep DEF Tick, StoreNext
<1>5. ASSUME NEW t \in Titles, FetchPage(t)
      PROVE  SyncInv' /\ UNCHANGED <<now, sold, stored, builds>>
  BY <1>5, FetchStep DEF FetchPage, venue
<1>6. ASSUME NEW t \in Titles, Store(t)
      PROVE  SyncInv' /\ StoreNext
  BY <1>6, StoreStep DEF StoreNext
<1>7. ASSUME NEW t \in Titles, FailTitle(t)
      PROVE  SyncInv' /\ UNCHANGED <<now, sold, stored, builds>>
  BY <1>7, FailTitleStep DEF FailTitle, venue
<1>8. ASSUME NEW t \in Titles, NEW kind \in Kinds, Sell(t, kind)
      PROVE  SyncInv' /\ StoreNext
  BY <1>8, SellStep DEF Sell, StoreNext
<1>9. CASE UNCHANGED vars
  <2>1. UNCHANGED <<now, sold, stored, builds, started, newest, reading>>
    BY <1>9 DEF vars
  <2>2. StoreSound' /\ GapFree'
    <3>1. builds' \subseteq 0..now
      BY <2>1 DEF SyncInv, StoreSound
    <3> QED
      BY <2>1, <3>1, StoreStays DEF SyncInv
  <2>3. \A u \in Titles : TitleSound(u)'
    BY <2>1, TitleStays DEF SyncInv, RowsSame
  <2> QED
    BY <2>1, <2>2, <2>3 DEF SyncInv, Idle
<1> QED
  BY <1>1, <1>2, <1>3, <1>4, <1>5, <1>6, <1>7, <1>8, <1>9 DEF Next

(* The sales sync of the baseline builder keeps what dmarket_sales.py       *)
(* promises its readers: every sale is stored once and in whole stretches,  *)
(* and a build is no newer than the sales of most titles, through failed    *)
(* titles, failed checks and restarts - as long as no sale shows up between *)
(* two pages of its title, and no title has more sales than the page guard  *)
(* MAX_PAGES_PER_TITLE lets through.                                        *)
THEOREM SalesStoreHolds ==
  ASSUME ~ SalesWhilePaging, PageSize * MaxPages > MaxSales
  PROVE  Spec => SalesStoreSpec
<1>1. Init => StoreInit
  BY DEF Init
<1>2. SyncInv /\ [Next]_vars => SyncInv' /\ [StoreNext]_<<now, sold, stored, builds>>
  BY SyncStep
<1> QED
  BY <1>1, <1>2, InitSync, PTL DEF Spec, SalesStoreSpec, StoreSpec
=============================================================================
