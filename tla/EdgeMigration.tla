---------------------------- MODULE EdgeMigration ----------------------------
(***************************************************************************)
(* What a starting process moves in the edge Redis to the keys it uses:    *)
(* the batch streams of the pre-#261 names (adopt_legacy_streams in        *)
(* batch_delivery.py), the pending batches it then recovers, and the price *)
(* windows of the pre-#270 names (migrate_legacy_price_windows in          *)
(* detection.py).  The listeners and the replay command start, fail and    *)
(* restart while the others do the same.                                   *)
(*                                                                         *)
(* A stream is the set of its entries, which are read by their IDs; one    *)
(* that is there may be empty.  A window is only where its prices are      *)
(* from.  How a batch that was handed over is sent is BatchDelivery.       *)
(***************************************************************************)
EXTENDS Integers, Sequences, FiniteSets

CONSTANTS
    Actors,
    Adopts,      \* those of LEGACY_STREAM_VENUE: its listener, and the replay of its dead letters
    Windowed,    \* those that migrate windows: every listener
    Reads(_),    \* the stream an adopter goes through afterwards: "pending" or "dead"
    Loads,       \* payloads
    Form(_),     \* a payload: "venue", "source" (stored before #261) or "broken"
    MovePage,    \* LEGACY_MOVE_PAGE_SIZE
    ScanPage,    \* the page size of iter_pending and iter_dead_letters
    Items,       \* items with a price window
    Before,      \* what the old and the new version may have stored before
    MaxStops     \* bound: failures and restarts

VARIABLES
    streams,   \* what each stream holds: entries [id, load]
    exists,    \* the streams that are there
    newestId,  \* stream IDs are times
    legacy,    \* the items with a window under its old name
    windows,   \* each item's window under the new name: "none", "newer" (there before), "kept" (the old one) or "fresh"
    at,        \* each actor: where it is, the pair of streams, the page read, the cursor, the scan, what it handed over
    settled,   \* payloads the backend has answered
    stops,
    written,   \* history: what was in the streams of each kind
    prices     \* history: the items the old version had prices of

vars == <<streams, exists, newestId, legacy, windows, at, settled, stops, written, prices>>

Kinds == <<"pending", "dead", "malformed">>
Kind == {"pending", "dead", "malformed"}
Old(k) == <<"old", k>>
New(k) == <<"new", k>>
Streams == {Old(k) : k \in Kind} \cup {New(k) : k \in Kind}
Entries == [id : Nat \ {0}, load : Loads]

\* A payload is stored once, in a stream that is there.
BeforeSound(b) ==
    /\ b.streams \in [Streams -> SUBSET Entries] /\ b.exists \subseteq Streams /\ b.newestId \in Nat
    /\ \A n \in Streams :
        /\ IsFiniteSet(b.streams[n])
        /\ n \notin b.exists => b.streams[n] = {}
        /\ \A e \in b.streams[n] :
            /\ e.id <= b.newestId
            /\ \A m \in Streams : \A f \in b.streams[m] : e.load = f.load \/ (e.id = f.id /\ n = m) => n = m /\ e = f
    /\ b.legacy \subseteq Items /\ b.windows \in [Items -> {"none", "newer"}]

MigrationAssumption ==
    /\ Adopts \subseteq Actors /\ IsFiniteSet(Adopts) /\ Adopts # {} /\ Windowed \subseteq Actors
    /\ \A a \in Adopts : Reads(a) \in {"pending", "dead"}
    /\ \A load \in Loads : Form(load) \in {"venue", "source", "broken"}
    /\ MovePage \in Nat \ {0} /\ ScanPage \in Nat \ {0} /\ MaxStops \in Nat
    /\ \A b \in Before : BeforeSound(b)

Down == [pc |-> "down", pair |-> 1, page |-> {}, cursor |-> 0, todo |-> {}, item |-> {}, handed |-> {}]

InitWith(b) ==
    /\ streams = b.streams /\ exists = b.exists /\ newestId = b.newestId
    /\ legacy = b.legacy /\ windows = b.windows
    /\ at = [a \in Actors |-> Down] /\ settled = {} /\ stops = 0
    /\ written = [k \in Kind |-> {e.load : e \in b.streams[Old(k)] \cup b.streams[New(k)]}]
    /\ prices = b.legacy

Init == \E b \in Before : InitWith(b)

-----------------------------------------------------------------------------
Goto(a, from, to) == at[a].pc = from /\ at' = [at EXCEPT ![a].pc = to]

\* After the streams of a pair, the next pair, and then the scan.
AfterPair(actor) ==
    IF actor.pair < Len(Kinds) THEN [actor EXCEPT !.pc = "look", !.pair = actor.pair + 1] ELSE [actor EXCEPT !.pc = "scan"]

NextPair(a) == at' = [at EXCEPT ![a] = AfterPair(at[a])]

OldOf(a) == Old(Kinds[at[a].pair])
NewOf(a) == New(Kinds[at[a].pair])

Start(a) ==
    /\ Goto(a, "down", IF a \in Adopts THEN "look" ELSE "windows")
    /\ UNCHANGED <<streams, exists, newestId, legacy, windows, settled, stops, written, prices>>

\* EXISTS
Look(a) ==
    /\ at[a].pc = "look"
    /\ IF OldOf(a) \in exists THEN Goto(a, "look", "rename") ELSE NextPair(a)
    /\ UNCHANGED <<streams, exists, newestId, legacy, windows, settled, stops, written, prices>>

\* Mutant of Rename: RENAME, which replaces the stream that is there.
RenameOver(a) ==
    /\ at[a].pc = "rename" /\ OldOf(a) \in exists
    /\ streams' = [streams EXCEPT ![NewOf(a)] = streams[OldOf(a)], ![OldOf(a)] = {}]
    /\ exists' = (exists \ {OldOf(a)}) \cup {NewOf(a)}
    /\ NextPair(a)
    /\ UNCHANGED <<newestId, legacy, windows, settled, stops, written, prices>>

\* RENAMENX, which fails when the stream has gone meanwhile: see Fail.
Rename(a) ==
    /\ at[a].pc = "rename" /\ OldOf(a) \in exists
    /\ IF NewOf(a) \in exists
       THEN Goto(a, "rename", "read") /\ UNCHANGED <<streams, exists>>
       ELSE /\ streams' = [streams EXCEPT ![NewOf(a)] = streams[OldOf(a)], ![OldOf(a)] = {}]
            /\ exists' = (exists \ {OldOf(a)}) \cup {NewOf(a)}
            /\ NextPair(a)
    /\ UNCHANGED <<newestId, legacy, windows, settled, stops, written, prices>>

\* XRANGE: the entries of a page, by their IDs
FirstOf(entries, n) == {e \in entries : Cardinality({x \in entries : x.id <= e.id}) <= n}
Oldest(entries) == CHOOSE e \in entries : \A x \in entries : e.id <= x.id
Newest(entries) == CHOOSE e \in entries : \A x \in entries : x.id <= e.id

\* From the start, until nothing is left
ReadPage(a) ==
    /\ at[a].pc = "read"
    /\ at' = [at EXCEPT ![a].page = FirstOf(streams[OldOf(a)], MovePage),
                        ![a].pc = IF streams[OldOf(a)] = {} THEN "delete" ELSE "move"]
    /\ UNCHANGED <<streams, exists, newestId, legacy, windows, settled, stops, written, prices>>

Without(entries, e) == {x \in entries : x.id # e.id}

\* XADD and XDEL of one entry in one transaction
MoveEntry(from, to, e) ==
    /\ streams' = [streams EXCEPT ![from] = Without(@, e), ![to] = @ \cup {[id |-> newestId + 1, load |-> e.load]}]
    /\ exists' = exists \cup {to}
    /\ newestId' = newestId + 1

Move(a) ==
    LET e == Oldest(at[a].page)
    IN  /\ at[a].pc = "move"
        /\ MoveEntry(OldOf(a), NewOf(a), e)
        /\ at' = [at EXCEPT ![a].page = @ \ {e}, ![a].pc = IF at[a].page = {e} THEN "read" ELSE "move"]
        /\ UNCHANGED <<legacy, windows, settled, stops, written, prices>>

\* XDEL leaves an empty stream behind.
Delete(a) ==
    /\ at[a].pc = "delete"
    /\ streams' = [streams EXCEPT ![OldOf(a)] = {}] /\ exists' = exists \ {OldOf(a)}
    /\ NextPair(a)
    /\ UNCHANGED <<newestId, legacy, windows, settled, stops, written, prices>>

-----------------------------------------------------------------------------
(* recover_pending_batches, and the replay of the dead letters.            *)

\* StoredBatch.deserialize: the venue may still be called source.
Deserializes(load) == Form(load) \in {"venue", "source"}

AfterScan(a) == IF a \in Windowed THEN "windows" ELSE "done"

\* _iter_stream: the next page after the last entry; a page that is not full is the last.
Scan(a) ==
    LET left == {e \in streams[New(Reads(a))] : e.id > at[a].cursor}
        page == FirstOf(left, ScanPage)
    IN  /\ at[a].pc = "scan"
        /\ IF left = {} THEN Goto(a, "scan", AfterScan(a))
           ELSE at' = [at EXCEPT ![a].pc = IF Cardinality(left) < ScanPage THEN "take last" ELSE "take",
                                 ![a].page = page, ![a].cursor = Newest(page).id]
        /\ UNCHANGED <<streams, exists, newestId, legacy, windows, settled, stops, written, prices>>

\* An entry that cannot be read is quarantined with its payload; any other is handed over.
Take(a) ==
    LET e == Oldest(at[a].page)
    IN  /\ at[a].pc \in {"take", "take last"}
        /\ at' = [at EXCEPT ![a].page = @ \ {e},
                            ![a].pc = IF at[a].page # {e} THEN @ ELSE IF @ = "take" THEN "scan" ELSE AfterScan(a),
                            ![a].handed = IF Deserializes(e.load) THEN @ \cup {e} ELSE @]
        /\ IF Deserializes(e.load) THEN UNCHANGED <<streams, exists, newestId>>
           ELSE MoveEntry(New(Reads(a)), New("malformed"), e)
        /\ UNCHANGED <<legacy, windows, settled, stops, written, prices>>

\* A batch that was handed over is delivered and acknowledged.
Settle(a, e) ==
    /\ e \in at[a].handed
    /\ streams' = [streams EXCEPT ![New(Reads(a))] = Without(@, e)]
    /\ settled' = settled \cup {e.load}
    /\ at' = [at EXCEPT ![a].handed = @ \ {e}]
    /\ UNCHANGED <<exists, newestId, legacy, windows, stops, written, prices>>

-----------------------------------------------------------------------------
(* migrate_legacy_price_windows.                                           *)

\* SCAN: every window that stays there while it runs, some of them twice
ScanWindows(a) ==
    /\ at[a].pc = "windows"
    /\ at' = [at EXCEPT ![a].pc = "visit", ![a].todo = legacy]
    /\ UNCHANGED <<streams, exists, newestId, legacy, windows, settled, stops, written, prices>>

\* RENAMENX: a window under the new name is the newer one.
RenameWindow(a, i) ==
    /\ at[a].pc = "visit" /\ i \in at[a].todo /\ i \in legacy
    /\ IF windows[i] = "none"
       THEN /\ windows' = [windows EXCEPT ![i] = "kept"] /\ legacy' = legacy \ {i}
            /\ \/ at' = [at EXCEPT ![a].todo = @ \ {i}]
               \/ UNCHANGED at
       ELSE /\ at' = [at EXCEPT ![a].pc = "drop", ![a].todo = @ \ {i}, ![a].item = {i}]
            /\ UNCHANGED <<legacy, windows>>
    /\ UNCHANGED <<streams, exists, newestId, settled, stops, written, prices>>

\* and the old one is deleted.
DeleteWindow(a) ==
    /\ Goto(a, "drop", "visit")
    /\ legacy' = legacy \ at[a].item
    /\ UNCHANGED <<streams, exists, newestId, windows, settled, stops, written, prices>>

Migrated(a) ==
    /\ at[a].todo = {} /\ Goto(a, "visit", "done")
    /\ UNCHANGED <<streams, exists, newestId, legacy, windows, settled, stops, written, prices>>

\* Ticks of the streams' venue enter the windows under their new names.
Push(a, i) ==
    /\ a \in Adopts \cap Windowed /\ at[a].pc = "done" /\ windows[i] = "none"
    /\ windows' = [windows EXCEPT ![i] = "fresh"]
    /\ UNCHANGED <<streams, exists, newestId, legacy, at, settled, stops, written, prices>>

\* What RENAMENX raises when another process was first ends the process; it may stop at any other point too.
Fail(a) ==
    /\ at[a].pc # "down"
    /\ \/ at[a].pc = "rename" /\ OldOf(a) \notin exists /\ UNCHANGED stops
       \/ at[a].pc = "visit" /\ (\E i \in at[a].todo : i \notin legacy) /\ UNCHANGED stops
       \/ stops < MaxStops /\ stops' = stops + 1
    /\ at' = [at EXCEPT ![a] = Down]
    /\ UNCHANGED <<streams, exists, newestId, legacy, windows, settled, written, prices>>

Next ==
    \E a \in Actors :
        \/ Start(a) \/ Look(a) \/ Rename(a) \/ ReadPage(a) \/ Move(a) \/ Delete(a) \/ Scan(a) \/ Take(a)
        \/ (\E e \in at[a].handed : Settle(a, e)) \/ Fail(a)
        \/ ScanWindows(a) \/ DeleteWindow(a) \/ Migrated(a) \/ \E i \in Items : RenameWindow(a, i) \/ Push(a, i)

-----------------------------------------------------------------------------
LoadsIn(n) == {e.load : e \in streams[n]}

(* "No entry is ever lost" (adopt_legacy_streams): what was in the streams of a kind stays in one of
   them until the backend has answered, or is quarantined with its payload; and a process that moves it copies it at most once, so
   that a batch is pending no more often than there are adopters. *)
Kept ==
    \A k \in Kind : \A load \in written[k] :
        /\ \/ load \in LoadsIn(Old(k)) \cup LoadsIn(New(k)) \cup settled
           \/ Form(load) = "broken" /\ load \in LoadsIn(New("malformed"))
        /\ Cardinality({e \in streams[New(k)] : e.load = load}) <= Cardinality(Adopts)

(* "So batches still pending under the pre-#261 stream names are delivered too" (process_live_telemetry_stream): once a
   listener is past its recovery, each of them is on its way or answered. *)
Recovered ==
    \A a \in Adopts : at[a].pc \in {"windows", "visit", "drop", "done"} =>
        \A load \in written[Reads(a)] :
            Deserializes(load) => load \in settled \cup {e.load : e \in at[a].handed}

(* "Before any tick is windowed, so no window is written under both key schemes": a tick never starts a new window of an
   item whose prices the old version had stored, or the history would be dropped or hide the new prices. *)
WindowsMoved == \A i \in prices : windows[i] # "fresh" /\ (i \in legacy \/ windows[i] # "none")

Adopted == Kept /\ Recovered /\ WindowsMoved
=============================================================================
