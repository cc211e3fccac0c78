--------------------------- MODULE DMarketPoller ---------------------------
(***************************************************************************)
(* Polling DMarket's listings (apps/listener/scrapers/dmarket.py): a live  *)
(* poll of the newest pages, pages back through the stretches it left      *)
(* unread (gaps), and the resume point that carries both over a restart    *)
(* of the listener, or of the PC with its edge Redis.                      *)
(*                                                                         *)
(* A listing is its creation time; it may show up late.  A page holds the  *)
(* newest PageSize listings below a cursor.  A cursor is the creation time *)
(* of the last listing of the page before.  Time advances in units no      *)
(* shorter than POLL_INTERVAL_SECONDS.                                     *)
(***************************************************************************)
EXTENDS Integers, Sequences, FiniteSets, FiniteSetsExt, Functions

CONSTANTS
    MaxTime,          \* bound: time units
    Worthy,           \* the listings the filter records
    PageSize,         \* listings on a page
    LiveMaxPages,     \* LIVE_MAX_PAGES
    LiveOverlap,      \* LIVE_OVERLAP_MS; also how late a listing may show up
    ResumeOverlap,    \* RESUME_OVERLAP_MS
    MaxPollTime,      \* how long the pages of one live poll take to arrive
    MaxCatchUp,       \* MAX_CATCH_UP_HOURS
    MaxFailures,      \* bound: failed page requests and failed saves
    MaxCrashes,       \* bound: crashes of the listener, and of the PC
    Unanswered        \* bound: starts at which neither Redis nor the backend answers

\* A resumed listener reaches back over what may have shown up since the newest page of the last live poll, and below
\* what the next live poll reaches; a live poll that runs into its page limit has read further back than that.
PollerAssumption ==
    /\ MaxTime \in Nat \ {0} /\ Worthy \subseteq 1..MaxTime /\ PageSize \in Nat \ {0} /\ LiveMaxPages \in Nat \ {0}
    /\ LiveOverlap \in Nat /\ ResumeOverlap \in Nat /\ MaxPollTime \in Nat \ {0} /\ MaxCatchUp \in Nat
    /\ LiveOverlap + MaxPollTime <= ResumeOverlap
    /\ 2 * LiveOverlap < ResumeOverlap
    /\ ResumeOverlap < LiveMaxPages * PageSize
    /\ ResumeOverlap <= MaxCatchUp
    /\ MaxFailures \in Nat /\ MaxCrashes \in Nat /\ Unanswered \in Nat

Times == 1..MaxTime

VARIABLES
    now, visible,     \* the time, and the listings DMarket shows
    pc,               \* where the scraper is
    newest, floor,    \* newest_ms and _next_floor_ms, 0 for None
    gaps,             \* the stretches not read yet, oldest first
    seen, recorded,   \* _seen, and _recorded with its times
    poll, polled,     \* the live poll in progress, and when the last one began (next_live_at less its interval; 0: one is due)
    pending,          \* the listings read and judged worthy, not handed on yet, by receive time
    doc,              \* the resume point in the edge Redis, or NoDoc
    handed,           \* the listings handed on and recorded, by receive time
    start, lost,      \* ghosts: the oldest listing owed (0: none yet), and those documented as lost
    known,            \* ghost: the listings recorded that the resume point accounts for
    failures, crashes, unanswered

reader == <<newest, floor, gaps, seen, recorded>>
ghosts == <<start, lost, known>>
bounds == <<failures, crashes, unanswered>>
vars == <<now, visible, pc, newest, floor, gaps, seen, recorded, poll, polled, pending, doc, handed,
          start, lost, known, failures, crashes, unanswered>>

NoDoc == [newest |-> 0]
Top == MaxTime + 1
NewPoll == [page |-> 1, at |-> Top, newest |-> 0, read |-> <<>>]
Later(a, b) == IF a < b THEN b ELSE a

Init ==
    /\ now = 1 /\ visible = {1}
    /\ pc = "resuming"
    /\ newest = 0 /\ floor = 0 /\ gaps = <<>> /\ seen = {} /\ recorded = <<>>
    /\ poll = NewPoll /\ polled = 0 /\ pending = <<>>
    /\ doc = NoDoc /\ handed = <<>>
    /\ start = 0 /\ lost = {} /\ known = {}
    /\ failures = 0 /\ crashes = 0 /\ unanswered = 0

-----------------------------------------------------------------------------
(* DMarket                                                                 *)

Appear(t) ==
    /\ t \in (now - LiveOverlap)..now /\ t \notin visible /\ t > 0
    /\ visible' = visible \cup {t}
    /\ UNCHANGED <<now, pc, reader, poll, polled, pending, doc, handed, ghosts, bounds>>

\* A listing that has not shown up by now - LiveOverlap never does after.
Tick ==
    /\ now < MaxTime
    /\ \A t \in 1..(now - LiveOverlap) : t \in visible
    /\ pc = "polling" => now < polled + MaxPollTime
    /\ now' = now + 1
    /\ UNCHANGED <<visible, pc, reader, poll, polled, pending, doc, handed, ghosts, bounds>>

Below(c) == {t \in visible : t < c}

\* offers(cursor): the entries of a page
Page(c) == {t \in Below(c) : Cardinality({u \in Below(c) : u >= t}) <= PageSize}

\* whether the page comes without a cursor
LastPage(c) == Cardinality(Below(c)) <= PageSize

-----------------------------------------------------------------------------
(* Where to start reading                                                  *)

Gap(from, until, skip) == [from |-> from, until |-> until, skip |-> skip]
Stretch(g) == {t \in Times : g.until <= t /\ t < g.from}
Unread(gs) == UNION {Stretch(gs[i]) : i \in 1..Len(gs)}

\* each gap cut off at the oldest time catching up reads
RestoredAll(gs, oldest) ==
    [i \in 1..Len(gs) |-> [gs[i] EXCEPT !.until = Later(@, oldest)]]

\* The k-th of a set of indices
Nth(S, k) == CHOOSE i \in S : Cardinality({j \in S : j <= i}) = k

\* The gaps of a resume point that are still within reach, in their order.
Restored(gs, oldest) ==
    LET all == RestoredAll(gs, oldest)
        left == {i \in 1..Len(gs) : all[i].from > all[i].until}
    IN  [k \in 1..Cardinality(left) |-> all[Nth(left, k)]]

\* resume_from(point, now_ms, max_catch_up_ms)
ResumeFrom(point) ==
    LET oldest == now - MaxCatchUp IN
    /\ floor' = Later(1, Later(point.newest - ResumeOverlap, oldest))
    /\ seen' = point.recorded
    /\ recorded' = [t \in point.recorded |-> point.newest]
    /\ gaps' = Restored(point.gaps, oldest)
    /\ lost' = lost \cup {t \in Times : t < oldest}

\* The newest listing the backend recorded, by receive time, and those received shortly before it
BackendPoint ==
    LET last == Max(Range(handed)) IN
    [newest |-> last, recorded |-> {t \in DOMAIN handed : handed[t] >= last - ResumeOverlap}, gaps |-> <<>>]

DocPoint == [newest |-> doc.newest, recorded |-> DOMAIN doc.recorded, gaps |-> doc.gaps]

StartAnew ==
    /\ floor' = 0 /\ gaps' = <<>> /\ seen' = {} /\ recorded' = <<>> /\ lost' = lost

\* _resume: a process with nothing read yet finds where an earlier one stopped, in the edge Redis or else at
\* the backend; when neither answers it reads from the newest page on.
Resume ==
    /\ pc = "resuming"
    /\ pc' = "waiting" /\ newest' = 0 /\ poll' = NewPoll /\ polled' = 0 /\ pending' = <<>>
    /\ \/ doc # NoDoc /\ ResumeFrom(DocPoint) /\ UNCHANGED <<start, unanswered>>
       \/ doc = NoDoc /\ DOMAIN handed # {} /\ ResumeFrom(BackendPoint) /\ UNCHANGED <<start, unanswered>>
       \/ doc = NoDoc /\ DOMAIN handed = {} /\ StartAnew /\ start' = 0 /\ UNCHANGED unanswered
       \/ /\ doc = NoDoc /\ unanswered < Unanswered
          /\ unanswered' = unanswered + 1
          /\ StartAnew /\ UNCHANGED start
    /\ UNCHANGED <<now, visible, doc, handed, known, failures, crashes>>

\* Nothing is read until there are resale prices to judge by: without them every listing would be dropped.
PricesArrive ==
    /\ pc = "waiting" /\ pc' = "idle"
    /\ UNCHANGED <<now, visible, reader, poll, polled, pending, doc, handed, ghosts, bounds>>

-----------------------------------------------------------------------------
(* Reading                                                                 *)

Started == newest # 0 \/ floor # 0

\* What is judged worthy of recording is handed on: a live poll's listings oldest first.
HandOver(read, order) ==
    /\ pc' = order
    /\ pending' = Restrict(read, DOMAIN read \cap Worthy)

\* The whole poll has arrived: only now the poller moves on.
Finish(read, top, left) ==
    /\ seen' = seen \cup DOMAIN read
    /\ newest' = top
    /\ floor' = Later(1, top - LiveOverlap)
    /\ gaps' = gaps \o left
    /\ poll' = NewPoll
    /\ start' = IF start = 0 THEN Min(Page(Top)) ELSE start
    /\ HandOver(read, "oldest first")

Skip == {t \in DOMAIN recorded : recorded[t] >= floor}

\* A poll that read its last page above the floor leaves the rest to catching up.
Leftover(at) == <<Gap(at, floor, Skip)>>

\* One page of the live poll, which keeps what it reads to itself.
LivePage ==
    /\ pc \in {"idle", "polling"}
    /\ LET page == Page(poll.at)
           fresh == {t \in page : t >= floor /\ t \notin seen /\ t \notin DOMAIN poll.read}
           read == [t \in fresh \cup DOMAIN poll.read |-> IF t \in fresh THEN now ELSE poll.read[t]]
           top == Max(page \cup {newest, poll.newest})
           ended == floor = 0 \/ LastPage(poll.at) \/ \E t \in page : t < floor
       IN  \/ ended /\ Finish(read, top, <<>>)
           \/ ~ended /\ poll.page = LiveMaxPages /\ Finish(read, top, Leftover(Min(page)))
           \/ /\ ~ended /\ poll.page < LiveMaxPages
              /\ poll' = [page |-> poll.page + 1, at |-> Min(page), newest |-> top, read |-> read]
              /\ pc' = "polling"
              /\ UNCHANGED <<newest, floor, gaps, seen, pending, start>>
    /\ polled' = IF pc = "idle" THEN now ELSE polled
    /\ UNCHANGED <<now, visible, recorded, doc, handed, lost, known, bounds>>

\* Mutant of NextGap: the page is read, the cursor stays.
NextGapSame(g, page) == g

\* The gap below a page
NextGap(g, page) == [g EXCEPT !.from = Min(page)]

\* catch_up_page: the next page of the oldest gap, when no live poll is due.
CatchUpPage ==
    /\ pc = "idle" /\ gaps # <<>>
    /\ polled # 0 /\ now <= polled + 1
    /\ LET g == Head(gaps)
           page == Page(g.from)
           fresh == {t \in page : t >= g.until /\ t \notin seen /\ t \notin g.skip}
           ended == LastPage(g.from) \/ \E t \in page : t < g.until
       IN  /\ seen' = seen \cup fresh
           /\ gaps' = IF ended THEN Tail(gaps) ELSE [gaps EXCEPT ![1] = NextGap(g, page)]
           /\ HandOver([t \in fresh |-> now], "newest first")
    /\ UNCHANGED <<now, visible, newest, floor, recorded, poll, polled, doc, handed, ghosts, bounds>>

\* Mutant of RequestFails: the part of the poll that arrived moves the poller on.
RequestFailsHalfway ==
    /\ pc \in {"idle", "polling"} /\ failures < MaxFailures
    /\ failures' = failures + 1
    /\ newest' = Later(newest, poll.newest)
    /\ floor' = IF newest' = 0 THEN floor ELSE Later(1, newest' - LiveOverlap)
    /\ seen' = seen \cup DOMAIN poll.read
    /\ HandOver(poll.read, "oldest first")
    /\ poll' = NewPoll /\ polled' = 0
    /\ UNCHANGED <<now, visible, gaps, recorded, doc, handed, ghosts, crashes, unanswered>>

\* A page request fails, of a live poll or of catching up: nothing moves, the resume point is saved, and the feed is opened
\* again with a live poll.
RequestFails ==
    /\ pc \in {"idle", "polling"}
    /\ failures < MaxFailures
    /\ failures' = failures + 1
    /\ pc' = "oldest first" /\ poll' = NewPoll /\ polled' = 0
    /\ UNCHANGED <<now, visible, reader, pending, doc, handed, ghosts, crashes, unanswered>>

With(f, t, v) == [u \in DOMAIN f \cup {t} |-> IF u = t THEN v ELSE f[u]]

\* The next listing goes to the listener's consumer.
HandOn ==
    /\ pc \in {"oldest first", "newest first"} /\ DOMAIN pending # {}
    /\ LET t == IF pc = "oldest first" THEN Min(DOMAIN pending) ELSE Max(DOMAIN pending) IN
       /\ recorded' = With(recorded, t, t)
       /\ handed' = With(handed, t, pending[t])
       /\ pending' = Restrict(pending, DOMAIN pending \ {t})
    /\ UNCHANGED <<now, visible, pc, newest, floor, gaps, seen, poll, polled, doc, ghosts, bounds>>

Near == Restrict(recorded, {t \in DOMAIN recorded : recorded[t] >= newest - ResumeOverlap})

Document == IF newest = 0 THEN doc ELSE [newest |-> newest, recorded |-> Near, gaps |-> gaps]

\* _save_resume_point, after everything read was handed on.  Redis may refuse it.
Save ==
    /\ pc \in {"oldest first", "newest first"} /\ DOMAIN pending = {}
    /\ pc' = IF Started THEN "idle" ELSE "resuming"
    /\ recorded' = IF newest = 0 THEN recorded ELSE Near
    /\ \/ doc' = Document /\ known' = known \cup DOMAIN recorded /\ UNCHANGED failures
       \/ newest # 0 /\ failures < MaxFailures /\ failures' = failures + 1 /\ UNCHANGED <<doc, known>>
    /\ UNCHANGED <<now, visible, newest, floor, gaps, seen, poll, polled, pending, handed, start, lost, crashes, unanswered>>

-----------------------------------------------------------------------------
(* Crashes.  What the dead process held stays in its variables until the   *)
(* next one starts.  When the PC goes off, its edge Redis is empty after:  *)
(* what was read and not handed on is lost then, and so is what is below   *)
(* the newest listing recorded and not read back through: the backend only *)
(* knows that newest listing.                                              *)

\* Before the first live poll of a process, what it was to read back through below the backend's resume point
Unfinished ==
    IF newest = 0 /\ DOMAIN handed # {} THEN floor..(Max(Range(handed)) - ResumeOverlap - 1) ELSE {}

Crash(redisSurvives) ==
    /\ crashes < MaxCrashes /\ crashes' = crashes + 1
    /\ now + LiveOverlap < MaxTime   \* bound: there is time to start again
    /\ pc' = "down"
    /\ doc' = IF redisSurvives THEN doc ELSE NoDoc
    /\ IF doc' = NoDoc
       THEN lost' = lost \cup Unread(gaps) \cup DOMAIN pending \cup Unfinished /\ known' = DOMAIN handed
       ELSE UNCHANGED <<lost, known>>
    /\ UNCHANGED <<now, visible, reader, poll, polled, pending, handed, start, failures, unanswered>>

\* Starting without a resume point in Redis (the PC boots) takes longer than a listing takes to show up.
Restart ==
    /\ pc = "down" /\ pc' = "resuming"
    /\ doc = NoDoc => \A t \in DOMAIN handed : handed[t] + LiveOverlap < now
    /\ UNCHANGED <<now, visible, reader, poll, polled, pending, doc, handed, ghosts, bounds>>

Next ==
    \/ \E t \in Times : Appear(t)
    \/ Tick
    \/ Resume \/ PricesArrive \/ LivePage \/ CatchUpPage \/ RequestFails \/ HandOn \/ Save
    \/ \E redisSurvives \in BOOLEAN : Crash(redisSurvives)
    \/ Restart

Surroundings == Tick \/ \E t \in Times : Appear(t)
Turn == Restart \/ Resume \/ PricesArrive \/ LivePage \/ HandOn \/ Save

\* Time passes and listings show up; the listener is restarted, requests are answered, and the poller takes its turns.  A
\* poll interval is long enough for a page of catching up, so catching up is not starved by live polls.
Fairness == WF_vars(Surroundings) /\ WF_vars(Turn) /\ SF_vars(CatchUpPage)

Spec == Init /\ [][Next]_vars
FairSpec == Spec /\ Fairness

-----------------------------------------------------------------------------
(* Properties                                                              *)

Gaps == [from : Times, until : Times, skip : SUBSET Times]

\* Every gap names a stretch still to be read, newest first: its cursor does not lie below its lower end, and it does
\* not skip a listing that was never recorded (CatchUpGap, resume_from).
TypeOK ==
    /\ now \in Times /\ visible \subseteq Times
    /\ pc \in {"down", "resuming", "waiting", "idle", "polling", "oldest first", "newest first"}
    /\ newest \in 0..MaxTime /\ floor \in 0..MaxTime
    /\ \A i \in 1..Len(gaps) : gaps[i] \in Gaps /\ gaps[i].until <= gaps[i].from /\ gaps[i].skip \subseteq DOMAIN handed
    /\ seen \subseteq Times /\ DOMAIN recorded \subseteq DOMAIN handed
    /\ DOMAIN pending \subseteq Worthy /\ DOMAIN handed \subseteq Worthy
    /\ \A t \in DOMAIN handed : handed[t] \in t..now

Owed == {t \in visible \cap Worthy : start # 0 /\ start <= t} \ lost

ToBeRead(t) ==
    /\ t \notin seen
    /\ t >= floor \/ \E i \in 1..Len(gaps) : t \in Stretch(gaps[i]) \ gaps[i].skip

\* No listing falls between the live poll, the gaps and what was handed on: whatever polls failed part way,
\* ran into their page limit or resumed from either resume point, a listing worth recording that DMarket shows
\* was handed on, is about to be, or lies where the next polls will read (live_poll, resume_from).
Coverage ==
    pc \notin {"down", "resuming"} =>
        \A t \in Owed : t \in DOMAIN handed \/ t \in DOMAIN pending \/ ToBeRead(t)

\* Each listing owed is read once: none is missed, and one recorded before the resume point that was resumed from is not
\* recorded again, by a gap carried over restarts or by the overlap read again (skip_ids, recorded_ids).
ReadOnce ==
    /\ TypeOK
    /\ Coverage
    /\ pc \notin {"down", "resuming"} => DOMAIN pending \cap known = {}

\* Every listing owed is handed on in the end: the gaps are read back through.
AllRead == []<>(Owed \subseteq DOMAIN handed)
=============================================================================
