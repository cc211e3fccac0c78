---------------------------- MODULE SkinportFeed ----------------------------
(***************************************************************************)
(* Skinport's live sale feed: the session on the websocket                 *)
(* (scrapers/skinport_socket.py), and the producer that opens it again     *)
(* (websocket_subscriber_producer in apps/listener/main.py).               *)
(*                                                                         *)
(* The server pings, and ends a session that does not answer; a listener   *)
(* that hears nothing for too long gives the session up.  Frames from the  *)
(* server are in flight for up to Latency ticks, its receipt of a frame    *)
(* from the listener takes none.  A connection may die without either side *)
(* being told.  Each side acts when it is its turn, before time goes on.   *)
(***************************************************************************)
EXTENDS Naturals, Sequences, SequencesExt

CONSTANTS
    Interval, PingTimeout,   \* of the server's open packet
    DefaultTimeout,          \* DEFAULT_RECEIVE_TIMEOUT_SECONDS
    FirstDelay, MaxDelay,    \* FEED_RECONNECT_FIRST_DELAY_SECONDS, FEED_RECONNECT_MAX_DELAY_SECONDS
    Latency,                 \* bound: how long a frame is in flight
    MaxHold,                 \* bound: how long a full queue holds the producer
    MaxFrames,               \* bound: frames besides pings and the handshake
    MaxFaults                \* bound: refusals, hang-ups and dead connections

\* Times are in whole units.  A listener that reads has a ping before the server stops waiting for the answer.
SessionAssumption ==
    /\ Interval \in Nat /\ PingTimeout \in Nat /\ DefaultTimeout \in Nat /\ Latency \in Nat
    /\ Latency < PingTimeout
    /\ FirstDelay \in Nat /\ MaxDelay \in Nat /\ MaxHold \in Nat /\ MaxFrames \in Nat /\ MaxFaults \in Nat

VARIABLES
    client,     \* the producer: waiting to connect, reading, or handing an event to a queue that may be full
    left,       \* until it connects again
    delay,      \* the wait after the next loss
    delivered,  \* this connection delivered anything
    timeout,    \* of its reads
    silent,     \* since its read began
    gauge,      \* feed_connected
    server,     \* the session at the server: none, opened, connected or joined
    beat,       \* its ping: whether it is owed an answer, and since when
    down,       \* frames on their way to the listener
    late,       \* since when the first of them is on its way
    cut,        \* the connection is dead, and nobody was told
    held,       \* since when the producer is held
    kept_waiting,  \* ghost: the producer was held since the last ping it answered
    unread,     \* ghost: events sent in this session that the producer did not get
    gone,       \* ghost: how long feed_connected has been wrong
    wronged,    \* ghost: a live connection was given up, or an event of one lost
    frames, faults

listener == <<client, left, delay, delivered, timeout, silent, gauge>>
session == <<server, beat>>
network == <<down, late, cut>>
ghosts == <<kept_waiting, unread, gone, wronged>>
bounds == <<frames, faults>>
vars == <<client, left, delay, delivered, timeout, silent, gauge, server, beat, down, late, cut, held,
          kept_waiting, unread, gone, wronged, frames, faults>>

Beat(owed, since) == [owed |-> owed, since |-> since]
Fault == faults < MaxFaults /\ faults' = faults + 1 /\ UNCHANGED frames
Shorter(x, y) == IF x < y THEN x ELSE y

Init ==
    /\ client = "waiting" /\ left = 0 /\ delay = FirstDelay /\ delivered = FALSE
    /\ timeout = DefaultTimeout /\ silent = 0 /\ gauge = FALSE
    /\ server = "none" /\ beat = Beat(FALSE, 0)
    /\ down = <<>> /\ late = 0 /\ cut = FALSE /\ held = 0
    /\ kept_waiting = FALSE /\ unread = 0 /\ gone = 0 /\ wronged = FALSE
    /\ frames = 0 /\ faults = 0

Alive == ~cut /\ server # "none"

\* What reaches the listener of what the server sends
Sent(fs) == IF cut THEN down ELSE down \o fs

-----------------------------------------------------------------------------
(* The listener's connections.                                             *)

\* However a connection ends: the wait before the next one doubles while connections deliver nothing.
Lost ==
    LET wait == IF delivered THEN FirstDelay ELSE delay
    IN  /\ client' = "waiting" /\ left' = wait /\ delay' = Shorter(2 * wait, MaxDelay)
        /\ delivered' = FALSE /\ gauge' = FALSE /\ silent' = 0
        /\ server' = "none" /\ beat' = Beat(FALSE, 0)
        /\ down' = <<>> /\ late' = 0 /\ cut' = FALSE
        /\ kept_waiting' = FALSE /\ unread' = 0 /\ gone' = 0
        /\ wronged' = (wronged \/ Alive \/ (~cut /\ unread > 0))
        /\ UNCHANGED <<timeout, held>>

Connect ==
    /\ client = "waiting" /\ left = 0
    /\ client' = "reading" /\ timeout' = DefaultTimeout /\ silent' = 0
    /\ server' = "opened" /\ down' = <<"open">>
    /\ UNCHANGED <<left, delay, delivered, gauge, beat, late, cut, held, ghosts, bounds>>

CannotConnect == client = "waiting" /\ left = 0 /\ Lost /\ Fault

receive_timeout == Interval + PingTimeout

\* The rest of an iteration that read a frame, and what the server answers at once
Continue(answer) ==
    /\ silent' = 0
    /\ down' = Tail(down) \o (IF cut THEN <<>> ELSE answer)
    /\ late' = IF Len(down) = 1 THEN 0 ELSE late
    /\ UNCHANGED <<left, delay, cut, held, gone, wronged>>

Read(frame) == client = "reading" /\ down # <<>> /\ Head(down) = frame

\* Mutant of ReadPing: no answer.
ReadPingSilently ==
    /\ Read("ping") /\ Continue(<<>>)
    /\ UNCHANGED <<client, delivered, timeout, gauge, server, beat, kept_waiting, unread, bounds>>

ReadPing ==
    /\ Read("ping") /\ Continue(<<>>)
    /\ beat' = IF Alive THEN Beat(FALSE, 0) ELSE beat
    /\ kept_waiting' = FALSE
    /\ UNCHANGED <<client, delivered, timeout, gauge, server, unread, bounds>>

\* The server connects the session, or refuses it.
ReadOpen ==
    /\ Read("open")
    /\ timeout' = receive_timeout
    /\ \/ /\ Continue(<<"connected">>) /\ server' = IF Alive THEN "connected" ELSE server
          /\ UNCHANGED <<beat, bounds>>
       \/ /\ Alive /\ Continue(<<"refused">>) /\ server' = "none" /\ beat' = Beat(FALSE, 0)
          /\ Fault
    /\ UNCHANGED <<client, delivered, gauge, kept_waiting, unread>>

ReadConnected ==
    /\ Read("connected") /\ Continue(<<>>)
    /\ gauge' = TRUE
    /\ server' = IF Alive THEN "joined" ELSE server
    /\ UNCHANGED <<client, delivered, timeout, beat, kept_waiting, unread, bounds>>

\* saleFeed: the raw event and its ticks go to the queue.
ReadSale ==
    /\ Read("sale") /\ Continue(<<>>)
    /\ client' = "handing" /\ delivered' = TRUE /\ unread' = unread - 1
    /\ UNCHANGED <<timeout, gauge, server, beat, kept_waiting, bounds>>

HandOn ==
    /\ client = "handing"
    /\ client' = "reading" /\ silent' = 0 /\ held' = 0
    /\ UNCHANGED <<left, delay, delivered, timeout, gauge, session, network, ghosts, bounds>>

\* Another event, another packet type, or a frame that is not a Socket.IO packet
Skip ==
    /\ Read("other") /\ Continue(<<>>)
    /\ UNCHANGED <<client, delivered, timeout, gauge, server, beat, kept_waiting, unread, bounds>>

\* The websocket is closed, or the Engine.IO or Socket.IO session ends or is refused.
ReadEnd == (Read("closed") \/ Read("refused")) /\ Lost /\ UNCHANGED bounds

TimedOut == client = "reading" /\ down = <<>> /\ silent = timeout /\ Lost /\ UNCHANGED bounds

-----------------------------------------------------------------------------
(* The server and the network.                                             *)

Send(frame) ==
    /\ frames < MaxFrames /\ frames' = frames + 1
    /\ down' = Sent(<<frame>>)
    /\ UNCHANGED <<listener, session, late, cut, held, kept_waiting, gone, wronged, faults>>

SendSale == server = "joined" /\ Send("sale") /\ unread' = unread + 1
SendOther == server = "joined" /\ Send("other") /\ UNCHANGED unread

SendPing ==
    /\ server # "none" /\ ~beat.owed /\ beat.since = Interval
    /\ beat' = Beat(TRUE, 0) /\ down' = Sent(<<"ping">>)
    /\ UNCHANGED <<listener, server, late, cut, held, ghosts, bounds>>

End == server' = "none" /\ beat' = Beat(FALSE, 0) /\ down' = Sent(<<"closed">>)

\* No answer to a ping in time
GiveUp ==
    /\ server # "none" /\ beat.owed /\ beat.since = PingTimeout
    /\ End
    /\ wronged' = (wronged \/ (~cut /\ ~kept_waiting))
    /\ UNCHANGED <<listener, late, cut, held, kept_waiting, unread, gone, bounds>>

HangUp == server # "none" /\ End /\ Fault /\ UNCHANGED <<listener, late, cut, held, ghosts>>

\* The connection dies: of what is in flight only the first frames may arrive.
Cut ==
    /\ client # "waiting" /\ ~cut
    /\ cut' = TRUE /\ Fault
    /\ \E n \in 0..Len(down) : down' = SubSeq(down, 1, n) /\ late' = IF n = 0 THEN 0 ELSE late
    /\ UNCHANGED <<listener, session, held, ghosts>>

\* Nobody has anything to do before time goes on.
Quiet ==
    /\ client = "waiting" => left > 0
    /\ client = "reading" => IF down = <<>> THEN silent < timeout ELSE late < Latency
    /\ client = "handing" => held < MaxHold
    /\ server # "none" => beat.since < IF beat.owed THEN PingTimeout ELSE Interval

Tick ==
    /\ Quiet
    /\ left' = IF client = "waiting" THEN left - 1 ELSE left
    /\ silent' = IF client = "reading" THEN silent + 1 ELSE silent
    /\ held' = IF client = "handing" THEN held + 1 ELSE held
    /\ late' = IF client = "reading" /\ down # <<>> THEN late + 1 ELSE late
    /\ beat' = IF server # "none" THEN [beat EXCEPT !.since = @ + 1] ELSE beat
    /\ kept_waiting' = (kept_waiting \/ client = "handing")
    /\ gone' = IF gauge /\ ~Alive /\ client = "reading" THEN gone + 1 ELSE gone
    /\ UNCHANGED <<client, delay, delivered, timeout, gauge, server, down, cut, unread, wronged, bounds>>

-----------------------------------------------------------------------------
Listener ==
    \/ Connect \/ ReadPing \/ ReadOpen \/ ReadConnected \/ ReadSale \/ HandOn \/ Skip \/ ReadEnd \/ TimedOut
Server == SendPing \/ GiveUp
Next ==
    \/ Listener \/ CannotConnect \/ Server \/ Tick
    \/ SendSale \/ SendOther \/ HangUp \/ Cut

(* Neither side gives up a connection that works unless the queue held the producer, no event of one is lost, and
   feed_connected says so soon after one has died. *)
SessionsSound == ~wronged /\ gone <= Interval + PingTimeout + Latency

(* Once connections fail no more, the listener is joined to the feed, and stays so. *)
Rejoins == <>[](gauge /\ server = "joined")
=============================================================================
