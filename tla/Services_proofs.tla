--------------------------- MODULE Services_proofs ---------------------------
(***************************************************************************)
(* Requests to the services outside, for any channels, callers, limits,    *)
(* delays and failures: an alert is sent once and its channel is paced;    *)
(* polls, client requests and retries leave their service the time it      *)
(* asked for; and a market context is made of fresh sales.  Each part has  *)
(* an invariant of its own, as the parts share nothing.                    *)
(***************************************************************************)
EXTENDS Services, FiniteSetTheorems, SequenceTheorems, WellFoundedInduction, TLAPS

(* A set of natural numbers has a least one.                                *)
LEMMA Least ==
  ASSUME NEW S, S \subseteq Nat, S # {}
  PROVE  \E n \in S : \A m \in S : n <= m
<1> DEFINE R == OpToRel(<, Nat)
<1>1. \A x, y \in Nat : x < y => <<x, y>> \in R
  BY DEF OpToRel
<1>2. IsWellFoundedOn(R, Nat)
  BY NatLessThanWellFounded
<1> HIDE DEF R
<1>3. PICK x \in S : \A y \in S : ~ (<<y, x>> \in R)
  BY <1>2, WFMin
<1>4. ASSUME NEW m \in S PROVE x <= m
  <2>1. m \in Nat /\ x \in Nat OBVIOUS
  <2>2. ~ (m < x) BY <1>1, <1>3, <2>1
  <2> QED BY <2>1, <2>2
<1> QED BY <1>4

(* A part of a sequence.                                                    *)
LEMMA SliceOf ==
  ASSUME NEW S, NEW s, NEW m \in Int, NEW n \in Int, \A i \in m..n : s[i] \in S
  PROVE  /\ SubSeq(s, m, n) \in Seq(S)
         /\ Len(SubSeq(s, m, n)) = IF m <= n THEN n - m + 1 ELSE 0
         /\ \A i \in 1..n - m + 1 : SubSeq(s, m, n)[i] = s[m + i - 1]
  BY SubSeqProperties

-----------------------------------------------------------------------------
(* Alerts: an alert is sent once.  It is in one place of a channel at a time.*)

Busy == [pc : {"acquiring", "posting"}, alert : Alerts, attempt : Nat]
Done == [pc : {"settled"}, alert : Alerts, outcome : Outcomes]

Shape ==
    /\ queue \in [Channels -> Seq(Alerts)]
    /\ sender \in [Channels -> {Idle} \cup Busy \cup Done]
    /\ delivered \in [Channels -> [Alerts -> Nat]]
    /\ outcome \in [Channels -> [Alerts -> Outcomes \cup {"none"}]]
    /\ stored \in [Channels -> [Alerts -> Seq(Outcomes)]]
    /\ submitted \in Seq(Alerts)

Untouched(c, a) == delivered[c][a] = 0 /\ outcome[c][a] = "none" /\ stored[c][a] = <<>>

\* What an outcome says of the number of messages taken
Honest(o, n) ==
    /\ o = "sent" => n > 0
    /\ o \in {"rate_limited", "dropped"} => n = 0

QueueSound(c) ==
    /\ \A i \in 1..Len(queue[c]) : Untouched(c, queue[c][i]) /\ Key(queue[c][i]) \in alerted
    /\ \A i, j \in 1..Len(queue[c]) : i # j => queue[c][i] # queue[c][j]

SenderSound(c) ==
    /\ sender[c] # Idle =>
         /\ Key(sender[c].alert) \in alerted
         /\ \A i \in 1..Len(queue[c]) : queue[c][i] # sender[c].alert
         /\ outcome[c][sender[c].alert] = "none" /\ stored[c][sender[c].alert] = <<>>
    /\ sender[c] \in Busy => delivered[c][sender[c].alert] = 0
    /\ sender[c] \in Done => Honest(sender[c].outcome, delivered[c][sender[c].alert])

RowSound(c, a) ==
    /\ Key(a) \notin alerted => Untouched(c, a)
    /\ delivered[c][a] <= 1 /\ Len(stored[c][a]) <= 1
    /\ Honest(outcome[c][a], delivered[c][a])
    /\ \A i \in 1..Len(stored[c][a]) : Honest(stored[c][a][i], delivered[c][a])

ChannelSound(c) == QueueSound(c) /\ SenderSound(c) /\ \A a \in Alerts : RowSound(c, a)

KeysSound ==
    /\ \A i \in 1..Len(submitted) : Remembered(submitted[i]) \subseteq alerted
    /\ \A i, j \in 1..Len(submitted) : i < j => Key(submitted[j]) # Snapshot(submitted[i])

AlertsInv == Shape /\ KeysSound /\ \A c \in Channels : ChannelSound(c)

(* What the sender does is one of three things (_send).                     *)
LEMMA Senders ==
  /\ Idle \notin Busy /\ Idle \notin Done
  /\ \A s \in Busy : s \notin Done /\ s # Idle /\ s.alert \in Alerts /\ s.pc \in {"acquiring", "posting"}
  /\ \A s \in Done : s \notin Busy /\ s # Idle /\ s.alert \in Alerts /\ s.pc = "settled"
  /\ \A s \in {Idle} \cup Busy \cup Done :
       /\ s.pc \in {"acquiring", "posting"} => s \in Busy
       /\ s.pc = "settled" => s \in Done
<1>1. Idle.pc = "idle"
  BY DEF Idle
<1>2. \A s \in Busy : s.pc \in {"acquiring", "posting"} /\ s.alert \in Alerts
  BY DEF Busy
<1>3. \A s \in Done : s.pc = "settled" /\ s.alert \in Alerts
  BY DEF Done
<1> QED BY <1>1, <1>2, <1>3

(* A sender's step leaves the other channels alone (AlertDispatcher has a   *)
(* pool for each).                                                          *)
LEMMA OneChannel ==
  ASSUME AlertsInv, NEW c \in Channels, UNCHANGED <<alerted, submitted>>, Shape', ChannelSound(c)',
         \A d \in Channels \ {c} : /\ queue'[d] = queue[d] /\ sender'[d] = sender[d]
                                   /\ delivered'[d] = delivered[d] /\ outcome'[d] = outcome[d]
                                   /\ stored'[d] = stored[d]
  PROVE  AlertsInv'
<1>1. ASSUME NEW d \in Channels \ {c} PROVE ChannelSound(d)'
  <2>1. QueueSound(d)' BY <1>1 DEF AlertsInv, ChannelSound, QueueSound, Untouched
  <2>2. SenderSound(d)' BY <1>1 DEF AlertsInv, ChannelSound, SenderSound
  <2>3. \A a \in Alerts : RowSound(d, a)' BY <1>1 DEF AlertsInv, ChannelSound, RowSound, Untouched
  <2> QED BY <2>1, <2>2, <2>3 DEF ChannelSound
<1>2. KeysSound' BY DEF AlertsInv, KeysSound
<1> QED BY <1>1, <1>2 DEF AlertsInv

(* A repeat is not submitted; what is submitted waits, or is dropped        *)
(* (submit).                                                                *)
LEMMA SubmitInvariant ==
  ASSUME AlertsInv, NEW a \in Alerts, Submit(a)
  PROVE  AlertsInv'
<1>1. /\ Key(a) \notin alerted /\ alerted' = alerted \cup {Key(a), Snapshot(a)}
      /\ submitted' = Append(submitted, a) /\ UNCHANGED <<sender, delivered, stored>>
  BY DEF Submit, Remembered, results, limiter
<1>2. /\ queue' = [c \in Channels |-> IF Accepts(c) THEN Append(queue[c], a) ELSE queue[c]]
      /\ outcome' = [c \in Channels |-> IF Accepts(c) THEN outcome[c] ELSE [outcome[c] EXCEPT ![a] = "dropped"]]
  BY DEF Submit
<1>3. Shape'
  <2>1. submitted' \in Seq(Alerts) BY <1>1 DEF AlertsInv, Shape
  <2>2. queue' \in [Channels -> Seq(Alerts)]
    <3>1. \A c \in Channels : Append(queue[c], a) \in Seq(Alerts) /\ queue[c] \in Seq(Alerts) BY DEF AlertsInv, Shape
    <3> QED BY <1>2, <3>1
  <2>3. outcome' \in [Channels -> [Alerts -> Outcomes \cup {"none"}]] BY <1>2 DEF AlertsInv, Shape, Outcomes
  <2> QED BY <1>1, <2>1, <2>2, <2>3 DEF AlertsInv, Shape
<1>4. KeysSound'
  <2>1. submitted \in Seq(Alerts) BY DEF AlertsInv, Shape
  <2>2. Len(submitted') = Len(submitted) + 1 /\ Len(submitted) \in Nat BY <1>1, <2>1
  <2>3. \A i \in 1..Len(submitted) : submitted'[i] = submitted[i] BY <1>1, <2>1
  <2>4. submitted'[Len(submitted) + 1] = a BY <1>1, <2>1
  <2>5. \A i \in 1..Len(submitted) : Key(a) # Snapshot(submitted[i])
    BY <1>1 DEF AlertsInv, KeysSound, Remembered
  <2>6. \A i \in 1..Len(submitted') : i \in 1..Len(submitted) \/ i = Len(submitted) + 1 BY <2>2
  <2>7. \A i \in 1..Len(submitted') : Remembered(submitted'[i]) \subseteq alerted'
    BY <1>1, <2>3, <2>4, <2>6 DEF AlertsInv, KeysSound, Remembered
  <2>8. ASSUME NEW i \in 1..Len(submitted'), NEW j \in 1..Len(submitted'), i < j
        PROVE  Key(submitted'[j]) # Snapshot(submitted'[i])
    <3>1. i \in 1..Len(submitted) /\ submitted'[i] = submitted[i] BY <2>2, <2>3, <2>8
    <3>2. CASE j \in 1..Len(submitted) BY <2>3, <2>8, <3>1, <3>2 DEF AlertsInv, KeysSound
    <3>3. CASE j = Len(submitted) + 1 BY <2>4, <2>5, <3>1, <3>3
    <3> QED BY <2>6, <3>2, <3>3
  <2> QED BY <2>7, <2>8 DEF KeysSound
<1>5. ASSUME NEW c \in Channels PROVE ChannelSound(c)'
  <2>1. /\ queue[c] \in Seq(Alerts) /\ Len(queue[c]) \in Nat /\ outcome[c] \in [Alerts -> Outcomes \cup {"none"}]
        /\ sender[c] \in {Idle} \cup Busy \cup Done
    BY DEF AlertsInv, Shape
  <2>2. Untouched(c, a) BY <1>1 DEF AlertsInv, ChannelSound, RowSound
  <2>3. \A i \in 1..Len(queue[c]) : queue[c][i] # a
    BY <1>1 DEF AlertsInv, ChannelSound, QueueSound
  <2>4. sender[c] # Idle => sender[c].alert # a /\ sender[c].alert \in Alerts
    BY <1>1, <2>1, Senders DEF AlertsInv, ChannelSound, SenderSound
  <2>5. CASE Accepts(c)
    <3>1. queue'[c] = Append(queue[c], a) /\ outcome'[c] = outcome[c] BY <1>2, <2>5
    <3>2. /\ Len(queue'[c]) = Len(queue[c]) + 1
          /\ \A i \in 1..Len(queue[c]) : queue'[c][i] = queue[c][i]
          /\ queue'[c][Len(queue[c]) + 1] = a
      BY <2>1, <3>1
    <3>3. \A i \in 1..Len(queue'[c]) : i \in 1..Len(queue[c]) \/ i = Len(queue[c]) + 1 BY <2>1, <3>2
    <3>4. QueueSound(c)'
      <4>1. Len(queue[c]) \in Nat /\ QueueSound(c)
        BY <2>1 DEF AlertsInv, ChannelSound
      <4>2. UNCHANGED <<delivered, stored>> /\ outcome'[c] = outcome[c] /\ Key(a) \in alerted' /\ alerted \subseteq alerted'
        BY <1>1, <3>1
      <4>3. ASSUME NEW i \in 1..Len(queue'[c])
            PROVE  /\ delivered'[c][queue'[c][i]] = 0 /\ outcome'[c][queue'[c][i]] = "none"
                   /\ stored'[c][queue'[c][i]] = <<>> /\ Key(queue'[c][i]) \in alerted'
        <5>1. CASE i = Len(queue[c]) + 1 BY <2>2, <3>2, <4>2, <5>1 DEF Untouched
        <5>2. CASE i \in 1..Len(queue[c]) BY <3>2, <4>1, <4>2, <5>2 DEF QueueSound, Untouched
        <5> QED BY <3>3, <5>1, <5>2
      <4>4. ASSUME NEW i \in 1..Len(queue'[c]), NEW j \in 1..Len(queue'[c]), i # j PROVE queue'[c][i] # queue'[c][j]
        BY <2>3, <3>2, <3>3, <4>1, <4>4 DEF QueueSound
      <4> QED BY <4>3, <4>4 DEF QueueSound, Untouched
    <3>5. SenderSound(c)'
      BY <1>1, <2>4, <3>1, <3>2, <3>3 DEF AlertsInv, ChannelSound, SenderSound
    <3>6. \A b \in Alerts : RowSound(c, b)'
      BY <1>1, <3>1 DEF AlertsInv, ChannelSound, RowSound, Untouched
    <3> QED BY <3>4, <3>5, <3>6 DEF ChannelSound
  <2>6. CASE ~Accepts(c)
    <3>1. queue'[c] = queue[c] /\ outcome'[c] = [outcome[c] EXCEPT ![a] = "dropped"] BY <1>2, <2>6
    <3>2. outcome'[c][a] = "dropped" /\ \A b \in Alerts \ {a} : outcome'[c][b] = outcome[c][b] BY <2>1, <3>1
    <3>3. \A i \in 1..Len(queue[c]) : queue[c][i] \in Alerts \ {a} BY <2>1, <2>3
    <3>4. QueueSound(c)'
      BY <1>1, <3>1, <3>2, <3>3 DEF AlertsInv, ChannelSound, QueueSound, Untouched
    <3>5. SenderSound(c)'
      BY <1>1, <2>4, <3>1, <3>2 DEF AlertsInv, ChannelSound, SenderSound
    <3>6. ASSUME NEW b \in Alerts PROVE RowSound(c, b)'
      <4>1. RowSound(c, b) BY DEF AlertsInv, ChannelSound
      <4>2. CASE b = a BY <1>1, <2>2, <3>2, <4>1, <4>2 DEF RowSound, Untouched, Honest
      <4>3. CASE b # a BY <1>1, <3>2, <4>1, <4>3 DEF RowSound, Untouched
      <4> QED BY <4>2, <4>3
    <3> QED BY <3>4, <3>5, <3>6 DEF ChannelSound
  <2> QED BY <2>5, <2>6
<1> QED BY <1>3, <1>4, <1>5 DEF AlertsInv

(* The sender takes the first of the queue, which nothing happened to yet   *)
(* (BoundedTaskPool).                                                       *)
LEMMA TakeInvariant ==
  ASSUME AlertsAssumption, AlertsInv, NEW c \in Channels, Take(c)
  PROVE  AlertsInv'
<1> DEFINE a == Head(queue[c])
           s == Acquiring(a, 1)
<1>1. /\ queue[c] \in Seq(Alerts) /\ queue[c] # <<>> /\ Len(queue[c]) \in Nat /\ a \in Alerts /\ a = queue[c][1]
      /\ sender[c] = Idle
  BY DEF AlertsInv, Shape, Take
<1>2. s \in Busy /\ s.alert = a /\ s # Idle /\ s \notin Done
  BY <1>1, Senders DEF Busy, Acquiring
<1>3. /\ sender' = [sender EXCEPT ![c] = s] /\ queue' = [queue EXCEPT ![c] = Tail(queue[c])]
      /\ UNCHANGED <<alerted, submitted, delivered, outcome, stored>>
  BY DEF Take, Becomes, results
<1> HIDE DEF s
<1>4. Tail(queue[c]) \in Seq(Alerts) /\ Len(Tail(queue[c])) = Len(queue[c]) - 1
  BY <1>1
<1>5. \A i \in 1..Len(queue[c]) - 1 : Tail(queue[c])[i] = queue[c][i + 1]
  BY <1>1
<1>6. Shape'
  BY <1>2, <1>3, <1>4 DEF AlertsInv, Shape
<1>7. queue'[c] = Tail(queue[c]) /\ sender'[c] = s
  BY <1>3 DEF AlertsInv, Shape
<1>8. \A i \in 1..Len(queue'[c]) : i + 1 \in 1..Len(queue[c]) /\ i + 1 # 1 /\ queue'[c][i] = queue[c][i + 1]
  BY <1>1, <1>4, <1>5, <1>7
<1>9. 1 \in 1..Len(queue[c])
  BY <1>1
<1>10. Untouched(c, a) /\ Key(a) \in alerted
  BY <1>1, <1>9 DEF AlertsInv, ChannelSound, QueueSound
<1>11. ChannelSound(c)'
  <2>a. /\ \A i \in 1..Len(queue[c]) : Untouched(c, queue[c][i]) /\ Key(queue[c][i]) \in alerted
        /\ \A i, j \in 1..Len(queue[c]) : i # j => queue[c][i] # queue[c][j]
    BY DEF AlertsInv, ChannelSound, QueueSound
  <2>1. QueueSound(c)'
    <3>1. ASSUME NEW i \in 1..Len(queue'[c]) PROVE (Untouched(c, queue[c][i]) /\ Key(queue[c][i]) \in alerted)'
      <4>1. Untouched(c, queue[c][i + 1]) /\ Key(queue[c][i + 1]) \in alerted BY <1>8, <2>a
      <4>2. queue'[c][i] = queue[c][i + 1] BY <1>8
      <4> QED BY <1>3, <4>1, <4>2 DEF Untouched
    <3>2. ASSUME NEW i \in 1..Len(queue'[c]), NEW j \in 1..Len(queue'[c]), i # j
          PROVE  queue'[c][i] # queue'[c][j]
      <4>1. i + 1 # j + 1 BY <3>2
      <4> QED BY <1>8, <2>a, <4>1
    <3> QED BY <3>1, <3>2 DEF QueueSound
  <2>2. SenderSound(c)'
    <3>1. ASSUME NEW i \in 1..Len(queue'[c]) PROVE queue'[c][i] # a
      <4>1. queue[c][i + 1] # queue[c][1] BY <1>8, <1>9, <2>a
      <4> QED BY <1>1, <1>8, <4>1
    <3>2. sender'[c] = s /\ s.alert = a /\ s \in Busy /\ s \notin Done BY <1>2, <1>7
    <3>3. /\ Key(a) \in alerted' /\ outcome'[c][a] = "none" /\ stored'[c][a] = <<>>
          /\ delivered'[c][a] = 0
      BY <1>3, <1>10 DEF Untouched
    <3> HIDE DEF a
    <3> QED BY <3>1, <3>2, <3>3 DEF SenderSound
  <2>3. \A b \in Alerts : RowSound(c, b)' BY <1>3 DEF AlertsInv, ChannelSound, RowSound, Untouched
  <2> QED BY <2>1, <2>2, <2>3 DEF ChannelSound
<1> QED BY <1>3, <1>6, <1>11, OneChannel DEF AlertsInv, Shape

(* While it waits, posts again or gives up, the sender keeps its alert, and *)
(* what it settles on is true of the messages taken (_send).                *)
LEMMA KeepsAlert ==
  ASSUME AlertsInv, NEW c \in Channels, sender[c] \in Busy, UNCHANGED <<alerted, submitted, queue, outcome, stored>>,
         NEW s \in Busy \cup Done, s.alert = sender[c].alert, sender' = [sender EXCEPT ![c] = s],
         NEW n \in {0, 1}, delivered' = [delivered EXCEPT ![c][s.alert] = n],
         s \in Busy => n = 0, s \in Done => Honest(s.outcome, n)
  PROVE  AlertsInv'
<1> DEFINE a == s.alert
<1>1. a \in Alerts /\ s # Idle /\ sender[c] # Idle
  BY Senders
<1>2. Shape'
  BY <1>1 DEF AlertsInv, Shape
<1>3. /\ sender'[c] = s /\ delivered'[c][a] = n
      /\ \A b \in Alerts \ {a} : delivered'[c][b] = delivered[c][b]
  BY <1>1 DEF AlertsInv, Shape
<1>4. Key(a) \in alerted /\ outcome[c][a] = "none" /\ stored[c][a] = <<>> /\ Len(stored[c][a]) = 0
  BY <1>1 DEF AlertsInv, ChannelSound, SenderSound
<1>5. \A i \in 1..Len(queue[c]) : queue[c][i] # a /\ queue[c][i] \in Alerts
  <2>1. queue[c] \in Seq(Alerts) BY DEF AlertsInv, Shape
  <2>2. \A i \in 1..Len(queue[c]) : queue[c][i] # a BY <1>1 DEF AlertsInv, ChannelSound, SenderSound
  <2> QED BY <2>1, <2>2
<1>6. ChannelSound(c)'
  <2>1. QueueSound(c)' BY <1>3, <1>5 DEF AlertsInv, ChannelSound, QueueSound, Untouched
  <2>2. SenderSound(c)' BY <1>3, <1>4, <1>5 DEF SenderSound
  <2>3. ASSUME NEW b \in Alerts PROVE RowSound(c, b)'
    <3>1. CASE b = a BY <1>3, <1>4, <3>1 DEF RowSound, Honest
    <3>2. CASE b # a BY <1>3, <3>2 DEF AlertsInv, ChannelSound, RowSound, Untouched
    <3> QED BY <3>1, <3>2
  <2> QED BY <2>1, <2>2, <2>3 DEF ChannelSound
<1> QED BY <1>1, <1>2, <1>6, OneChannel DEF AlertsInv, Shape

(* acquire: the slot, or "rate_limited" with no request made.               *)
LEMMA AcquireInvariant ==
  ASSUME AlertsInv, NEW c \in Channels, Acquire(c)
  PROVE  AlertsInv'
<1> DEFINE a == sender[c].alert
<1>1. sender[c] \in {Idle} \cup Busy \cup Done
  BY DEF AlertsInv, Shape
<1>2. sender[c] \in Busy /\ a \in Alerts
  BY <1>1, Senders DEF Acquire
<1>3. delivered[c][a] = 0
  BY <1>2 DEF AlertsInv, ChannelSound, SenderSound
<1>4. delivered' = [delivered EXCEPT ![c][a] = 0] /\ UNCHANGED <<alerted, submitted, queue, outcome, stored>>
  <2>1. UNCHANGED <<alerted, submitted, queue, delivered, outcome, stored>> BY DEF Acquire, results
  <2> QED BY <1>2, <1>3, <2>1 DEF AlertsInv, Shape
<1>5. CASE TakeSlot(c)
  <2> DEFINE s == [sender[c] EXCEPT !.pc = "posting"]
  <2>1. s \in Busy /\ s.alert = a BY <1>2 DEF Busy
  <2>2. sender' = [sender EXCEPT ![c] = s] BY <1>5 DEF TakeSlot, Becomes
  <2> QED BY <1>2, <1>4, <2>1, <2>2, KeepsAlert, Senders
<1>6. CASE Becomes(c, Settled(a, "rate_limited"))
  <2> DEFINE s == Settled(a, "rate_limited")
  <2>1. s \in Done /\ s.alert = a /\ s.outcome = "rate_limited" BY <1>2 DEF Done, Settled, Outcomes
  <2>2. sender' = [sender EXCEPT ![c] = s] BY <1>6 DEF Becomes
  <2>3. Honest(s.outcome, 0) BY <2>1 DEF Honest
  <2> HIDE DEF s
  <2> QED BY <1>2, <1>4, <2>1, <2>2, <2>3, KeepsAlert, Senders
<1> QED BY <1>5, <1>6 DEF Acquire

(* The reply: a message taken and not confirmed is neither posted again nor *)
(* recorded as given up (_post).                                            *)
LEMMA ReplyInvariant ==
  ASSUME AlertsAssumption, AlertsInv, NEW c \in Channels, Reply(c)
  PROVE  AlertsInv'
<1> DEFINE a == sender[c].alert
<1>1. sender[c] \in {Idle} \cup Busy \cup Done
  BY DEF AlertsInv, Shape
<1>2. sender[c] \in Busy /\ a \in Alerts /\ sender[c].attempt \in Nat
  BY <1>1, Senders DEF Reply, Busy
<1>3. delivered[c][a] = 0 /\ delivered \in [Channels -> [Alerts -> Nat]]
  BY <1>2 DEF AlertsInv, Shape, ChannelSound, SenderSound
<1>4. UNCHANGED <<alerted, submitted, queue, outcome, stored>>
  BY DEF Reply
<1>5. ASSUME UNCHANGED delivered PROVE delivered' = [delivered EXCEPT ![c][a] = 0]
  BY <1>2, <1>3, <1>5
<1>6. ASSUME Delivered(c, a) PROVE delivered' = [delivered EXCEPT ![c][a] = 1]
  BY <1>2, <1>3, <1>6 DEF Delivered
<1>7. ASSUME NEW o \in {"sent", "failed"}, NEW n \in {0, 1}, o = "sent" => n = 1,
             Becomes(c, Settled(a, o)), delivered' = [delivered EXCEPT ![c][a] = n]
      PROVE  AlertsInv'
  <2> DEFINE s == Settled(a, o)
  <2>1. s \in Done /\ s.alert = a /\ s.outcome = o BY <1>2 DEF Done, Settled, Outcomes
  <2>2. sender' = [sender EXCEPT ![c] = s] BY <1>7 DEF Becomes
  <2>3. Honest(s.outcome, n) BY <1>7, <2>1 DEF Honest
  <2> HIDE DEF s
  <2> QED BY <1>2, <1>4, <1>7, <2>1, <2>2, <2>3, KeepsAlert, Senders
<1>8. ASSUME Becomes(c, NextAttempt(sender[c])), UNCHANGED delivered
      PROVE  AlertsInv'
  <2> DEFINE s == NextAttempt(sender[c])
  <2>1. /\ s \in Busy \cup Done /\ s.alert = a
        /\ s \in Done => Honest(s.outcome, 0)
    <3>1. CASE sender[c].attempt < MaxAttempts
      <4>1. s = [pc |-> "acquiring", alert |-> a, attempt |-> sender[c].attempt + 1]
        BY <3>1 DEF NextAttempt, Acquiring
      <4>2. s \in Busy BY <1>2, <4>1 DEF Busy
      <4> QED BY <4>1, <4>2, Senders
    <3>2. CASE ~(sender[c].attempt < MaxAttempts)
      <4>1. s = [pc |-> "settled", alert |-> a, outcome |-> "rate_limited"]
        BY <3>2 DEF NextAttempt, Settled
      <4> QED BY <1>2, <4>1 DEF Done, Outcomes, Honest
    <3> QED BY <3>1, <3>2
  <2>2. sender' = [sender EXCEPT ![c] = s] BY <1>8 DEF Becomes
  <2>3. delivered' = [delivered EXCEPT ![c][a] = 0] BY <1>5, <1>8
  <2> HIDE DEF s
  <2> QED BY <1>2, <1>4, <2>1, <2>2, <2>3, KeepsAlert
<1>9. \/ Becomes(c, Settled(a, "sent")) /\ Delivered(c, a)
      \/ Becomes(c, Settled(a, "failed")) /\ UNCHANGED delivered
      \/ Becomes(c, NextAttempt(sender[c])) /\ UNCHANGED delivered
      \/ Becomes(c, Settled(a, "failed")) /\ (Delivered(c, a) \/ UNCHANGED delivered)
  BY DEF Reply, OutcomeOf, AfterError
<1> QED BY <1>5, <1>6, <1>7, <1>8, <1>9

(* The outcome is recorded once: the sender forgets the alert with it       *)
(* (_record).                                                               *)
LEMMA RecordInvariant ==
  ASSUME AlertsInv, NEW c \in Channels, Record(c)
  PROVE  AlertsInv'
<1> DEFINE a == sender[c].alert
           o == sender[c].outcome
<1>1. sender[c] \in {Idle} \cup Busy \cup Done
  BY DEF AlertsInv, Shape
<1>2. sender[c] \in Done /\ sender[c] # Idle /\ a \in Alerts /\ o \in Outcomes
  BY <1>1, Senders DEF Record, Done
<1>3. Key(a) \in alerted /\ stored[c][a] = <<>> /\ Honest(o, delivered[c][a])
  BY <1>2 DEF AlertsInv, ChannelSound, SenderSound
<1>4. /\ sender' = [sender EXCEPT ![c] = Idle] /\ outcome' = [outcome EXCEPT ![c][a] = o]
      /\ stored' = [stored EXCEPT ![c][a] = Append(@, o)] \/ UNCHANGED stored
      /\ UNCHANGED <<alerted, submitted, queue, delivered>>
  BY DEF Record, Becomes
<1>5. Shape'
  <2>1. sender' \in [Channels -> {Idle} \cup Busy \cup Done] BY <1>4 DEF AlertsInv, Shape
  <2>2. outcome' \in [Channels -> [Alerts -> Outcomes \cup {"none"}]] BY <1>2, <1>4 DEF AlertsInv, Shape
  <2>3. stored' \in [Channels -> [Alerts -> Seq(Outcomes)]]
    <3>1. Append(stored[c][a], o) \in Seq(Outcomes) BY <1>2 DEF AlertsInv, Shape
    <3>2. stored \in [Channels -> [Alerts -> Seq(Outcomes)]] BY DEF AlertsInv, Shape
    <3>3. CASE stored' = [stored EXCEPT ![c][a] = Append(@, o)] BY <1>2, <3>1, <3>2, <3>3
    <3> QED BY <1>4, <3>2, <3>3
  <2> QED BY <1>4, <2>1, <2>2, <2>3 DEF AlertsInv, Shape
<1>6. /\ sender'[c] = Idle /\ outcome'[c][a] = o
      /\ \A b \in Alerts \ {a} : outcome'[c][b] = outcome[c][b] /\ stored'[c][b] = stored[c][b]
      /\ \A d \in Channels \ {c} : outcome'[d] = outcome[d] /\ stored'[d] = stored[d] /\ sender'[d] = sender[d]
      /\ stored'[c][a] = <<o>> \/ stored'[c][a] = <<>>
  <2>1. stored \in [Channels -> [Alerts -> Seq(Outcomes)]] /\ outcome \in [Channels -> [Alerts -> Outcomes \cup {"none"}]]
        /\ sender \in [Channels -> {Idle} \cup Busy \cup Done]
    BY DEF AlertsInv, Shape
  <2>2. Append(stored[c][a], o) = <<o>> BY <1>3
  <2> QED BY <1>2, <1>3, <1>4, <2>1, <2>2
<1>7. \A i \in 1..Len(queue[c]) : queue[c][i] # a /\ queue[c][i] \in Alerts
  <2>1. queue[c] \in Seq(Alerts) BY DEF AlertsInv, Shape
  <2>2. \A i \in 1..Len(queue[c]) : queue[c][i] # a BY <1>2 DEF AlertsInv, ChannelSound, SenderSound
  <2> QED BY <2>1, <2>2
<1>8. ChannelSound(c)'
  <2>1. QueueSound(c)' BY <1>4, <1>6, <1>7, SMTT(30) DEF AlertsInv, ChannelSound, QueueSound, Untouched
  <2>2. SenderSound(c)' BY <1>6, Senders DEF SenderSound
  <2>3. ASSUME NEW b \in Alerts PROVE RowSound(c, b)'
    <3>1. RowSound(c, b) BY SMTT(30) DEF AlertsInv, ChannelSound
    <3>2. CASE b = a
      <4>1. \A i \in 1..Len(stored'[c][a]) : stored'[c][a][i] = o BY <1>6
      <4>2. Len(stored'[c][a]) <= 1
        <5>1. CASE stored'[c][a] = <<o>>
          <6>1. Len(<<o>>) = 1 OBVIOUS
          <6> QED BY <5>1, <6>1
        <5>2. CASE stored'[c][a] = <<>> BY <5>2
        <5> QED BY <1>6, <5>1, <5>2
      <4> QED BY <1>3, <1>4, <1>6, <3>1, <3>2, <4>1, <4>2 DEF RowSound
    <3>3. CASE b # a BY <1>4, <1>6, <3>1, <3>3 DEF RowSound, Untouched
    <3> QED BY <3>2, <3>3, SMTT(30)
  <2> QED BY <2>1, <2>2, <2>3, SMTT(30) DEF ChannelSound
<1> QED BY <1>4, <1>5, <1>6, <1>8, OneChannel

(* Every step keeps the invariant; close leaves an alert where it was, and  *)
(* the queue and the sender empty.                                          *)
LEMMA AlertsInductive ==
  ASSUME AlertsAssumption
  PROVE  AlertsInv /\ [Next]_vars => AlertsInv'
<1> SUFFICES ASSUME AlertsInv, [Next]_vars PROVE AlertsInv'
  OBVIOUS
<1>1. ASSUME NEW a \in Alerts, Submit(a) PROVE AlertsInv'
  BY <1>1, SubmitInvariant
<1>2. ASSUME NEW c \in Channels, Send(c) PROVE AlertsInv'
  BY <1>2, TakeInvariant, AcquireInvariant, ReplyInvariant, RecordInvariant DEF Send
<1>3. CASE Tick
  <2>1. UNCHANGED <<alerted, submitted, queue, sender, delivered, outcome, stored>> BY <1>3 DEF Tick, results
  <2> QED BY <2>1 DEF AlertsInv, Shape, KeysSound, ChannelSound, QueueSound, SenderSound, RowSound, Untouched
<1>4. CASE Close
  <2>1. /\ queue' = Each(<<>>) /\ sender' = Each(Idle)
        /\ UNCHANGED <<alerted, submitted, delivered, outcome, stored>>
    BY <1>4 DEF Close, results
  <2>2. Shape' BY <2>1 DEF AlertsInv, Shape, Each
  <2>3. KeysSound' BY <2>1 DEF AlertsInv, KeysSound
  <2>4. ASSUME NEW c \in Channels PROVE ChannelSound(c)'
    <3>1. queue'[c] = <<>> /\ sender'[c] = Idle BY <2>1 DEF Each
    <3>2. QueueSound(c)' BY <3>1 DEF QueueSound
    <3>3. SenderSound(c)' BY <3>1, Senders DEF SenderSound
    <3>4. \A a \in Alerts : RowSound(c, a)' BY <2>1 DEF AlertsInv, ChannelSound, RowSound, Untouched
    <3> QED BY <3>2, <3>3, <3>4 DEF ChannelSound
  <2> QED BY <2>2, <2>3, <2>4 DEF AlertsInv
<1>5. CASE UNCHANGED vars
  <2>1. UNCHANGED <<alerted, submitted, queue, sender, delivered, outcome, stored>> BY <1>5 DEF vars, results
  <2> QED BY <2>1 DEF AlertsInv, Shape, KeysSound, ChannelSound, QueueSound, SenderSound, RowSound, Untouched
<1> QED BY <1>1, <1>2, <1>3, <1>4, <1>5 DEF Next

(* A listing is alerted once on a channel, whatever is retried, times out,  *)
(* is approved again or closes, and its row says what happened (submit,     *)
(* _post, _record).                                                         *)
THEOREM OneMessageHolds == Spec => []OneMessage
<1>1. Init => AlertsInv
  <2> SUFFICES ASSUME Init PROVE AlertsInv
    OBVIOUS
  <2>1. Shape BY DEF Init, Shape, Each, Outcomes
  <2>2. KeysSound BY DEF Init, KeysSound
  <2>3. ASSUME NEW c \in Channels PROVE ChannelSound(c)
    <3>1. queue[c] = <<>> /\ sender[c] = Idle BY DEF Init, Each
    <3>2. \A a \in Alerts : delivered[c][a] = 0 /\ outcome[c][a] = "none" /\ stored[c][a] = <<>> BY DEF Init, Each
    <3>3. QueueSound(c) BY <3>1 DEF QueueSound
    <3>4. SenderSound(c) BY <3>1, Senders DEF SenderSound
    <3>5. \A a \in Alerts : RowSound(c, a) BY <3>2 DEF RowSound, Untouched, Honest
    <3> QED BY <3>3, <3>4, <3>5 DEF ChannelSound
  <2> QED BY <2>1, <2>2, <2>3 DEF AlertsInv
<1>2. AlertsInv /\ [Next]_vars => AlertsInv'
  BY AlertsAssumption, AlertsInductive
<1>3. AlertsInv => OneMessage
  <2> SUFFICES ASSUME AlertsInv PROVE OneMessage
    OBVIOUS
  <2>1. ASSUME NEW c \in Channels, NEW a \in Alerts, NEW o \in ToSet(stored[c][a]) \cup {outcome[c][a]}
        PROVE  Honest(o, delivered[c][a])
    BY DEF AlertsInv, Shape, ChannelSound, RowSound, ToSet
  <2>2. \A c \in Channels, a \in Alerts : delivered[c][a] <= 1 /\ Len(stored[c][a]) <= 1
    BY DEF AlertsInv, ChannelSound, RowSound
  <2> QED BY <2>1, <2>2 DEF AlertsInv, KeysSound, OneMessage, Honest
<1> QED BY <1>1, <1>2, <1>3, PTL DEF Spec

-----------------------------------------------------------------------------
(* Alerts: the limits of a channel.                                        *)

Ages == 0..Window - 1
Aging(ages) == ages \in Seq(Ages) /\ \A i, j \in 1..Len(ages) : i < j => ages[j] <= ages[i]

Trying == [pc : {"acquiring", "posting"}, alert : Alerts, attempt : 1..MaxAttempts]

PacedShape ==
    /\ alerted \subseteq {Key(a) : a \in Alerts} \cup {Snapshot(a) : a \in Alerts}
    /\ queue \in [Channels -> Seq(Alerts)]
    /\ sender \in [Channels -> {Idle} \cup Trying \cup Done]
    /\ sent \in [Channels -> Seq(Ages)] /\ posts \in [Channels -> Seq(Ages)]
    /\ paused \in [Channels -> Nat] /\ asked \in [Channels -> Nat]
    /\ outcome \in [Channels -> [Alerts -> Outcomes \cup {"none"}]]
    /\ stored \in [Channels -> [Alerts -> Seq(Outcomes)]]

\* The limiter knows of every request of the window and of every pause asked for.
LimiterSound(c) ==
    /\ Len(queue[c]) <= QueueSize
    /\ Aging(sent[c]) /\ Len(sent[c]) <= MaxPerWindow
    /\ posts[c] = sent[c] /\ asked[c] = paused[c]
    /\ sender[c].pc = "posting" => paused[c] = 0

PacedInv == PacedShape /\ \A c \in Channels : LimiterSound(c)

(* The sends that leave the window are the first ones (wait_seconds).       *)
LEMMA ExpiredFirst ==
  ASSUME Window \in Nat, NEW ages \in Seq(Ages)
  PROVE  /\ Expired(ages) \in 0..Len(ages)
         /\ Expired(ages) < Len(ages) => ages[Expired(ages) + 1] + 1 < Window
<1> DEFINE Fresh == {n \in Nat : n = Len(ages) \/ (n < Len(ages) /\ ages[n + 1] + 1 < Window)}
<1>1. Len(ages) \in Nat /\ Len(ages) \in Fresh
  OBVIOUS
<1>2. PICK first \in Fresh : \A m \in Fresh : first <= m
  <2>1. Fresh \subseteq Nat /\ Fresh # {} BY <1>1
  <2> QED BY <2>1, Least
<1>3. \A i \in 1..Len(ages) : ages[i] \in Nat
  BY DEF Ages
<1>4. first \in 0..Len(ages)
  BY <1>1, <1>2
<1>5. ASSUME NEW i \in 1..first PROVE ages[i] + 1 >= Window
  <2>1. i - 1 \in Nat /\ i - 1 < Len(ages) /\ ~(first <= i - 1) BY <1>1, <1>4
  <2>2. i - 1 \notin Fresh BY <1>2, <2>1
  <2>3. ~(ages[(i - 1) + 1] + 1 < Window) /\ (i - 1) + 1 = i BY <2>1, <2>2
  <2>4. ages[i] \in Nat BY <1>3, <1>4, <1>1
  <2> QED BY <2>3, <2>4
<1>6. first < Len(ages) => ages[first + 1] + 1 < Window
  BY <1>1, <1>2
<1>7. \E n \in 0..Len(ages) : /\ \A i \in 1..n : ages[i] + 1 >= Window
                              /\ n < Len(ages) => ages[n + 1] + 1 < Window
  BY <1>4, <1>5, <1>6
<1> QED BY <1>7 DEF Expired

(* What is left of a window after a tick is a window (wait_seconds).        *)
LEMMA OlderAges ==
  ASSUME Window \in Nat, NEW ages, Aging(ages)
  PROVE  Aging(Older(ages)) /\ Len(Older(ages)) <= Len(ages)
<1> DEFINE n == Expired(ages)
           older == [i \in 1..Len(ages) |-> ages[i] + 1]
           left_over == SubSeq(older, n + 1, Len(ages))
<1>1. ages \in Seq(Ages) /\ Len(ages) \in Nat /\ \A i \in 1..Len(ages) : ages[i] \in Nat
  BY DEF Aging, Ages
<1>2. n \in 0..Len(ages) /\ (n < Len(ages) => ages[n + 1] + 1 < Window)
  BY <1>1, ExpiredFirst
<1>3. older \in Seq(Nat) /\ Len(older) = Len(ages)
  BY <1>1
<1> HIDE DEF n
<1>4. /\ left_over \in Seq(Nat) /\ Len(left_over) = Len(ages) - n
      /\ \A i \in 1..Len(ages) - n : left_over[i] = older[n + i] /\ older[n + i] = ages[n + i] + 1
  <2>1. n + 1 \in Int /\ Len(ages) \in Int /\ \A i \in n + 1..Len(ages) : older[i] \in Nat BY <1>1, <1>2
  <2>2. /\ left_over \in Seq(Nat)
        /\ Len(left_over) = IF n + 1 <= Len(ages) THEN Len(ages) - (n + 1) + 1 ELSE 0
        /\ \A i \in 1..Len(ages) - (n + 1) + 1 : left_over[i] = older[n + 1 + i - 1]
    <3> HIDE DEF older
    <3> QED BY <2>1, SliceOf
  <2> HIDE DEF left_over
  <2>3. Len(left_over) = Len(ages) - n BY <1>1, <1>2, <2>2
  <2>4. ASSUME NEW i \in 1..Len(ages) - n
        PROVE  left_over[i] = older[n + i] /\ older[n + i] = ages[n + i] + 1
    <3>1. n + 1 + i - 1 = n + i /\ n + i \in 1..Len(ages) /\ i \in 1..Len(ages) - (n + 1) + 1 BY <1>1, <1>2
    <3> QED BY <2>2, <3>1
  <2> QED BY <2>2, <2>3, <2>4
<1>9. Older(ages) = left_over
  BY DEF Older, n
<1> HIDE DEF left_over, older
<1>6. ASSUME NEW i \in 1..Len(ages) - n PROVE left_over[i] \in Ages
  <2>1. n < Len(ages) /\ n + i \in 1..Len(ages) /\ n + 1 \in 1..Len(ages) BY <1>1, <1>2
  <2>2. ages[n + i] <= ages[n + 1]
    <3>1. CASE i = 1 BY <1>1, <2>1, <3>1
    <3>2. CASE i # 1
      <4>1. n + 1 < n + i BY <1>2, <3>2
      <4> QED BY <2>1, <4>1 DEF Aging
    <3> QED BY <3>1, <3>2
  <2>3. ages[n + i] \in Nat /\ ages[n + 1] \in Nat /\ ages[n + 1] + 1 < Window BY <1>1, <1>2, <2>1
  <2>4. left_over[i] = ages[n + i] + 1 BY <1>4
  <2>5. left_over[i] \in Nat /\ left_over[i] < Window BY <2>1, <2>2, <2>3, <2>4
  <2> QED BY <2>5 DEF Ages
<1>7. left_over \in Seq(Ages)
  <2>1. Len(left_over) \in Nat /\ \A i \in 1..Len(left_over) : left_over[i] \in Ages BY <1>4, <1>6
  <2>2. left_over = [i \in 1..Len(left_over) |-> left_over[i]] BY <1>4
  <2> QED BY <2>1, <2>2
<1>8. ASSUME NEW i \in 1..Len(left_over), NEW j \in 1..Len(left_over), i < j PROVE left_over[j] <= left_over[i]
  <2>1. /\ n + i \in 1..Len(ages) /\ n + j \in 1..Len(ages) /\ n + i < n + j
        /\ left_over[i] = ages[n + i] + 1 /\ left_over[j] = ages[n + j] + 1
    BY <1>1, <1>2, <1>4, <1>8
  <2>2. ages[n + j] <= ages[n + i] BY <2>1 DEF Aging
  <2> QED BY <1>1, <2>1, <2>2
<1>10. Len(left_over) <= Len(ages)
  BY <1>1, <1>2, <1>4
<1> QED BY <1>7, <1>8, <1>9, <1>10 DEF Aging

(* What the sender may be.                                                  *)
LEMMA SenderIs ==
  ASSUME AlertsAssumption, NEW s \in {Idle} \cup Trying \cup Done
  PROVE  /\ s.pc \in {"acquiring", "posting"} => s \in Trying /\ s.alert \in Alerts /\ s.attempt \in 1..MaxAttempts
         /\ s.pc = "settled" => s \in Done /\ s.alert \in Alerts /\ s.outcome \in Outcomes
         /\ s \in Trying => s.pc \in {"acquiring", "posting"}
         /\ s \in Done => s.pc = "settled"
  BY DEF Idle, Trying, Done

(* A sender's step leaves the other channels alone.                         *)
LEMMA OneLimiter ==
  ASSUME PacedInv, NEW c \in Channels, PacedShape', LimiterSound(c)',
         \A d \in Channels \ {c} : /\ queue'[d] = queue[d] /\ sender'[d] = sender[d] /\ sent'[d] = sent[d]
                                   /\ posts'[d] = posts[d] /\ paused'[d] = paused[d] /\ asked'[d] = asked[d]
  PROVE  PacedInv'
<1>1. ASSUME NEW d \in Channels \ {c} PROVE LimiterSound(d)'
  BY <1>1 DEF PacedInv, LimiterSound, Aging
<1> QED BY <1>1 DEF PacedInv

(* The sender becomes another one and nothing else of the limiter changes.  *)
LEMMA Steps ==
  ASSUME AlertsAssumption, PacedInv, NEW c \in Channels, NEW s \in {Idle} \cup Trying \cup Done, s.pc # "posting",
         sender' = [sender EXCEPT ![c] = s], UNCHANGED <<alerted, sent, posts>>,
         queue' \in [Channels -> Seq(Alerts)], Len(queue'[c]) <= QueueSize,
         \A d \in Channels \ {c} : queue'[d] = queue[d],
         outcome' \in [Channels -> [Alerts -> Outcomes \cup {"none"}]],
         stored' \in [Channels -> [Alerts -> Seq(Outcomes)]],
         NEW r \in Nat,
         paused' = [paused EXCEPT ![c] = r], asked' = [asked EXCEPT ![c] = r]
  PROVE  PacedInv'
<1>1. PacedShape'
  BY DEF PacedInv, PacedShape
<1>2. LimiterSound(c)'
  BY DEF PacedInv, PacedShape, LimiterSound, Aging
<1>3. \A d \in Channels \ {c} : /\ queue'[d] = queue[d] /\ sender'[d] = sender[d] /\ sent'[d] = sent[d]
                                /\ posts'[d] = posts[d] /\ paused'[d] = paused[d] /\ asked'[d] = asked[d]
  BY DEF PacedInv, PacedShape
<1> QED BY <1>1, <1>2, <1>3, OneLimiter

(* A slot is taken only when there is one and no pause (acquire).           *)
LEMMA SlotIsFree ==
  ASSUME AlertsAssumption, PacedInv, NEW c \in Channels, WaitTime(c) = 0
  PROVE  paused[c] = 0 /\ Len(sent[c]) < MaxPerWindow
<1>1. paused[c] \in Nat /\ sent[c] \in Seq(Ages) /\ Len(sent[c]) <= MaxPerWindow /\ Len(sent[c]) \in Nat
  BY DEF PacedInv, PacedShape, LimiterSound
<1>2. MaxPerWindow \in Nat \ {0} /\ Window \in Nat
  BY DEF AlertsAssumption
<1>3. CASE Len(sent[c]) >= MaxPerWindow
  <2>1. sent[c][1] \in Ages BY <1>1, <1>2, <1>3
  <2>2. Window - sent[c][1] \in Nat /\ Window - sent[c][1] > 0 BY <1>2, <2>1 DEF Ages
  <2>3. WaitTime(c) = Longer(paused[c], Window - sent[c][1]) BY <1>3 DEF WaitTime
  <2> QED BY <1>1, <2>2, <2>3 DEF Longer
<1>4. CASE ~(Len(sent[c]) >= MaxPerWindow)
  <2>1. WaitTime(c) = Longer(paused[c], 0) BY <1>4 DEF WaitTime
  <2> QED BY <1>1, <1>2, <1>4, <2>1 DEF Longer
<1> QED BY <1>3, <1>4

LEMMA SlotInvariant ==
  ASSUME AlertsAssumption, PacedInv, NEW c \in Channels, sender[c].pc = "acquiring", TakeSlot(c),
         UNCHANGED <<alerted, queue, paused, asked, outcome, stored>>
  PROVE  PacedInv'
<1> DEFINE s == [sender[c] EXCEPT !.pc = "posting"]
<1>1. paused[c] = 0 /\ Len(sent[c]) < MaxPerWindow
  BY SlotIsFree DEF TakeSlot
<1>2. sender[c] \in Trying /\ s \in Trying
  <2>1. sender[c] \in Trying BY SenderIs DEF PacedInv, PacedShape
  <2> QED BY <2>1 DEF Trying
<1>3. /\ sender' = [sender EXCEPT ![c] = s]
      /\ sent' = [sent EXCEPT ![c] = Append(@, 0)] /\ posts' = [posts EXCEPT ![c] = Append(@, 0)]
  BY DEF TakeSlot, Becomes
<1>4. 0 \in Ages /\ MaxPerWindow \in Nat
  BY DEF AlertsAssumption, Ages
<1>5. /\ sent[c] \in Seq(Ages) /\ posts[c] = sent[c] /\ Aging(sent[c])
  BY DEF PacedInv, PacedShape, LimiterSound
<1>6. Append(sent[c], 0) \in Seq(Ages) /\ Len(Append(sent[c], 0)) = Len(sent[c]) + 1
  BY <1>4, <1>5
<1>7. Aging(Append(sent[c], 0))
  <2> DEFINE q == Append(sent[c], 0)
  <2>1. Len(sent[c]) \in Nat /\ q[Len(sent[c]) + 1] = 0 /\ \A i \in 1..Len(sent[c]) : q[i] = sent[c][i] BY <1>5
  <2>2. \A i \in 1..Len(sent[c]) : sent[c][i] \in Nat BY <1>5 DEF Ages
  <2>3. ASSUME NEW i \in 1..Len(q), NEW j \in 1..Len(q), i < j PROVE q[j] <= q[i]
    <3>1. i \in 1..Len(sent[c]) BY <1>6, <2>1, <2>3
    <3>2. CASE j \in 1..Len(sent[c]) BY <1>5, <2>1, <2>3, <3>1, <3>2 DEF Aging
    <3>3. CASE j = Len(sent[c]) + 1 BY <2>1, <2>2, <3>1, <3>3
    <3> QED BY <1>6, <2>1, <3>2, <3>3
  <2> HIDE DEF q
  <2>4. q \in Seq(Ages) BY <1>6 DEF q
  <2> QED BY <2>3, <2>4 DEF Aging, q
<1>8. PacedShape'
  BY <1>2, <1>3, <1>5, <1>6 DEF PacedInv, PacedShape
<1>9. LimiterSound(c)'
  <2>1. sent'[c] = Append(sent[c], 0) /\ posts'[c] = Append(sent[c], 0)
    BY <1>3, <1>5 DEF PacedInv, PacedShape
  <2>2. Aging(sent[c])' BY <1>7, <2>1 DEF Aging, Ages
  <2>3. Len(sent'[c]) <= MaxPerWindow BY <1>1, <1>4, <1>5, <1>6, <2>1
  <2> QED BY <1>1, <2>1, <2>2, <2>3 DEF PacedInv, PacedShape, LimiterSound
<1>10. \A d \in Channels \ {c} : /\ queue'[d] = queue[d] /\ sender'[d] = sender[d] /\ sent'[d] = sent[d]
                                 /\ posts'[d] = posts[d] /\ paused'[d] = paused[d] /\ asked'[d] = asked[d]
  BY <1>3 DEF PacedInv, PacedShape
<1> QED BY <1>8, <1>9, <1>10, OneLimiter

(* Every step of the dispatcher and of time keeps the limiters sound.       *)
LEMMA PacedInductive == PacedInv /\ [Next]_vars => PacedInv'
<1> SUFFICES ASSUME PacedInv, [Next]_vars PROVE PacedInv'
  OBVIOUS
<1> USE AlertsAssumption
<1>s. /\ PacedShape
      /\ \A c \in Channels : /\ sender[c] \in {Idle} \cup Trying \cup Done /\ paused[c] \in Nat /\ asked[c] = paused[c]
                             /\ paused = [paused EXCEPT ![c] = paused[c]] /\ asked = [asked EXCEPT ![c] = paused[c]]
  BY DEF PacedInv, PacedShape, LimiterSound
<1>q. \A c \in Channels : queue \in [Channels -> Seq(Alerts)] /\ Len(queue[c]) <= QueueSize
  BY DEF PacedInv, PacedShape, LimiterSound
<1>n. Idle.pc # "posting" /\ MaxAttempts \in Nat \ {0} /\ RetryAfters \subseteq Nat
  BY DEF Idle, AlertsAssumption
<1>1. ASSUME NEW a \in Alerts, Submit(a) PROVE PacedInv'
  <2>1. UNCHANGED <<sender, sent, posts, paused, asked, stored>> BY <1>1 DEF Submit, limiter
  <2>2. alerted' \subseteq {Key(b) : b \in Alerts} \cup {Snapshot(b) : b \in Alerts}
    BY <1>1, <1>s DEF PacedShape, Submit, Remembered
  <2>3. \A c \in Channels : /\ queue[c] \in Seq(Alerts) /\ Append(queue[c], a) \in Seq(Alerts)
                           /\ Len(Append(queue[c], a)) = Len(queue[c]) + 1 /\ Len(queue[c]) \in Nat
    BY <1>s DEF PacedShape
  <2>4. queue' \in [Channels -> Seq(Alerts)] BY <1>1, <2>3 DEF Submit
  <2>5. \A c \in Channels : Len(queue'[c]) <= QueueSize
    BY <1>1, <2>3 DEF Submit, Accepts, PacedInv, LimiterSound, AlertsAssumption
  <2>6. outcome' \in [Channels -> [Alerts -> Outcomes \cup {"none"}]]
    BY <1>1, <1>s DEF PacedShape, Submit, Outcomes
  <2>7. PacedShape' BY <1>s, <2>1, <2>2, <2>4, <2>6 DEF PacedShape
  <2>8. \A c \in Channels : LimiterSound(c)' BY <2>1, <2>5 DEF PacedInv, LimiterSound, Aging
  <2> QED BY <2>7, <2>8 DEF PacedInv
<1>2. ASSUME NEW c \in Channels, Take(c) PROVE PacedInv'
  <2> DEFINE s == Acquiring(Head(queue[c]), 1)
  <2>1. queue[c] # <<>> /\ queue[c] \in Seq(Alerts) BY <1>2, <1>s DEF Take, PacedShape
  <2>2. Head(queue[c]) \in Alerts BY <2>1
  <2>3. s \in Trying /\ s.pc # "posting" BY <1>n, <2>2 DEF Acquiring, Trying
  <2>4. /\ sender' = [sender EXCEPT ![c] = s] /\ queue' = [queue EXCEPT ![c] = Tail(@)]
        /\ UNCHANGED <<alerted, sent, posts, paused, asked, outcome, stored>>
    BY <1>2 DEF Take, Becomes, limiter, results
  <2>5. outcome' \in [Channels -> [Alerts -> Outcomes \cup {"none"}]] /\ stored' \in [Channels -> [Alerts -> Seq(Outcomes)]]
    BY <1>s, <2>4 DEF PacedShape
  <2>6. Tail(queue[c]) \in Seq(Alerts) /\ Len(Tail(queue[c])) = Len(queue[c]) - 1 /\ Len(queue[c]) \in Nat BY <2>1
  <2>7. /\ queue' \in [Channels -> Seq(Alerts)] /\ queue'[c] = Tail(queue[c])
        /\ \A d \in Channels \ {c} : queue'[d] = queue[d]
    BY <1>s, <2>4, <2>6 DEF PacedShape
  <2>8. Len(queue'[c]) <= QueueSize
    BY <2>6, <2>7 DEF PacedInv, LimiterSound, AlertsAssumption
  <2> HIDE DEF s
  <2> QED BY <1>s, <2>3, <2>4, <2>5, <2>7, <2>8, Steps, ZenonT(60)
<1>3. ASSUME NEW c \in Channels, Acquire(c) PROVE PacedInv'
  <2>1. UNCHANGED <<alerted, queue, paused, asked, outcome, stored>> /\ sender[c].pc = "acquiring"
    BY <1>3 DEF Acquire, results
  <2>2. CASE TakeSlot(c) BY <2>1, <2>2, SlotInvariant
  <2>3. CASE Becomes(c, Settled(sender[c].alert, "rate_limited")) /\ UNCHANGED <<sent, posts>>
    <3> DEFINE s == Settled(sender[c].alert, "rate_limited")
    <3>1. sender[c].alert \in Alerts BY <1>s, <2>1, SenderIs
    <3>2. s \in Done /\ s.pc # "posting" BY <3>1 DEF Settled, Done, Outcomes
    <3>3. sender' = [sender EXCEPT ![c] = s] BY <2>3 DEF Becomes
    <3>4. outcome' \in [Channels -> [Alerts -> Outcomes \cup {"none"}]] /\ stored' \in [Channels -> [Alerts -> Seq(Outcomes)]]
      BY <1>s, <2>1 DEF PacedShape
    <3>5. /\ UNCHANGED <<alerted, sent, posts, queue>> /\ paused[c] \in Nat
          /\ paused' = [paused EXCEPT ![c] = paused[c]] /\ asked' = [asked EXCEPT ![c] = paused[c]]
      BY <1>s, <2>1, <2>3
    <3> HIDE DEF s
    <3> QED BY <1>q, <3>2, <3>3, <3>4, <3>5, Steps
  <2> QED BY <1>3, <2>2, <2>3 DEF Acquire
<1>4. ASSUME NEW c \in Channels, Reply(c) PROVE PacedInv'
  <2>1. UNCHANGED <<alerted, queue, sent, posts, outcome, stored>> /\ sender[c].pc = "posting"
    BY <1>4 DEF Reply
  <2>2. sender[c].alert \in Alerts /\ sender[c].attempt \in 1..MaxAttempts BY <1>s, <2>1, SenderIs
  <2>3. outcome' \in [Channels -> [Alerts -> Outcomes \cup {"none"}]] /\ stored' \in [Channels -> [Alerts -> Seq(Outcomes)]]
    BY <1>s, <2>1 DEF PacedShape
  <2>4. ASSUME NEW o \in {"sent", "failed"}, Becomes(c, Settled(sender[c].alert, o)), UNCHANGED <<paused, asked>>
        PROVE  PacedInv'
    <3> DEFINE s == Settled(sender[c].alert, o)
    <3>1. s \in Done /\ s.pc # "posting" BY <2>2 DEF Settled, Done, Outcomes
    <3>2. sender' = [sender EXCEPT ![c] = s] BY <2>4 DEF Becomes
    <3>3. /\ UNCHANGED <<alerted, sent, posts, queue>> /\ paused[c] \in Nat
          /\ paused' = [paused EXCEPT ![c] = paused[c]] /\ asked' = [asked EXCEPT ![c] = paused[c]]
      BY <1>s, <2>1, <2>4
    <3> HIDE DEF s
    <3> QED BY <1>q, <2>3, <3>1, <3>2, <3>3, Steps
  <2>5. ASSUME NEW r \in RetryAfters,
               paused' = [paused EXCEPT ![c] = Longer(@, r)], asked' = [asked EXCEPT ![c] = Longer(@, r)],
               Becomes(c, NextAttempt(sender[c]))
        PROVE  PacedInv'
    <3> DEFINE s == NextAttempt(sender[c])
               q == Longer(paused[c], r)
    <3>1. s \in Trying \cup Done /\ s.pc # "posting"
      <4>1. CASE sender[c].attempt < MaxAttempts
        <5>1. sender[c].attempt + 1 \in 1..MaxAttempts BY <1>n, <2>2, <4>1
        <5> QED BY <2>2, <4>1, <5>1 DEF NextAttempt, Acquiring, Trying
      <4>2. CASE ~(sender[c].attempt < MaxAttempts)
        BY <2>2, <4>2 DEF NextAttempt, Settled, Done, Outcomes
      <4> QED BY <4>1, <4>2
    <3>2. sender' = [sender EXCEPT ![c] = s] BY <2>5 DEF Becomes
    <3>3. q \in Nat BY <1>s, <1>n DEF Longer
    <3>4. paused' = [paused EXCEPT ![c] = q] /\ asked' = [asked EXCEPT ![c] = q] BY <1>s, <2>5 DEF PacedShape
    <3>5. UNCHANGED <<alerted, sent, posts, queue>> BY <2>1
    <3> HIDE DEF s, q
    <3> QED BY <1>q, <2>3, <3>1, <1>q, <3>2, <3>3, <3>4, <3>5, Steps
  <2>6. \/ \E o \in {"sent", "failed"} : Becomes(c, Settled(sender[c].alert, o)) /\ UNCHANGED <<paused, asked>>
        \/ \E r \in RetryAfters : /\ paused' = [paused EXCEPT ![c] = Longer(@, r)]
                                 /\ asked' = [asked EXCEPT ![c] = Longer(@, r)]
                                 /\ Becomes(c, NextAttempt(sender[c]))
    BY <1>4 DEF Reply, OutcomeOf, AfterError
  <2> QED BY <2>4, <2>5, <2>6
<1>5. ASSUME NEW c \in Channels, Record(c) PROVE PacedInv'
  <2>1. /\ UNCHANGED <<alerted, queue, sent, posts, paused, asked>> /\ sender[c].pc = "settled"
        /\ sender' = [sender EXCEPT ![c] = Idle]
    BY <1>5 DEF Record, limiter, Becomes
  <2>2. sender[c].alert \in Alerts /\ sender[c].outcome \in Outcomes BY <1>s, <2>1, SenderIs
  <2>3. outcome' \in [Channels -> [Alerts -> Outcomes \cup {"none"}]]
    BY <1>5, <1>s, <2>2 DEF Record, PacedShape
  <2>4. stored' \in [Channels -> [Alerts -> Seq(Outcomes)]]
    <3>1. stored \in [Channels -> [Alerts -> Seq(Outcomes)]] BY <1>s DEF PacedShape
    <3>2. Append(stored[c][sender[c].alert], sender[c].outcome) \in Seq(Outcomes) BY <2>2, <3>1
    <3>3. \/ stored' = [stored EXCEPT ![c][sender[c].alert] = Append(@, sender[c].outcome)] \/ UNCHANGED stored
      BY <1>5 DEF Record
    <3>4. CASE stored' = [stored EXCEPT ![c][sender[c].alert] = Append(@, sender[c].outcome)] BY <2>2, <3>1, <3>2, <3>4
    <3> QED BY <3>1, <3>3, <3>4
  <2>5. /\ UNCHANGED <<alerted, sent, posts, queue>> /\ paused[c] \in Nat
        /\ paused' = [paused EXCEPT ![c] = paused[c]] /\ asked' = [asked EXCEPT ![c] = paused[c]]
    BY <1>s, <2>1
  <2> QED BY <1>n, <1>q, <2>1, <2>3, <2>4, <2>5, Steps
<1>6. CASE Tick
  <2>1. /\ sent' = [c \in Channels |-> Older(sent[c])] /\ posts' = [c \in Channels |-> Older(posts[c])]
        /\ paused' = [c \in Channels |-> Shorter(paused[c])] /\ asked' = [c \in Channels |-> Shorter(asked[c])]
        /\ UNCHANGED <<alerted, queue, sender, outcome, stored>>
    BY <1>6 DEF Tick, results
  <2>2. ASSUME NEW c \in Channels
        PROVE  /\ Aging(Older(sent[c])) /\ Len(Older(sent[c])) <= MaxPerWindow /\ Older(posts[c]) = Older(sent[c])
               /\ Shorter(paused[c]) \in Nat /\ (paused[c] = 0 => Shorter(paused[c]) = 0)
    <3>1. /\ Aging(sent[c]) /\ Len(sent[c]) <= MaxPerWindow /\ posts[c] = sent[c]
          /\ Len(sent[c]) \in Nat /\ Window \in Nat /\ MaxPerWindow \in Nat
      BY <1>s DEF PacedInv, PacedShape, LimiterSound, AlertsAssumption
    <3>2. Aging(Older(sent[c])) /\ Len(Older(sent[c])) <= Len(sent[c]) BY <3>1, OlderAges
    <3>3. Len(Older(sent[c])) \in Nat BY <3>2 DEF Aging
    <3>4. Shorter(paused[c]) \in Nat /\ (paused[c] = 0 => Shorter(paused[c]) = 0) BY <1>s DEF Shorter
    <3> QED BY <3>1, <3>2, <3>3, <3>4
  <2>3. PacedShape'
    <3>1. \A c \in Channels : Older(sent[c]) \in Seq(Ages) /\ Older(posts[c]) \in Seq(Ages) BY <2>2 DEF Aging
    <3>2. sent' \in [Channels -> Seq(Ages)] /\ posts' \in [Channels -> Seq(Ages)] BY <2>1, <3>1
    <3>3. paused' \in [Channels -> Nat] /\ asked' \in [Channels -> Nat] BY <1>s, <2>1, <2>2
    <3> QED BY <1>s, <2>1, <3>2, <3>3 DEF PacedShape
  <2>4. ASSUME NEW c \in Channels PROVE LimiterSound(c)'
    <3>1. /\ sent'[c] = Older(sent[c]) /\ posts'[c] = Older(posts[c])
          /\ paused'[c] = Shorter(paused[c]) /\ asked'[c] = Shorter(asked[c])
      BY <2>1
    <3>2. Aging(sent[c])' BY <2>2, <3>1 DEF Aging, Ages
    <3>3. Len(queue[c]) <= QueueSize /\ (sender[c].pc = "posting" => paused[c] = 0) BY DEF PacedInv, LimiterSound
    <3> QED BY <1>s, <2>1, <2>2, <3>1, <3>2, <3>3 DEF LimiterSound
  <2> QED BY <2>3, <2>4 DEF PacedInv
<1>7. CASE Close
  <2>1. /\ \A c \in Channels : queue'[c] = <<>> /\ sender'[c] = Idle
        /\ queue' = [c \in Channels |-> <<>>] /\ sender' = [c \in Channels |-> Idle]
        /\ UNCHANGED <<alerted, sent, posts, paused, asked, outcome, stored>>
    BY <1>7 DEF Close, Each, limiter, results
  <2>2. PacedShape' BY <1>s, <2>1 DEF PacedShape
  <2>3. \A c \in Channels : LimiterSound(c)'
    BY <1>n, <2>1 DEF PacedInv, LimiterSound, Aging, AlertsAssumption
  <2> QED BY <2>2, <2>3 DEF PacedInv
<1>8. CASE UNCHANGED vars
  BY <1>8 DEF PacedInv, PacedShape, LimiterSound, Aging, vars
<1> QED BY <1>1, <1>2, <1>3, <1>4, <1>5, <1>6, <1>7, <1>8 DEF Next, Send

(* A channel's provider gets at most MaxPerWindow requests in any window    *)
(* and none within a pause that a 429 asked for, for any limits, pauses and *)
(* alerts: the limiter counts every request when it is made, and looks      *)
(* again after every sleep (RateLimiter).                                   *)
THEOREM PacedHolds == Spec => []Paced
<1>1. Init => PacedInv
  <2> SUFFICES ASSUME Init PROVE PacedInv
    OBVIOUS
  <2>1. PacedShape BY DEF Init, PacedShape, Each, Outcomes
  <2>2. \A c \in Channels : LimiterSound(c)
    BY AlertsAssumption DEF Init, LimiterSound, Each, Aging, Idle, AlertsAssumption
  <2> QED BY <2>1, <2>2 DEF PacedInv
<1>2. PacedInv /\ [Next]_vars => PacedInv'
  BY PacedInductive
<1>3. PacedInv => Paced
  <2> SUFFICES ASSUME PacedInv PROVE Paced
    OBVIOUS
  <2>1. TypeOK
    <3> SUFFICES ASSUME NEW c \in Channels
                 PROVE  /\ queue[c] \in Seq(Alerts) /\ Len(queue[c]) <= QueueSize
                        /\ sender[c] \in {Idle} \cup Trying \cup Done
                        /\ sent[c] \in Seq(Ages) /\ Len(sent[c]) <= MaxPerWindow
                        /\ \A a \in Alerts : outcome[c][a] \in Outcomes \cup {"none"} /\ stored[c][a] \in Seq(Outcomes)
      BY DEF PacedInv, PacedShape, TypeOK, Trying, Done, Ages
    <3>1. Len(queue[c]) <= QueueSize /\ Len(sent[c]) <= MaxPerWindow BY DEF PacedInv, LimiterSound
    <3>2. queue[c] \in Seq(Alerts) /\ sent[c] \in Seq(Ages) /\ sender[c] \in {Idle} \cup Trying \cup Done
      BY DEF PacedInv, PacedShape
    <3>3. outcome[c] \in [Alerts -> Outcomes \cup {"none"}] /\ stored[c] \in [Alerts -> Seq(Outcomes)]
      BY DEF PacedInv, PacedShape
    <3> QED BY <3>1, <3>2, <3>3
  <2> QED BY <2>1 DEF PacedInv, LimiterSound, Paced
<1> QED BY <1>1, <1>2, <1>3, PTL DEF Spec

-----------------------------------------------------------------------------
(* SkinportPoll.                                                           *)

PollTyped ==
    /\ pc \in {"starting", "waiting", "asking", "saving", "handing_on"}
    /\ left \in Nat /\ fallback \in Nat /\ kept \in Nat /\ owed \in Nat /\ faults \in Nat

\* What the poller, or else what it stored, waits for is at least what the venue wants.
PollWaits ==
    /\ fallback >= Poll
    /\ pc = "asking" => owed <= Poll
    /\ pc \in {"asking", "saving"} => unsaved
    /\ pc \in {"saving", "handing_on"} => owed <= left
    /\ pc = "waiting" /\ ~forgot => owed <= left
    /\ ~unsaved => owed <= kept
    /\ pc = "starting" /\ ~forgot => owed <= kept

PollInv == PollTyped /\ PollWaits /\ Skinport!Polite

(* Every step of the poller, of Redis and of time keeps the invariant.      *)
LEMMA PollInductive ==
  ASSUME PollInv, [Skinport!Next]_skinport
  PROVE  PollInv'
<1> USE ServicesAssumption DEF ServicesAssumption, Skinport!PollAssumption, PollInv, PollTyped, PollWaits, Skinport!Polite
<1>1. CASE Skinport!Start
  <2>1. CASE left' = 0 /\ forgot' = TRUE /\ faults' = faults + 1
    <3>1. forgot' BY <2>1
    <3> QED BY <1>1, <2>1, <3>1 DEF Skinport!Start
  <2>2. CASE left' = kept /\ UNCHANGED <<forgot, faults>> BY <1>1, <2>2 DEF Skinport!Start
  <2> QED BY <1>1, <2>1, <2>2 DEF Skinport!Start, Skinport!Loaded, Skinport!Fault
<1>2. CASE Skinport!Ask
  <2>1. ~early /\ (forgot \/ ~(owed > 0)) BY <1>2 DEF Skinport!Ask
  <2>2. early' = (early \/ (owed > 0 /\ ~forgot)) BY <1>2, Zenon DEF Skinport!Ask
  <2>3. ~early' BY <2>1, <2>2, Zenon
  <2>4. unsaved' BY <1>2, Zenon DEF Skinport!Ask
  <2>5. pc' = "asking" /\ owed' = Poll /\ UNCHANGED <<left, fallback, kept, faults>> BY <1>2 DEF Skinport!Ask
  <2> QED BY <2>3, <2>4, <2>5
<1>3. CASE Skinport!Items
  BY <1>3 DEF Skinport!Items, Skinport!Answered
<1>4. CASE Skinport!Failed
  BY <1>4 DEF Skinport!Failed, Skinport!Answered
<1>5. CASE Skinport!RateLimitedBlindly
  BY <1>5 DEF Skinport!RateLimitedBlindly, Skinport!Answered, Skinport!NextFallback, Skinport!Longer, Skinport!Shorter
<1>6. ASSUME NEW delay \in PollRetryAfters, Skinport!RateLimited(delay) PROVE PollInv'
  <2>1. delay \in Nat OBVIOUS
  <2> QED BY <1>6, <2>1 DEF Skinport!RateLimited, Skinport!Answered
<1>7. CASE Skinport!Save
  <2>1. pc = "saving" /\ pc' = "handing_on" /\ UNCHANGED <<left, fallback, owed, forgot, early>> BY <1>7 DEF Skinport!Save
  <2>2. CASE kept' = left /\ unsaved' = FALSE /\ UNCHANGED faults BY <2>1, <2>2
  <2>3. CASE faults' = faults + 1 /\ UNCHANGED <<kept, unsaved>> BY <2>1, <2>3
  <2> QED BY <1>7, <2>2, <2>3 DEF Skinport!Save, Skinport!Fault
<1>8. CASE Skinport!HandedOn
  BY <1>8 DEF Skinport!HandedOn
<1>9. CASE Skinport!Restart
  <2>1. (forgot \/ unsaved) => forgot' BY <1>9, Zenon DEF Skinport!Restart
  <2>2. pc' = "starting" /\ faults' = faults + 1 /\ UNCHANGED <<left, fallback, kept, owed, unsaved, early>>
    BY <1>9 DEF Skinport!Restart, Skinport!Fault
  <2> QED BY <2>1, <2>2
<1>10. CASE Skinport!RedisRestarts
  <2>1. unsaved' BY <1>10, Zenon DEF Skinport!RedisRestarts
  <2>2. (forgot \/ pc = "starting") => forgot' BY <1>10, Zenon DEF Skinport!RedisRestarts
  <2>3. kept' = 0 /\ faults' = faults + 1 /\ UNCHANGED <<pc, left, fallback, owed, early>>
    BY <1>10 DEF Skinport!RedisRestarts, Skinport!Fault
  <2> QED BY <2>1, <2>2, <2>3
<1>11. CASE Skinport!Tick
  BY <1>11 DEF Skinport!Tick, Skinport!Less
<1>12. CASE UNCHANGED skinport
  BY <1>12 DEF skinport
<1> QED BY <1>1, <1>2, <1>3, <1>4, <1>5, <1>6, <1>7, <1>8, <1>9, <1>10, <1>11, <1>12 DEF Skinport!Next

-----------------------------------------------------------------------------
(* DMarketClient: what a request waits for is in the turn or in a sleep.   *)

Calls == [pc : {"idle", "queued", "asleep", "sent", "refused"}, sleep : Nat, retries : Nat, backoff : Nat]

PacingTyped ==
    /\ waiting \in Seq(Callers) /\ call \in [Callers -> Calls]
    /\ next \in Nat /\ gap \in Nat /\ hold \in Nat /\ slipped \in Nat

\* Only the holder of the lock sleeps towards a turn, and no turn comes before the gap is over.  A turn taken
\* after a pause began is after the pause; the first one may belong to a sleep from before.
TurnsWait ==
    /\ gap <= next /\ hold <= next
    /\ \A c \in Callers : call[c].pc = "asleep" =>
         /\ waiting # <<>> /\ Head(waiting) = c
         /\ gap <= call[c].sleep
         /\ slipped > 0 => hold <= call[c].sleep

PacingInv == PacingTyped /\ TurnsWait /\ DMarket!RequestsPaced

(* What a caller may wait for is a number, whatever a 429 asks for (get).   *)
LEMMA Numbers ==
  ASSUME DMarket!ClientAssumption, NEW x \in Nat, NEW y \in Nat
  PROVE  /\ DMarket!Longer(x, y) \in Nat /\ DMarket!Longer(x, y) >= x /\ DMarket!Longer(x, y) >= y
         /\ DMarket!Shorter(x, y) \in Nat /\ DMarket!Less(x) \in Nat
         /\ x <= y => DMarket!Less(x) <= DMarket!Less(y)
         /\ x = 0 <=> x <= 0
  BY DEF DMarket!Longer, DMarket!Shorter, DMarket!Less, DMarket!ClientAssumption

(* The lock is handed on in order: who leaves is the first, who comes is    *)
(* the last (asyncio.Lock).                                                 *)
LEMMA TailOfSeq ==
  ASSUME NEW S, NEW q \in Seq(S), q # <<>>
  PROVE  Tail(q) \in Seq(S)
  OBVIOUS

LEMMA AppendKeepsHead ==
  ASSUME NEW S, NEW q \in Seq(S), NEW e \in S
  PROVE  /\ Append(q, e) \in Seq(S)
         /\ q # <<>> => Append(q, e) # <<>> /\ Head(Append(q, e)) = Head(q)
<1>1. Append(q, e) \in Seq(S) /\ Len(Append(q, e)) = Len(q) + 1 OBVIOUS
<1>2. ASSUME q # <<>> PROVE Append(q, e) # <<>> /\ Head(Append(q, e)) = Head(q)
  <2>1. Len(q) \in Nat /\ Len(q) > 0 BY <1>2
  <2>2. Append(q, e)[1] = q[1] BY <2>1
  <2> QED BY <1>1, <2>1, <2>2
<1> QED BY <1>1, <1>2

(* The caller whose turn it is waited for everything (_wait_for_turn).      *)
LEMMA SendInvariant ==
  ASSUME DMarket!ClientAssumption, PacingInv, NEW c \in Callers, DMarket!Send(c)
  PROVE  PacingInv'
<1> USE DEF DMarket!ClientAssumption, Calls
<1>1. /\ waiting # <<>> /\ Head(waiting) = c /\ waiting' = Tail(waiting)
      /\ \/ call[c].pc = "queued" /\ next = 0
         \/ call[c].pc = "asleep" /\ call[c].sleep = 0
      /\ call' = [call EXCEPT ![c].pc = "sent"]
  BY DEF DMarket!Send
<1>2. next' = next + Interval /\ gap' = Interval /\ hold' = hold
  BY DEF DMarket!Send, DMarket!Turn
<1>3. slipped' = IF hold > 0 THEN slipped + 1 ELSE slipped
  BY DEF DMarket!Send
<1>4. gap = 0 /\ ~(gap > 0) /\ ~(slipped > 0 /\ hold > 0)
  <2>0. gap \in Nat /\ hold \in Nat /\ slipped \in Nat /\ next \in Nat
    BY DEF PacingInv, PacingTyped
  <2>1. gap <= next /\ hold <= next
    BY DEF PacingInv, TurnsWait
  <2>2. call[c].pc = "asleep" => gap <= call[c].sleep /\ (slipped > 0 => hold <= call[c].sleep)
    BY DEF PacingInv, TurnsWait
  <2>3. CASE next = 0
    BY <2>0, <2>1, <2>3
  <2>4. CASE call[c].pc = "asleep" /\ call[c].sleep = 0
    <3>1. gap <= 0 /\ (slipped > 0 => hold <= 0)
      BY <2>2, <2>4
    <3> QED BY <2>0, <3>1
  <2> QED BY <1>1, <2>3, <2>4
<1>5. PacingTyped'
  <2>1. waiting' \in Seq(Callers) BY <1>1, TailOfSeq DEF PacingInv, PacingTyped
  <2>3. call' \in [Callers -> Calls]
    <3>1. call[c] \in Calls /\ [call[c] EXCEPT !.pc = "sent"] \in Calls BY DEF PacingInv, PacingTyped
    <3> QED BY <1>1, <3>1 DEF PacingInv, PacingTyped
  <2>2. next' \in Nat /\ gap' \in Nat /\ hold' \in Nat /\ slipped' \in Nat BY <1>2, <1>3 DEF PacingInv, PacingTyped
  <2> QED BY <2>1, <2>2, <2>3 DEF PacingTyped
<1>6. TurnsWait'
  <2>1. \A d \in Callers : call'[d].pc # "asleep"
    BY <1>1 DEF PacingInv, PacingTyped, TurnsWait
  <2>2. gap' <= next' /\ hold' <= next'
    BY <1>2 DEF PacingInv, PacingTyped, TurnsWait
  <2> QED BY <2>1, <2>2 DEF TurnsWait
<1>7. ~crowded'
  BY <1>4 DEF PacingInv, DMarket!RequestsPaced, DMarket!Send
<1>8. slipped' <= 1
  BY <1>3, <1>4 DEF PacingInv, PacingTyped, DMarket!RequestsPaced
<1> QED BY <1>5, <1>6, <1>7, <1>8 DEF PacingInv, DMarket!RequestsPaced

(* A response sets the turn back by a second, or leaves it (_pause_after).  *)
LEMMA PauseInvariant ==
  ASSUME DMarket!ClientAssumption, PacingInv, NEW c \in Callers, NEW s \in Calls, s.pc \in {"idle", "refused"},
         call' = [call EXCEPT ![c] = s], \E last \in BOOLEAN : DMarket!Pause(last), UNCHANGED <<waiting, gap, crowded>>
  PROVE  PacingInv'
<1> USE DEF DMarket!ClientAssumption
<1>1. /\ next' \in Nat /\ next' >= next /\ hold' \in Nat /\ hold' <= next'
      /\ slipped' \in Nat /\ slipped' <= slipped /\ (slipped' > 0 => hold' = hold)
  <2>1. DMarket!Longer(next, Second) \in Nat /\ DMarket!Longer(next, Second) >= next /\ DMarket!Longer(next, Second) >= Second
    BY Numbers DEF PacingInv, PacingTyped
  <2> QED BY <2>1 DEF PacingInv, PacingTyped, TurnsWait, DMarket!Pause, DMarket!PausedUntil
<1>2. PacingTyped'
  BY <1>1 DEF PacingInv, PacingTyped
<1>3. TurnsWait'
  <2>1. gap' <= next' BY <1>1 DEF PacingInv, PacingTyped, TurnsWait
  <2>2. \A d \in Callers : call'[d].pc = "asleep" => d # c /\ call'[d] = call[d] BY DEF PacingInv, PacingTyped
  <2> QED BY <1>1, <2>1, <2>2 DEF PacingInv, PacingTyped, TurnsWait
<1> QED BY <1>1, <1>2, <1>3 DEF PacingInv, DMarket!RequestsPaced, PacingTyped

(* Every step of the client and of time keeps the invariant.                *)
LEMMA PacingInductive ==
  ASSUME DMarket!ClientAssumption
  PROVE  PacingInv /\ [DMarket!Next]_(dmarket) => PacingInv'
<1> SUFFICES ASSUME PacingInv, [DMarket!Next]_(dmarket) PROVE PacingInv'
  OBVIOUS
<1> USE DEF DMarket!ClientAssumption, Calls
<1>1. ASSUME NEW c \in Callers, DMarket!Get(c) PROVE PacingInv'
  <2>1. PacingTyped' BY <1>1 DEF PacingInv, PacingTyped, DMarket!Get
  <2>3. waiting' = Append(waiting, c) /\ waiting \in Seq(Callers) BY <1>1 DEF PacingInv, PacingTyped, DMarket!Get
  <2>4. waiting # <<>> => waiting' # <<>> /\ Head(waiting') = Head(waiting) BY <2>3, AppendKeepsHead
  <2>5. \A d \in Callers : call'[d].pc = "asleep" => call'[d] = call[d] BY <1>1 DEF PacingInv, PacingTyped, DMarket!Get
  <2>2. TurnsWait' BY <1>1, <2>4, <2>5 DEF PacingInv, TurnsWait, DMarket!Get
  <2> QED BY <1>1, <2>1, <2>2 DEF PacingInv, DMarket!RequestsPaced, DMarket!Get
<1>2. ASSUME NEW c \in Callers, DMarket!FallAsleep(c) PROVE PacingInv'
  <2>1. PacingTyped'
    <3> DEFINE slept == [call[c] EXCEPT !.pc = "asleep", !.sleep = next]
    <3>1. call[c] \in Calls /\ call \in [Callers -> Calls] /\ next \in Nat BY DEF PacingInv, PacingTyped
    <3>2. slept \in Calls BY <3>1
    <3>3. call' = [call EXCEPT ![c] = slept] BY <1>2, <3>1 DEF DMarket!FallAsleep
    <3> HIDE DEF slept
    <3>4. call' \in [Callers -> Calls] BY <3>1, <3>2, <3>3
    <3> QED BY <1>2, <3>4 DEF PacingInv, PacingTyped, DMarket!FallAsleep
  <2>2. gap <= next /\ hold <= next /\ call'[c].sleep = next BY <1>2 DEF PacingInv, PacingTyped, TurnsWait, DMarket!FallAsleep
  <2>3. \A d \in Callers \ {c} : call'[d] = call[d] BY <1>2 DEF PacingInv, PacingTyped, DMarket!FallAsleep
  <2>4. UNCHANGED <<waiting, next, gap, hold, slipped>> /\ waiting # <<>> /\ Head(waiting) = c BY <1>2 DEF DMarket!FallAsleep
  <2>6. gap' <= next' /\ hold' <= next' BY <2>2, <2>4
  <2>7. ASSUME NEW d \in Callers, call'[d].pc = "asleep"
        PROVE  /\ waiting' # <<>> /\ Head(waiting') = d /\ gap' <= call'[d].sleep
               /\ slipped' > 0 => hold' <= call'[d].sleep
    <3>1. CASE d = c BY <3>1, <2>2, <2>4
    <3>2. CASE d # c BY <3>2, <2>3, <2>4, <2>7 DEF PacingInv, TurnsWait
    <3> QED BY <3>1, <3>2
  <2>5. TurnsWait' BY <2>6, <2>7 DEF TurnsWait
  <2> QED BY <1>2, <2>1, <2>5 DEF PacingInv, DMarket!RequestsPaced, DMarket!FallAsleep
<1>3. ASSUME NEW c \in Callers, DMarket!Send(c) PROVE PacingInv'
  BY <1>3, SendInvariant
<1>4. ASSUME NEW c \in Callers, DMarket!Answered(c) PROVE PacingInv'
  BY <1>4, PauseInvariant DEF DMarket!Answered, DMarket!Idle
<1>5. ASSUME NEW c \in Callers, NEW delay \in ClientRetryAfters, DMarket!Refused(c, delay) PROVE PacingInv'
  <2> DEFINE s == [pc |-> "refused", sleep |-> DMarket!Shorter(DMarket!Longer(delay, call[c].backoff), MaxBackoff),
                   retries |-> call[c].retries, backoff |-> DMarket!Shorter(2 * call[c].backoff, MaxBackoff)]
  <2>1. call[c].backoff \in Nat /\ call[c].retries \in Nat /\ delay \in Nat BY DEF PacingInv, PacingTyped
  <2>2. DMarket!Longer(delay, call[c].backoff) \in Nat BY <2>1, Numbers
  <2>3. s.sleep \in Nat BY <2>2, Numbers
  <2>6. 2 * call[c].backoff \in Nat BY <2>1
  <2>7. s.backoff \in Nat BY <2>6, Numbers
  <2>8. s \in Calls BY <2>1, <2>3, <2>7
  <2>4. call' = [call EXCEPT ![c] = s] BY <1>5 DEF DMarket!Refused
  <2> QED BY <1>5, <2>8, <2>4, PauseInvariant DEF DMarket!Refused
<1>6. ASSUME NEW c \in Callers, DMarket!Retry(c) PROVE PacingInv'
  <2>1. call[c].retries + 1 \in Nat BY DEF PacingInv, PacingTyped
  <2>2. DMarket!Shorter(call[c].retries + 1, MaxRetries) \in Nat BY <2>1, Numbers
  <2>7. waiting' = Append(waiting, c) /\ waiting \in Seq(Callers) BY <1>6 DEF PacingInv, PacingTyped, DMarket!Retry
  <2>8. waiting' \in Seq(Callers) /\ (waiting # <<>> => waiting' # <<>> /\ Head(waiting') = Head(waiting))
    BY <2>7, AppendKeepsHead
  <2>9. call' \in [Callers -> Calls]
    <3> DEFINE s == [pc |-> "queued", sleep |-> 0, retries |-> DMarket!Shorter(call[c].retries + 1, MaxRetries),
                     backoff |-> call[c].backoff]
    <3>1. call' = [call EXCEPT ![c] = s] BY <1>6 DEF DMarket!Retry
    <3>2. call[c] \in Calls BY DEF PacingInv, PacingTyped
    <3>3. s \in Calls BY <2>2, <3>2
    <3> HIDE DEF s
    <3> QED BY <3>1, <3>3 DEF PacingInv, PacingTyped
  <2>3. PacingTyped' BY <1>6, <2>8, <2>9 DEF PacingInv, PacingTyped, DMarket!Retry
  <2>4. \A d \in Callers : call'[d].pc = "asleep" => call'[d] = call[d] BY <1>6 DEF PacingInv, PacingTyped, DMarket!Retry
  <2>6. TurnsWait' BY <1>6, <2>4, <2>8 DEF PacingInv, TurnsWait, DMarket!Retry
  <2> QED BY <1>6, <2>3, <2>6 DEF PacingInv, DMarket!RequestsPaced, DMarket!Retry
<1>7. ASSUME NEW c \in Callers, DMarket!GiveUp(c) PROVE PacingInv'
  <2>1. PacingTyped' BY <1>7 DEF PacingInv, PacingTyped, DMarket!GiveUp, DMarket!Idle
  <2>2. TurnsWait' BY <1>7 DEF PacingInv, PacingTyped, TurnsWait, DMarket!GiveUp, DMarket!Idle
  <2> QED BY <1>7, <2>1, <2>2 DEF PacingInv, DMarket!RequestsPaced, DMarket!GiveUp
<1>8. CASE DMarket!Tick
  <2>1. /\ waiting' = waiting /\ next' = DMarket!Less(next) /\ gap' = DMarket!Less(gap) /\ hold' = DMarket!Less(hold) /\ crowded' = crowded
        /\ slipped' = IF hold <= 1 THEN 0 ELSE slipped
        /\ call' = [d \in Callers |-> [call[d] EXCEPT !.sleep = DMarket!Less(@)]]
    BY <1>8 DEF DMarket!Tick
  <2>2. \A d \in Callers : call[d] \in Calls /\ call[d].sleep \in Nat /\ DMarket!Less(call[d].sleep) \in Nat
    BY Numbers DEF PacingInv, PacingTyped
  <2>3. next' \in Nat /\ gap' \in Nat /\ hold' \in Nat /\ slipped' \in Nat
    BY <2>1, Numbers DEF PacingInv, PacingTyped
  <2>4. PacingTyped' BY <2>1, <2>2, <2>3 DEF PacingInv, PacingTyped
  <2>5. gap' <= next' /\ hold' <= next' BY <2>1, Numbers DEF PacingInv, PacingTyped, TurnsWait
  <2>6. ASSUME NEW d \in Callers, call'[d].pc = "asleep"
        PROVE  waiting' # <<>> /\ Head(waiting') = d /\ gap' <= call'[d].sleep /\ (slipped' > 0 => hold' <= call'[d].sleep)
    <3>1. call[d].pc = "asleep" /\ call'[d].sleep = DMarket!Less(call[d].sleep) BY <2>1, <2>2, <2>6
    <3>2. slipped' > 0 => slipped > 0 BY <2>1 DEF PacingInv, PacingTyped
    <3> QED BY <2>1, <2>2, <3>1, <3>2, Numbers DEF PacingInv, PacingTyped, TurnsWait
  <2>7. TurnsWait' BY <2>5, <2>6 DEF TurnsWait
  <2> QED BY <2>1, <2>4, <2>7, SMTT(30) DEF PacingInv, PacingTyped, DMarket!RequestsPaced
<1>9. CASE UNCHANGED dmarket
  BY <1>9 DEF PacingInv, PacingTyped, TurnsWait, DMarket!RequestsPaced, dmarket
<1> QED BY <1>1, <1>2, <1>3, <1>4, <1>5, <1>6, <1>7, <1>8, <1>9 DEF DMarket!Next, DMarket!Step

-----------------------------------------------------------------------------
(* Audit.                                                                  *)

(* The audit counts as everyone does.                                       *)
LEMMA AuditCounts == \A S : Audit!Cardinality(S) = Cardinality(S)
  BY DEF Audit!Cardinality, Cardinality

Distinct(s) == \A i, j \in 1..Len(s) : i < j => s[i] # s[j]

(* The names that are kept of a list, ranked from the first                 *)
(* (_parse_fallback_models).                                                *)
LEMMA Ranked ==
  ASSUME NEW L \in Nat, NEW kept_ \in SUBSET (1..L), NEW n \in 1..Cardinality(kept_)
  PROVE  \E i \in kept_ : Audit!Rank(i, kept_) = n
<1> DEFINE Upto(k) == {j \in kept_ : j <= k}
           Reach == {k \in Nat : k <= L /\ Cardinality(Upto(k)) >= n}
<1>0. \A j \in kept_ : j \in Nat /\ 1 <= j /\ j <= L
  OBVIOUS
<1>1. IsFiniteSet(1..L) /\ IsFiniteSet(kept_)
  <2>1. IsFiniteSet(1..L) BY FS_Interval
  <2> QED BY <2>1, FS_Subset
<1>2. \A k \in Nat : Upto(k) \subseteq kept_ /\ IsFiniteSet(Upto(k)) /\ Cardinality(Upto(k)) \in Nat
  <2>1. \A k \in Nat : Upto(k) \in SUBSET kept_ OBVIOUS
  <2> HIDE DEF Upto
  <2> QED BY <1>1, <2>1, FS_Subset, FS_CardinalityType
<1>3. Upto(L) = kept_ /\ Cardinality(kept_) \in Nat
  <2>1. Upto(L) = kept_ BY <1>0
  <2> QED BY <1>1, <2>1, FS_CardinalityType
<1>4. L \in Reach
  BY <1>3
<1>5. Reach \subseteq Nat /\ Reach # {}
  BY <1>4
<1> HIDE DEF Reach
<1>6. PICK k \in Reach : \A m \in Reach : k <= m
  BY <1>5, Least
<1>7. k \in Nat /\ k <= L /\ Cardinality(Upto(k)) >= n
  BY <1>6 DEF Reach
<1>8. k > 0
  <2>1. \A j \in kept_ : ~(j <= 0) BY <1>0
  <2>2. Upto(0) = {} BY <2>1
  <2>3. Cardinality(Upto(0)) = 0 BY <2>2, FS_EmptySet
  <2> QED BY <1>7, <2>3
<1>9. k - 1 \in Nat /\ k - 1 <= L /\ Cardinality(Upto(k - 1)) < n
  <2>1. k - 1 \in Nat /\ k - 1 <= L BY <1>7, <1>8
  <2>2. k - 1 \notin Reach BY <1>6, <1>7, <2>1
  <2>3. Cardinality(Upto(k - 1)) \in Nat BY <1>2, <2>1
  <2> QED BY <2>1, <2>2, <2>3 DEF Reach
<1>10. Upto(k) = IF k \in kept_ THEN Upto(k - 1) \cup {k} ELSE Upto(k - 1)
  <2>1. \A j \in kept_ : j <= k <=> (j <= k - 1 \/ j = k) BY <1>0, <1>7
  <2>2. k <= k BY <1>7
  <2> QED BY <2>1, <2>2
<1>11. k \notin Upto(k - 1)
  <2>1. ~(k <= k - 1) BY <1>7
  <2> QED BY <2>1
<1>12. k \in kept_ /\ Cardinality(Upto(k)) = Cardinality(Upto(k - 1)) + 1
  <2> HIDE DEF Upto
  <2>1. IsFiniteSet(Upto(k - 1)) /\ Cardinality(Upto(k - 1)) \in Nat BY <1>2, <1>9
  <2>2. k \in kept_ BY <1>7, <1>9, <1>10, <2>1
  <2> QED BY <1>10, <1>11, <2>1, <2>2, FS_AddElement
<1>13. Cardinality(Upto(k)) = n
  <2> HIDE DEF Upto
  <2> QED BY <1>2, <1>7, <1>9, <1>12
<1> QED BY <1>12, <1>13, AuditCounts DEF Audit!Rank

(* No model is configured twice (all_models).                               *)
LEMMA ModelsDistinct ==
  ASSUME NEW config, config.primary \in Models, config.fallbacks \in Seq(Models)
  PROVE  /\ Audit!all_models(config) \in Seq(Models) /\ Len(Audit!all_models(config)) \in Nat \ {0}
         /\ Distinct(Audit!all_models(config))
<1> DEFINE raw == config.fallbacks
           primary == config.primary
           names == Audit!Kept(raw, primary)
           size == Cardinality(names)
           At(n) == Audit!Nth(n, names)
           list == Audit!parse_fallback_models(raw, primary)
<1>1. names \in SUBSET (1..Len(raw)) /\ Len(raw) \in Nat
  BY DEF Audit!Kept
<1>2. size \in Nat
  <2>1. IsFiniteSet(1..Len(raw)) BY <1>1, FS_Interval
  <2> HIDE DEF names
  <2>2. IsFiniteSet(names) BY <1>1, <2>1, FS_Subset
  <2> QED BY <2>2, FS_CardinalityType
<1>3. list = [n \in 1..size |-> raw[At(n)]]
  BY AuditCounts DEF Audit!parse_fallback_models
<1>4. \A n \in 1..size : At(n) \in names /\ Audit!Rank(At(n), names) = n
  <2> SUFFICES ASSUME NEW n \in 1..size PROVE At(n) \in names /\ Audit!Rank(At(n), names) = n
    OBVIOUS
  <2>1. \E i \in names : Audit!Rank(i, names) = n BY <1>1, Ranked
  <2> HIDE DEF names
  <2> QED BY <2>1 DEF Audit!Nth
<1> HIDE DEF At, list, size
<1>5. \A i, j \in names : i # j => raw[i] # raw[j]
  <2> SUFFICES ASSUME NEW i \in names, NEW j \in names, i < j PROVE raw[i] # raw[j]
    BY <1>1
  <2>1. i \in 1..j - 1 BY <1>1
  <2> QED BY <2>1 DEF Audit!Kept
<1>6. \A i \in names : raw[i] \in Models /\ raw[i] # primary
  BY <1>1 DEF Audit!Kept
<1> HIDE DEF names, raw, primary
<1>7. \A n \in 1..size : list[n] \in Models /\ list[n] # primary
  BY <1>3, <1>4, <1>6
<1>8. list \in Seq(Models) /\ Len(list) = size
  BY <1>2, <1>3, <1>7
<1>9. \A m, n \in 1..size : m # n => list[m] # list[n]
  BY <1>3, <1>4, <1>5
<1>10. Audit!all_models(config) = <<primary>> \o list
  BY DEF Audit!all_models, list, raw, primary
<1> DEFINE chain == <<primary>> \o list
<1>11. /\ chain \in Seq(Models) /\ Len(chain) = size + 1 /\ chain[1] = primary
       /\ \A n \in 1..size : chain[n + 1] = list[n]
  <2>1. <<primary>> \in Seq(Models) /\ Len(<<primary>>) = 1 BY DEF primary
  <2> QED BY <1>2, <1>8, <2>1
<1> HIDE DEF chain
<1>12. Distinct(chain)
  <2> SUFFICES ASSUME NEW i \in 1..Len(chain), NEW j \in 1..Len(chain), i < j PROVE chain[i] # chain[j]
    BY DEF Distinct
  <2>1. j - 1 \in 1..size /\ chain[j] = list[j - 1]
    <3>1. j - 1 \in 1..size /\ (j - 1) + 1 = j BY <1>2, <1>11
    <3> QED BY <1>11, <3>1
  <2>2. CASE i = 1 BY <1>7, <1>11, <2>1, <2>2
  <2>3. CASE i # 1
    <3>1. i - 1 \in 1..size /\ (i - 1) + 1 = i /\ i - 1 # j - 1 BY <1>2, <1>11, <2>3
    <3>2. chain[i] = list[i - 1] BY <1>11, <3>1
    <3> QED BY <1>9, <2>1, <3>1, <3>2
  <2> QED BY <2>2, <2>3
<1>13. Len(chain) \in Nat \ {0}
  BY <1>2, <1>11
<1> QED BY <1>10, <1>11, <1>12, <1>13 DEF chain

\* Of the models that have used up their quota only the last is asked again.
AuditInv ==
    /\ models \in Seq(Models) /\ Len(models) \in Nat \ {0} /\ Distinct(models)
    /\ model \in 1..Len(models)
    /\ \A i \in 1..Len(models) : models[i] \in told => i < model \/ i = Len(models)
    /\ Audit!ProviderRespected

(* A request: of the models without quota, only the last (evaluate_trade).  *)
LEMMA CallRespects ==
  ASSUME AuditInv, Audit!Call, UNCHANGED models
  PROVE  Audit!NotAskedAgain'
<1>1. called'.model = models[model]
  BY DEF Audit!Call, Audit!Current
<1>2. called'.told => models[model] \in told
  BY Zenon DEF Audit!Call, Audit!Current
<1> QED BY <1>1, <1>2 DEF AuditInv, Audit!NotAskedAgain

LEMMA MaxIsIn ==
  ASSUME NEW S, \E x \in S : \A y \in S : x >= y
  PROVE  Audit!Max(S) \in S
  BY DEF Audit!Max

(* However a provider writes its delay, a retry waits for it                *)
(* (_retry_delay_for).                                                      *)
LEMMA DelayRespects ==
  ASSUME Audit!AuditAssumption, NEW e \in Audit!Errors
  PROVE  Audit!retry_delay_for(e) >= Audit!AskedFor(e)
<1>1. PICK w \in Waits, on \in SUBSET {"ms", "after", "text"}, bad \in SUBSET {"ms", "after"} :
         e = [c \in {"ms", "after", "text"} |-> IF c \in on THEN w ELSE IF c \in bad THEN Garbled ELSE Absent]
  BY DEF Audit!Errors
<1>2. w \in Nat /\ w \notin {Absent, Garbled} /\ DefaultWait \in Nat
  BY DEF Audit!AuditAssumption
<1>3. DOMAIN e = {"ms", "after", "text"} /\ \A c \in {"ms", "after", "text"} : Audit!Readable(e[c]) => e[c] = w
  BY <1>1 DEF Audit!Readable
<1> DEFINE S == {0} \cup {e[c] : c \in {d \in DOMAIN e : Audit!Readable(e[d])}}
<1>4. S = {0} \/ S = {0, w}
  BY <1>3
<1>5. \/ Audit!AskedFor(e) = 0
      \/ Audit!AskedFor(e) = w /\ \E c \in {"ms", "after", "text"} : Audit!Readable(e[c])
  <2>1. Audit!AskedFor(e) = Audit!Max(S) BY DEF Audit!AskedFor
  <2>2. \E x \in S : \A y \in S : x >= y BY <1>2, <1>4
  <2>3. Audit!Max(S) \in S
    <3> HIDE DEF S
    <3> QED BY <2>2, MaxIsIn
  <2>4. PICK x \in S : Audit!Max(S) = x BY <2>3
  <2>5. x = 0 \/ \E c \in DOMAIN e : Audit!Readable(e[c]) /\ x = e[c] OBVIOUS
  <2>6. Audit!AskedFor(e) = x BY <2>1, <2>4
  <2> HIDE DEF S
  <2>7. ASSUME NEW c \in DOMAIN e, Audit!Readable(e[c]), x = e[c]
        PROVE  x = w /\ \E d \in {"ms", "after", "text"} : Audit!Readable(e[d])
    BY <1>3, <2>7
  <2>8. ASSUME x = 0 PROVE Audit!AskedFor(e) = 0 BY <2>6, <2>8
  <2>9. CASE x # 0
    <3>1. PICK c \in DOMAIN e : Audit!Readable(e[c]) /\ x = e[c] BY <2>5, <2>9
    <3>2. x = w /\ \E d \in {"ms", "after", "text"} : Audit!Readable(e[d]) BY <2>7, <3>1
    <3> QED BY <2>6, <3>2
  <2> QED BY <2>8, <2>9
<1>6. /\ Audit!retry_delay_for(e) \in Nat
      /\ (\E c \in {"ms", "after", "text"} : Audit!Readable(e[c])) => Audit!retry_delay_for(e) = w + 1
  BY <1>2, <1>3 DEF Audit!retry_delay_for, Audit!extract_retry_after
<1> QED BY <1>2, <1>5, <1>6

(* Every step of the audit keeps the invariant.                             *)
LEMMA AuditInductive ==
  ASSUME Audit!AuditAssumption, AuditInv, [Audit!Next]_audit
  PROVE  AuditInv'
<1>w. wait.delay >= wait.wished
  BY DEF AuditInv, Audit!ProviderRespected, Audit!WaitsAsAsked
<1>n. Audit!NoWait.delay = 0 /\ Audit!NoWait.wished = 0
  BY DEF Audit!NoWait
<1>1. ASSUME UNCHANGED <<models, model, told, called>>, wait' = Audit!NoWait \/ UNCHANGED wait
      PROVE  AuditInv'
  <2>1. wait'.delay >= wait'.wished BY <1>1, <1>w, <1>n
  <2> QED BY <1>1, <2>1 DEF AuditInv, Distinct, Audit!ProviderRespected, Audit!NotAskedAgain, Audit!WaitsAsAsked
<1>2. ASSUME Audit!Call, UNCHANGED <<models, model, told>>, wait'.delay >= wait'.wished
      PROVE  AuditInv'
  <2>1. Audit!NotAskedAgain' BY <1>2, CallRespects
  <2> QED BY <1>2, <2>1 DEF AuditInv, Distinct, Audit!ProviderRespected, Audit!WaitsAsAsked
<1>3. CASE Audit!Start
  <2>1. model' = 1 /\ told' = {} /\ called' = [model |-> models[1], told |-> FALSE] /\ wait' = Audit!NoWait /\ UNCHANGED models
    BY <1>3 DEF Audit!Start
  <2>2. Audit!ProviderRespected'
    BY <1>n, <2>1 DEF Audit!ProviderRespected, Audit!NotAskedAgain, Audit!WaitsAsAsked
  <2> QED BY <2>1, <2>2 DEF AuditInv, Distinct
<1>4. ASSUME NEW t \in Trades, Audit!AuditTrade(t) PROVE AuditInv'
  BY <1>1, <1>4 DEF Audit!AuditTrade
<1>5. CASE Audit!Finish
  BY <1>1, <1>5 DEF Audit!Finish
<1>6. CASE Audit!ToolLoop
  BY <1>2, <1>6, <1>w DEF Audit!ToolLoop
<1>7. CASE Audit!JsonPhase
  BY <1>2, <1>7, <1>w DEF Audit!JsonPhase
<1>8. CASE Audit!QuotaError
  <2>1. /\ Audit!Call /\ told' = told \cup {models[model]} /\ UNCHANGED <<models, wait>>
        /\ model' = IF model < Len(models) THEN model + 1 ELSE model
    <3>1. model \in 1..Len(models) /\ Len(models) \in Nat BY DEF AuditInv
    <3> QED BY <1>8, <3>1 DEF Audit!QuotaError, Audit!switch_to_next_model, Audit!Current
  <2>2. model' \in 1..Len(models) BY <2>1 DEF AuditInv
  <2>3. ASSUME NEW i \in 1..Len(models), models[i] \in told' PROVE i < model' \/ i = Len(models)
    <3>1. CASE models[i] \in told BY <2>1, <3>1 DEF AuditInv
    <3>2. CASE models[i] = models[model]
      <4>1. i = model BY <3>2 DEF AuditInv, Distinct
      <4> QED BY <2>1, <4>1 DEF AuditInv
    <3> QED BY <2>1, <2>3, <3>1, <3>2
  <2>4. Audit!NotAskedAgain' BY <2>1, CallRespects
  <2>5. Audit!WaitsAsAsked' BY <1>w, <2>1 DEF Audit!WaitsAsAsked
  <2> QED BY <2>1, <2>2, <2>3, <2>4, <2>5 DEF AuditInv, Distinct, Audit!ProviderRespected
<1>9. CASE Audit!OtherError
  <2>1. wait'.delay >= wait'.wished
    <3>1. CASE UNCHANGED wait BY <1>w, <3>1
    <3>2. ASSUME NEW e \in Audit!Errors, wait' = [delay |-> Audit!retry_delay_for(e), wished |-> Audit!AskedFor(e)]
          PROVE  wait'.delay >= wait'.wished
      <4>1. Audit!retry_delay_for(e) >= Audit!AskedFor(e) BY DelayRespects
      <4> QED BY <3>2, <4>1
    <3> QED BY <1>9, <3>1, <3>2 DEF Audit!OtherError
  <2> QED BY <1>2, <1>9, <2>1 DEF Audit!OtherError
<1>10. CASE Audit!Retry
  BY <1>1, <1>10 DEF Audit!Retry
<1>11. CASE Audit!CreateRun \/ Audit!NoExperiment \/ Audit!CloseRun
  BY <1>1, <1>11 DEF Audit!CreateRun, Audit!NoExperiment, Audit!CloseRun
<1>12. CASE Audit!Kill
  BY <1>1, <1>12 DEF Audit!Kill
<1>13. CASE UNCHANGED audit
  BY <1>1, <1>13 DEF audit
<1> QED BY <1>3, <1>4, <1>5, <1>6, <1>7, <1>8, <1>9, <1>10, <1>11, <1>12, <1>13 DEF Audit!Next, Audit!Work

-----------------------------------------------------------------------------
(* MarketContext.                                                          *)

Version(name, t) == Context!resolved_entry(Listed(name.base, t), name.version)

\* What Skinport's sales say of a name at some moment from one to another
SaidOf(name, from, to) == {Version(name, t) : t \in {u \in from..to : Listed(name.base, u) # <<>>}}

CacheSound(n) ==
    cache[n].at # -1 =>
        /\ cache[n].at \in Nat /\ cache[n].at <= time
        /\ cache[n].entry \in SaidOf(n, cache[n].at, time)

RequestShape(r) ==
    /\ request[r].phase \in {"idle", "resolved", "asking", "served", "done"}
    /\ "phase" \in DOMAIN request[r]
    /\ request[r].phase \in {"resolved", "asking", "served"} =>
         /\ DOMAIN request[r] = {"phase", "name", "at", "entries", "facts"}
         /\ request[r].name \in Names

RequestSound(r) ==
    /\ request[r].phase \in {"asking", "served"} => request[r].at \in Nat /\ request[r].at <= time
    /\ request[r].phase = "served" =>
         \E t \in request[r].at..time : request[r].entries = Listed(request[r].name.base, t)
    /\ context[r].status = "ok" => request[r].phase = "done"

FreshFor(r) ==
    context[r].status = "ok" =>
        \/ context[r] = Context!ContextOf(request[r].facts, Context!NoEntry)
        \/ \E t \in 0..time :
              /\ t > request[r].at - TTL
              /\ Listed(request[r].name.base, t) # <<>>
              /\ context[r] = Context!ContextOf(request[r].facts, Version(request[r].name, t))

Sound(r) == RequestShape(r) /\ RequestSound(r) /\ FreshFor(r)

ContextInv ==
    /\ time \in Nat
    /\ DOMAIN cache = Names /\ DOMAIN request = Requests /\ DOMAIN context = Requests
    /\ \A n \in Names : CacheSound(n)
    /\ \A r \in Requests : Sound(r)

(* A request's step leaves the others where they are, and what is cached    *)
(* stays so (fetch_skinport_sales_history).                                 *)
LEMMA OneRequest ==
  ASSUME ContextInv, NEW r \in Requests, time' = time, DOMAIN cache' = Names, \A n \in Names : CacheSound(n)',
         DOMAIN request' = Requests, DOMAIN context' = Requests,
         \A q \in Requests \ {r} : request'[q] = request[q] /\ context'[q] = context[q],
         Sound(r)'
  PROVE  ContextInv'
<1>1. ASSUME NEW q \in Requests \ {r} PROVE Sound(q)'
  <2>1. Sound(q) /\ request'[q] = request[q] /\ context'[q] = context[q] BY DEF ContextInv
  <2> QED BY <2>1 DEF Sound, RequestShape, RequestSound, FreshFor, Version
<1> QED BY <1>1 DEF ContextInv

LEMMA CacheKept ==
  ASSUME ContextInv, UNCHANGED <<time, cache>>
  PROVE  DOMAIN cache' = Names /\ \A n \in Names : CacheSound(n)'
  BY DEF ContextInv, CacheSound, SaidOf, Version

(* A request ends with an answer that is fresh, or that is no context.      *)
LEMMA ReturnInvariant ==
  ASSUME ContextInv, NEW r \in Requests, time' = time, DOMAIN cache' = Names, \A n \in Names : CacheSound(n)',
         NEW q, request' = [request EXCEPT ![r] = q], q.phase = "done", "phase" \in DOMAIN q,
         NEW answer, context' = [context EXCEPT ![r] = answer],
         \/ answer.status # "ok"
         \/ answer = Context!ContextOf(q.facts, Context!NoEntry)
         \/ \E t \in 0..time : /\ t > q.at - TTL /\ Listed(q.name.base, t) # <<>>
                               /\ answer = Context!ContextOf(q.facts, Version(q.name, t))
  PROVE  ContextInv'
<1>1. request'[r] = q /\ context'[r] = answer
  BY DEF ContextInv
<1>2. Sound(r)'
  BY <1>1 DEF Sound, RequestShape, RequestSound, FreshFor, Version
<1>3. /\ DOMAIN request' = Requests /\ DOMAIN context' = Requests
      /\ \A p \in Requests \ {r} : request'[p] = request[p] /\ context'[p] = context[p]
  BY DEF ContextInv
<1> QED BY <1>2, <1>3, OneRequest

(* A request goes on.                                                       *)
LEMMA GoesOn ==
  ASSUME ContextInv, NEW r \in Requests, UNCHANGED <<time, cache, context>>, context[r].status # "ok",
         NEW q, request' = [request EXCEPT ![r] = q], q.phase \in {"resolved", "asking", "served"},
         DOMAIN q = {"phase", "name", "at", "entries", "facts"}, q.name \in Names,
         q.phase \in {"asking", "served"} => q.at \in Nat /\ q.at <= time,
         q.phase = "served" => \E t \in q.at..time : q.entries = Listed(q.name.base, t)
  PROVE  ContextInv'
<1>1. request'[r] = q
  BY DEF ContextInv
<1>2. Sound(r)'
  BY <1>1 DEF Sound, RequestShape, RequestSound, FreshFor, Version
<1>3. /\ DOMAIN request' = Requests /\ DOMAIN context' = Requests
      /\ \A p \in Requests \ {r} : request'[p] = request[p] /\ context'[p] = context[p]
  BY DEF ContextInv
<1> QED BY <1>2, <1>3, CacheKept, OneRequest

(* Every step of a request and of time keeps the invariant.                 *)
LEMMA ContextInductive ==
  ASSUME Context!ContextAssumption, ContextInv, [Context!Next]_market
  PROVE  ContextInv'
<1>t. TTL \in Nat \ {0} /\ time \in Nat /\ Context!Missing = -1
  BY DEF Context!ContextAssumption, ContextInv, Context!Missing
<1>r. ASSUME NEW r \in Requests, request[r].phase # "done"
      PROVE  /\ Sound(r) /\ context[r].status # "ok" /\ "phase" \in DOMAIN request[r]
             /\ [request[r] EXCEPT !.phase = "done"].phase = "done"
             /\ "phase" \in DOMAIN [request[r] EXCEPT !.phase = "done"]
  BY <1>r DEF ContextInv, Sound, RequestSound, RequestShape
<1>1. ASSUME NEW r \in Requests, NEW name \in Names, Context!Resolve(r, name) PROVE ContextInv'
  <2> DEFINE done == [request[r] EXCEPT !.phase = "done"]
  <2>1. request[r].phase = "idle" /\ UNCHANGED <<time, cache>> BY <1>1 DEF Context!Resolve
  <2>2. ASSUME NEW answer, answer.status # "ok", Context!Return(r, answer) PROVE ContextInv'
    <3>1. request' = [request EXCEPT ![r] = done] /\ context' = [context EXCEPT ![r] = answer]
      BY <2>2 DEF Context!Return
    <3>2. done.phase = "done" /\ "phase" \in DOMAIN done BY <1>r, <2>1
    <3> HIDE DEF done
    <3> QED BY <2>1, <2>2, <3>1, <3>2, CacheKept, ReturnInvariant
  <2>3. ASSUME NEW q, q.phase = "resolved", q.name = name, DOMAIN q = {"phase", "name", "at", "entries", "facts"},
               request' = [request EXCEPT ![r] = q], UNCHANGED context
        PROVE  ContextInv'
    <3>1. context[r].status # "ok" BY <1>r, <2>1
    <3>2. UNCHANGED <<time, cache, context>> BY <2>1, <2>3
    <3> QED BY <2>3, <3>1, <3>2, GoesOn
  <2>4. CASE Context!Return(r, [status |-> "not found"]) BY <2>2, <2>4
  <2>5. CASE Context!Return(r, [status |-> "error"]) BY <2>2, <2>5
  <2>6. ASSUME NEW facts, UNCHANGED context,
               request' = [request EXCEPT ![r] = [phase |-> "resolved", name |-> name, at |-> Context!Missing,
                                                  entries |-> <<>>, facts |-> facts]]
        PROVE  ContextInv'
    BY <2>3, <2>6
  <2>7. \/ Context!Return(r, [status |-> "not found"])
        \/ Context!Return(r, [status |-> "error"])
        \/ \E facts : /\ request' = [request EXCEPT ![r] = [phase |-> "resolved", name |-> name, at |-> Context!Missing,
                                                            entries |-> <<>>, facts |-> facts]]
                      /\ UNCHANGED context
    BY <1>1, Zenon DEF Context!Resolve
  <2> QED BY <2>4, <2>5, <2>6, <2>7
<1>2. ASSUME NEW r \in Requests, Context!FetchHistory(r) PROVE ContextInv'
  <2> DEFINE name == request[r].name
             cached == cache[name]
             done == [request[r] EXCEPT !.phase = "done", !.at = time]
             asking == [request[r] EXCEPT !.phase = "asking", !.at = time]
  <2>1. request[r].phase = "resolved" /\ UNCHANGED <<time, cache>> BY <1>2 DEF Context!FetchHistory
  <2>2. name \in Names /\ DOMAIN request[r] = {"phase", "name", "at", "entries", "facts"} /\ context[r].status # "ok"
    BY <1>r, <2>1 DEF Sound, RequestShape
  <2>3. CASE cached.at # Context!Missing /\ time - cached.at < TTL
    <3>1. /\ context' = [context EXCEPT ![r] = Context!ContextOf(request[r].facts, cached.entry)]
          /\ request' = [request EXCEPT ![r] = done]
      BY <1>2, <2>3 DEF Context!FetchHistory
    <3>2. cached.at \in Nat /\ cached.at <= time /\ cached.entry \in SaidOf(name, cached.at, time)
      BY <1>t, <2>2, <2>3 DEF ContextInv, CacheSound
    <3>3. PICK t \in cached.at..time : Listed(name.base, t) # <<>> /\ cached.entry = Version(name, t)
      BY <3>2 DEF SaidOf
    <3>4. t \in 0..time /\ t > time - TTL BY <1>t, <2>3, <3>2
    <3>5. /\ done.phase = "done" /\ done.at = time /\ done.name = name /\ done.facts = request[r].facts
          /\ "phase" \in DOMAIN done
      BY <2>2
    <3> HIDE DEF done, name, cached
    <3> QED BY <2>1, <3>1, <3>3, <3>4, <3>5, CacheKept, ReturnInvariant
  <2>4. CASE ~(cached.at # Context!Missing /\ time - cached.at < TTL)
    <3>1. UNCHANGED context /\ request' = [request EXCEPT ![r] = asking]
      BY <1>2, <2>4 DEF Context!FetchHistory
    <3>2. /\ asking.phase = "asking" /\ asking.at = time /\ asking.name = name
          /\ DOMAIN asking = {"phase", "name", "at", "entries", "facts"}
      BY <2>2
    <3>3. asking.at <= time BY <1>t, <3>2
    <3> HIDE DEF asking, name
    <3> QED BY <1>t, <2>1, <2>2, <3>1, <3>2, <3>3, GoesOn
  <2> QED BY <2>3, <2>4
<1>3. ASSUME NEW r \in Requests, Context!Serve(r) PROVE ContextInv'
  <2> DEFINE q == [request[r] EXCEPT !.phase = "served", !.entries = Listed(request[r].name.base, time)]
  <2>1. /\ request[r].phase = "asking" /\ UNCHANGED <<time, cache, context>> /\ request' = [request EXCEPT ![r] = q]
    BY <1>3 DEF Context!Serve
  <2>2. /\ request[r].name \in Names /\ DOMAIN request[r] = {"phase", "name", "at", "entries", "facts"}
        /\ context[r].status # "ok" /\ request[r].at \in Nat /\ request[r].at <= time
    BY <1>r, <2>1 DEF Sound, RequestShape, RequestSound
  <2>3. /\ q.phase = "served" /\ q.at = request[r].at /\ q.name = request[r].name
        /\ DOMAIN q = {"phase", "name", "at", "entries", "facts"} /\ q.entries = Listed(q.name.base, time)
    BY <2>2
  <2>4. time \in q.at..time BY <1>t, <2>2, <2>3
  <2> HIDE DEF q
  <2> QED BY <2>1, <2>2, <2>3, <2>4, GoesOn
<1>4. ASSUME NEW r \in Requests, Context!HistoryArrives(r) PROVE ContextInv'
  <2> DEFINE name == request[r].name
             entries == request[r].entries
             entry == IF entries = <<>> THEN Context!NoEntry ELSE Context!resolved_entry(entries, name.version)
             done == [request[r] EXCEPT !.phase = "done"]
  <2>1. /\ request[r].phase = "served" /\ time' = time /\ request' = [request EXCEPT ![r] = done]
        /\ context' = [context EXCEPT ![r] = Context!ContextOf(request[r].facts, entry)]
        /\ IF entries = <<>> THEN UNCHANGED cache
           ELSE cache' = [cache EXCEPT ![name] = [at |-> request[r].at, entry |-> entry]]
    BY <1>4 DEF Context!HistoryArrives, Context!Return
  <2>2. /\ name \in Names /\ DOMAIN request[r] = {"phase", "name", "at", "entries", "facts"}
        /\ request[r].at \in Nat /\ request[r].at <= time
    BY <1>r, <2>1 DEF Sound, RequestShape, RequestSound
  <2>3. PICK t \in request[r].at..time : entries = Listed(name.base, t)
    BY <1>r, <2>1 DEF Sound, RequestSound
  <2>4. t \in 0..time /\ t > request[r].at - TTL BY <1>t, <2>2
  <2>5. /\ done.phase = "done" /\ done.at = request[r].at /\ done.name = name /\ done.facts = request[r].facts
        /\ "phase" \in DOMAIN done
    BY <2>2
  <2>6. CASE entries = <<>>
    <3>1. UNCHANGED <<time, cache>> /\ context' = [context EXCEPT ![r] = Context!ContextOf(done.facts, Context!NoEntry)]
      BY <2>1, <2>5, <2>6
    <3>2. time' = time /\ request' = [request EXCEPT ![r] = done] BY <2>1
    <3>3. DOMAIN cache' = Names /\ \A n \in Names : CacheSound(n)' BY <3>1, CacheKept
    <3> HIDE DEF done, entry, name, entries
    <3> QED BY <2>5, <3>1, <3>2, <3>3, ReturnInvariant
  <2>7. CASE entries # <<>>
    <3>1. entry = Version(name, t) /\ Listed(name.base, t) # <<>> BY <2>3, <2>7 DEF Version
    <3>2. cache' = [cache EXCEPT ![name] = [at |-> request[r].at, entry |-> entry]] BY <2>1, <2>7
    <3> HIDE DEF done, entry, name
    <3>3. DOMAIN cache' = Names BY <3>2 DEF ContextInv
    <3>4. ASSUME NEW n \in Names PROVE CacheSound(n)'
      <4>1. CASE n = name
        <5>1. cache'[n] = [at |-> request[r].at, entry |-> entry] BY <2>2, <3>2, <4>1 DEF ContextInv
        <5>2. entry \in SaidOf(n, request[r].at, time) BY <3>1, <4>1 DEF SaidOf
        <5> QED BY <2>1, <2>2, <5>1, <5>2 DEF CacheSound, SaidOf, Version
      <4>2. CASE n # name
        <5>1. cache'[n] = cache[n] BY <3>2, <4>2 DEF ContextInv
        <5>2. CacheSound(n) BY DEF ContextInv
        <5> QED BY <2>1, <5>1, <5>2 DEF CacheSound, SaidOf, Version
      <4> QED BY <4>1, <4>2
    <3>5. context' = [context EXCEPT ![r] = Context!ContextOf(done.facts, Version(done.name, t))]
      BY <2>1, <2>5, <3>1
    <3>6. t > done.at - TTL /\ Listed(done.name.base, t) # <<>> BY <2>4, <2>5, <3>1
    <3>7. time' = time /\ request' = [request EXCEPT ![r] = done] BY <2>1
    <3> QED BY <2>4, <2>5, <3>3, <3>4, <3>5, <3>6, <3>7, ReturnInvariant
  <2> QED BY <2>6, <2>7
<1>5. ASSUME NEW r \in Requests, Context!HistoryFails(r) PROVE ContextInv'
  <2> DEFINE done == [request[r] EXCEPT !.phase = "done"]
  <2>1. /\ request[r].phase \in {"asking", "served"} /\ UNCHANGED <<time, cache>>
        /\ request' = [request EXCEPT ![r] = done]
        /\ context' = [context EXCEPT ![r] = Context!ContextOf(request[r].facts, Context!NoEntry)]
    BY <1>5 DEF Context!HistoryFails, Context!Return
  <2>2. DOMAIN request[r] = {"phase", "name", "at", "entries", "facts"}
    BY <1>r, <2>1 DEF Sound, RequestShape
  <2>3. done.phase = "done" /\ done.facts = request[r].facts /\ "phase" \in DOMAIN done BY <2>2
  <2> HIDE DEF done
  <2> QED BY <2>1, <2>3, CacheKept, ReturnInvariant
<1>6. ASSUME NEW r \in Requests, Context!SearchTrends(r) PROVE ContextInv'
  <2> DEFINE done == [request[r] EXCEPT !.phase = "done"]
  <2>1. /\ request[r].phase = "idle" /\ UNCHANGED <<time, cache>>
        /\ \E found : Context!Return(r, [status |-> "trends", found |-> found])
    BY <1>6, Zenon DEF Context!SearchTrends
  <2>2. PICK found : Context!Return(r, [status |-> "trends", found |-> found]) BY <2>1
  <2> DEFINE answer == [status |-> "trends", found |-> found]
  <2>3. request' = [request EXCEPT ![r] = done] /\ context' = [context EXCEPT ![r] = answer]
    BY <2>2 DEF Context!Return
  <2>4. answer.status # "ok" OBVIOUS
  <2>5. done.phase = "done" /\ "phase" \in DOMAIN done BY <1>r, <2>1
  <2> HIDE DEF done, answer
  <2> QED BY <2>1, <2>3, <2>4, <2>5, CacheKept, ReturnInvariant
<1>7. CASE Context!Tick
  <2>1. time' = time + 1 /\ UNCHANGED <<cache, request, context>> BY <1>7 DEF Context!Tick
  <2>2. time' \in Nat /\ time <= time' BY <1>t, <2>1
  <2>3. ASSUME NEW n \in Names PROVE CacheSound(n)'
    <3>1. CacheSound(n) BY DEF ContextInv
    <3>2. cache[n].at \in Nat => SaidOf(n, cache[n].at, time) \subseteq SaidOf(n, cache[n].at, time')
      BY <1>t, <2>2 DEF SaidOf
    <3>3. cache[n].at \in Nat /\ cache[n].at <= time => cache[n].at <= time' BY <1>t, <2>2
    <3>4. cache[n].at # -1 => /\ cache[n].at \in Nat /\ cache[n].at <= time'
                             /\ cache[n].entry \in SaidOf(n, cache[n].at, time')
      BY <3>1, <3>2, <3>3 DEF CacheSound
    <3> QED BY <2>1, <3>4 DEF CacheSound, SaidOf, Version
  <2>4. ASSUME NEW r \in Requests PROVE Sound(r)'
    <3>1. Sound(r) BY DEF ContextInv
    <3>2. RequestShape(r)' BY <2>1, <3>1 DEF Sound, RequestShape
    <3>3. RequestSound(r)' BY <1>t, <2>1, <3>1 DEF Sound, RequestSound
    <3>4. FreshFor(r)'
      <4>1. \A t \in 0..time : t \in 0..time' BY <1>t, <2>1
      <4> QED BY <2>1, <3>1, <4>1 DEF Sound, FreshFor, Version
    <3> QED BY <3>2, <3>3, <3>4 DEF Sound
  <2> QED BY <2>1, <2>2, <2>3, <2>4 DEF ContextInv
<1>8. CASE UNCHANGED market
  <2>1. UNCHANGED <<time, cache, request, context>> BY <1>8 DEF market
  <2>2. DOMAIN cache' = Names /\ \A n \in Names : CacheSound(n)' BY <2>1, CacheKept
  <2>3. \A r \in Requests : Sound(r)'
    BY <2>1 DEF ContextInv, Sound, RequestShape, RequestSound, FreshFor, Version
  <2> QED BY <2>1, <2>2, <2>3 DEF ContextInv
<1> QED BY <1>1, <1>2, <1>3, <1>4, <1>5, <1>6, <1>7, <1>8 DEF Context!Next

-----------------------------------------------------------------------------
(* The services together.                                                  *)

(* A step of the services is for each of them a step or none, as they share  *)
(* nothing.                                                                  *)
LEMMA EachStep ==
  ASSUME [ServicesNext]_all
  PROVE  /\ [Skinport!Next]_skinport /\ [DMarket!Next]_dmarket
         /\ [Audit!Next]_audit /\ [Context!Next]_market
  BY DEF ServicesNext, all, vars, skinport, dmarket, audit, market

(* No request goes out that its service does not welcome, for any intervals, *)
(* lockouts, callers, models, restarts and failures (poll_market_stream,     *)
(* _wait_for_turn, evaluate_trade).                                          *)
THEOREM RequestsPacedHolds == ServicesSpec => []RequestsPaced
<1> DEFINE Inv == PollInv /\ PacingInv /\ AuditInv
<1>1. ServicesInit => Inv
  <2> SUFFICES ASSUME ServicesInit PROVE Inv
    OBVIOUS
  <2>1. PollInv
    BY ServicesAssumption
    DEF ServicesAssumption, Skinport!PollAssumption, ServicesInit, Skinport!Init, PollInv, PollTyped, PollWaits, Skinport!Polite
  <2>2. PacingInv
    BY ServicesAssumption
    DEF ServicesAssumption, DMarket!ClientAssumption, ServicesInit, DMarket!Init, DMarket!Idle, PacingInv, PacingTyped,
        Calls, TurnsWait, DMarket!RequestsPaced
  <2>3. AuditInv
    <3>1. PICK config \in Configs : models = Audit!all_models(config) BY DEF ServicesInit, Audit!Init
    <3>2. config.primary \in Models /\ config.fallbacks \in Seq(Models)
      BY ServicesAssumption DEF ServicesAssumption, Audit!AuditAssumption
    <3>3. models \in Seq(Models) /\ Len(models) \in Nat \ {0} /\ Distinct(models) BY <3>1, <3>2, ModelsDistinct
    <3>4. /\ model = 1 /\ told = {} /\ called = [model |-> models[1], told |-> FALSE] /\ wait = [delay |-> 0, wished |-> 0]
      BY DEF ServicesInit, Audit!Init, Audit!NoWait
    <3> QED BY <3>3, <3>4 DEF AuditInv, Audit!ProviderRespected, Audit!NotAskedAgain, Audit!WaitsAsAsked
  <2> QED BY <2>1, <2>2, <2>3
<1>2. Inv /\ [ServicesNext]_all => Inv'
  BY EachStep, PollInductive, PacingInductive, AuditInductive, ServicesAssumption DEF ServicesAssumption
<1>3. Inv => RequestsPaced
  BY DEF PollInv, PacingInv, AuditInv, RequestsPaced
<1> QED BY <1>1, <1>2, <1>3, PTL DEF ServicesSpec

(* However requests overlap and answers are late, a market context is made   *)
(* of sales that Skinport reported less than TTL before the request looked,  *)
(* or without them (fetch_skinport_sales_history).                           *)
THEOREM ContextFreshHolds == ServicesSpec => []ContextFresh
<1>1. ServicesInit => ContextInv
  <2> SUFFICES ASSUME ServicesInit PROVE ContextInv
    OBVIOUS
  <2>1. /\ time = 0 /\ cache = [n \in Names |-> [at |-> -1, entry |-> Context!NoEntry]]
        /\ request = [r \in Requests |-> [phase |-> "idle"]] /\ context = [r \in Requests |-> [status |-> "none"]]
    BY DEF ServicesInit, Context!Init, Context!Missing, Context!Idle, Context!NoContext
  <2>2. \A n \in Names : CacheSound(n) BY <2>1 DEF CacheSound
  <2>3. \A r \in Requests : Sound(r) BY <2>1 DEF Sound, RequestShape, RequestSound, FreshFor
  <2> QED BY <2>1, <2>2, <2>3 DEF ContextInv
<1>2. ContextInv /\ [ServicesNext]_all => ContextInv'
  BY EachStep, ContextInductive, ServicesAssumption DEF ServicesAssumption
<1>3. ContextInv => ContextFresh
  BY DEF ContextInv, Sound, FreshFor, Version, ContextFresh, Context!ContextFresh
<1> QED BY <1>1, <1>2, <1>3, PTL DEF ServicesSpec
=============================================================================
