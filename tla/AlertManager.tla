----------------------------- MODULE AlertManager -----------------------------
(***************************************************************************)
(* crates/alerts and Task 4 of the daemon: one alert after the other is    *)
(* checked against the messages its channel had last, held back by the     *)
(* rate limit and tried three times, all under the manager's lock.         *)
(*                                                                         *)
(* Abstractions: no two messages have the same fingerprint; time passes in *)
(* ticks of the first backoff; an attempt takes no time, but its outcome   *)
(* may be that the message got through and the answer did not.             *)
(***************************************************************************)
EXTENDS Naturals, Sequences

CONSTANTS Message, Channel,
          NoReply,       \* channels that answer at once and never fail: email
          Deaf,          \* channels that are unknown or not configured
          Capacity,      \* of a DedupRing
          MinInterval, MaxRetries,
          MaxQueue       \* bound of the subscription's buffer

ASSUME AlertAssumption == /\ {Capacity, MinInterval, MaxQueue} \subseteq Nat
                          /\ MaxRetries \in Nat \ {0}
                          /\ NoReply \subseteq Channel /\ Deaf \subseteq Channel \ NoReply
                          /\ "none" \notin Channel

VARIABLES queue,      \* ALERT_REQUESTED on its way to Task 4
          recent,     \* AlertManager.dedup
          cooling,    \* ticks until last_sent lets the channel send again
          sending,    \* the alert send_alert works on, its attempt and sleep
          published,  \* what Task 4 published last
          log,        \* history: the last messages taken up for each channel
          effort,     \* history: the attempts on the latest one of each channel
          arrived     \* history: messages that got through, by channel

history   == <<log, effort, arrived>>
alertVars == <<queue, recent, cooling, sending, published, history>>

Alerts  == [message : Message, channel : Channel]
Nothing == [message |-> "none", channel |-> "none", attempt |-> 0, sleep |-> 0]
NoReport == [subject |-> "none", message |-> "none", channel |-> "none"]

Effort(tries, answered) == [tries |-> tries, answered |-> answered]

Longest(a, b) == IF a > b THEN a ELSE b

AlertTypeOK ==
  /\ queue \in Seq(Alerts) /\ Len(queue) <= MaxQueue
  /\ recent \in [Channel -> Seq(Message)]
  /\ \A c \in Channel : Len(recent[c]) <= Capacity
  /\ cooling \in [Channel -> 0..MinInterval]
  /\ sending \in [message : Message, channel : Channel, attempt : 1..MaxRetries,
                  sleep : 0..Longest(MinInterval, MaxRetries)] \cup {Nothing}
  /\ published \in [subject : {"SENT", "FAILED"}, message : Message, channel : Channel]
                   \cup {NoReport}
  /\ log \in [Channel -> Seq(Message)] /\ arrived \subseteq Message \X Channel
  /\ effort \in [Channel -> [tries : 0..MaxRetries, answered : BOOLEAN]]

AlertInit ==
  /\ queue = <<>> /\ sending = Nothing /\ published = NoReport /\ arrived = {}
  /\ recent = [c \in Channel |-> <<>>] /\ log = [c \in Channel |-> <<>>]
  /\ cooling = [c \in Channel |-> 0] /\ effort = [c \in Channel |-> Effort(0, FALSE)]

-----------------------------------------------------------------------------
Request(a) == /\ Len(queue) < MaxQueue
              /\ queue' = Append(queue, a)
              /\ UNCHANGED <<recent, cooling, sending, published, history>>

Elements(s) == {s[i] : i \in DOMAIN s}

Newest(s, n) == IF Len(s) > n THEN SubSeq(s, Len(s) - n + 1, Len(s)) ELSE s

\* Mutant of Remember: the oldest message leaves when the ring is full.
RememberOneLess(ring, m) == Newest(Append(ring, m), Capacity - 1)

\* is_duplicate, for a message that is none.
Remember(ring, m) == Newest(Append(ring, m), Capacity)

Report(subject, m, c) == published' = [subject |-> subject, message |-> m, channel |-> c]

\* A duplicate is a success for the caller.
TakeDuplicate ==
  /\ sending = Nothing /\ queue # <<>>
  /\ Head(queue).message \in Elements(recent[Head(queue).channel])
  /\ queue' = Tail(queue)
  /\ Report("SENT", Head(queue).message, Head(queue).channel)
  /\ UNCHANGED <<recent, cooling, sending, history>>

Take ==
  /\ sending = Nothing /\ queue # <<>>
  /\ LET a == Head(queue)
         c == a.channel
     IN /\ a.message \notin Elements(recent[c])
        /\ recent' = [recent EXCEPT ![c] = Remember(@, a.message)]
        /\ log' = [log EXCEPT ![c] = Newest(Append(@, a.message), Capacity + 1)]
        /\ effort' = [effort EXCEPT ![c] = Effort(0, FALSE)]
        /\ sending' = [message |-> a.message, channel |-> c, attempt |-> 1,
                       sleep |-> cooling[c]]
  /\ queue' = Tail(queue)
  /\ UNCHANGED <<cooling, published, arrived>>

-----------------------------------------------------------------------------
(* send_inner, when its turn has come.                                     *)

Trying == sending # Nothing /\ sending.sleep = 0

Tried(answered) ==
  effort' = [effort EXCEPT ![sending.channel] = Effort(sending.attempt, answered)]

Arrives == arrived' = arrived \cup {<<sending.message, sending.channel>>}

Succeed == /\ Trying /\ sending.channel \notin Deaf
           /\ Arrives /\ Tried(TRUE)
           /\ cooling' = [cooling EXCEPT ![sending.channel] = MinInterval]
           /\ Report("SENT", sending.message, sending.channel)
           /\ sending' = Nothing
           /\ UNCHANGED <<queue, recent, log>>

\* Mutant of Fail: the last attempt is left out.
FailTooSoon == /\ Trying /\ sending.channel \notin NoReply
               /\ UNCHANGED arrived \/ (sending.channel \notin Deaf /\ Arrives)
               /\ Tried(FALSE)
               /\ IF sending.attempt + 1 < MaxRetries
                  THEN /\ sending' = [sending EXCEPT !.attempt = @ + 1, !.sleep = sending.attempt]
                       /\ UNCHANGED published
                  ELSE /\ sending' = Nothing
                       /\ Report("FAILED", sending.message, sending.channel)
               /\ UNCHANGED <<queue, recent, cooling, log>>

\* Two ticks of sleep after the second attempt, one after the first.
Fail == /\ Trying /\ sending.channel \notin NoReply
        /\ UNCHANGED arrived \/ (sending.channel \notin Deaf /\ Arrives)
        /\ Tried(FALSE)
        /\ IF sending.attempt < MaxRetries
           THEN /\ sending' = [sending EXCEPT !.attempt = @ + 1, !.sleep = sending.attempt]
                /\ UNCHANGED published
           ELSE /\ sending' = Nothing
                /\ Report("FAILED", sending.message, sending.channel)
        /\ UNCHANGED <<queue, recent, cooling, log>>

Sooner1(n) == IF n = 0 THEN 0 ELSE n - 1

AlertTick == /\ ~Trying
             /\ cooling' = [c \in Channel |-> Sooner1(cooling[c])]
             /\ sending' = [sending EXCEPT !.sleep = Sooner1(@)]
             /\ UNCHANGED <<queue, recent, published, history>>

AlertNext == \/ \E a \in Alerts : Request(a)
             \/ TakeDuplicate \/ Take \/ Succeed \/ Fail \/ AlertTick

AlertSpec == AlertInit /\ [][AlertNext]_alertVars
-----------------------------------------------------------------------------
(* No message is taken up again for a channel unless Capacity others were  *)
(* in between, however often it is requested and whatever fails: what a    *)
(* receiver may get several times are the attempts of one take-up.         *)
NoRepeatWithinCapacity ==
  \A c \in Channel : \A i, j \in DOMAIN log[c] : i # j => log[c][i] # log[c][j]

(* A message that was taken up is tried until there is an answer, and not  *)
(* once more, or MaxRetries times: no other request, channel or waiting    *)
(* time cuts the attempts short.                                           *)
TriedUntilAnswered ==
  \A c \in Channel :
    IF sending.channel = c THEN ~effort[c].answered /\ effort[c].tries < MaxRetries
    ELSE log[c] # <<>> => effort[c].answered \/ effort[c].tries = MaxRetries

(* A message is skipped if the same one was sent recently: what Task 4     *)
(* publishes as sent has got through to its channel.                       *)
SentIsDelivered ==
  published.subject = "SENT" => <<published.message, published.channel>> \in arrived
=============================================================================
