------------------------------ MODULE RateLimiter ------------------------------
(***************************************************************************)
(* RateLimiter of main.py: every message a client sends on a WebSocket is  *)
(* first put to allow(), with the client's address as the key.  allow()    *)
(* reads the wall clock, drops the times that have left the window from    *)
(* the front of the address's queue, and admits the message if fewer than  *)
(* the limit remain.                                                       *)
(***************************************************************************)
EXTENDS Integers, Sequences

CONSTANTS
    Keys,           \* the clients' addresses
    Limit,          \* settings.rate_limit_per_minute
    Window,         \* the 60 seconds of the window
    MaxTime,        \* a bound on the clock
    MaxGranted,     \* a bound on the messages admitted from one address
    NoKey           \* no address

ASSUME LimiterAssumption ==
    /\ Limit \in Int
    /\ Window \in Nat
    /\ MaxTime \in Nat
    /\ MaxGranted \in Nat
    /\ NoKey \notin Keys

VARIABLES
    now,        \* time.time()
    events,     \* _events: the queue of each address
    granted,    \* when the messages of each address were admitted, in order
    refused,    \* the address refused at this very moment, or NoKey
    setBack     \* the clock was set back at some time

vars == <<now, events, granted, refused, setBack>>

LimitPerMinute == IF Limit < 1 THEN 1 ELSE Limit

Init ==
    /\ now = 0
    /\ events = [k \in Keys |-> <<>>]
    /\ granted = [k \in Keys |-> <<>>]
    /\ refused = NoKey
    /\ setBack = FALSE

(* Defect: a time at the very edge of the window is dropped. *)
Expired_Edge(bucket, n) ==
    /\ \A i \in 1..n : bucket[i] <= now - Window
    /\ n < Len(bucket) => bucket[n + 1] > now - Window

(* Defect: nothing is dropped from a queue that is full. *)
Expired_NotWhenFull(bucket, n) ==
    IF Len(bucket) >= LimitPerMinute
    THEN n = 0
    ELSE /\ \A i \in 1..n : bucket[i] < now - Window
         /\ n < Len(bucket) => bucket[n + 1] >= now - Window

(* The loop drops the first n times of the queue.  It stops at the first    *)
(* one inside the window, older ones behind it or not.                      *)
Expired(bucket, n) ==
    /\ \A i \in 1..n : bucket[i] < now - Window
    /\ n < Len(bucket) => bucket[n + 1] >= now - Window

Rest(bucket, n) == SubSeq(bucket, n + 1, Len(bucket))

(* Defect: the limit is passed by one. *)
Admit_OffByOne(k) ==
    /\ Len(granted[k]) < MaxGranted
    /\ \E n \in 0..Len(events[k]) :
           LET kept == Rest(events[k], n) IN
           /\ Expired(events[k], n)
           /\ Len(kept) <= LimitPerMinute
           /\ events' = [events EXCEPT ![k] = Append(kept, now)]
    /\ granted' = [granted EXCEPT ![k] = Append(@, now)]
    /\ refused' = NoKey
    /\ UNCHANGED <<now, setBack>>

Admit(k) ==
    /\ Len(granted[k]) < MaxGranted
    /\ \E n \in 0..Len(events[k]) :
           LET kept == Rest(events[k], n) IN
           /\ Expired(events[k], n)
           /\ Len(kept) < LimitPerMinute
           /\ events' = [events EXCEPT ![k] = Append(kept, now)]
    /\ granted' = [granted EXCEPT ![k] = Append(@, now)]
    /\ refused' = NoKey
    /\ UNCHANGED <<now, setBack>>

Refuse(k) ==
    /\ \E n \in 0..Len(events[k]) :
           LET kept == Rest(events[k], n) IN
           /\ Expired(events[k], n)
           /\ Len(kept) >= LimitPerMinute
           /\ events' = [events EXCEPT ![k] = kept]
    /\ refused' = k
    /\ UNCHANGED <<now, granted, setBack>>

(* Time passes between two calls, or the clock is set back. *)
Tick ==
    /\ now' \in 0..MaxTime \ {now}
    /\ setBack' = (setBack \/ now' < now)
    /\ refused' = NoKey
    /\ UNCHANGED <<events, granted>>

(* No message need come. *)
Quiet == UNCHANGED vars

Next == (\E k \in Keys : Admit(k) \/ Refuse(k)) \/ Tick \/ Quiet

Spec == Init /\ [][Next]_vars

-----------------------------------------------------------------------------
(* Types; and a queue never holds more than the limit, whatever the clock   *)
(* does: it is what bounds the memory an address takes.                     *)
TypeOK ==
    /\ now \in Nat
    /\ events \in [Keys -> Seq(Nat)]
    /\ granted \in [Keys -> Seq(Nat)]
    /\ refused \in Keys \cup {NoKey}
    /\ setBack \in BOOLEAN
    /\ \A k \in Keys : Len(events[k]) <= LimitPerMinute

(* The limit itself: as long as the clock is not set back, no window of     *)
(* 60 seconds, both of its ends included, sees more than the limit          *)
(* admitted.  Of Limit + 1 messages in a row the last comes later than 60   *)
(* seconds after the first.                                                 *)
AtMostLimit ==
    ~setBack =>
        \A k \in Keys : \A i, j \in DOMAIN granted[k] :
            j = i + LimitPerMinute => granted[k][j] > granted[k][i] + Window

(* Why it is kept: the queue is the end of what was admitted, in the order  *)
(* of time, and what is no longer in it left the window.                    *)
Offset(k) == Len(granted[k]) - Len(events[k])

QueueInv ==
    ~setBack => \A k \in Keys :
        /\ Offset(k) >= 0
        /\ \A i \in DOMAIN events[k] : events[k][i] = granted[k][i + Offset(k)]
        /\ \A i \in 1..Offset(k) : granted[k][i] < now - Window
        /\ \A i \in DOMAIN granted[k] : granted[k][i] <= now

(* A message is refused only when the limit is used up: as many messages    *)
(* were admitted in the window that ends now.  After the clock was set back *)
(* the times of messages admitted before may lie in the future, and these   *)
(* count too: an address is refused only while one of its messages has a    *)
(* time not more than 60 seconds before what the clock now shows, or later. *)
RefusedIsFull ==
    refused # NoKey =>
        LET g == granted[refused] IN
        /\ \E i \in DOMAIN g : g[i] >= now - Window
        /\ ~setBack => /\ Len(g) >= LimitPerMinute
                       /\ g[Len(g) - LimitPerMinute + 1] >= now - Window
===============================================================================
