-------------------------- MODULE RateLimiterProofs --------------------------
(* The limiter keeps to its limit, for any limit, window and clock that is  *)
(* not set back.                                                            *)
EXTENDS RateLimiter, TLAPS

(* The limit is positive, whatever the setting: a message can be admitted.  *)
LEMMA LimitIsPositive == LimitPerMinute \in Nat \ {0}
BY LimiterAssumption DEF LimitPerMinute

(* The queue without its first n times. *)
LEMMA RestOfQueue ==
    ASSUME NEW b \in Seq(Nat), NEW n \in 0..Len(b)
    PROVE  /\ Rest(b, n) \in Seq(Nat)
           /\ Len(Rest(b, n)) = Len(b) - n
           /\ \A i \in 1..(Len(b) - n) : Rest(b, n)[i] = b[i + n]
<1>1. n + 1 \in 1..(Len(b) + 1) /\ Len(b) \in Nat /\ n \in Nat
  OBVIOUS
<1>2. Len(Rest(b, n)) = Len(b) - n
  BY <1>1 DEF Rest
<1>3. \A i \in 1..(Len(b) - n) : Rest(b, n)[i] = b[i + n]
  BY <1>1 DEF Rest
<1>4. Rest(b, n) \in Seq(Nat)
  BY <1>1 DEF Rest
<1> QED
  BY <1>2, <1>3, <1>4

(* An element appended goes to the end. *)
LEMMA AppendLast ==
    ASSUME NEW s \in Seq(Nat), NEW x \in Nat
    PROVE  /\ Append(s, x) \in Seq(Nat)
           /\ Len(Append(s, x)) = Len(s) + 1
           /\ \A i \in 1..Len(s) : Append(s, x)[i] = s[i]
           /\ Append(s, x)[Len(s) + 1] = x
OBVIOUS

(* Whatever the clock does, a queue holds only times that were admitted.    *)
QueueIsAdmitted ==
    \A k \in Keys : \A i \in 1..Len(events[k]) :
        \E j \in 1..Len(granted[k]) : granted[k][j] = events[k][i]

Inv == TypeOK /\ QueueInv /\ QueueIsAdmitted /\ AtMostLimit /\ RefusedIsFull

(* Nothing was admitted yet. *)
LEMMA InitInv == Init => Inv
<1> SUFFICES ASSUME Init PROVE Inv
  OBVIOUS
<1> USE LimiterAssumption, LimitIsPositive DEF Init
<1>1. TypeOK
  <2>1. setBack \in BOOLEAN
    BY Zenon
  <2>2. now \in Nat /\ events \in [Keys -> Seq(Nat)] /\ granted \in [Keys -> Seq(Nat)]
    OBVIOUS
  <2>3. LimitPerMinute >= 0 /\ Len(<<>>) = 0
    BY LimitIsPositive
  <2>4. ASSUME NEW k \in Keys PROVE Len(events[k]) <= LimitPerMinute
    <3>1. events[k] = <<>>
      OBVIOUS
    <3> QED
      BY <3>1, <2>3
  <2> QED
    BY <2>1, <2>2, <2>4 DEF TypeOK
<1>2. QueueInv
  <2> SUFFICES ASSUME NEW k \in Keys
               PROVE  /\ Offset(k) >= 0
                      /\ \A i \in DOMAIN events[k] : events[k][i] = granted[k][i + Offset(k)]
                      /\ \A i \in 1..Offset(k) : granted[k][i] < now - Window
                      /\ \A i \in DOMAIN granted[k] : granted[k][i] <= now
    BY DEF QueueInv
  <2>1. events[k] = <<>> /\ granted[k] = <<>> /\ Offset(k) = 0
    BY DEF Offset
  <2> QED
    BY <2>1
<1>3. AtMostLimit
  BY DEF AtMostLimit
<1>4. RefusedIsFull
  BY DEF RefusedIsFull
<1>5. QueueIsAdmitted
  <2> SUFFICES ASSUME NEW k \in Keys, NEW i \in 1..Len(events[k]) PROVE FALSE
    BY DEF QueueIsAdmitted
  <2>1. events[k] = <<>>
    OBVIOUS
  <2> QED
    BY <2>1
<1> QED
  BY <1>1, <1>2, <1>3, <1>4, <1>5 DEF Inv

(* The queue e is the end of the sequence g of what was admitted, and what  *)
(* is before it lies below the bound.                                       *)
EndsWith(g, e, bound) ==
    /\ Len(e) <= Len(g)
    /\ \A i \in 1..Len(e) : e[i] = g[i + (Len(g) - Len(e))]
    /\ \A i \in 1..(Len(g) - Len(e)) : g[i] < bound

(* It still is when its first times, all below the bound, are dropped.      *)
LEMMA DropKeepsEnd ==
    ASSUME NEW g \in Seq(Nat), NEW e \in Seq(Nat), NEW bound \in Int,
           NEW n \in 0..Len(e), EndsWith(g, e, bound),
           \A i \in 1..n : e[i] < bound
    PROVE  EndsWith(g, Rest(e, n), bound)
<1> DEFINE kept == Rest(e, n)
           diff == Len(g) - Len(e)
<1>1. /\ kept \in Seq(Nat) /\ Len(kept) = Len(e) - n
      /\ \A i \in 1..(Len(e) - n) : kept[i] = e[i + n]
  BY RestOfQueue
<1>2. /\ Len(g) \in Nat /\ Len(e) \in Nat /\ diff \in Nat /\ n \in Nat /\ n <= Len(e)
      /\ Len(kept) \in Nat /\ Len(g) - Len(kept) = diff + n /\ Len(kept) <= Len(g)
  BY <1>1 DEF EndsWith
<1>3. /\ \A i \in 1..Len(e) : e[i] = g[i + diff]
      /\ \A i \in 1..diff : g[i] < bound
  BY DEF EndsWith
<1> HIDE DEF kept, diff
<1>4. ASSUME NEW i \in 1..Len(kept) PROVE kept[i] = g[i + (diff + n)]
  <2>1. i \in 1..(Len(e) - n) /\ i + n \in 1..Len(e) /\ (i + n) + diff = i + (diff + n)
    BY <1>1, <1>2
  <2> QED
    BY <2>1, <1>1, <1>3
<1>5. ASSUME NEW i \in 1..(diff + n) PROVE g[i] < bound
  <2>1. CASE i \in 1..diff
    BY <2>1, <1>3
  <2>2. CASE i \notin 1..diff
    <3>1. i - diff \in 1..n /\ i - diff \in 1..Len(e) /\ (i - diff) + diff = i
      BY <2>2, <1>2
    <3> QED
      BY <3>1, <1>3
  <2> QED
    BY <2>1, <2>2
<1> QED
  BY <1>2, <1>4, <1>5 DEF EndsWith, kept

(* And when the same time is appended to both.                              *)
LEMMA AppendKeepsEnd ==
    ASSUME NEW g \in Seq(Nat), NEW e \in Seq(Nat), NEW bound \in Int, NEW t \in Nat,
           EndsWith(g, e, bound)
    PROVE  EndsWith(Append(g, t), Append(e, t), bound)
<1> DEFINE gt == Append(g, t)
           et == Append(e, t)
           diff == Len(g) - Len(e)
<1>1. /\ Len(g) \in Nat /\ Len(e) \in Nat /\ diff \in Nat
      /\ Len(gt) = Len(g) + 1 /\ Len(et) = Len(e) + 1 /\ Len(gt) - Len(et) = diff
      /\ diff <= Len(g) /\ Len(e) + diff = Len(g)
  BY AppendLast DEF EndsWith
<1>2. /\ \A i \in 1..Len(g) : gt[i] = g[i]
      /\ \A i \in 1..Len(e) : et[i] = e[i]
      /\ gt[Len(g) + 1] = t /\ et[Len(e) + 1] = t
  BY AppendLast
<1>3. /\ \A i \in 1..Len(e) : e[i] = g[i + diff]
      /\ \A i \in 1..diff : g[i] < bound
  BY DEF EndsWith
<1> HIDE DEF gt, et, diff
<1>4. ASSUME NEW i \in 1..(Len(e) + 1) PROVE et[i] = gt[i + diff]
  <2>1. CASE i = Len(e) + 1
    <3>1. i + diff = Len(g) + 1
      BY <2>1, <1>1
    <3> QED
      BY <2>1, <3>1, <1>2
  <2>2. CASE i # Len(e) + 1
    <3>1. i \in 1..Len(e) /\ i + diff \in 1..Len(g)
      BY SMTT(30), <2>2, <1>1
    <3> QED
      BY <3>1, <1>2, <1>3
  <2> QED
    BY <2>1, <2>2
<1>5. ASSUME NEW i \in 1..diff PROVE gt[i] < bound
  <2>1. i \in 1..Len(g)
    BY <1>1
  <2> QED
    BY <2>1, <1>2, <1>3
<1>6. Len(et) <= Len(gt)
  BY <1>1
<1>7. /\ \A i \in 1..Len(et) : et[i] = gt[i + (Len(gt) - Len(et))]
      /\ \A i \in 1..(Len(gt) - Len(et)) : gt[i] < bound
  BY <1>1, <1>4, <1>5
<1> QED
  BY <1>6, <1>7 DEF EndsWith, gt, et

(* QueueInv in these words. *)
LEMMA QueueEnds ==
    ASSUME TypeOK
    PROVE  QueueInv <=> (~setBack => \A k \in Keys :
               /\ EndsWith(granted[k], events[k], now - Window)
               /\ \A i \in 1..Len(granted[k]) : granted[k][i] <= now)
<1>1. ASSUME NEW k \in Keys
      PROVE  /\ DOMAIN events[k] = 1..Len(events[k]) /\ DOMAIN granted[k] = 1..Len(granted[k])
             /\ Offset(k) >= 0 <=> Len(events[k]) <= Len(granted[k])
  <2>1. events[k] \in Seq(Nat) /\ granted[k] \in Seq(Nat)
    BY DEF TypeOK
  <2> QED
    BY <2>1 DEF Offset
<1> QED
  BY <1>1 DEF QueueInv, EndsWith, Offset

(* The limit on one sequence of times: when one is appended to g while the  *)
(* queue kept has room, the time a full limit before it has left the window.*)
Spread(g, limit) ==
    \A i, j \in 1..Len(g) : j = i + limit => g[j] > g[i] + Window

LEMMA AppendKeepsSpread ==
    ASSUME NEW g \in Seq(Nat), NEW kept \in Seq(Nat), NEW limit \in Nat \ {0}, NEW t \in Nat,
           EndsWith(g, kept, t - Window), Spread(g, limit), Len(kept) < limit
    PROVE  Spread(Append(g, t), limit)
<1> DEFINE gt == Append(g, t)
<1>1. Len(g) \in Nat /\ Len(kept) \in Nat /\ Len(gt) = Len(g) + 1 /\ Window \in Nat
  BY AppendLast, LimiterAssumption
<1>2. (\A i \in 1..Len(g) : gt[i] = g[i]) /\ gt[Len(g) + 1] = t
  BY AppendLast
<1> HIDE DEF gt
<1> SUFFICES ASSUME NEW i \in 1..(Len(g) + 1), NEW j \in 1..(Len(g) + 1), j = i + limit
             PROVE  gt[j] > gt[i] + Window
  BY <1>1 DEF Spread, gt
<1>3. i \in 1..Len(g)
  BY <1>1
<1>4. CASE j # Len(g) + 1
  <2>1. j \in 1..Len(g)
    BY <1>1, <1>4
  <2> QED
    BY <1>2, <1>3, <2>1 DEF Spread
<1>5. CASE j = Len(g) + 1
  <2>1. i \in 1..(Len(g) - Len(kept))
    BY <1>1, <1>5
  <2>2. g[i] < t - Window /\ g[i] \in Nat
    BY <2>1, <1>3 DEF EndsWith
  <2>3. gt[j] = t /\ gt[i] = g[i]
    BY <1>2, <1>3, <1>5
  <2> QED
    BY <1>1, <2>2, <2>3
<1> QED
  BY <1>4, <1>5

(* AtMostLimit in these words. *)
LEMMA LimitSpreads ==
    ASSUME TypeOK
    PROVE  AtMostLimit <=> (~setBack => \A k \in Keys : Spread(granted[k], LimitPerMinute))
<1>1. ASSUME NEW k \in Keys PROVE DOMAIN granted[k] = 1..Len(granted[k])
  BY DEF TypeOK
<1> QED
  BY <1>1 DEF AtMostLimit, Spread

(* A message is admitted: there is room. *)
LEMMA AdmitKeepsInv == ASSUME Inv, NEW k \in Keys, Admit(k) PROVE Inv'
<1>1. PICK n \in 0..Len(events[k]) :
        /\ Expired(events[k], n)
        /\ Len(Rest(events[k], n)) < LimitPerMinute
        /\ events' = [events EXCEPT ![k] = Append(Rest(events[k], n), now)]
  BY DEF Admit
<1> DEFINE kept == Rest(events[k], n)
           g == granted[k]
<1>2. /\ granted' = [granted EXCEPT ![k] = Append(g, now)] /\ refused' = NoKey
      /\ now' = now /\ setBack' = setBack
  BY DEF Admit
<1>3. /\ events \in [Keys -> Seq(Nat)] /\ granted \in [Keys -> Seq(Nat)]
      /\ now \in Nat /\ now - Window \in Int /\ setBack \in BOOLEAN
      /\ g \in Seq(Nat) /\ events[k] \in Seq(Nat)
      /\ \A q \in Keys : Len(events[q]) <= LimitPerMinute
  BY LimiterAssumption DEF Inv, TypeOK
<1>4. kept \in Seq(Nat)
  BY <1>3, RestOfQueue
<1>5. /\ events'[k] = Append(kept, now) /\ granted'[k] = Append(g, now)
      /\ \A q \in Keys : q # k => events'[q] = events[q] /\ granted'[q] = granted[q]
  BY <1>1, <1>2, <1>3
<1>6. ~setBack => EndsWith(g, kept, now - Window)
  <2> SUFFICES ASSUME ~setBack PROVE EndsWith(g, kept, now - Window)
    OBVIOUS
  <2>1. EndsWith(g, events[k], now - Window)
    BY QueueEnds DEF Inv
  <2>2. \A i \in 1..n : events[k][i] < now - Window
    BY <1>1 DEF Expired
  <2> QED
    BY <1>3, <2>1, <2>2, DropKeepsEnd
<1>7. /\ Append(kept, now) \in Seq(Nat) /\ Append(g, now) \in Seq(Nat)
      /\ Len(Append(kept, now)) = Len(kept) + 1 /\ Len(Append(g, now)) = Len(g) + 1
      /\ \A i \in 1..Len(g) : Append(g, now)[i] = g[i]
      /\ Append(g, now)[Len(g) + 1] = now
  BY <1>3, <1>4, AppendLast
<1>8. TypeOK'
  <2>1. events' \in [Keys -> Seq(Nat)] /\ granted' \in [Keys -> Seq(Nat)]
    BY <1>1, <1>2, <1>3, <1>7
  <2>2. Len(kept) + 1 <= LimitPerMinute
    BY <1>1, <1>4, LimitIsPositive
  <2>3. \A q \in Keys : Len(events'[q]) <= LimitPerMinute
    BY <2>2, <1>3, <1>5, <1>7
  <2> QED
    BY <1>2, <1>3, <2>1, <2>3 DEF TypeOK
<1>9. QueueInv'
  <2>1. ASSUME ~setBack, NEW q \in Keys
        PROVE  /\ EndsWith(granted'[q], events'[q], now - Window)
               /\ \A i \in 1..Len(granted'[q]) : granted'[q][i] <= now
    <3>1. EndsWith(granted[q], events[q], now - Window)
          /\ \A i \in 1..Len(granted[q]) : granted[q][i] <= now
      BY <2>1, QueueEnds DEF Inv
    <3>2. CASE q # k
      BY <3>1, <3>2, <1>5
    <3>3. CASE q = k
      <4>1. EndsWith(granted'[k], events'[k], now - Window)
        BY <2>1, <1>3, <1>4, <1>5, <1>6, AppendKeepsEnd
      <4>2. \A i \in 1..Len(Append(g, now)) : Append(g, now)[i] <= now
        BY <3>1, <3>3, <1>3, <1>7
      <4> QED
        BY <3>3, <4>1, <4>2, <1>5
    <3> QED
      BY <3>2, <3>3
  <2>2. ASSUME NEW q \in Keys
        PROVE  /\ DOMAIN events'[q] = 1..Len(events'[q]) /\ DOMAIN granted'[q] = 1..Len(granted'[q])
               /\ Offset(q)' >= 0 <=> Len(events'[q]) <= Len(granted'[q])
               /\ Offset(q)' = Len(granted'[q]) - Len(events'[q])
    <3>1. events'[q] \in Seq(Nat) /\ granted'[q] \in Seq(Nat)
      BY <1>8 DEF TypeOK
    <3> QED
      BY <3>1 DEF Offset
  <2>3. ASSUME ~setBack, NEW q \in Keys
        PROVE  /\ Offset(q)' >= 0
               /\ \A i \in DOMAIN events'[q] : events'[q][i] = granted'[q][i + Offset(q)']
               /\ \A i \in 1..Offset(q)' : granted'[q][i] < now - Window
               /\ \A i \in DOMAIN granted'[q] : granted'[q][i] <= now
    BY ZenonT(30), <2>1, <2>2, <2>3 DEF EndsWith
  <2> QED
    BY <2>3, <1>2 DEF QueueInv
<1>10. AtMostLimit'
  <2>1. ASSUME ~setBack, NEW q \in Keys PROVE Spread(granted'[q], LimitPerMinute)
    <3>1. Spread(granted[q], LimitPerMinute)
      BY <2>1, LimitSpreads DEF Inv
    <3>2. CASE q = k
      BY <3>1, <3>2, <2>1, <1>1, <1>3, <1>4, <1>5, <1>6, LimitIsPositive, AppendKeepsSpread
    <3> QED
      BY <3>1, <3>2, <1>5
  <2>2. \A q \in Keys : DOMAIN granted'[q] = 1..Len(granted'[q])
    BY <1>8 DEF TypeOK
  <2> QED
    BY <2>1, <2>2, <1>2 DEF AtMostLimit, Spread
<1>11. RefusedIsFull'
  BY <1>2 DEF RefusedIsFull
<1>12. QueueIsAdmitted'
  <2>1. ASSUME NEW i \in 1..(Len(kept) + 1)
        PROVE  \E j \in 1..(Len(g) + 1) : Append(g, now)[j] = Append(kept, now)[i]
    <3>1. /\ Len(g) \in Nat /\ Len(kept) \in Nat /\ Len(events[k]) \in Nat
          /\ Len(kept) = Len(events[k]) - n
          /\ \A m \in 1..Len(kept) : kept[m] = events[k][m + n]
          /\ \A m \in 1..Len(kept) : Append(kept, now)[m] = kept[m]
          /\ Append(kept, now)[Len(kept) + 1] = now
      BY <1>3, <1>4, RestOfQueue, AppendLast
    <3>2. CASE i = Len(kept) + 1
      <4>1. Len(g) + 1 \in 1..(Len(g) + 1)
        BY <3>1
      <4> QED
        BY <3>1, <3>2, <4>1, <1>7
    <3>3. CASE i # Len(kept) + 1
      <4>1. i \in 1..Len(kept) /\ i + n \in 1..Len(events[k])
        <5>1. Len(kept) \in Nat /\ Len(events[k]) \in Nat /\ Len(kept) = Len(events[k]) - n
          BY <3>1
        <5> HIDE DEF kept
        <5>2. i \in 1..Len(kept)
          BY <3>3, <5>1
        <5> QED
          BY <5>1, <5>2
      <4>2. PICK j \in 1..Len(g) : g[j] = events[k][i + n]
        BY <4>1 DEF Inv, QueueIsAdmitted
      <4>3. j \in 1..(Len(g) + 1) /\ Append(g, now)[j] = g[j]
        BY <3>1, <1>7
      <4> QED
        BY <3>1, <4>1, <4>2, <4>3
    <3> QED
      BY <3>2, <3>3
  <2>2. ASSUME NEW q \in Keys, NEW i \in 1..Len(events'[q])
        PROVE  \E j \in 1..Len(granted'[q]) : granted'[q][j] = events'[q][i]
    <3>1. CASE q = k
      BY ZenonT(30), <2>1, <3>1, <1>5, <1>7
    <3>2. CASE q # k
      <4>1. events'[q] = events[q] /\ granted'[q] = granted[q]
        BY <3>2, <1>5
      <4>2. i \in 1..Len(events[q])
        BY <4>1
      <4>3. \E j \in 1..Len(granted[q]) : granted[q][j] = events[q][i]
        BY <4>2 DEF Inv, QueueIsAdmitted
      <4> QED
        BY <4>1, <4>3
    <3> QED
      BY <3>1, <3>2
  <2> QED
    BY <2>2 DEF QueueIsAdmitted
<1> QED
  BY <1>8, <1>9, <1>10, <1>11, <1>12 DEF Inv

(* A message is refused: the queue is full of times inside the window. *)
LEMMA RefuseKeepsInv == ASSUME Inv, NEW k \in Keys, Refuse(k) PROVE Inv'
<1>1. PICK n \in 0..Len(events[k]) :
        /\ Expired(events[k], n)
        /\ Len(Rest(events[k], n)) >= LimitPerMinute
        /\ events' = [events EXCEPT ![k] = Rest(events[k], n)]
  BY DEF Refuse
<1> DEFINE e == events[k]
           g == granted[k]
<1>2. granted' = granted /\ refused' = k /\ now' = now /\ setBack' = setBack
  BY DEF Refuse
<1>3. /\ events \in [Keys -> Seq(Nat)] /\ granted \in [Keys -> Seq(Nat)]
      /\ now \in Nat /\ Window \in Nat
      /\ g \in Seq(Nat) /\ e \in Seq(Nat) /\ Len(e) <= LimitPerMinute
  BY LimiterAssumption DEF Inv, TypeOK
(* Nothing can have been dropped. *)
<1>4. n = 0 /\ Len(e) = LimitPerMinute
  BY <1>1, <1>3, RestOfQueue, LimitIsPositive
<1>5. Rest(e, n) = e
  BY <1>3, <1>4 DEF Rest
<1>6. events' = events
  BY <1>1, <1>3, <1>5
<1>7. TypeOK' /\ QueueInv' /\ QueueIsAdmitted' /\ AtMostLimit'
  BY <1>2, <1>6 DEF Inv, TypeOK, QueueInv, QueueIsAdmitted, Offset, AtMostLimit
<1>8. \E i \in DOMAIN g : g[i] >= now - Window
  <2>1. 1 \in 1..Len(e) /\ 0 < Len(e)
    BY <1>4, LimitIsPositive
  <2>2. e[1] >= now - Window
    BY <1>1, <1>4, <2>1 DEF Expired
  <2>3. PICK j \in 1..Len(g) : g[j] = e[1]
    BY <2>1 DEF Inv, QueueIsAdmitted
  <2> QED
    BY <1>3, <2>2, <2>3
<1>9. ~setBack => /\ Len(g) >= LimitPerMinute
                  /\ g[Len(g) - LimitPerMinute + 1] >= now - Window
  <2> SUFFICES ASSUME ~setBack
               PROVE  /\ Len(g) >= LimitPerMinute
                      /\ g[Len(g) - LimitPerMinute + 1] >= now - Window
    OBVIOUS
  <2>1. EndsWith(g, e, now - Window)
    BY QueueEnds DEF Inv
  <2>2. Len(g) \in Nat /\ Len(e) \in Nat /\ 1 \in 1..Len(e) /\ 0 < Len(e) /\ Len(e) <= Len(g)
    BY <2>1, <1>3, <1>4, LimitIsPositive DEF EndsWith
  <2>3. e[1] = g[1 + (Len(g) - Len(e))]
    BY <2>1, <2>2 DEF EndsWith
  <2>4. e[1] >= now - Window
    BY <1>1, <1>4, <2>2 DEF Expired
  <2>5. 1 + (Len(g) - Len(e)) = Len(g) - LimitPerMinute + 1
    BY <1>4, <2>2
  <2> QED
    BY <1>4, <2>2, <2>3, <2>4, <2>5
<1>10. RefusedIsFull'
  BY <1>2, <1>8, <1>9 DEF RefusedIsFull
<1> QED
  BY <1>7, <1>10 DEF Inv

(* Time passes. *)
LEMMA TickKeepsInv == ASSUME Inv, Tick PROVE Inv'
<1> USE LimiterAssumption, LimitIsPositive DEF Tick
<1>1. now' \in Nat /\ now \in Nat /\ events' = events /\ granted' = granted /\ refused' = NoKey
  BY DEF Inv, TypeOK
<1>2. TypeOK'
  BY <1>1 DEF Inv, TypeOK
<1>3. ~setBack' => ~setBack /\ now' > now
  <2>1. now' < now \/ now' > now
    BY <1>1
  <2>2. setBack' = (setBack \/ now' < now)
    OBVIOUS
  <2> QED
    BY <2>1, <2>2, Zenon
<1>4. QueueInv'
  <2> SUFFICES ASSUME ~setBack, now' > now, NEW q \in Keys
               PROVE  /\ Offset(q) >= 0
                      /\ \A i \in DOMAIN events[q] : events[q][i] = granted[q][i + Offset(q)]
                      /\ \A i \in 1..Offset(q) : granted[q][i] < now' - Window
                      /\ \A i \in DOMAIN granted[q] : granted[q][i] <= now'
    BY <1>1, <1>3 DEF QueueInv, Offset
  <2>1. /\ Offset(q) >= 0
        /\ \A i \in DOMAIN events[q] : events[q][i] = granted[q][i + Offset(q)]
        /\ \A i \in 1..Offset(q) : granted[q][i] < now - Window
        /\ \A i \in DOMAIN granted[q] : granted[q][i] <= now
    BY DEF Inv, QueueInv
  <2>2. /\ granted[q] \in Seq(Nat) /\ events[q] \in Seq(Nat) /\ now' > now
        /\ Offset(q) \in Nat /\ Offset(q) <= Len(granted[q])
    BY <1>1, <2>1 DEF Inv, TypeOK, Offset
  <2>3. \A i \in 1..Offset(q) : granted[q][i] \in Nat
    BY <2>2
  <2>4. \A i \in DOMAIN granted[q] : granted[q][i] \in Nat
    BY <2>2
  <2> QED
    BY SMTT(30), <1>1, <2>1, <2>2, <2>3, <2>4
<1>5. AtMostLimit'
  BY <1>1, <1>3 DEF Inv, AtMostLimit
<1>6. RefusedIsFull'
  BY <1>1 DEF RefusedIsFull
<1>7. QueueIsAdmitted'
  BY <1>1 DEF Inv, QueueIsAdmitted
<1> QED
  BY <1>2, <1>4, <1>5, <1>6, <1>7 DEF Inv

LEMMA StepKeepsInv == Inv /\ [Next]_vars => Inv'
<1> SUFFICES ASSUME Inv, [Next]_vars PROVE Inv'
  OBVIOUS
<1>1. CASE \E k \in Keys : Admit(k)
  BY <1>1, AdmitKeepsInv
<1>2. CASE \E k \in Keys : Refuse(k)
  BY <1>2, RefuseKeepsInv
<1>3. CASE Tick
  BY <1>3, TickKeepsInv
<1>4. CASE UNCHANGED vars
  BY <1>4 DEF vars, Inv, TypeOK, QueueInv, QueueIsAdmitted, Offset, AtMostLimit, RefusedIsFull
<1> QED
  BY <1>1, <1>2, <1>3, <1>4 DEF Next, Quiet

LEMMA Invariance == Spec => []Inv
BY InitInv, StepKeepsInv, PTL DEF Spec

(* Every queue is within the limit, for any limit, clock and addresses. *)
THEOREM TypeCorrect == Spec => []TypeOK
<1>1. Inv => TypeOK
  BY DEF Inv
<1> QED
  BY <1>1, Invariance, PTL

(* The strengthening: the queue is the end of what was admitted. *)
THEOREM QueueIsWindow == Spec => []QueueInv
<1>1. Inv => QueueInv
  BY DEF Inv
<1> QED
  BY <1>1, Invariance, PTL

(* allow() admits no more than the limit in any 60 seconds. *)
THEOREM LimitHolds == Spec => []AtMostLimit
<1>1. Inv => AtMostLimit
  BY DEF Inv
<1> QED
  BY <1>1, Invariance, PTL

(* allow() refuses nobody whose limit is not used up, as long as the clock  *)
(* is not set back.  After that it refuses an address only while some       *)
(* admission of it is dated not more than the window before the present     *)
(* reading, or in its future.                                               *)
THEOREM RefusalIsJustified == Spec => []RefusedIsFull
<1>1. Inv => RefusedIsFull
  BY DEF Inv
<1> QED
  BY <1>1, Invariance, PTL
===============================================================================
