------------------------- MODULE ToolCallParserProofs -------------------------
(* Counting braces finds the tool call that reading JSON finds, in every    *)
(* text of any length whose strings hold no brace of their own.             *)
EXTENDS ToolCallParser, SequenceTheorems, FiniteSetTheorems, WellFoundedInduction, TLAPS

-----------------------------------------------------------------------------
(* Induction.  The library's induction theorems take an operator; these two *)
(* take a set, which is what the provers can be given.                      *)

(* A set of numbers that holds 0, and with a number the next, holds all.    *)
LEMMA SetInduction ==
    ASSUME NEW P \in SUBSET Nat, 0 \in P, \A n \in P : n + 1 \in P
    PROVE  P = Nat
  <1> DEFINE R == OpToRel(<, Nat)
             T == Nat \ P
  <1> SUFFICES ASSUME T # {} PROVE FALSE
    OBVIOUS
  <1>1. IsWellFoundedOn(R, Nat)
    BY NatLessThanWellFounded
  <1>2. \A x, y \in Nat : <<x, y>> \in R <=> x < y
    BY DEF OpToRel
  <1>3. PICK x \in T : \A y \in T : <<y, x>> \notin R
    <2> HIDE DEF R, T
    <2>1. T \subseteq Nat
      BY DEF T
    <2> QED
      BY <1>1, <2>1, WFMin
  <1>4. x # 0 /\ x \in Nat
    OBVIOUS
  <1>5. x - 1 \in Nat /\ x - 1 < x
    BY <1>4
  <1>6. x - 1 \in P
    BY <1>2, <1>3, <1>5
  <1>7. (x - 1) + 1 = x
    BY <1>4
  <1> QED
    BY <1>6, <1>7

(* A set that holds 0, and below N with a number the next, holds all to N.  *)
LEMMA InductionTo ==
    ASSUME NEW N \in Nat, NEW P, 0 \in P, \A n \in Nat : n < N /\ n \in P => n + 1 \in P
    PROVE  \A n \in 0..N : n \in P
  <1>1. PICK Q \in SUBSET Nat : \A n \in Nat : n \in Q <=> (n <= N => n \in P)
    <2>1. {n \in Nat : n <= N => n \in P} \in SUBSET Nat
      OBVIOUS
    <2> QED
      BY <2>1
  <1>2. 0 \in Q
    BY <1>1
  <1>3. ASSUME NEW n \in Q PROVE n + 1 \in Q
    <2>1. n \in Nat /\ n + 1 \in Nat /\ (n + 1 <= N => n < N /\ n <= N)
      OBVIOUS
    <2> QED
      BY <1>1, <2>1
  <1>4. Q = Nat
    BY <1>2, <1>3, SetInduction
  <1> QED
    BY <1>1, <1>4

-----------------------------------------------------------------------------
(* Reading a text token by token.                                           *)

FirstReader == [depth |-> 0, next |-> "value"]

ReadsTo(s, N, r) ==
    r = [n \in 0..N |-> IF n = 0 THEN FirstReader ELSE Read(r[n - 1], s[n])]

LEMMA ReadingExists ==
    ASSUME NEW s, NEW N \in Nat
    PROVE  \E r : ReadsTo(s, N, r)
  <1> DEFINE P == {n \in Nat : \E r : ReadsTo(s, n, r)}
  <1>1. 0 \in P
    <2>1. PICK r : r = [n \in 0..0 |-> FirstReader]
      OBVIOUS
    <2>2. [n \in 0..0 |-> IF n = 0 THEN FirstReader ELSE Read(r[n - 1], s[n])]
          = [n \in 0..0 |-> FirstReader]
      OBVIOUS
    <2>3. ReadsTo(s, 0, r)
      BY <2>1, <2>2 DEF ReadsTo
    <2> QED
      BY <2>3
  <1>2. ASSUME NEW m \in Nat, m \in P PROVE m + 1 \in P
    <2>1. PICK r : ReadsTo(s, m, r)
      BY <1>2
    <2>2. PICK e : e = Read(r[m], s[m + 1])
      OBVIOUS
    <2>3. PICK q : q = [n \in 0..(m + 1) |-> IF n = m + 1 THEN e ELSE r[n]]
      OBVIOUS
    <2>4. \A n \in 0..m : r[n] = IF n = 0 THEN FirstReader ELSE Read(r[n - 1], s[n])
      BY <2>1 DEF ReadsTo
    <2>5. ASSUME NEW n \in 0..(m + 1)
          PROVE  q[n] = IF n = 0 THEN FirstReader ELSE Read(q[n - 1], s[n])
      <3>1. CASE n = 0
        <4>1. n \in 0..m /\ n # m + 1
          BY <3>1
        <4> QED
          BY <2>3, <2>4, <3>1, <4>1
      <3>2. CASE n # 0 /\ n # m + 1
        <4>1. n \in 0..m /\ n - 1 \in 0..(m + 1) /\ n - 1 # m + 1
          BY <3>2
        <4>2. q[n] = r[n] /\ q[n - 1] = r[n - 1]
          BY <2>3, <3>2, <4>1
        <4> QED
          BY <2>4, <3>2, <4>1, <4>2
      <3>3. CASE n = m + 1
        <4>1. n # 0 /\ n - 1 = m /\ m \in 0..(m + 1) /\ m # m + 1
          BY <3>3
        <4>2. q[n] = e /\ q[m] = r[m]
          BY <2>3, <3>3, <4>1
        <4> QED
          BY <2>2, <3>3, <4>1, <4>2
      <3> QED
        BY <3>1, <3>2, <3>3
    <2>6. ReadsTo(s, m + 1, q)
      <3>1. q = [n \in 0..(m + 1) |-> q[n]]
        BY <2>3
      <3> QED
        BY <2>5, <3>1 DEF ReadsTo
    <2> QED
      BY <2>6
  <1>3. \A n \in 0..N : n \in P
    <2> HIDE DEF P
    <2> QED
      BY <1>1, <1>2, InductionTo
  <1>4. N \in P
    <2>1. N \in 0..N
      OBVIOUS
    <2> QED
      BY <1>3, <2>1
  <1> QED
    BY <1>4

LEMMA ReadingIs ==
    ASSUME NEW s, Len(s) \in Nat
    PROVE  /\ Reading(s)[0] = FirstReader
           /\ \A n \in 1..Len(s) : Reading(s)[n] = Read(Reading(s)[n - 1], s[n])
  <1>1. PICK r : ReadsTo(s, Len(s), r)
    BY ReadingExists
  <1>2. PICK h : h = CHOOSE f : ReadsTo(s, Len(s), f)
    OBVIOUS
  <1>3. ReadsTo(s, Len(s), h)
    BY <1>1, <1>2
  <1>4. Reading(s) = h
    BY <1>2 DEF Reading, ReadsTo, FirstReader
  <1>5. \A n \in 0..Len(s) : h[n] = IF n = 0 THEN FirstReader ELSE Read(h[n - 1], s[n])
    BY <1>3 DEF ReadsTo
  <1> QED
    BY <1>4, <1>5

(* What is read of the beginning of a text depends on nothing behind it.    *)
LEMMA SameReading ==
    ASSUME NEW s, NEW t, Len(s) \in Nat, Len(t) \in Nat, Len(s) <= Len(t),
           \A n \in 1..Len(s) : s[n] = t[n]
    PROVE  \A n \in 0..Len(s) : Reading(s)[n] = Reading(t)[n]
  <1> DEFINE P == {n \in Nat : Reading(s)[n] = Reading(t)[n]}
  <1>1. 0 \in P
    BY ReadingIs
  <1>2. ASSUME NEW n \in Nat, n < Len(s), n \in P PROVE n + 1 \in P
    <2>1. n + 1 \in 1..Len(s) /\ n + 1 \in 1..Len(t) /\ (n + 1) - 1 = n /\ n + 1 \in Nat
      BY <1>2
    <2>2. Reading(s)[n + 1] = Read(Reading(s)[n], s[n + 1])
      BY <2>1, ReadingIs
    <2>3. Reading(t)[n + 1] = Read(Reading(t)[n], t[n + 1])
      BY <2>1, ReadingIs
    <2> QED
      BY <1>2, <2>1, <2>2, <2>3
  <1>3. \A n \in 0..Len(s) : n \in P
    <2> HIDE DEF P
    <2> QED
      BY <1>1, <1>2, InductionTo
  <1> QED
    BY <1>3

LEMMA PartIs ==
    ASSUME NEW s \in Seq(Tokens), NEW a \in 1..Len(s), NEW b \in a..Len(s)
    PROVE  /\ SubSeq(s, a, b) \in Seq(Tokens)
           /\ Len(SubSeq(s, a, b)) = b - a + 1
           /\ \A m \in 1..(b - a + 1) : SubSeq(s, a, b)[m] = s[a + m - 1]
  <1>1. a \in Int /\ b \in Int /\ a <= b /\ Len(s) \in Nat /\ b <= Len(s) /\ 1 <= a
    OBVIOUS
  <1>2. \A m \in a..b : s[m] \in Tokens
    BY <1>1
  <1> QED
    BY <1>1, <1>2, SubSeqProperties

(* The reader that began at place a, before the token at place k.           *)
Before(s, a, k) == Reading(SubSeq(s, a, Len(s)))[k - a]

LEMMA ReaderMoves ==
    ASSUME NEW s \in Seq(Tokens), NEW a \in 1..Len(s)
    PROVE  /\ Before(s, a, a) = FirstReader
           /\ \A k \in a..Len(s) : Before(s, a, k + 1) = Read(Before(s, a, k), s[k])
           /\ \A b \in a..Len(s) :
                  IsObject(SubSeq(s, a, b)) <=> Before(s, a, b + 1).next = "end"
  <1>1. PICK t : t = SubSeq(s, a, Len(s))
    OBVIOUS
  <1>2. Len(s) \in Nat /\ a \in Nat /\ Len(s) \in a..Len(s) /\ a - a = 0
    OBVIOUS
  <1>3. /\ Len(t) = Len(s) - a + 1
        /\ \A m \in 1..(Len(s) - a + 1) : t[m] = s[a + m - 1]
    BY <1>1, <1>2, PartIs
  <1>4. Len(t) \in Nat
    BY <1>2, <1>3
  <1>5. Before(s, a, a) = FirstReader
    BY <1>1, <1>2, <1>4, ReadingIs DEF Before
  <1>6. ASSUME NEW k \in a..Len(s) PROVE Before(s, a, k + 1) = Read(Before(s, a, k), s[k])
    <2>1. PICK m : m = k - a + 1
      OBVIOUS
    <2>2. /\ m \in 1..Len(t) /\ m \in 1..(Len(s) - a + 1) /\ (k + 1) - a = m /\ k - a = m - 1
          /\ a + m - 1 = k
      BY <1>2, <1>3, <2>1
    <2>3. Reading(t)[m] = Read(Reading(t)[m - 1], t[m])
      BY <1>4, <2>2, ReadingIs
    <2>4. t[m] = s[k]
      BY <1>3, <2>2
    <2> QED
      BY <1>1, <2>2, <2>3, <2>4 DEF Before
  <1>7. ASSUME NEW b \in a..Len(s)
        PROVE  IsObject(SubSeq(s, a, b)) <=> Before(s, a, b + 1).next = "end"
    <2>1. PICK u : u = SubSeq(s, a, b)
      OBVIOUS
    <2>2. Len(u) = b - a + 1 /\ \A m \in 1..(b - a + 1) : u[m] = s[a + m - 1]
      BY <2>1, PartIs
    <2>3. /\ Len(u) \in Nat /\ Len(u) <= Len(t) /\ (b + 1) - a = Len(u) /\ Len(u) \in 0..Len(u)
          /\ \A m \in 1..Len(u) : m \in 1..(b - a + 1) /\ m \in 1..(Len(s) - a + 1)
      BY <1>2, <1>3, <2>2
    <2>4. \A m \in 1..Len(u) : u[m] = t[m]
      BY <1>3, <2>2, <2>3
    <2>5. Reading(u)[Len(u)] = Reading(t)[Len(u)]
      BY <1>4, <2>3, <2>4, SameReading
    <2> QED
      BY <1>1, <2>1, <2>3, <2>5 DEF Before, IsObject
  <1> QED
    BY <1>5, <1>6, <1>7

Readers == [depth : Nat, next : {"value", "member", "end", "error"}]
Stopped(r) == r \in Readers /\ r.next \in {"end", "error"}

(* The reader is in as many objects as the count has open braces; in a      *)
(* member of one at least.  Or it has seen that the text is not JSON.       *)
Agrees(r, count) ==
    /\ r \in Readers
    /\ \/ r.next = "error"
       \/ r.next = "value" /\ r.depth = count
       \/ r.next = "member" /\ r.depth = count /\ count >= 1

LEMMA StoppedReads ==
    ASSUME NEW r, Stopped(r), NEW token
    PROVE  Stopped(Read(r, token)) /\ Read(r, token).next = "error"
  <1>1. Read(r, token) = [r EXCEPT !.next = "error"]
    BY DEF Stopped, Readers, Read
  <1> QED
    BY <1>1 DEF Stopped, Readers

LEMMA Expecting ==
    ASSUME NEW r \in Readers, NEW e \in {"value", "member", "end", "error"}
    PROVE  /\ [r EXCEPT !.next = e] \in Readers
           /\ [r EXCEPT !.next = e].next = e
           /\ [r EXCEPT !.next = e].depth = r.depth
  BY DEF Readers

LEMMA ReaderOf ==
    ASSUME NEW d \in Nat, NEW e \in {"value", "member", "end", "error"}, NEW q,
           q = [depth |-> d, next |-> e]
    PROVE  q \in Readers /\ q.next = e /\ q.depth = d
  BY DEF Readers

LEMMA Counts ==
    ASSUME NEW token \in Tokens \ OddStrings
    PROVE  /\ token = "{" => Counted(token) = braceCount + 1
           /\ token = "}" => Counted(token) = braceCount - 1
           /\ token # "{" /\ token # "}" => Counted(token) = braceCount
  BY DEF Counted, OddStrings

LEMMA ReadsValue ==
    ASSUME NEW r, r.next = "value", NEW token
    PROVE  /\ token = "{" => Read(r, token) = [depth |-> r.depth + 1, next |-> "member"]
           /\ token \in Strings /\ r.depth > 0 => Read(r, token) = [r EXCEPT !.next = "member"]
           /\ token # "{" /\ ~(token \in Strings /\ r.depth > 0) =>
                 Read(r, token) = [r EXCEPT !.next = "error"]
  BY DEF Read, Strings

LEMMA ReadsMember ==
    ASSUME NEW r, r.next = "member", NEW token
    PROVE  /\ token = "name" => Read(r, token) = r
           /\ token \in Keys => Read(r, token) = [r EXCEPT !.next = "value"]
           /\ token = "}" => Read(r, token) = [depth |-> r.depth - 1,
                                               next |-> IF r.depth = 1 THEN "end" ELSE "member"]
           /\ token # "name" /\ token \notin Keys /\ token # "}" =>
                 Read(r, token) = [r EXCEPT !.next = "error"]
  BY DEF Read, Keys

(* One token: the count and the reader go on agreeing, or the brace that    *)
(* takes the count to zero ends the object, or shows that it is none.       *)
LEMMA CountedReads ==
    ASSUME NEW r, Agrees(r, braceCount), NEW token \in Tokens \ OddStrings
    PROVE  /\ token = "}" /\ Counted(token) = 0 => Stopped(Read(r, token))
           /\ ~(token = "}" /\ Counted(token) = 0) => Agrees(Read(r, token), Counted(token))
           /\ Read(r, token).next = "end" => token = "}" /\ Counted(token) = 0
  <1>1. r \in Readers
    BY DEF Agrees
  <1>2. PICK q : q = Read(r, token)
    OBVIOUS
  <1>3. CASE q \in Readers /\ q.next = "error"
    BY <1>2, <1>3 DEF Agrees, Stopped
  <1>4. CASE r.next = "error"
    <2>1. Stopped(r)
      BY <1>1, <1>4 DEF Stopped
    <2>2. Stopped(q) /\ q.next = "error"
      BY <1>2, <2>1, StoppedReads
    <2> QED
      BY <1>3, <2>2 DEF Stopped
  <1>5. CASE r.next = "value"
    <2>1. PICK d \in Nat : d = r.depth /\ d = braceCount
      BY <1>5 DEF Agrees, Readers
    <2>2. CASE token = "{"
      <3>1. d + 1 \in Nat /\ d + 1 >= 1
        OBVIOUS
      <3>2. q \in Readers /\ q.next = "member" /\ q.depth = d + 1
        <4>1. Read(r, token) = [depth |-> r.depth + 1, next |-> "member"]
          BY <1>5, <2>2, ReadsValue
        <4>2. q = [depth |-> d + 1, next |-> "member"]
          BY <1>2, <2>1, <4>1
        <4> QED
          BY <3>1, <4>2, ReaderOf
      <3>3. Counted(token) = d + 1
        BY <2>1, <2>2, Counts
      <3> QED
        BY <1>2, <2>2, <3>1, <3>2, <3>3 DEF Agrees
    <2>3. CASE token \in Strings /\ d > 0
      <3>1. d >= 1 /\ token # "{" /\ token # "}"
        <4>1. d >= 1
          BY <2>3
        <4>2. token # "{" /\ token # "}"
          BY <2>3, ZenonT(20) DEF Strings
        <4> QED
          BY <4>1, <4>2
      <3>2. q \in Readers /\ q.next = "member" /\ q.depth = d
        <4>1. token \in Strings /\ r.depth > 0
          BY <2>1, <2>3
        <4>2. Read(r, token) = [r EXCEPT !.next = "member"]
          BY <1>5, <4>1, ReadsValue
        <4>3. q = [r EXCEPT !.next = "member"]
          BY <1>2, <4>2
        <4>4. q \in Readers /\ q.next = "member" /\ q.depth = r.depth
          BY <1>1, <4>3, Expecting
        <4> QED
          BY <2>1, <4>4
      <3>3. Counted(token) = d
        BY <2>1, <3>1, Counts
      <3> QED
        BY <1>2, <3>1, <3>2, <3>3 DEF Agrees
    <2>4. CASE token # "{" /\ ~(token \in Strings /\ d > 0)
      <3>1. q = [r EXCEPT !.next = "error"]
        BY <1>2, <1>5, <2>1, <2>4, ReadsValue
      <3> QED
        BY <1>1, <1>3, <3>1, Expecting
    <2> QED
      BY <2>2, <2>3, <2>4
  <1>6. CASE r.next = "member"
    <2>1. PICK d \in Nat : d = r.depth /\ d = braceCount /\ d >= 1
      BY <1>6 DEF Agrees, Readers
    <2>2. CASE token = "name"
      <3>1. q = r /\ token # "{" /\ token # "}"
        BY <1>2, <1>6, <2>2, ReadsMember
      <3>2. Counted(token) = d
        BY <2>1, <3>1, Counts
      <3> QED
        BY <1>1, <1>2, <1>6, <2>1, <3>1, <3>2 DEF Agrees
    <2>3. CASE token \in Keys
      <3>1. q = [r EXCEPT !.next = "value"] /\ token # "{" /\ token # "}"
        BY <1>2, <1>6, <2>3, ReadsMember DEF Keys
      <3>2. q \in Readers /\ q.next = "value" /\ q.depth = d
        BY <1>1, <2>1, <3>1, Expecting
      <3>3. Counted(token) = d
        BY <2>1, <3>1, Counts
      <3> QED
        BY <1>2, <3>1, <3>2, <3>3 DEF Agrees
    <2>4. CASE token = "}"
      <3>1. q = [depth |-> d - 1, next |-> IF d = 1 THEN "end" ELSE "member"]
        BY <1>2, <1>6, <2>1, <2>4, ReadsMember
      <3>2. Counted(token) = d - 1 /\ d - 1 \in Nat
        <4>1. Counted(token) = braceCount - 1
          BY <2>4, Counts
        <4> QED
          BY <2>1, <4>1
      <3>3. CASE d = 1
        <4>1. q = [depth |-> 0, next |-> "end"] /\ Counted(token) = 0
          BY <3>1, <3>2, <3>3
        <4>2. q \in Readers /\ q.next = "end"
          BY <4>1, ReaderOf
        <4> QED
          BY <1>2, <2>4, <4>1, <4>2 DEF Stopped
      <3>4. CASE d # 1
        <4>1. q = [depth |-> d - 1, next |-> "member"] /\ d - 1 >= 1
          BY <2>1, <3>1, <3>4
        <4>2. q \in Readers /\ q.next = "member" /\ q.depth = d - 1
          BY <3>2, <4>1, ReaderOf
        <4>3. Counted(token) # 0
          BY <3>2, <4>1
        <4> QED
          BY <1>2, <2>4, <3>2, <4>1, <4>2, <4>3 DEF Agrees
      <3> QED
        BY <3>3, <3>4
    <2>5. CASE token # "name" /\ token \notin Keys /\ token # "}"
      <3>1. q = [r EXCEPT !.next = "error"]
        BY <1>2, <1>6, <2>5, ReadsMember
      <3> QED
        BY <1>1, <1>3, <3>1, Expecting
    <2> QED
      BY <2>2, <2>3, <2>4, <2>5
  <1> QED
    BY <1>4, <1>5, <1>6 DEF Agrees

(* A reader that has stopped finds no object that ends later.               *)
LEMMA NoneEndsLater ==
    ASSUME NEW s \in Seq(Tokens), NEW a \in 1..Len(s), NEW k \in a..(Len(s) + 1),
           Stopped(Before(s, a, k))
    PROVE  \A b \in k..Len(s) : ~IsObject(SubSeq(s, a, b))
  <1>1. Len(s) \in Nat /\ a \in Nat /\ k \in Nat /\ a <= k /\ k <= Len(s) + 1 /\ a >= 1
    OBVIOUS
  <1>2. PICK N \in Nat : N = Len(s) + 1 - k
    BY <1>1
  <1> DEFINE P == {n \in Nat : /\ Stopped(Before(s, a, k + n))
                               /\ n > 0 => Before(s, a, k + n).next = "error"}
  <1>3. 0 \in P
    <2>1. k + 0 = k
      BY <1>1
    <2> QED
      BY <2>1
  <1>4. ASSUME NEW n \in Nat, n < N, n \in P PROVE n + 1 \in P
    <2>1. k + n \in a..Len(s) /\ k + (n + 1) = (k + n) + 1
      BY <1>1, <1>2, <1>4
    <2>2. Before(s, a, (k + n) + 1) = Read(Before(s, a, k + n), s[k + n])
      BY <2>1, ReaderMoves
    <2>3. Stopped(Before(s, a, k + n))
      BY <1>4
    <2> QED
      BY <2>1, <2>2, <2>3, StoppedReads
  <1>5. \A n \in 0..N : n \in P
    <2> HIDE DEF P
    <2> QED
      BY <1>3, <1>4, InductionTo
  <1>6. ASSUME NEW b \in k..Len(s) PROVE ~IsObject(SubSeq(s, a, b))
    <2>1. PICK n : n = b + 1 - k
      OBVIOUS
    <2>2. n \in 0..N /\ n > 0 /\ k + n = b + 1 /\ b \in a..Len(s)
      BY <1>1, <1>2, <2>1
    <2>3. Before(s, a, b + 1).next = "error"
      BY <1>5, <2>2
    <2> QED
      BY <2>2, <2>3, ReaderMoves
  <1> QED
    BY <1>6

LEMMA FirstReaderAgrees == Agrees(FirstReader, 0)
  BY DEF Agrees, Readers, FirstReader

(* An object that begins with "tool_call" at n. *)
CallAt(s, n) == s[n] = "{" /\ s[n + 1] = "tool_call"

(* It has that key. *)
LEMMA StartHasKey ==
    ASSUME NEW s \in Seq(Tokens), Len(s) >= 2, CallAt(s, 1)
    PROVE  CallKeys(s) # {}
  <1>1. s[1] = "{" /\ s[2] = "tool_call"
    <2>1. 1 + 1 = 2
      OBVIOUS
    <2> QED
      BY <2>1, ZenonT(20) DEF CallAt
  <1>2. {j \in 1..(2 - 1) : s[j] = "{"} = {1}
    <2>1. 1..(2 - 1) = {1}
      OBVIOUS
    <2> QED
      BY <1>1, <2>1, ZenonT(20)
  <1>3. {j \in 1..(2 - 1) : s[j] = "}"} = {}
    <2>1. 1..(2 - 1) = {1}
      OBVIOUS
    <2>2. s[1] # "}"
      BY <1>1, ZenonT(20)
    <2> QED
      BY <2>1, <2>2, ZenonT(20)
  <1>4. Cardinality({1}) = 1 /\ Cardinality({}) = 0
    BY FS_EmptySet, FS_Singleton
  <1>5. Depth(s, 2) = 1
    <2>1. Depth(s, 2) = Cardinality({1}) - Cardinality({})
      BY <1>2, <1>3, ZenonT(20) DEF Depth
    <2> QED
      BY <1>4, <2>1
  <1>6. 2 \in DOMAIN s
    <2>1. DOMAIN s = 1..Len(s) /\ Len(s) \in Nat
      OBVIOUS
    <2> QED
      BY <2>1
  <1> QED
    BY <1>1, <1>5, <1>6, ZenonT(20) DEF CallKeys

-----------------------------------------------------------------------------
(* The inductive invariant of parse_tool_call_json().                       *)

Plain == \A k \in DOMAIN text : text[k] \notin OddStrings

(* No object begins at a. *)
NoObject(a) == \A b \in DOMAIN text : a < b => ~IsObject(SubSeq(text, a, b))

(* No object has ended before place k of the scan that began at start.      *)
NoneBefore(k) == \A b \in start..(k - 1) : ~IsObject(SubSeq(text, start, b))

Closes(token) == token = "}"

(* The scan and the reader of JSON have come to the same place.             *)
Scanning ==
    /\ start \in CallStarts(text)
    /\ \A n \in matches : n > start
    /\ i \in start..(Len(text) + 1)
    /\ pc = "scanning" => NoneBefore(i) /\ Agrees(Before(text, start, i), braceCount)
    /\ pc = "snippet" => /\ i > start
                         /\ Closes(text[i - 1])
                         /\ NoneBefore(i - 1)
                         /\ Stopped(Before(text, start, i))

(* The starts that are not to be tried any more begin no object. *)
Tried ==
    \A n \in CallStarts(text) :
        n \in matches \/ (pc # "matching" /\ n = start) \/ NoObject(n)

Searching == pc \in {"matching", "scanning", "snippet"}

ParserInv ==
    /\ text \in Seq(Tokens)
    /\ pc \in {"direct", "returned"} \/ Searching
    /\ pc # "returned" => result = 0
    /\ Searching => matches \subseteq CallStarts(text) /\ ~IsCallObject(Unfenced(text))
    /\ Searching /\ Plain => Tried
    /\ pc \in {"scanning", "snippet"} /\ Plain => Scanning
    /\ FindsTheCall

LEMMA StartIs ==
    ASSUME text \in Seq(Tokens), NEW n \in CallStarts(text)
    PROVE  /\ n \in 1..Len(text) /\ n + 1 \in 1..Len(text) /\ n \in Nat
           /\ CallAt(text, n)
  <1>1. Len(text) \in Nat
    OBVIOUS
  <1>2. n \in 1..(Len(text) - 1) /\ CallAt(text, n)
    BY ZenonT(20) DEF CallStarts, CallAt
  <1> QED
    BY <1>1, <1>2

(* The least of the starts that are left. *)
LEMMA LeastStart ==
    ASSUME text \in Seq(Tokens), matches \subseteq CallStarts(text), matches # {}
    PROVE  Min(matches) \in matches /\ \A n \in matches : Min(matches) <= n
  <1>1. matches \subseteq Nat
    BY StartIs
  <1> DEFINE R == OpToRel(<, Nat)
  <1>2. IsWellFoundedOn(R, Nat)
    BY NatLessThanWellFounded
  <1>3. \A x, y \in Nat : <<x, y>> \in R <=> x < y
    BY DEF OpToRel
  <1>4. PICK m \in matches : \A y \in matches : <<y, m>> \notin R
    <2> HIDE DEF R
    <2> QED
      BY <1>1, <1>2, WFMin
  <1>5. \A n \in matches : m <= n
    <2> SUFFICES ASSUME NEW n \in matches PROVE m <= n
      OBVIOUS
    <2>1. m \in Nat /\ n \in Nat
      BY <1>1
    <2>2. ~(n < m)
      BY <1>3, <1>4, <2>1
    <2> QED
      BY <2>1, <2>2
  <1> QED
    BY <1>5 DEF Min

LEMMA ParserInit ==
    ASSUME Init
    PROVE  ParserInv
  BY TextsAssumption DEF Init, ParserInv, Searching, FindsTheCall

LEMMA ParseDirectlyKeeps ==
    ASSUME ParserInv, ParseDirectly
    PROVE  ParserInv'
  <1>1. text' = text /\ text \in Seq(Tokens) /\ result = 0 /\ pc = "direct"
    BY DEF ParseDirectly, ParserInv
  <1>2. CASE IsCallObject(Unfenced(text))
    <2>1. /\ pc' = "returned"
          /\ result' = Place(ExtractFromDict(Unfenced(text)), Offset(text))
      BY <1>2 DEF ParseDirectly
    <2>2. result' = Wanted'
      BY <1>1, <1>2, <2>1 DEF Wanted
    <2> QED
      BY <1>1, <2>1, <2>2 DEF ParserInv, Searching, FindsTheCall
  <1>3. CASE ~IsCallObject(Unfenced(text))
    <2>1. pc' = "matching" /\ matches' = CallStarts(text) /\ result' = result
      BY <1>3 DEF ParseDirectly
    <2> QED
      BY <1>1, <1>3, <2>1 DEF ParserInv, Searching, FindsTheCall, Tried
  <1> QED
    BY <1>2, <1>3

LEMMA TryMatchKeeps ==
    ASSUME ParserInv, TryMatch
    PROVE  ParserInv'
  <1>1. PICK m : m = Min(matches)
    OBVIOUS
  <1>2. /\ pc = "matching" /\ pc' = "scanning" /\ start' = m /\ i' = m
        /\ matches' = matches \ {m} /\ braceCount' = 0 /\ text' = text /\ result' = result
    BY <1>1 DEF TryMatch
  <1>3. /\ text \in Seq(Tokens) /\ matches \subseteq CallStarts(text) /\ result = 0
        /\ ~IsCallObject(Unfenced(text)) /\ (Plain => Tried)
    BY <1>2 DEF ParserInv, Searching
  <1>4. m \in matches /\ \A n \in matches : m <= n
    BY <1>1, <1>3, LeastStart DEF TryMatch
  <1>5. \A n \in CallStarts(text) : n \in Nat
    BY <1>3, StartIs
  <1>6. m \in 1..Len(text) /\ m \in Nat
    BY <1>3, <1>4, StartIs
  <1>7. Scanning'
    <2>1. \A n \in matches' : n > m
      <3> SUFFICES ASSUME NEW n \in matches, n # m PROVE n > m
        BY <1>2
      <3>1. n \in Nat /\ m <= n
        BY <1>3, <1>4, <1>5
      <3> QED
        BY <1>6, <3>1
    <2>2. m \in m..(Len(text) + 1)
      BY <1>6
    <2>3. NoneBefore(i)'
      <3>1. \A b \in m..(m - 1) : FALSE
        BY <1>6
      <3> QED
        BY <1>2, <3>1 DEF NoneBefore
    <2>4. Agrees(Before(text, m, m), 0)
      BY <1>3, <1>6, ReaderMoves, FirstReaderAgrees
    <2> QED
      BY <1>2, <1>3, <1>4, <2>1, <2>2, <2>3, <2>4 DEF Scanning
  <1>8. Plain => Tried'
    BY <1>2, <1>3 DEF Tried, NoObject
  <1>9. Plain' = Plain
    BY <1>2 DEF Plain
  <1> QED
    BY <1>2, <1>3, <1>7, <1>8, <1>9 DEF ParserInv, Searching, FindsTheCall

LEMMA NoMatchLeftKeeps ==
    ASSUME ParserInv, NoMatchLeft
    PROVE  ParserInv'
  <1>1. /\ pc = "matching" /\ matches = {} /\ pc' = "returned"
        /\ text' = text /\ result' = result
    BY DEF NoMatchLeft
  <1>2. text \in Seq(Tokens) /\ result = 0 /\ ~IsCallObject(Unfenced(text)) /\ (Plain => Tried)
    BY <1>1 DEF ParserInv, Searching
  <1>3. ASSUME Plain PROVE Wanted = 0
    <2>1. \A n \in CallStarts(text) : NoObject(n)
      BY <1>1, <1>2, <1>3 DEF Tried
    <2>2. CallObjects = {}
      <3> SUFFICES ASSUME NEW o \in CallObjects PROVE FALSE
        OBVIOUS
      <3>1. /\ o[1] \in CallStarts(text) /\ o[2] \in DOMAIN text
            /\ o[1] < o[2] /\ IsObject(SubSeq(text, o[1], o[2]))
        BY DEF CallObjects
      <3> QED
        BY <2>1, <3>1 DEF NoObject
    <2> QED
      BY <1>2, <2>2 DEF Wanted
  <1>4. FindsTheCall'
    <2> SUFFICES ASSUME IsCallObject(Unfenced(text)) \/ Plain PROVE result = Wanted'
      BY <1>1 DEF FindsTheCall, Plain
    <2>1. Wanted' = Wanted
      BY <1>1 DEF Wanted, CallObjects
    <2> QED
      BY <1>2, <1>3, <2>1
  <1> QED
    BY <1>1, <1>2, <1>4 DEF ParserInv, Searching

LEMMA ScanTokenKeeps ==
    ASSUME ParserInv, ScanToken
    PROVE  ParserInv'
  <1>1. /\ pc = "scanning" /\ i <= Len(text) /\ braceCount' = Counted(text[i]) /\ i' = i + 1
        /\ pc' = IF text[i] \in {"}", "str}"} /\ braceCount' = 0 THEN "snippet" ELSE "scanning"
        /\ text' = text /\ matches' = matches /\ start' = start /\ result' = result
    BY DEF ScanToken
  <1>2. /\ text \in Seq(Tokens) /\ matches \subseteq CallStarts(text) /\ result = 0
        /\ ~IsCallObject(Unfenced(text)) /\ (Plain => Tried) /\ (Plain => Scanning)
    BY <1>1 DEF ParserInv, Searching
  <1>3. pc' \in {"scanning", "snippet"}
    BY <1>1
  <1>4. Plain' = Plain
    BY <1>1 DEF Plain
  <1>5. Plain => Tried'
    BY <1>1, <1>2, <1>3 DEF Tried, NoObject
  <1>6. i <= Len(text) /\ i' = i + 1
    BY DEF ScanToken
  <1>7. ASSUME Plain PROVE Scanning'
    <2>1. PICK token : token = text[i]
      OBVIOUS
    <2>2. /\ Scanning /\ start \in CallStarts(text) /\ i \in start..(Len(text) + 1)
          /\ NoneBefore(i) /\ Agrees(Before(text, start, i), braceCount)
      BY <1>1, <1>2, <1>7 DEF Scanning
    <2>3. start \in 1..Len(text) /\ start \in Nat /\ Len(text) \in Nat
      BY <1>2, <2>2, StartIs
    <2>4. i \in start..Len(text) /\ i \in 1..Len(text) /\ i \in Nat
      BY <1>6, <2>2, <2>3
    <2>5. token \in Tokens \ OddStrings
      BY <1>2, <1>7, <2>1, <2>4 DEF Plain
    <2>6. PICK q : q = Before(text, start, i + 1)
      OBVIOUS
    <2>7. q = Read(Before(text, start, i), token)
      BY <1>2, <2>1, <2>3, <2>4, <2>6, ReaderMoves
    <2>8. /\ token = "}" /\ Counted(token) = 0 => Stopped(q)
          /\ ~(token = "}" /\ Counted(token) = 0) => Agrees(q, Counted(token))
          /\ q.next = "end" => token = "}" /\ Counted(token) = 0
      BY <2>2, <2>5, <2>7, CountedReads
    <2>9. IsObject(SubSeq(text, start, i)) <=> q.next = "end"
      BY <1>2, <2>3, <2>4, <2>6, ReaderMoves
    <2>10. i' \in start..(Len(text) + 1) /\ i' > start /\ i' - 1 = i
      BY <1>6, <2>3, <2>4
    <2>11. CASE token = "}" /\ Counted(token) = 0
      <3>1. pc' = "snippet" /\ Closes(token)
        BY <1>1, <2>1, <2>11 DEF Closes
      <3>2. NoneBefore(i - 1)'
        BY <1>1, <2>2, <2>10 DEF NoneBefore
      <3> QED
        BY <1>1, <2>1, <2>2, <2>6, <2>8, <2>10, <2>11, <3>1, <3>2 DEF Scanning
    <2>12. CASE ~(token = "}" /\ Counted(token) = 0)
      <3>1. pc' = "scanning"
        BY <1>1, <2>1, <2>5, <2>12 DEF OddStrings
      <3>2. NoneBefore(i)'
        <4> SUFFICES ASSUME NEW b \in start..i PROVE ~IsObject(SubSeq(text, start, b))
          BY <1>1, <2>10 DEF NoneBefore
        <4>1. b \in start..(i - 1) \/ b = i
          BY <2>3, <2>4
        <4> QED
          BY <2>2, <2>8, <2>9, <2>12, <4>1 DEF NoneBefore
      <3> QED
        BY <1>1, <2>1, <2>2, <2>6, <2>8, <2>10, <2>12, <3>1, <3>2 DEF Scanning
    <2> QED
      BY <2>11, <2>12
  <1> QED
    BY <1>1, <1>2, <1>3, <1>4, <1>5, <1>7 DEF ParserInv, Searching, FindsTheCall

LEMMA NoEndFoundKeeps ==
    ASSUME ParserInv, NoEndFound
    PROVE  ParserInv'
  <1>1. /\ pc = "scanning" /\ i > Len(text) /\ pc' = "matching"
        /\ text' = text /\ matches' = matches /\ start' = start /\ result' = result
    BY DEF NoEndFound
  <1>2. /\ text \in Seq(Tokens) /\ matches \subseteq CallStarts(text) /\ result = 0
        /\ ~IsCallObject(Unfenced(text)) /\ (Plain => Tried) /\ (Plain => Scanning)
    BY <1>1 DEF ParserInv, Searching
  <1>3. Plain' = Plain
    BY <1>1 DEF Plain
  <1>4. ASSUME Plain PROVE Tried'
    <2>1. start \in CallStarts(text) /\ i \in start..(Len(text) + 1) /\ NoneBefore(i)
      BY <1>1, <1>2, <1>4 DEF Scanning
    <2>2. start \in Nat /\ Len(text) \in Nat /\ DOMAIN text = 1..Len(text)
      BY <1>2, <2>1, StartIs
    <2>3. NoObject(start)
      <3> SUFFICES ASSUME NEW b \in DOMAIN text, start < b PROVE ~IsObject(SubSeq(text, start, b))
        BY DEF NoObject
      <3>1. b \in start..(i - 1)
        BY <1>1, <2>1, <2>2
      <3> QED
        BY <2>1, <3>1 DEF NoneBefore
    <2> QED
      BY <1>1, <1>2, <1>4, <2>3 DEF Tried, NoObject
  <1> QED
    BY <1>1, <1>2, <1>3, <1>4 DEF ParserInv, Searching, FindsTheCall

(* The scan of an object ends where the object ends, or nowhere.            *)
LEMMA SnippetIs ==
    ASSUME text \in Seq(Tokens), Scanning, pc = "snippet"
    PROVE  /\ start \in 1..Len(text) /\ i - 1 \in 1..Len(text) /\ start < i - 1
           /\ Last(Snippet) = "}"
           /\ CallKeys(Snippet) # {}
           /\ \A b \in DOMAIN text : start < b /\ IsObject(SubSeq(text, start, b)) => b = i - 1
  <1>1. /\ start \in CallStarts(text) /\ i \in start..(Len(text) + 1) /\ i > start
        /\ Closes(text[i - 1]) /\ NoneBefore(i - 1) /\ Stopped(Before(text, start, i))
    BY DEF Scanning
  <1>2. /\ start \in 1..Len(text) /\ start \in Nat /\ Len(text) \in Nat
        /\ start + 1 \in 1..Len(text) /\ CallAt(text, start) /\ DOMAIN text = 1..Len(text)
    BY <1>1, StartIs
  <1>3. i - 1 \in start..Len(text) /\ i - 1 \in 1..Len(text) /\ i \in Nat
    BY <1>1, <1>2
  <1>4. i - 1 # start
    <2>1. text[i - 1] # text[start]
      BY <1>1, <1>2, ZenonT(20) DEF Closes, CallAt
    <2> QED
      BY <2>1
  <1>5. start < i - 1
    BY <1>1, <1>2, <1>3, <1>4
  <1>6. PICK e : e = i - 1
    OBVIOUS
  <1>7. PICK u : u = Snippet
    OBVIOUS
  <1>8. /\ u \in Seq(Tokens) /\ Len(u) = e - start + 1
        /\ \A m \in 1..(e - start + 1) : u[m] = text[start + m - 1]
    <2>1. e \in start..Len(text) /\ u = SubSeq(text, start, e)
      BY <1>3, <1>6, <1>7 DEF Snippet
    <2> QED
      BY <1>2, <2>1, PartIs
  <1>9. /\ Len(u) >= 2 /\ Len(u) \in Nat
        /\ u[1] = text[start] /\ u[2] = text[start + 1] /\ u[Len(u)] = text[e]
    <2>1. /\ 1 \in 1..(e - start + 1) /\ 2 \in 1..(e - start + 1)
          /\ e - start + 1 \in 1..(e - start + 1) /\ e - start + 1 \in Nat /\ e - start + 1 >= 2
          /\ start + 1 - 1 = start /\ start + 2 - 1 = start + 1 /\ start + (e - start + 1) - 1 = e
      BY <1>2, <1>3, <1>5, <1>6
    <2> QED
      BY <1>8, <2>1
  <1>10. Last(u) = "}"
    BY <1>1, <1>6, <1>9, ZenonT(20) DEF Last, Closes
  <1>11. CallKeys(u) # {}
    <2>1. CallAt(u, 1)
      <3>1. 1 + 1 = 2
        OBVIOUS
      <3> QED
        BY <1>2, <1>9, <3>1, ZenonT(20) DEF CallAt
    <2>2. u \in Seq(Tokens)
      BY <1>8
    <2> QED
      BY <1>9, <2>1, <2>2, StartHasKey
  <1>12. ASSUME NEW b \in DOMAIN text, start < b, IsObject(SubSeq(text, start, b))
         PROVE  b = i - 1
    <2>1. b \notin start..((i - 1) - 1)
      BY <1>1, <1>12 DEF NoneBefore
    <2>2. b \notin i..Len(text)
      BY <1>1, <1>2, <1>12, NoneEndsLater
    <2> QED
      BY <1>2, <1>3, <1>12, <2>1, <2>2
  <1> QED
    BY <1>2, <1>3, <1>5, <1>7, <1>10, <1>11, <1>12

(* The first start that is found to begin an object is the first that does. *)
LEMMA FirstObject ==
    ASSUME text \in Seq(Tokens), Scanning, pc = "snippet", Tried, IsObject(Snippet)
    PROVE  /\ CallObjects # {}
           /\ (CHOOSE o \in CallObjects : \A p \in CallObjects : o[1] <= p[1]) = <<start, i - 1>>
  <1>1. /\ start \in 1..Len(text) /\ i - 1 \in 1..Len(text) /\ start < i - 1
        /\ \A b \in DOMAIN text : start < b /\ IsObject(SubSeq(text, start, b)) => b = i - 1
    BY SnippetIs
  <1>2. /\ start \in CallStarts(text) /\ \A n \in matches : n > start
        /\ DOMAIN text = 1..Len(text) /\ start \in Nat
    BY <1>1 DEF Scanning
  <1>3. PICK e : e = <<start, i - 1>>
    OBVIOUS
  <1>4. e \in CallObjects
    <2>1. e \in CallStarts(text) \X DOMAIN text /\ e[1] = start /\ e[2] = i - 1
      BY <1>1, <1>2, <1>3
    <2>2. IsObject(SubSeq(text, e[1], e[2]))
      BY <2>1 DEF Snippet
    <2> QED
      BY <1>1, <2>1, <2>2 DEF CallObjects
  <1>5. ASSUME NEW p \in CallObjects
        PROVE  /\ p[1] \in Nat /\ start <= p[1]
               /\ p[1] = start => p = e
    <2>1. /\ p \in CallStarts(text) \X DOMAIN text /\ p[1] < p[2]
          /\ IsObject(SubSeq(text, p[1], p[2]))
      BY DEF CallObjects
    <2>2. p[1] \in CallStarts(text) /\ p[2] \in DOMAIN text /\ p = <<p[1], p[2]>>
      BY <2>1
    <2>3. p[1] \in Nat
      BY <2>2, StartIs
    <2>4. start <= p[1]
      <3>1. ~NoObject(p[1])
        BY <2>1, <2>2 DEF NoObject
      <3>2. p[1] \in matches \/ p[1] = start
        BY <2>2, <3>1 DEF Tried
      <3> QED
        BY <1>2, <2>3, <3>2
    <2>5. p[1] = start => p[2] = i - 1
      BY <1>1, <2>1, <2>2
    <2> QED
      BY <1>3, <2>2, <2>3, <2>4, <2>5
  <1>6. PICK first : first = CHOOSE o \in CallObjects : \A p \in CallObjects : o[1] <= p[1]
    OBVIOUS
  <1>7. e[1] = start
    BY <1>3
  <1>8. \A p \in CallObjects : e[1] <= p[1]
    BY <1>5, <1>7
  <1>9. first \in CallObjects /\ \A p \in CallObjects : first[1] <= p[1]
    BY <1>4, <1>6, <1>8
  <1>10. first[1] = start
    <2>1. first[1] <= start /\ start <= first[1] /\ first[1] \in Nat
      BY <1>4, <1>5, <1>7, <1>9
    <2> QED
      BY <1>2, <2>1
  <1>11. first = e
    BY <1>5, <1>9, <1>10
  <1> QED
    BY <1>3, <1>4, <1>6, <1>11

LEMMA ParseSnippetKeeps ==
    ASSUME ParserInv, ParseSnippet
    PROVE  ParserInv'
  <1>1. pc = "snippet" /\ text' = text /\ matches' = matches /\ start' = start
    BY DEF ParseSnippet
  <1>2. /\ text \in Seq(Tokens) /\ matches \subseteq CallStarts(text) /\ result = 0
        /\ ~IsCallObject(Unfenced(text)) /\ (Plain => Tried) /\ (Plain => Scanning)
    BY <1>1 DEF ParserInv, Searching
  <1>3. Plain' = Plain /\ Wanted' = Wanted
    BY <1>1 DEF Plain, Wanted, CallObjects
  <1>4. CASE Last(Snippet) = "}" /\ IsCallObject(Snippet)
    <2>1. pc' = "returned" /\ result' = Place(ExtractFromDict(Snippet), start - 1)
      BY <1>4 DEF ParseSnippet
    <2>2. ASSUME Plain PROVE result' = Wanted
      <3>1. PICK first : first = CHOOSE o \in CallObjects : \A p \in CallObjects : o[1] <= p[1]
        OBVIOUS
      <3>2. CallObjects # {} /\ first = <<start, i - 1>>
        BY <1>1, <1>2, <1>4, <2>2, <3>1, FirstObject DEF IsCallObject
      <3>3. Wanted = Place(ExtractFromDict(SubSeq(text, first[1], first[2])), first[1] - 1)
        BY <1>2, <3>1, <3>2 DEF Wanted
      <3>4. first[1] = start /\ first[2] = i - 1
        BY <3>2
      <3> QED
        BY <2>1, <3>3, <3>4 DEF Snippet
    <2>3. FindsTheCall'
      <3>1. IsCallObject(Unfenced(text))' = IsCallObject(Unfenced(text))
        BY <1>1
      <3> QED
        BY <1>2, <1>3, <2>2, <3>1 DEF FindsTheCall, Plain
    <2> QED
      BY <1>1, <1>2, <2>1, <2>3 DEF ParserInv, Searching
  <1>5. CASE ~(Last(Snippet) = "}" /\ IsCallObject(Snippet))
    <2>1. pc' = "matching" /\ result' = result
      BY <1>5 DEF ParseSnippet
    <2>2. ASSUME Plain PROVE Tried'
      <3>1. /\ start \in 1..Len(text) /\ i - 1 \in 1..Len(text)
            /\ Last(Snippet) = "}" /\ CallKeys(Snippet) # {}
            /\ \A b \in DOMAIN text : start < b /\ IsObject(SubSeq(text, start, b)) => b = i - 1
        BY <1>1, <1>2, <2>2, SnippetIs
      <3>2. ~IsObject(SubSeq(text, start, i - 1))
        BY <1>5, <3>1 DEF IsCallObject, Snippet
      <3>3. NoObject(start)
        BY <3>1, <3>2 DEF NoObject
      <3> QED
        BY <1>1, <1>2, <2>1, <2>2, <3>3 DEF Tried, NoObject
    <2> QED
      BY <1>1, <1>2, <1>3, <2>1, <2>2 DEF ParserInv, Searching, FindsTheCall
  <1> QED
    BY <1>4, <1>5

LEMMA ParserStutters ==
    ASSUME ParserInv, UNCHANGED vars
    PROVE  ParserInv'
  BY DEF ParserInv, vars, Searching, Plain, Tried, NoObject, Scanning, NoneBefore, Closes, Before,
         FindsTheCall, Wanted, CallObjects

LEMMA ParserStep ==
    ASSUME ParserInv, [Next]_vars
    PROVE  ParserInv'
  BY ParseDirectlyKeeps, TryMatchKeeps, NoMatchLeftKeeps, ScanTokenKeeps, NoEndFoundKeeps,
     ParseSnippetKeeps, ParserStutters
     DEF Next, Returned

(* What the search has found out about the starts it has tried.             *)
THEOREM ParserInvariant == Spec => []ParserInv
  <1>1. Init => ParserInv
    BY ParserInit
  <1>2. ParserInv /\ [Next]_vars => ParserInv'
    BY ParserStep
  <1> QED
    BY <1>1, <1>2, PTL DEF Spec

(* parse_tool_call_json() finds the call of the first object that begins    *)
(* with "tool_call", whatever stands around it, although it only counts     *)
(* braces: in every text whose strings hold no brace of their own, and in   *)
(* every text that is nothing but the call.                                 *)
THEOREM CallsAreFound == Spec => []FindsTheCall
  <1>1. ParserInv => FindsTheCall
    BY DEF ParserInv
  <1> QED
    BY <1>1, ParserInvariant, PTL
==============================================================================
