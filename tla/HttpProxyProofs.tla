--------------------------- MODULE HttpProxyProofs ---------------------------
(* However the bytes of a backend's answer are cut into chunks, a session   *)
(* and a request get its fragments, each once and in order; a request gets  *)
(* one outcome, and "stop" only behind a whole answer.  For answers of any  *)
(* length, and for all kinds of event.                                      *)
EXTENDS HttpProxyMC, SequenceTheorems, WellFoundedInduction, TLAPS

-----------------------------------------------------------------------------
(* Induction.  The library's induction theorems take an operator; this one  *)
(* takes a set, which is what the provers can be given.                     *)

(* A set of numbers that holds 0, and with a number the next, holds all.    *)
LEMMA SetInduction ==
    ASSUME NEW P \in SUBSET Nat, 0 \in P, \A n \in P : n + 1 \in P
    PROVE  P = Nat
  <1> DEFINE R == OpToRel(<, Nat)
             T == Nat \ P
  <1> SUFFICES ASSUME T # {} PROVE FALSE
    OBVIOUS
  <1>1. IsWellFoundedOn(R, Nat)
    BY NatLessThanWellFounded
  <1>2. \A x, y \in Nat : <<x, y>> \in R <=> x < y
    BY DEF OpToRel
  <1>3. PICK x \in T : \A y \in T : <<y, x>> \notin R
    <2> HIDE DEF R, T
    <2>1. T \subseteq Nat
      BY DEF T
    <2> QED
      BY <1>1, <2>1, WFMin
  <1>4. x # 0 /\ x \in Nat
    OBVIOUS
  <1>5. x - 1 \in Nat /\ x - 1 < x
    BY <1>4
  <1>6. x - 1 \in P
    BY <1>2, <1>3, <1>5
  <1>7. (x - 1) + 1 = x
    BY <1>4
  <1> QED
    BY <1>6, <1>7

(* g holds the concatenations of the first sequences of seqs.               *)
Concats(seqs, g) ==
    /\ g[0] = <<>>
    /\ \A i \in 1..Len(seqs) : g[i] = g[i - 1] \o seqs[i]

ConcatsUpTo(seqs, S, n, g) ==
    /\ g \in [0..n -> Seq(S)]
    /\ g[0] = <<>>
    /\ \A i \in 1..n : g[i] = g[i - 1] \o seqs[i]

LEMMA ConcatsExist ==
    ASSUME NEW S, NEW seqs \in Seq(Seq(S))
    PROVE  \E g \in [0..Len(seqs) -> Seq(S)] : Concats(seqs, g)
  <1> DEFINE Exists(n) == \E g : ConcatsUpTo(seqs, S, n, g)
             P == {n \in Nat : n <= Len(seqs) => Exists(n)}
  <1>1. Exists(0)
    <2>1. ConcatsUpTo(seqs, S, 0, [i \in 0..0 |-> <<>>])
      BY DEF ConcatsUpTo
    <2> QED
      BY <2>1
  <1>2. ASSUME NEW n \in Nat, n + 1 <= Len(seqs), Exists(n) PROVE Exists(n + 1)
    <2>1. Len(seqs) \in Nat
      OBVIOUS
    <2>2. PICK g : ConcatsUpTo(seqs, S, n, g)
      BY <1>2
    <2> DEFINE e == g[n] \o seqs[n + 1]
               h == [i \in 0..(n + 1) |-> IF i = n + 1 THEN e ELSE g[i]]
    <2>3. n + 1 \in 1..Len(seqs) /\ seqs[n + 1] \in Seq(S) /\ g[n] \in Seq(S)
      BY <1>2, <2>1, <2>2 DEF ConcatsUpTo
    <2>4. e \in Seq(S)
      BY <2>3, ConcatProperties
    <2>5. \A i \in 0..(n + 1) : h[i] = IF i = n + 1 THEN e ELSE g[i]
      OBVIOUS
    <2>6. h \in [0..(n + 1) -> Seq(S)]
      <3> HIDE DEF e
      <3> QED
        BY <2>2, <2>4 DEF ConcatsUpTo
    <2>7. ASSUME NEW i \in 1..(n + 1) PROVE h[i] = h[i - 1] \o seqs[i]
      <3>1. i \in 0..(n + 1) /\ i - 1 \in 0..(n + 1) /\ i - 1 # n + 1 /\ (n + 1) - 1 = n
        BY <1>2
      <3>2. h[i - 1] = g[i - 1]
        BY <2>5, <3>1
      <3>3. CASE i = n + 1
        BY <2>5, <3>1, <3>2, <3>3
      <3>4. CASE i # n + 1
        <4>1. i \in 1..n /\ h[i] = g[i]
          BY <2>5, <3>1, <3>4
        <4> QED
          BY <2>2, <3>2, <4>1 DEF ConcatsUpTo
      <3> QED
        BY <3>3, <3>4
    <2>8. h[0] = <<>>
      BY <2>2, <2>5 DEF ConcatsUpTo
    <2>9. ConcatsUpTo(seqs, S, n + 1, h)
      <3> HIDE DEF h
      <3> QED
        BY <2>6, <2>7, <2>8 DEF ConcatsUpTo
    <2> QED
      BY <2>9
  <1> HIDE DEF Exists
  <1>3. \A n \in P : n + 1 \in P
    <2> SUFFICES ASSUME NEW n \in P PROVE n + 1 \in P
      OBVIOUS
    <2>1. n \in Nat /\ Len(seqs) \in Nat
      OBVIOUS
    <2> QED
      BY <1>2, <2>1
  <1>4. 0 \in P /\ P \subseteq Nat
    BY <1>1
  <1>5. P = Nat
    <2> HIDE DEF P
    <2> QED
      BY <1>3, <1>4, SetInduction
  <1>6. Exists(Len(seqs))
    <2>1. Len(seqs) \in Nat
      OBVIOUS
    <2>2. Len(seqs) \in P
      BY <1>5, <2>1
    <2> QED
      BY <2>1, <2>2
  <1> QED
    BY <1>6 DEF Exists, Concats, ConcatsUpTo

(* FlattenSeq is defined by a recursion over a sequence. *)
Recursion(seqs, h) ==
    h = [i \in 1..Len(seqs) |-> IF i = 1 THEN seqs[i] ELSE h[i - 1] \o seqs[i]]

LEMMA FlattenIsConcat ==
    ASSUME NEW S, NEW seqs \in Seq(Seq(S)), NEW g \in [0..Len(seqs) -> Seq(S)],
           Concats(seqs, g)
    PROVE  FlattenSeq(seqs) = g[Len(seqs)]
  <1>1. CASE Len(seqs) = 0
    <2>1. seqs = <<>>
      BY <1>1
    <2> QED
      BY <1>1, <2>1 DEF FlattenSeq, Concats
  <1>2. CASE Len(seqs) # 0
    <2> DEFINE h == CHOOSE f : Recursion(seqs, f)
               r == [i \in 1..Len(seqs) |-> g[i]]
    <2>1. FlattenSeq(seqs) = h[Len(seqs)]
      BY <1>2 DEF FlattenSeq, Recursion
    <2>2. g[1] = seqs[1] /\ Len(seqs) \in Nat
      <3>1. 1 \in 1..Len(seqs) /\ seqs[1] \in Seq(S)
        BY <1>2
      <3>2. g[1] = g[0] \o seqs[1] /\ g[0] = <<>>
        <4>1. g[1] = g[1 - 1] \o seqs[1]
          BY <3>1 DEF Concats
        <4>2. 1 - 1 = 0
          OBVIOUS
        <4> QED
          BY <4>1, <4>2 DEF Concats
      <3> QED
        BY <3>1, <3>2, ConcatEmptySeq
    <2>3. Recursion(seqs, r)
      <3>1. ASSUME NEW i \in 1..Len(seqs), i # 1 PROVE r[i] = r[i - 1] \o seqs[i]
        <4>1. i \in 1..Len(seqs) /\ i - 1 \in 1..Len(seqs)
          BY <2>2, <3>1
        <4>2. r[i] = g[i] /\ r[i - 1] = g[i - 1]
          BY <4>1
        <4> QED
          BY <4>1, <4>2 DEF Concats
      <3>2. r[1] = seqs[1]
        BY <1>2, <2>2
      <3> QED
        BY <2>2, <3>1, <3>2 DEF Recursion
    <2>4. Recursion(seqs, h)
      BY <2>3
    <2> HIDE DEF h, r
    <2> DEFINE P == {n \in Nat : n + 1 <= Len(seqs) => h[n + 1] = g[n + 1]}
    <2>5. 0 \in P
      BY <1>2, <2>2, <2>4 DEF Recursion
    <2>6. ASSUME NEW n \in P PROVE n + 1 \in P
      <3> SUFFICES ASSUME n + 2 <= Len(seqs) PROVE h[n + 2] = g[n + 2]
        OBVIOUS
      <3>1. n \in Nat /\ n + 2 \in 1..Len(seqs) /\ n + 2 # 1 /\ (n + 2) - 1 = n + 1
        BY <2>2
      <3>2. h[n + 1] = g[n + 1]
        BY <2>2, <3>1
      <3>3. h[n + 2] = h[n + 1] \o seqs[n + 2]
        BY <2>4, <3>1 DEF Recursion
      <3>4. g[n + 2] = g[n + 1] \o seqs[n + 2]
        BY <3>1 DEF Concats
      <3> QED
        BY <3>2, <3>3, <3>4
    <2>7. P = Nat
      <3> HIDE DEF P
      <3>1. P \subseteq Nat
        BY DEF P
      <3> QED
        BY <2>5, <2>6, <3>1, SetInduction
    <2>8. PICK m \in Nat : m + 1 = Len(seqs)
      <3>1. Len(seqs) - 1 \in Nat /\ (Len(seqs) - 1) + 1 = Len(seqs)
        BY <1>2, <2>2
      <3> QED
        BY <3>1
    <2>9. m \in P
      BY <2>7
    <2> QED
      BY <2>1, <2>2, <2>8, <2>9
  <1> QED
    BY <1>1, <1>2

(* All the concatenations of the first sequences, in one function.          *)
LEMMA FlattenFirsts ==
    ASSUME NEW S, NEW seqs \in Seq(Seq(S))
    PROVE  \E g \in [0..Len(seqs) -> Seq(S)] :
               /\ Concats(seqs, g)
               /\ \A n \in 0..Len(seqs) : FlattenSeq(SubSeq(seqs, 1, n)) = g[n]
  <1>1. PICK g \in [0..Len(seqs) -> Seq(S)] : Concats(seqs, g)
    BY ConcatsExist
  <1>2. ASSUME NEW n \in 0..Len(seqs)
        PROVE  FlattenSeq(SubSeq(seqs, 1, n)) = g[n]
    <2> DEFINE t == SubSeq(seqs, 1, n)
               f == [i \in 0..n |-> g[i]]
    <2>1. Len(seqs) \in Nat /\ n \in Nat /\ n <= Len(seqs)
      OBVIOUS
    <2>2. t \in Seq(Seq(S)) /\ Len(t) = n /\ \A i \in 1..n : t[i] = seqs[i]
      <3>1. \A i \in 1..n : seqs[i] \in Seq(S)
        BY <2>1
      <3> QED
        BY <2>1, <3>1, SubSeqProperties
    <2>3. f \in [0..Len(t) -> Seq(S)]
      BY <2>1, <2>2
    <2>4. Concats(t, f)
      <3>1. f[0] = <<>>
        BY <1>1, <2>1 DEF Concats
      <3>2. ASSUME NEW i \in 1..n PROVE f[i] = f[i - 1] \o t[i]
        <4>1. i \in 0..n /\ i - 1 \in 0..n /\ i \in 1..Len(seqs)
          BY <2>1
        <4>2. f[i] = g[i] /\ f[i - 1] = g[i - 1] /\ t[i] = seqs[i]
          BY <2>2, <4>1
        <4> QED
          BY <1>1, <4>1, <4>2 DEF Concats
      <3> HIDE DEF t, f
      <3> QED
        BY <2>2, <3>1, <3>2 DEF Concats
    <2>5. FlattenSeq(t) = f[Len(t)]
      <3> HIDE DEF t, f
      <3> QED
        BY <2>2, <2>3, <2>4, FlattenIsConcat
    <2> QED
      BY <2>1, <2>2, <2>5
  <1> QED
    BY <1>1, <1>2

(* Flatten(n) is the concatenation of the first n sequences.                *)
LEMMA FlattenType ==
    ASSUME NEW S, NEW seqs \in Seq(Seq(S)), NEW n \in 0..Len(seqs)
    PROVE  FlattenSeq(SubSeq(seqs, 1, n)) \in Seq(S)
  BY FlattenFirsts

LEMMA FlattenNone ==
    ASSUME NEW seqs, Len(seqs) = 0
    PROVE  FlattenSeq(seqs) = seqs
  BY DEF FlattenSeq

LEMMA FlattenNext ==
    ASSUME NEW S, NEW seqs \in Seq(Seq(S)), NEW n \in Nat, n + 1 <= Len(seqs)
    PROVE  FlattenSeq(SubSeq(seqs, 1, n + 1)) = FlattenSeq(SubSeq(seqs, 1, n)) \o seqs[n + 1]
  <1>1. PICK g \in [0..Len(seqs) -> Seq(S)] :
               /\ Concats(seqs, g)
               /\ \A m \in 0..Len(seqs) : FlattenSeq(SubSeq(seqs, 1, m)) = g[m]
    BY FlattenFirsts
  <1>2. Len(seqs) \in Nat
    OBVIOUS
  <1>3. n \in 0..Len(seqs) /\ n + 1 \in 0..Len(seqs) /\ n + 1 \in 1..Len(seqs) /\ (n + 1) - 1 = n
    BY <1>2
  <1>4. g[n + 1] = g[n] \o seqs[n + 1]
    BY <1>1, <1>3 DEF Concats
  <1> QED
    BY <1>1, <1>3, <1>4

(* What follows the first m sequences.                                      *)
LEMMA FlattenSplits ==
    ASSUME NEW S, NEW seqs \in Seq(Seq(S)), NEW m \in Nat, NEW n \in Nat, m + n <= Len(seqs)
    PROVE  \E rest \in Seq(S) :
               /\ FlattenSeq(SubSeq(seqs, 1, m + n)) = FlattenSeq(SubSeq(seqs, 1, m)) \o rest
               /\ (\A d \in (m + 1)..(m + n) : seqs[d] = <<>>) => rest = <<>>
  <1> DEFINE F(i) == FlattenSeq(SubSeq(seqs, 1, i))
             Splits(i) == \E rest \in Seq(S) :
                              /\ F(m + i) = F(m) \o rest
                              /\ (\A d \in (m + 1)..(m + i) : seqs[d] = <<>>) => rest = <<>>
             P == {i \in Nat : m + i <= Len(seqs) => Splits(i)}
  <1>1. Len(seqs) \in Nat
    OBVIOUS
  <1>2. \A i \in 0..Len(seqs) : F(i) \in Seq(S)
    BY FlattenType
  <1>3. Splits(0)
    <2>1. m + 0 = m /\ m \in 0..Len(seqs)
      BY <1>1
    <2>2. F(m) = F(m) \o <<>> /\ <<>> \in Seq(S)
      BY <1>2, <2>1, ConcatEmptySeq
    <2> QED
      BY <2>1, <2>2
  <1>4. ASSUME NEW i \in Nat, m + (i + 1) <= Len(seqs), Splits(i) PROVE Splits(i + 1)
    <2>1. PICK rest \in Seq(S) : /\ F(m + i) = F(m) \o rest
                                 /\ (\A d \in (m + 1)..(m + i) : seqs[d] = <<>>) => rest = <<>>
      BY <1>4
    <2>2. /\ (m + i) + 1 <= Len(seqs) /\ m + (i + 1) = (m + i) + 1 /\ m + i \in Nat
          /\ (m + i) + 1 \in 1..Len(seqs) /\ m \in 0..Len(seqs)
      BY <1>1, <1>4
    <2>3. F((m + i) + 1) = F(m + i) \o seqs[(m + i) + 1]
      <3> HIDE DEF F
      <3>1. \A k \in Nat : k + 1 <= Len(seqs) => F(k + 1) = F(k) \o seqs[k + 1]
        BY FlattenNext DEF F
      <3> QED
        BY <2>2, <3>1
    <2> HIDE DEF F
    <2>4. PICK e \in Seq(S) : e = seqs[(m + i) + 1]
      BY <2>2
    <2>5. F(m + (i + 1)) = F(m) \o (rest \o e)
      <3>1. (F(m) \o rest) \o e = F(m) \o (rest \o e)
        <4>1. PICK f \in Seq(S) : f = F(m)
          BY <1>2, <2>2
        <4>2. (f \o rest) \o e = f \o (rest \o e)
          BY ConcatAssociative, SMTT(30)
        <4> QED
          BY <4>1, <4>2
      <3> QED
        BY <2>1, <2>2, <2>3, <2>4, <3>1
    <2>6. rest \o e \in Seq(S)
      BY ConcatProperties
    <2>7. (\A d \in (m + 1)..(m + (i + 1)) : seqs[d] = <<>>) => rest \o e = <<>>
      <3> SUFFICES ASSUME \A d \in (m + 1)..(m + (i + 1)) : seqs[d] = <<>>
                   PROVE  rest \o e = <<>>
        OBVIOUS
      <3>1. rest = <<>>
        BY <2>1
      <3>2. e = <<>>
        BY <2>2, <2>4
      <3> QED
        BY <3>1, <3>2
    <2> QED
      BY <2>5, <2>6, <2>7
  <1> HIDE DEF F, Splits
  <1>5. 0 \in P /\ P \subseteq Nat
    BY <1>3
  <1>6. \A i \in P : i + 1 \in P
    <2> SUFFICES ASSUME NEW i \in P PROVE i + 1 \in P
      OBVIOUS
    <2>1. i \in Nat
      OBVIOUS
    <2> QED
      BY <1>1, <1>4, <2>1
  <1>7. P = Nat
    <2> HIDE DEF P
    <2> QED
      BY <1>5, <1>6, SetInduction
  <1>8. Splits(n)
    BY <1>7
  <1> QED
    BY <1>8 DEF Splits, F

-----------------------------------------------------------------------------
(* The symbols on the wire. *)

AnyKind == {"content", "thinking", "both", "text", "usage", "multi", "separated", "garbage",
            "scalar", "comment", "done"}
Texts == (AnyKind \cup {"rest"}) \X Nat
Marks == {LineFeed, Return, Separator, DataField, Colon}
Symbols == Texts \cup Marks

LEMMA NamesDiffer ==
    ASSUME NEW a, NEW b, NEW c, NEW d, a # c
    PROVE  <<a, b>> # <<c, d>>
  OBVIOUS

LEMMA MarksDiffer ==
    /\ LineFeed # Return /\ LineFeed # Separator /\ LineFeed # DataField /\ LineFeed # Colon
    /\ Return # Separator /\ Return # DataField /\ Return # Colon
    /\ Separator # DataField /\ Separator # Colon /\ DataField # Colon
  BY NamesDiffer DEF LineFeed, Return, Separator, DataField, Colon, Sym

LEMMA TextsDiffer ==
    ASSUME NEW k \in AnyKind \cup {"rest"}, NEW i \in Nat
    PROVE  /\ <<k, i>> \in Symbols
           /\ <<k, i>> \notin Marks
  <1>1. k # "LF" /\ k # "CR" /\ k # "U+2028" /\ k # "data:" /\ k # ":"
    BY DEF AnyKind
  <1>2. <<k, i>> \in Symbols
    BY DEF Symbols, Texts
  <1>3. /\ <<k, i>> # <<"LF", 0>> /\ <<k, i>> # <<"CR", 0>> /\ <<k, i>> # <<"U+2028", 0>>
        /\ <<k, i>> # <<"data:", 0>> /\ <<k, i>> # <<":", 0>>
    BY <1>1, NamesDiffer
  <1> QED
    BY <1>2, <1>3 DEF LineFeed, Return, Separator, DataField, Colon, Sym, Marks

(* The lines of event i of kind k. *)
Body(k, i, s) ==
    CASE k = "comment" -> <<Colon, <<k, i>>>>
      [] k = "multi" -> <<DataField, <<k, i>>>> \o Break(s) \o <<DataField, <<"rest", i>>>>
      [] OTHER -> <<DataField>> \o Payload(k, i)

LEMMA FourSymbols ==
    ASSUME NEW b \in Seq(Symbols), NEW q \in 1..(Len(b) - 3)
    PROVE  SubSeq(b, q, q + 3) = <<Return, LineFeed, Return, LineFeed>>
           <=> /\ b[q] = Return /\ b[q + 1] = LineFeed
               /\ b[q + 2] = Return /\ b[q + 3] = LineFeed
  <1>1. q \in Int /\ q + 3 \in Int /\ Len(b) \in Nat /\ q >= 1 /\ q + 3 <= Len(b)
    OBVIOUS
  <1>2. PICK t : t = SubSeq(b, q, q + 3)
    OBVIOUS
  <1>3. t \in Seq(Symbols) /\ Len(t) = 4 /\ \A j \in 1..4 : t[j] = b[q + j - 1]
    <2>1. \A j \in q..(q + 3) : b[j] \in Symbols
      BY <1>1
    <2>2. (q + 3) - q + 1 = 4 /\ q <= q + 3
      BY <1>1
    <2> QED
      BY <1>1, <1>2, <2>1, <2>2, SubSeqProperties
  <1>4. t[1] = b[q] /\ t[2] = b[q + 1] /\ t[3] = b[q + 2] /\ t[4] = b[q + 3]
    BY <1>1, <1>3
  <1>5. t = <<t[1], t[2], t[3], t[4]>>
    BY <1>3
  <1>6. t = <<Return, LineFeed, Return, LineFeed>>
        <=> t[1] = Return /\ t[2] = LineFeed /\ t[3] = Return /\ t[4] = LineFeed
    BY <1>5
  <1> QED
    BY <1>2, <1>4, <1>6

(* Where a frame ends, without SubSeq.                                      *)
LEMMA FrameEndsAt ==
    ASSUME NEW b \in Seq(Symbols), NEW q
    PROVE  q \in FrameEnds(b)
           <=> \/ q \in 1..(Len(b) - 1) /\ b[q] = LineFeed /\ b[q + 1] = LineFeed
               \/ /\ q \in 1..(Len(b) - 3)
                  /\ b[q] = Return /\ b[q + 1] = LineFeed
                  /\ b[q + 2] = Return /\ b[q + 3] = LineFeed
  <1>1. ASSUME q \in 1..(Len(b) - 3)
        PROVE  SubSeq(b, q, q + 3) = <<Return, LineFeed, Return, LineFeed>>
               <=> /\ b[q] = Return /\ b[q + 1] = LineFeed
                   /\ b[q + 2] = Return /\ b[q + 3] = LineFeed
    BY <1>1, FourSymbols
  <1> QED
    BY <1>1 DEF FrameEnds

(* Nothing in e, nor in e and a line break behind it, ends a frame.         *)
Solid(e) ==
    /\ e \in Seq(Symbols)
    /\ Len(e) >= 1
    /\ e[Len(e)] # LineFeed /\ e[Len(e)] # Return
    /\ \A q \in 1..(Len(e) - 1) : e[q] = LineFeed => e[q + 1] # LineFeed
    /\ \A q \in 1..Len(e) : e[q] = Return => q + 2 <= Len(e) /\ e[q + 2] # Return

Styles == {"LF", "CRLF"}
Mark(s) == Break(s) \o Break(s)

LEMMA BreakIs ==
    ASSUME NEW s \in Styles
    PROVE  \E b \in Seq(Symbols) :
               /\ b = Break(s)
               /\ s = "LF" => Len(b) = 1 /\ b[1] = LineFeed
               /\ s = "CRLF" => Len(b) = 2 /\ b[1] = Return /\ b[2] = LineFeed
  <1>1. LineFeed \in Symbols /\ Return \in Symbols
    BY DEF Symbols, Marks
  <1>2. <<LineFeed>> \in Seq(Symbols) /\ <<Return, LineFeed>> \in Seq(Symbols)
    BY <1>1
  <1>3. CASE s = "LF"
    <2>1. Break(s) = <<LineFeed>>
      BY <1>3 DEF Break
    <2> QED
      BY <1>2, <1>3, <2>1
  <1>4. CASE s = "CRLF"
    <2>1. Break(s) = <<Return, LineFeed>>
      BY <1>4 DEF Break
    <2> QED
      BY <1>2, <1>4, <2>1
  <1> QED
    BY <1>3, <1>4 DEF Styles

LEMMA MarkIs ==
    ASSUME NEW s \in Styles
    PROVE  /\ Mark(s) \in Seq(Symbols)
           /\ s = "LF" => /\ Len(Mark(s)) = 2
                          /\ Mark(s)[1] = LineFeed /\ Mark(s)[2] = LineFeed
           /\ s = "CRLF" => /\ Len(Mark(s)) = 4
                            /\ Mark(s)[1] = Return /\ Mark(s)[2] = LineFeed
                            /\ Mark(s)[3] = Return /\ Mark(s)[4] = LineFeed
  <1>1. PICK b \in Seq(Symbols) :
               /\ b = Break(s)
               /\ s = "LF" => Len(b) = 1 /\ b[1] = LineFeed
               /\ s = "CRLF" => Len(b) = 2 /\ b[1] = Return /\ b[2] = LineFeed
    BY BreakIs
  <1>2. PICK m : m = b \o b
    OBVIOUS
  <1>3. /\ m \in Seq(Symbols)
        /\ Len(m) = Len(b) + Len(b)
        /\ \A i \in 1..(Len(b) + Len(b)) : m[i] = IF i <= Len(b) THEN b[i] ELSE b[i - Len(b)]
    BY <1>2, ConcatProperties
  <1>4. m = Mark(s)
    BY <1>1, <1>2 DEF Mark
  <1>5. s = "LF" => Len(m) = 2 /\ m[1] = LineFeed /\ m[2] = LineFeed
    BY <1>1, <1>3
  <1>6. s = "CRLF" => /\ Len(m) = 4
                      /\ m[1] = Return /\ m[2] = LineFeed /\ m[3] = Return /\ m[4] = LineFeed
    BY <1>1, <1>3
  <1> QED
    BY <1>4, <1>3, <1>5, <1>6

(* e and a mark behind it, symbol by symbol. *)
Marked(e, s, w) ==
    /\ w \in Seq(Symbols)
    /\ \A q \in 1..Len(e) : w[q] = e[q]
    /\ s = "LF" => /\ Len(w) = Len(e) + 2
                   /\ w[Len(e) + 1] = LineFeed /\ w[Len(e) + 2] = LineFeed
    /\ s = "CRLF" => /\ Len(w) = Len(e) + 4
                     /\ w[Len(e) + 1] = Return /\ w[Len(e) + 2] = LineFeed
                     /\ w[Len(e) + 3] = Return /\ w[Len(e) + 4] = LineFeed

LEMMA MarkedIs ==
    ASSUME NEW e \in Seq(Symbols), NEW s \in Styles
    PROVE  Marked(e, s, e \o Mark(s))
  <1> DEFINE w == e \o Mark(s)
  <1>1. /\ w \in Seq(Symbols)
        /\ Len(w) = Len(e) + Len(Mark(s))
        /\ \A q \in 1..(Len(e) + Len(Mark(s))) :
              w[q] = IF q <= Len(e) THEN e[q] ELSE Mark(s)[q - Len(e)]
    BY MarkIs, ConcatProperties
  <1> HIDE DEF w
  <1>2. Len(e) \in Nat
    OBVIOUS
  <1>3. CASE s = "LF"
    <2>1. /\ Len(Mark(s)) = 2
          /\ Mark(s)[1] = LineFeed /\ Mark(s)[2] = LineFeed
      BY <1>3, MarkIs
    <2>2. Len(w) = Len(e) + 2 /\ \A q \in 1..Len(e) : w[q] = e[q]
      BY <1>1, <1>2, <2>1
    <2>3. w[Len(e) + 1] = LineFeed /\ w[Len(e) + 2] = LineFeed
      <3>1. (Len(e) + 1) - Len(e) = 1 /\ (Len(e) + 2) - Len(e) = 2
        BY <1>2
      <3> QED
        BY <1>1, <1>2, <2>1, <3>1
    <2> QED
      BY <1>1, <1>3, <2>2, <2>3 DEF Marked, w
  <1>4. CASE s = "CRLF"
    <2>1. /\ Len(Mark(s)) = 4
          /\ Mark(s)[1] = Return /\ Mark(s)[2] = LineFeed
          /\ Mark(s)[3] = Return /\ Mark(s)[4] = LineFeed
      BY <1>4, MarkIs
    <2>2. Len(w) = Len(e) + 4 /\ \A q \in 1..Len(e) : w[q] = e[q]
      BY <1>1, <1>2, <2>1
    <2>3. /\ w[Len(e) + 1] = Return /\ w[Len(e) + 2] = LineFeed
          /\ w[Len(e) + 3] = Return /\ w[Len(e) + 4] = LineFeed
      <3>1. /\ (Len(e) + 1) - Len(e) = 1 /\ (Len(e) + 2) - Len(e) = 2
            /\ (Len(e) + 3) - Len(e) = 3 /\ (Len(e) + 4) - Len(e) = 4
        BY <1>2
      <3>2. \A i \in 1..4 : w[Len(e) + i] = Mark(s)[(Len(e) + i) - Len(e)]
        BY <1>1, <1>2, <2>1
      <3> QED
        BY <2>1, <3>1, <3>2
    <2> QED
      BY <1>1, <1>4, <2>2, <2>3 DEF Marked, w
  <1> QED
    BY <1>3, <1>4 DEF Styles, w

(* The frame of a buffer that begins with e, a mark behind it, or with as   *)
(* much of them as has arrived.                                             *)
LEMMA FirstFrame ==
    ASSUME NEW e, Solid(e), NEW s \in Styles, NEW w, Marked(e, s, w),
           NEW b \in Seq(Symbols),
           \A q \in 1..Len(b) : q <= Len(w) => b[q] = w[q]
    PROVE  /\ HasFrame(b) <=> Len(b) >= Len(w)
           /\ HasFrame(b) => Frame(b) = e /\ AfterFrame(b) = SubSeq(b, Len(w) + 1, Len(b))
  <1> DEFINE p == Len(e) + 1
  <1>1. /\ Len(e) \in Nat /\ Len(b) \in Nat /\ Len(e) >= 1 /\ e \in Seq(Symbols)
        /\ Len(w) = Len(e) + 2 \/ Len(w) = Len(e) + 4
    BY DEF Solid, Marked, Styles
  <1>2. \A q \in 1..Len(e) : q <= Len(b) => b[q] = e[q]
    BY <1>1 DEF Marked
  <1>3. ASSUME NEW q \in FrameEnds(b) PROVE q >= p
    <2> SUFFICES ASSUME q < p PROVE FALSE
      BY <1>1, FrameEndsAt
    <2>1. q \in 1..Len(e) /\ q + 1 \in Nat
      BY <1>1, FrameEndsAt
    <2>2. CASE q \in 1..(Len(b) - 1) /\ b[q] = LineFeed /\ b[q + 1] = LineFeed
      <3>1. e[q] = LineFeed
        BY <1>1, <1>2, <2>1, <2>2
      <3>2. q # Len(e)
        BY <3>1 DEF Solid
      <3>3. q + 1 \in 1..Len(e) /\ q + 1 <= Len(b) /\ q \in 1..(Len(e) - 1)
        BY <1>1, <2>1, <2>2, <3>2
      <3>4. e[q + 1] = LineFeed
        BY <1>2, <2>2, <3>3
      <3> QED
        BY <3>1, <3>3, <3>4 DEF Solid
    <2>3. CASE /\ q \in 1..(Len(b) - 3) /\ b[q] = Return /\ b[q + 2] = Return
      <3>1. e[q] = Return
        BY <1>1, <1>2, <2>1, <2>3
      <3>2. q + 2 <= Len(e) /\ e[q + 2] # Return
        BY <2>1, <3>1 DEF Solid
      <3>3. q + 2 \in 1..Len(e) /\ q + 2 <= Len(b)
        BY <1>1, <2>1, <2>3, <3>2
      <3> QED
        BY <1>2, <2>3, <3>2, <3>3
    <2> QED
      BY <2>2, <2>3, FrameEndsAt
  <1>4. ASSUME Len(b) >= Len(w) PROVE p \in FrameEnds(b)
    <2>1. CASE s = "LF"
      <3>1. p \in 1..(Len(b) - 1) /\ p + 1 = Len(e) + 2 /\ p <= Len(w) /\ p + 1 <= Len(w)
            /\ p + 1 \in 1..Len(b)
        BY <1>1, <1>4, <2>1 DEF Marked
      <3>2. b[p] = LineFeed /\ b[p + 1] = LineFeed
        BY <1>4, <2>1, <3>1 DEF Marked
      <3> QED
        BY <3>1, <3>2, FrameEndsAt
    <2>2. CASE s = "CRLF"
      <3>1. /\ p \in 1..(Len(b) - 3) /\ p + 1 = Len(e) + 2 /\ p + 2 = Len(e) + 3 /\ p + 3 = Len(e) + 4
            /\ p + 1 \in 1..Len(b) /\ p + 2 \in 1..Len(b) /\ p + 3 \in 1..Len(b) /\ p \in 1..Len(b)
            /\ Len(w) = Len(e) + 4
        BY <1>1, <1>4, <2>2 DEF Marked
      <3>2. b[p] = Return /\ b[p + 1] = LineFeed /\ b[p + 2] = Return /\ b[p + 3] = LineFeed
        <4>1. p <= Len(w) /\ p + 1 <= Len(w) /\ p + 2 <= Len(w) /\ p + 3 <= Len(w)
          BY <1>1, <3>1
        <4>2. w[p] = Return /\ w[p + 1] = LineFeed /\ w[p + 2] = Return /\ w[p + 3] = LineFeed
          BY <2>2, <3>1 DEF Marked
        <4> QED
          BY <3>1, <4>1, <4>2
      <3> QED
        BY <3>1, <3>2, FrameEndsAt
    <2> QED
      BY <2>1, <2>2 DEF Styles
  <1>5. ASSUME NEW q \in FrameEnds(b) PROVE Len(b) >= Len(w)
    <2> SUFFICES ASSUME Len(b) < Len(w) PROVE FALSE
      BY <1>1
    <2>1. q >= p /\ q \in Nat
      BY <1>3, FrameEndsAt
    <2>2. CASE s = "LF"
      <3>1. Len(w) = Len(e) + 2
        BY <2>2 DEF Marked
      <3> QED
        BY <1>1, <2>1, <3>1, FrameEndsAt
    <2>3. CASE s = "CRLF"
      <3>1. Len(w) = Len(e) + 4
        BY <2>3 DEF Marked
      <3>2. q \in 1..(Len(b) - 1) /\ b[q] = LineFeed /\ b[q + 1] = LineFeed
        BY <1>1, <2>1, <3>1, FrameEndsAt
      <3>3. q = Len(e) + 1 \/ q = Len(e) + 2
        BY <1>1, <2>1, <3>1, <3>2
      <3>4. /\ q \in 1..Len(b) /\ q + 1 \in 1..Len(b) /\ q <= Len(w) /\ q + 1 <= Len(w)
            /\ (Len(e) + 1) + 1 = Len(e) + 2 /\ (Len(e) + 2) + 1 = Len(e) + 3
        BY <1>1, <3>1, <3>2
      <3>5. w[q] = LineFeed /\ w[q + 1] = LineFeed
        BY <3>2, <3>4
      <3> QED
        BY <2>3, <3>3, <3>4, <3>5, MarksDiffer DEF Marked
    <2> QED
      BY <2>2, <2>3 DEF Styles
  <1>6. HasFrame(b) <=> Len(b) >= Len(w)
    BY <1>4, <1>5 DEF HasFrame
  <1>7. ASSUME HasFrame(b)
        PROVE  Frame(b) = e /\ AfterFrame(b) = SubSeq(b, Len(w) + 1, Len(b))
    <2>1. Len(b) >= Len(w) /\ p \in FrameEnds(b)
      BY <1>4, <1>6, <1>7
    <2>2. FindFrameEnd(b) = p
      <3>1. \A q \in FrameEnds(b) : p <= q
        BY <1>1, <1>3, FrameEndsAt
      <3>2. \A x \in FrameEnds(b) : (\A y \in FrameEnds(b) : x <= y) => x = p
        <4> SUFFICES ASSUME NEW x \in FrameEnds(b), \A y \in FrameEnds(b) : x <= y
                     PROVE  x = p
          OBVIOUS
        <4>1. x <= p /\ p <= x /\ x \in Nat /\ p \in Nat
          BY <1>1, <2>1, <3>1, FrameEndsAt
        <4> QED
          BY <4>1
      <3> HIDE DEF p
      <3> QED
        BY <2>1, <3>1, <3>2 DEF FindFrameEnd, Min
    <2>3. Frame(b) = e
      <3>1. p - 1 = Len(e) /\ Len(e) <= Len(b)
        BY <1>1, <2>1
      <3>2. Frame(b) = SubSeq(b, 1, Len(e))
        BY <2>2, <3>1 DEF Frame
      <3>3. \A j \in 1..Len(e) : b[j] \in Symbols /\ b[j] = e[j]
        BY <1>1, <1>2, <3>1
      <3>4. /\ SubSeq(b, 1, Len(e)) \in Seq(Symbols)
            /\ Len(SubSeq(b, 1, Len(e))) = Len(e)
            /\ \A j \in 1..Len(e) : SubSeq(b, 1, Len(e))[j] = b[j]
        BY <1>1, <3>3, SubSeqProperties
      <3> QED
        BY <1>1, <3>2, <3>3, <3>4, SeqEqual
    <2>4. p \in 1..Len(b) /\ p <= Len(w) /\ b[p] = w[p]
      BY <1>1, <2>1
    <2>5. CASE s = "LF"
      <3>1. b[p] # Return /\ p + 2 = Len(w) + 1
        BY <1>1, <2>4, <2>5, MarksDiffer DEF Marked
      <3> QED
        BY <2>2, <2>3, <3>1 DEF AfterFrame
    <2>6. CASE s = "CRLF"
      <3>1. b[p] = Return /\ p + 4 = Len(w) + 1
        BY <1>1, <2>4, <2>6 DEF Marked
      <3> QED
        BY <2>2, <2>3, <3>1 DEF AfterFrame
    <2> QED
      BY <2>5, <2>6 DEF Styles
  <1> QED
    BY <1>6, <1>7

-----------------------------------------------------------------------------
(* What is left of an event when its frame has been read.                   *)

(* y begins with x. *)
Begins(S, y, x) == \E rest \in Seq(S) : y = x \o rest

LEMMA FlattenPrefix ==
    ASSUME NEW S, NEW seqs \in Seq(Seq(S)), NEW m \in Nat, NEW n \in Nat, m <= n, n <= Len(seqs)
    PROVE  Begins(S, FlattenSeq(SubSeq(seqs, 1, n)), FlattenSeq(SubSeq(seqs, 1, m)))
  <1>1. PICK k \in Nat : m + k = n
    <2>1. n - m \in Nat /\ m + (n - m) = n
      OBVIOUS
    <2> QED
      BY <2>1
  <1>2. m + k <= Len(seqs)
    BY <1>1
  <1>3. PICK rest \in Seq(S) :
               /\ FlattenSeq(SubSeq(seqs, 1, m + k)) = FlattenSeq(SubSeq(seqs, 1, m)) \o rest
               /\ (\A d \in (m + 1)..(m + k) : seqs[d] = <<>>) => rest = <<>>
    BY <1>2, FlattenSplits
  <1> QED
    BY <1>1, <1>3 DEF Begins

(* Nothing is concatenated between the m-th and the n-th sequence.          *)
LEMMA FlattenSkips ==
    ASSUME NEW S, NEW seqs \in Seq(Seq(S)), NEW m \in Nat, NEW n \in Nat,
           m <= n, n <= Len(seqs), \A d \in (m + 1)..n : seqs[d] = <<>>
    PROVE  FlattenSeq(SubSeq(seqs, 1, n)) = FlattenSeq(SubSeq(seqs, 1, m))
  <1>1. PICK k \in Nat : m + k = n
    <2>1. n - m \in Nat /\ m + (n - m) = n
      OBVIOUS
    <2> QED
      BY <2>1
  <1>2. FlattenSeq(SubSeq(seqs, 1, m + k)) = FlattenSeq(SubSeq(seqs, 1, m)) \o <<>>
    <2>1. m + k <= Len(seqs) /\ \A d \in (m + 1)..(m + k) : seqs[d] = <<>>
      BY <1>1
    <2>2. \E rest \in Seq(S) :
              /\ FlattenSeq(SubSeq(seqs, 1, m + k)) = FlattenSeq(SubSeq(seqs, 1, m)) \o rest
              /\ (\A d \in (m + 1)..(m + k) : seqs[d] = <<>>) => rest = <<>>
      BY <2>1, FlattenSplits
    <2> QED
      BY <2>1, <2>2
  <1>3. FlattenSeq(SubSeq(seqs, 1, m)) \in Seq(S)
    BY FlattenType
  <1> QED
    BY <1>1, <1>2, <1>3, ConcatEmptySeq

LEMMA FlattenWhole ==
    ASSUME NEW S, NEW seqs \in Seq(Seq(S))
    PROVE  /\ FlattenSeq(SubSeq(seqs, 1, Len(seqs))) = FlattenSeq(seqs)
           /\ FlattenSeq(SubSeq(seqs, 1, 0)) = <<>>
  <1>1. SubSeq(seqs, 1, Len(seqs)) = seqs
    BY SubSeqFull
  <1>2. SubSeq(seqs, 1, 0) = <<>>
    BY SubSeqEmpty
  <1>3. FlattenSeq(<<>>) = <<>>
    BY FlattenNone
  <1> QED
    BY <1>1, <1>2, <1>3

LEMMA FlattenOnePart ==
    ASSUME NEW S, NEW seqs \in Seq(Seq(S)), NEW n \in 1..Len(seqs),
           \A d \in 1..Len(seqs) : d # n => seqs[d] = <<>>
    PROVE  FlattenSeq(seqs) = seqs[n]
  <1> DEFINE F(i) == FlattenSeq(SubSeq(seqs, 1, i))
  <1>1. PICK m \in Nat : m + 1 = n /\ n <= Len(seqs) /\ Len(seqs) \in Nat /\ n \in Nat
    <2>1. /\ n - 1 \in Nat /\ (n - 1) + 1 = n
          /\ n <= Len(seqs) /\ Len(seqs) \in Nat /\ n \in Nat
      OBVIOUS
    <2> QED
      BY <2>1
  <1>2. F(m) = F(0)
    <2>1. ASSUME NEW d \in (0 + 1)..m PROVE seqs[d] = <<>>
      <3>1. d \in 1..Len(seqs) /\ d # n
        BY <1>1
      <3> QED
        BY <3>1
    <2>2. 0 <= m /\ m <= Len(seqs)
      BY <1>1
    <2> QED
      BY <2>1, <2>2, FlattenSkips
  <1>3. F(m + 1) = F(m) \o seqs[m + 1]
    BY <1>1, FlattenNext
  <1>4. F(Len(seqs)) = F(n)
    <2>1. ASSUME NEW d \in (n + 1)..Len(seqs) PROVE seqs[d] = <<>>
      <3>1. d \in 1..Len(seqs) /\ d # n /\ n < d
        BY <1>1
      <3> QED
        BY <3>1
    <2>2. Len(seqs) <= Len(seqs)
      BY <1>1
    <2> QED
      BY <1>1, <2>1, <2>2, FlattenSkips
  <1>5. F(Len(seqs)) = FlattenSeq(seqs) /\ F(0) = <<>>
    BY FlattenWhole
  <1> HIDE DEF F
  <1>6. <<>> \o seqs[n] = seqs[n]
    BY ConcatEmptySeq
  <1> QED
    BY <1>1, <1>2, <1>3, <1>4, <1>5, <1>6

LEMMA FlattenNoPart ==
    ASSUME NEW S, NEW seqs \in Seq(Seq(S)), \A d \in 1..Len(seqs) : seqs[d] = <<>>
    PROVE  FlattenSeq(seqs) = <<>>
  <1> DEFINE F(i) == FlattenSeq(SubSeq(seqs, 1, i))
  <1>1. F(Len(seqs)) = F(0)
    <2>1. 0 <= Len(seqs) /\ Len(seqs) <= Len(seqs) /\ Len(seqs) \in Nat
      OBVIOUS
    <2>2. \A d \in (0 + 1)..Len(seqs) : seqs[d] = <<>>
      OBVIOUS
    <2> QED
      BY <2>1, <2>2, FlattenSkips
  <1>2. F(Len(seqs)) = FlattenSeq(seqs) /\ F(0) = <<>>
    BY FlattenWhole
  <1> QED
    BY <1>1, <1>2

LEMMA FlattenTwoParts ==
    ASSUME NEW S, NEW seqs \in Seq(Seq(S)), NEW m \in 1..Len(seqs), NEW n \in 1..Len(seqs),
           m < n, \A d \in 1..Len(seqs) : d # m /\ d # n => seqs[d] = <<>>
    PROVE  FlattenSeq(seqs) = seqs[m] \o seqs[n]
  <1> DEFINE F(i) == FlattenSeq(SubSeq(seqs, 1, i))
  <1>1. PICK l \in Nat : /\ l + 1 = n /\ l = n - 1 /\ n <= Len(seqs) /\ Len(seqs) \in Nat
                         /\ n \in Nat /\ m \in 1..l /\ l <= Len(seqs)
    <2>1. /\ n - 1 \in Nat /\ (n - 1) + 1 = n /\ n <= Len(seqs) /\ Len(seqs) \in Nat
          /\ n \in Nat /\ m \in 1..(n - 1) /\ n - 1 <= Len(seqs)
      OBVIOUS
    <2> QED
      BY <2>1
  <1>2. F(l) = seqs[m]
    <2>1. \A d \in 1..l : seqs[d] \in Seq(S)
      BY <1>1
    <2>2. PICK u : u = SubSeq(seqs, 1, l)
      OBVIOUS
    <2>3. u \in Seq(Seq(S)) /\ Len(u) = l /\ \A d \in 1..l : u[d] = seqs[d]
      BY <1>1, <2>1, <2>2, SubSeqProperties
    <2>4. m \in 1..Len(u)
      BY <1>1, <2>3
    <2>5. ASSUME NEW d \in 1..Len(u), d # m PROVE u[d] = <<>>
      <3>1. d \in 1..l /\ d \in 1..Len(seqs) /\ d # n
        BY <1>1, <2>3
      <3> QED
        BY <2>3, <2>5, <3>1
    <2>6. FlattenSeq(u) = u[m]
      BY <2>3, <2>4, <2>5, FlattenOnePart
    <2> QED
      BY <1>1, <2>2, <2>3, <2>6
  <1>3. F(l + 1) = F(l) \o seqs[l + 1]
    BY <1>1, FlattenNext
  <1>4. F(Len(seqs)) = F(n)
    <2>1. ASSUME NEW d \in (n + 1)..Len(seqs) PROVE seqs[d] = <<>>
      <3>1. d \in 1..Len(seqs) /\ d # n /\ n < d
        BY <1>1
      <3> QED
        BY <3>1
    <2>2. Len(seqs) <= Len(seqs)
      BY <1>1
    <2> QED
      BY <1>1, <2>1, <2>2, FlattenSkips
  <1>5. F(Len(seqs)) = FlattenSeq(seqs)
    BY FlattenWhole
  <1> HIDE DEF F
  <1> QED
    BY <1>1, <1>2, <1>3, <1>4, <1>5

(* The lines of an event, symbol by symbol.                                 *)
Shape(k, i, s, f) ==
    /\ f \in Seq(Symbols)
    /\ k = "comment" => Len(f) = 2 /\ f[1] = Colon /\ f[2] = <<k, i>>
    /\ k # "comment" => f[1] = DataField /\ f[2] = <<k, i>>
    /\ k = "multi" /\ s = "LF" =>
         /\ Len(f) = 5
         /\ f[3] = LineFeed /\ f[4] = DataField /\ f[5] = <<"rest", i>>
    /\ k = "multi" /\ s = "CRLF" =>
         /\ Len(f) = 6
         /\ f[3] = Return /\ f[4] = LineFeed /\ f[5] = DataField /\ f[6] = <<"rest", i>>
    /\ k = "separated" => Len(f) = 4 /\ f[3] = Separator /\ f[4] = <<"rest", i>>
    /\ k \notin {"comment", "multi", "separated"} => Len(f) = 2

(* A concatenation, symbol by symbol.                                       *)
LEMMA Join ==
    ASSUME NEW a \in Seq(Symbols), NEW b \in Seq(Symbols), NEW c, c = a \o b
    PROVE  /\ c \in Seq(Symbols)
           /\ Len(c) = Len(a) + Len(b)
           /\ \A q \in 1..Len(a) : c[q] = a[q]
           /\ \A q \in 1..Len(b) : c[Len(a) + q] = b[q]
  <1>1. /\ c \in Seq(Symbols)
        /\ Len(c) = Len(a) + Len(b)
        /\ \A q \in 1..(Len(a) + Len(b)) : c[q] = IF q <= Len(a) THEN a[q] ELSE b[q - Len(a)]
    BY ConcatProperties
  <1>2. Len(a) \in Nat /\ Len(b) \in Nat
    OBVIOUS
  <1>3. \A q \in 1..Len(a) : c[q] = a[q]
    BY <1>1, <1>2
  <1>4. ASSUME NEW q \in 1..Len(b) PROVE c[Len(a) + q] = b[q]
    <2>1. /\ Len(a) + q \in 1..(Len(a) + Len(b)) /\ ~(Len(a) + q <= Len(a))
          /\ (Len(a) + q) - Len(a) = q
      BY <1>2
    <2> QED
      BY <1>1, <2>1
  <1> QED
    BY <1>1, <1>3, <1>4

LEMMA PairOf ==
    ASSUME NEW a \in Symbols, NEW b \in Symbols
    PROVE  \E u \in Seq(Symbols) : u = <<a, b>> /\ Len(u) = 2 /\ u[1] = a /\ u[2] = b
  <1>1. <<a, b>> \in Seq(Symbols)
    OBVIOUS
  <1>2. PICK u : u = <<a, b>>
    OBVIOUS
  <1>3. u \in Seq(Symbols) /\ Len(u) = 2 /\ u[1] = a /\ u[2] = b
    BY <1>1, <1>2
  <1> QED
    BY <1>2, <1>3

LEMMA ShapeOfMulti ==
    ASSUME NEW i \in Nat, NEW s \in Styles
    PROVE  /\ Shape("multi", i, s, Body("multi", i, s))
           /\ Encode("multi", i, s) = Body("multi", i, s) \o Mark(s)
  <1>1. PICK b \in Seq(Symbols) :
               /\ b = Break(s)
               /\ s = "LF" => Len(b) = 1 /\ b[1] = LineFeed
               /\ s = "CRLF" => Len(b) = 2 /\ b[1] = Return /\ b[2] = LineFeed
    BY BreakIs
  <1>2. /\ <<"multi", i>> \in Symbols /\ <<"rest", i>> \in Symbols /\ DataField \in Symbols
    BY TextsDiffer DEF Symbols, Marks, AnyKind
  <1>3. PICK x \in Symbols : x = <<"multi", i>>
    BY <1>2
  <1>4. PICK y \in Symbols : y = <<"rest", i>>
    BY <1>2
  <1>5. PICK u \in Seq(Symbols) : u = <<DataField, x>> /\ Len(u) = 2 /\ u[1] = DataField /\ u[2] = x
    BY <1>2, PairOf
  <1>6. PICK v \in Seq(Symbols) : v = <<DataField, y>> /\ Len(v) = 2 /\ v[1] = DataField /\ v[2] = y
    BY <1>2, PairOf
  <1>7. PICK w : w = u \o b
    OBVIOUS
  <1>8. /\ w \in Seq(Symbols)
        /\ Len(w) = Len(u) + Len(b)
        /\ \A q \in 1..Len(u) : w[q] = u[q]
        /\ \A q \in 1..Len(b) : w[Len(u) + q] = b[q]
    BY <1>7, Join
  <1>9. w \in Seq(Symbols)
    BY <1>8
  <1>10. PICK f : f = w \o v
    OBVIOUS
  <1>11. /\ f \in Seq(Symbols)
         /\ Len(f) = Len(w) + Len(v)
         /\ \A q \in 1..Len(w) : f[q] = w[q]
         /\ \A q \in 1..Len(v) : f[Len(w) + q] = v[q]
    BY <1>9, <1>10, Join
  <1>12. f \in Seq(Symbols)
    BY <1>11
  <1>13. f = Body("multi", i, s)
    BY <1>1, <1>3, <1>4, <1>5, <1>6, <1>7, <1>10 DEF Body
  <1>14. /\ Len(w) = 2 + Len(b) /\ w[1] = DataField /\ w[2] = x
         /\ \A q \in 1..Len(b) : w[2 + q] = b[q]
    <2>1. Len(u) = 2 /\ u[1] = DataField /\ u[2] = x
      BY <1>5
    <2>2. w[1] = u[1] /\ w[2] = u[2]
      BY <1>8, <2>1
    <2> QED
      BY <1>8, <2>1, <2>2
  <1>15. /\ Len(f) = Len(w) + 2
         /\ \A q \in 1..Len(w) : f[q] = w[q]
         /\ f[Len(w) + 1] = DataField /\ f[Len(w) + 2] = y
    <2>1. Len(v) = 2 /\ v[1] = DataField /\ v[2] = y
      BY <1>6
    <2>2. f[Len(w) + 1] = v[1] /\ f[Len(w) + 2] = v[2]
      BY <1>11, <2>1
    <2> QED
      BY <1>11, <2>1, <2>2
  <1>16. Shape("multi", i, s, f)
    <2>1. CASE s = "LF"
      <3>1. Len(b) = 1 /\ b[1] = LineFeed
        BY <1>1, <2>1
      <3>2. Len(w) = 3 /\ w[3] = LineFeed
        BY <1>14, <3>1
      <3>3. /\ Len(f) = 5 /\ f[1] = DataField /\ f[2] = x
            /\ f[3] = LineFeed /\ f[4] = DataField /\ f[5] = y
        <4>1. f[1] = w[1] /\ f[2] = w[2] /\ f[3] = w[3] /\ Len(f) = 5
          BY <1>15, <3>2
        <4>2. f[4] = DataField /\ f[5] = y
          BY <1>15, <3>2
        <4> QED
          BY <1>14, <3>2, <4>1, <4>2
      <3> QED
        BY <1>3, <1>4, <1>12, <2>1, <3>3 DEF Shape
    <2>2. CASE s = "CRLF"
      <3>1. Len(b) = 2 /\ b[1] = Return /\ b[2] = LineFeed
        BY <1>1, <2>2
      <3>2. Len(w) = 4 /\ w[3] = Return /\ w[4] = LineFeed
        BY <1>14, <3>1
      <3>3. /\ Len(f) = 6 /\ f[1] = DataField /\ f[2] = x
            /\ f[3] = Return /\ f[4] = LineFeed /\ f[5] = DataField /\ f[6] = y
        <4>1. f[1] = w[1] /\ f[2] = w[2] /\ f[3] = w[3] /\ f[4] = w[4] /\ Len(f) = 6
          BY <1>15, <3>2
        <4>2. f[5] = DataField /\ f[6] = y
          BY <1>15, <3>2
        <4> QED
          BY <1>14, <3>2, <4>1, <4>2
      <3> QED
        BY <1>3, <1>4, <1>12, <2>2, <3>3 DEF Shape
    <2> QED
      BY <2>1, <2>2 DEF Styles
  <1>17. Encode("multi", i, s) = ((w \o v) \o b) \o b
    BY <1>1, <1>3, <1>4, <1>5, <1>6, <1>7 DEF Encode
  <1>18. (f \o b) \o b = f \o (b \o b)
    BY <1>12, ConcatAssociative
  <1> QED
    BY <1>1, <1>10, <1>13, <1>16, <1>17, <1>18 DEF Mark

(* One event is its body and a mark. *)
LEMMA MarkBehind ==
    ASSUME NEW f \in Seq(Symbols), NEW s \in Styles
    PROVE  (f \o Break(s)) \o Break(s) = f \o Mark(s)
  <1>1. PICK b \in Seq(Symbols) : b = Break(s)
    BY BreakIs
  <1>2. (f \o b) \o b = f \o (b \o b)
    BY ConcatAssociative
  <1> QED
    BY <1>1, <1>2 DEF Mark

LEMMA ShapeOfComment ==
    ASSUME NEW i \in Nat, NEW s \in Styles
    PROVE  /\ Shape("comment", i, s, Body("comment", i, s))
           /\ Encode("comment", i, s) = Body("comment", i, s) \o Mark(s)
  <1>1. <<"comment", i>> \in Symbols /\ Colon \in Symbols
    BY TextsDiffer DEF Symbols, Marks, AnyKind
  <1>2. PICK f \in Seq(Symbols) :
               f = <<Colon, <<"comment", i>>>> /\ Len(f) = 2
               /\ f[1] = Colon /\ f[2] = <<"comment", i>>
    BY <1>1, PairOf, ZenonT(30)
  <1>3. f = Body("comment", i, s)
    BY <1>2 DEF Body
  <1>4. Shape("comment", i, s, f)
    BY <1>2 DEF Shape
  <1>5. Encode("comment", i, s) = (f \o Break(s)) \o Break(s)
    BY <1>2 DEF Encode
  <1> QED
    BY <1>3, <1>4, <1>5, MarkBehind

LEMMA ShapeOfSeparated ==
    ASSUME NEW i \in Nat, NEW s \in Styles
    PROVE  /\ Shape("separated", i, s, Body("separated", i, s))
           /\ Encode("separated", i, s) = Body("separated", i, s) \o Mark(s)
  <1>1. /\ <<"separated", i>> \in Symbols /\ <<"rest", i>> \in Symbols
        /\ DataField \in Symbols /\ Separator \in Symbols
    BY TextsDiffer DEF Symbols, Marks, AnyKind
  <1>2. PICK x \in Symbols : x = <<"separated", i>>
    BY <1>1
  <1>3. PICK y \in Symbols : y = <<"rest", i>>
    BY <1>1
  <1>4. PICK u : u = <<DataField>>
    OBVIOUS
  <1>5. u \in Seq(Symbols) /\ Len(u) = 1 /\ u[1] = DataField
    <2>1. <<DataField>> \in Seq(Symbols)
      BY <1>1
    <2> QED
      BY <1>4, <2>1
  <1>6. PICK v : v = <<x, Separator, y>>
    OBVIOUS
  <1>7. v \in Seq(Symbols) /\ Len(v) = 3 /\ v[1] = x /\ v[2] = Separator /\ v[3] = y
    <2>1. <<x, Separator, y>> \in Seq(Symbols)
      BY <1>1
    <2> QED
      BY <1>6, <2>1
  <1>8. PICK f : f = u \o v
    OBVIOUS
  <1>9. /\ f \in Seq(Symbols)
        /\ Len(f) = Len(u) + Len(v)
        /\ \A q \in 1..Len(u) : f[q] = u[q]
        /\ \A q \in 1..Len(v) : f[Len(u) + q] = v[q]
    <2>1. u \in Seq(Symbols)
      BY <1>5
    <2>2. v \in Seq(Symbols)
      BY <1>7
    <2> QED
      BY <1>8, <2>1, <2>2, Join
  <1>10. /\ f \in Seq(Symbols) /\ Len(f) = 4
         /\ f[1] = DataField /\ f[2] = x /\ f[3] = Separator /\ f[4] = y
    BY <1>5, <1>7, <1>9
  <1>11. f = Body("separated", i, s)
    BY <1>2, <1>3, <1>4, <1>6, <1>8 DEF Body, Payload
  <1>12. Shape("separated", i, s, f)
    BY <1>2, <1>3, <1>10 DEF Shape
  <1>13. Encode("separated", i, s) = (f \o Break(s)) \o Break(s)
    BY <1>2, <1>3, <1>4, <1>6, <1>8 DEF Encode, Payload
  <1> QED
    BY <1>10, <1>11, <1>12, <1>13, MarkBehind

LEMMA ShapeOfOthers ==
    ASSUME NEW k \in AnyKind \ {"comment", "multi", "separated"}, NEW i \in Nat, NEW s \in Styles
    PROVE  /\ Shape(k, i, s, Body(k, i, s))
           /\ Encode(k, i, s) = Body(k, i, s) \o Mark(s)
  <1>1. <<k, i>> \in Symbols /\ DataField \in Symbols
    BY TextsDiffer DEF Symbols, Marks
  <1>2. PICK x \in Symbols : x = <<k, i>>
    BY <1>1
  <1>3. PICK u : u = <<DataField>>
    OBVIOUS
  <1>4. u \in Seq(Symbols) /\ Len(u) = 1 /\ u[1] = DataField
    <2>1. <<DataField>> \in Seq(Symbols)
      BY <1>1
    <2> QED
      BY <1>3, <2>1
  <1>5. PICK v : v = <<x>>
    OBVIOUS
  <1>6. v \in Seq(Symbols) /\ Len(v) = 1 /\ v[1] = x
    <2>1. <<x>> \in Seq(Symbols)
      BY <1>1
    <2> QED
      BY <1>5, <2>1
  <1>7. PICK f : f = u \o v
    OBVIOUS
  <1>8. /\ f \in Seq(Symbols)
        /\ Len(f) = Len(u) + Len(v)
        /\ \A q \in 1..Len(u) : f[q] = u[q]
        /\ \A q \in 1..Len(v) : f[Len(u) + q] = v[q]
    <2>1. u \in Seq(Symbols)
      BY <1>4
    <2>2. v \in Seq(Symbols)
      BY <1>6
    <2> QED
      BY <1>7, <2>1, <2>2, Join
  <1>9. f \in Seq(Symbols) /\ Len(f) = 2 /\ f[1] = DataField /\ f[2] = x
    BY <1>4, <1>6, <1>8
  <1>10. f = Body(k, i, s)
    BY <1>2, <1>3, <1>5, <1>7 DEF Body, Payload
  <1>11. Shape(k, i, s, f)
    BY <1>2, <1>9 DEF Shape
  <1>12. Encode(k, i, s) = (f \o Break(s)) \o Break(s)
    BY <1>2, <1>3, <1>5, <1>7 DEF Encode, Payload
  <1> QED
    BY <1>9, <1>10, <1>11, <1>12, MarkBehind

LEMMA ShapeOfEvent ==
    ASSUME NEW k \in AnyKind, NEW i \in Nat, NEW s \in Styles
    PROVE  /\ Shape(k, i, s, Body(k, i, s))
           /\ Encode(k, i, s) = Body(k, i, s) \o Mark(s)
  <1>1. CASE k \notin {"comment", "multi", "separated"}
    BY <1>1, ShapeOfOthers
  <1> QED
    BY <1>1, ShapeOfComment, ShapeOfMulti, ShapeOfSeparated

(* No event holds the end of a frame. *)
Plain(x) == x # LineFeed /\ x # Return

LEMMA ShapeIsSolid ==
    ASSUME NEW k \in AnyKind, NEW i \in Nat, NEW s \in Styles, NEW f, Shape(k, i, s, f)
    PROVE  Solid(f)
  <1>1. f \in Seq(Symbols) /\ Len(f) \in Nat
    BY DEF Shape
  <1>2. Plain(<<k, i>>) /\ Plain(<<"rest", i>>)
    BY TextsDiffer DEF Marks, Plain
  <1>3. Plain(Colon) /\ Plain(DataField) /\ Plain(Separator) /\ ~Plain(LineFeed) /\ ~Plain(Return)
    BY MarksDiffer DEF Plain
  <1>4. Plain(f[1]) /\ Plain(f[2])
    <2>1. f[2] = <<k, i>> /\ (f[1] = Colon \/ f[1] = DataField)
      BY DEF Shape
    <2> QED
      BY <1>2, <1>3, <2>1
  <1>5. \/ Len(f) = 2
        \/ Len(f) = 4 /\ Plain(f[3]) /\ Plain(f[4])
        \/ Len(f) = 5 /\ f[3] = LineFeed /\ Plain(f[4]) /\ Plain(f[5])
        \/ Len(f) = 6 /\ f[3] = Return /\ f[4] = LineFeed /\ Plain(f[5]) /\ Plain(f[6])
    <2>1. CASE k = "comment" \/ k \notin {"comment", "multi", "separated"}
      BY <2>1 DEF Shape
    <2>2. CASE k = "separated"
      <3>1. Len(f) = 4 /\ f[3] = Separator /\ f[4] = <<"rest", i>>
        BY <2>2 DEF Shape
      <3> QED
        BY <1>2, <1>3, <3>1
    <2>3. CASE k = "multi" /\ s = "LF"
      <3>1. Len(f) = 5 /\ f[3] = LineFeed /\ f[4] = DataField /\ f[5] = <<"rest", i>>
        BY <2>3 DEF Shape
      <3> QED
        BY <1>2, <1>3, <3>1
    <2>4. CASE k = "multi" /\ s = "CRLF"
      <3>1. /\ Len(f) = 6
            /\ f[3] = Return /\ f[4] = LineFeed /\ f[5] = DataField /\ f[6] = <<"rest", i>>
        BY <2>4 DEF Shape
      <3> QED
        BY <1>2, <1>3, <3>1
    <2> QED
      BY <2>1, <2>2, <2>3, <2>4 DEF Styles
  <1>6. Len(f) = 2 \/ Len(f) = 4 \/ Len(f) = 5 \/ Len(f) = 6
    BY <1>5
  <1>7. Plain(f[Len(f)]) /\ Len(f) >= 1
    BY <1>4, <1>5
  <1>8. PICK n \in Nat : n = Len(f)
    BY <1>1
  <1>9. n = 2 \/ n = 4 \/ n = 5 \/ n = 6
    BY <1>8, <1>6
  <1>10. ASSUME NEW q \in 1..(n - 1), f[q] = LineFeed PROVE Plain(f[q + 1])
    <2>1. q # 1 /\ q # 2
      BY <1>3, <1>4, <1>10
    <2>2. q \in 3..(n - 1)
      BY <2>1
    <2>3. n # 4
      <3> SUFFICES ASSUME n = 4 PROVE FALSE
        OBVIOUS
      <3>1. q = 3 /\ Plain(f[3])
        BY <1>5, <1>8, <2>2
      <3> QED
        BY <1>3, <1>10, <3>1
    <2>4. CASE n = 5
      <3>1. (q = 3 \/ q = 4) /\ Plain(f[4])
        BY <1>5, <1>8, <2>2, <2>4
      <3>2. q + 1 = 4
        BY <1>3, <1>10, <3>1
      <3> QED
        BY <3>1, <3>2
    <2>5. CASE n = 6
      <3>1. (q = 3 \/ q = 4 \/ q = 5) /\ f[3] = Return /\ Plain(f[5])
        BY <1>5, <1>8, <2>2, <2>5
      <3>2. q + 1 = 5
        BY <1>3, <1>10, <3>1, MarksDiffer
      <3> QED
        BY <3>1, <3>2
    <2> QED
      BY <1>9, <2>2, <2>3, <2>4, <2>5
  <1>11. ASSUME NEW q \in 1..n, f[q] = Return PROVE q + 2 <= n /\ Plain(f[q + 2])
    <2>1. q # 1 /\ q # 2
      BY <1>3, <1>4, <1>11
    <2>2. q \in 3..n
      BY <2>1
    <2>3. n # 4
      <3> SUFFICES ASSUME n = 4 PROVE FALSE
        OBVIOUS
      <3>1. (q = 3 \/ q = 4) /\ Plain(f[3]) /\ Plain(f[4])
        BY <1>5, <1>8, <2>2
      <3> QED
        BY <1>3, <1>11, <3>1
    <2>4. n # 5
      <3> SUFFICES ASSUME n = 5 PROVE FALSE
        OBVIOUS
      <3>1. (q = 3 \/ q = 4 \/ q = 5) /\ f[3] = LineFeed /\ Plain(f[4]) /\ Plain(f[5])
        BY <1>5, <1>8, <2>2
      <3> QED
        BY <1>3, <1>11, <3>1, MarksDiffer
    <2>5. CASE n = 6
      <3>1. /\ q = 3 \/ q = 4 \/ q = 5 \/ q = 6
            /\ f[4] = LineFeed /\ Plain(f[5]) /\ Plain(f[6])
        BY <1>5, <1>8, <2>2, <2>5
      <3>2. q = 3
        BY <1>3, <1>11, <3>1, MarksDiffer
      <3> QED
        BY <2>5, <3>1, <3>2
    <2> QED
      BY <1>9, <2>2, <2>3, <2>4, <2>5
  <1> QED
    BY <1>1, <1>7, <1>8, <1>10, <1>11 DEF Solid, Plain

(* The lines of an event, read back. *)

LEMMA OneAndOne ==
    ASSUME NEW a \in Symbols, NEW b \in Symbols
    PROVE  <<a>> \o <<b>> = <<a, b>>
  <1>1. PICK u : u = <<a>>
    OBVIOUS
  <1>2. PICK v : v = <<b>>
    OBVIOUS
  <1>3. PICK c : c = u \o v
    OBVIOUS
  <1>4. u \in Seq(Symbols)
    BY <1>1
  <1>5. v \in Seq(Symbols)
    BY <1>2
  <1>6. Len(u) = 1 /\ u[1] = a /\ Len(v) = 1 /\ v[1] = b
    BY <1>1, <1>2
  <1>7. /\ c \in Seq(Symbols)
        /\ Len(c) = Len(u) + Len(v)
        /\ \A q \in 1..Len(u) : c[q] = u[q]
        /\ \A q \in 1..Len(v) : c[Len(u) + q] = v[q]
    BY <1>3, <1>4, <1>5, Join
  <1>8. c \in Seq(Symbols)
    BY <1>7
  <1>9. Len(c) = 2 /\ c[1] = a /\ c[2] = b
    BY <1>6, <1>7
  <1>10. c = <<c[1], c[2]>>
    BY <1>8, <1>9
  <1> QED
    BY <1>1, <1>2, <1>3, <1>9, <1>10

LEMMA OneAndTwo ==
    ASSUME NEW a \in Symbols, NEW b \in Symbols, NEW d \in Symbols
    PROVE  <<a>> \o <<b, d>> = <<a, b, d>>
  <1>1. PICK u : u = <<a>>
    OBVIOUS
  <1>2. PICK v : v = <<b, d>>
    OBVIOUS
  <1>3. PICK c : c = u \o v
    OBVIOUS
  <1>4. u \in Seq(Symbols)
    BY <1>1
  <1>5. v \in Seq(Symbols)
    BY <1>2
  <1>6. Len(u) = 1 /\ u[1] = a /\ Len(v) = 2 /\ v[1] = b /\ v[2] = d
    BY <1>1, <1>2
  <1>7. /\ c \in Seq(Symbols)
        /\ Len(c) = Len(u) + Len(v)
        /\ \A q \in 1..Len(u) : c[q] = u[q]
        /\ \A q \in 1..Len(v) : c[Len(u) + q] = v[q]
    BY <1>3, <1>4, <1>5, Join
  <1>8. c \in Seq(Symbols)
    BY <1>7
  <1>9. Len(c) = 3 /\ c[1] = a /\ c[2] = b /\ c[3] = d
    BY <1>6, <1>7
  <1>10. c = <<c[1], c[2], c[3]>>
    BY <1>8, <1>9
  <1> QED
    BY <1>1, <1>2, <1>3, <1>9, <1>10

(* A line of two symbols, at j. *)
ShortLine(f, j) ==
    /\ f \in Seq(Symbols)
    /\ j \in Nat /\ j >= 1 /\ j + 1 <= Len(f)
    /\ f[j] \notin LineBreaks /\ f[j + 1] \notin LineBreaks
    /\ j + 1 = Len(f) \/ (j + 2 <= Len(f) /\ f[j + 2] \in LineBreaks)

LEMMA ShortLineIs ==
    ASSUME NEW f, NEW j, ShortLine(f, j)
    PROVE  Tail(Line(f, j)) = <<f[j + 1]>>
  <1> DEFINE ends == {e \in j..Len(f) : f[e] \in LineBreaks}
  <1>1. /\ f \in Seq(Symbols) /\ Len(f) \in Nat /\ j \in Nat /\ j >= 1 /\ j + 1 <= Len(f)
        /\ j \in 1..Len(f) /\ j + 1 \in 1..Len(f)
    BY DEF ShortLine
  <1>2. \A e \in ends : e >= j + 2
    <2> SUFFICES ASSUME NEW e \in ends, ~(e >= j + 2) PROVE FALSE
      BY <1>1
    <2>1. e = j \/ e = j + 1
      BY <1>1
    <2> QED
      BY <2>1 DEF ShortLine
  <1>3. (IF ends = {} THEN Len(f) ELSE Min(ends) - 1) = j + 1
    <2>1. CASE j + 1 = Len(f)
      <3>1. ends = {}
        BY <1>1, <1>2, <2>1
      <3> QED
        BY <2>1, <3>1
    <2>2. CASE j + 2 <= Len(f) /\ f[j + 2] \in LineBreaks
      <3>1. j + 2 \in ends
        BY <1>1, <2>2
      <3>2. ends \subseteq Nat
        BY <1>1
      <3> HIDE DEF ends
      <3>3. PICK least : least = Min(ends)
        OBVIOUS
      <3>4. least \in ends /\ \A e \in ends : least <= e
        <4>1. \E x \in ends : \A e \in ends : x <= e
          BY <1>2, <3>1
        <4> QED
          BY <3>3, <4>1 DEF Min
      <3>5. least = j + 2
        BY <1>1, <1>2, <3>1, <3>2, <3>4
      <3>6. (j + 2) - 1 = j + 1
        BY <1>1
      <3> QED
        BY <3>1, <3>3, <3>5, <3>6
    <2> QED
      BY <2>1, <2>2 DEF ShortLine
  <1>4. PICK t : t = SubSeq(f, j, j + 1)
    OBVIOUS
  <1>5. Line(f, j) = t
    BY <1>3, <1>4 DEF Line
  <1>6. t \in Seq(Symbols) /\ Len(t) = 2 /\ t[2] = f[j + 1]
    <2>1. PICK l \in Int : l = j + 1
      BY <1>1
    <2>2. j \in Int /\ j <= l /\ l - j + 1 = 2 /\ j + 2 - 1 = j + 1
      BY <1>1, <2>1
    <2>3. \A e \in j..l : f[e] \in Symbols
      BY <1>1, <2>1
    <2>4. /\ SubSeq(f, j, l) \in Seq(Symbols)
          /\ Len(SubSeq(f, j, l)) = IF j <= l THEN l - j + 1 ELSE 0
          /\ \A e \in 1..(l - j + 1) : SubSeq(f, j, l)[e] = f[j + e - 1]
      BY <2>2, <2>3, SubSeqProperties
    <2>5. t = SubSeq(f, j, l)
      BY <1>4, <2>1
    <2> QED
      BY <2>2, <2>4, <2>5
  <1>7. PICK u : u = Tail(t)
    OBVIOUS
  <1>8. u \in Seq(Symbols) /\ Len(u) = 1 /\ u[1] = t[2]
    <2>1. t # <<>>
      BY <1>6
    <2>2. Len(u) = Len(t) - 1 /\ \A e \in 1..Len(u) : u[e] = t[e + 1]
      BY <1>6, <1>7, <2>1, HeadTailProperties
    <2>3. u \in Seq(Symbols)
      BY <1>6, <1>7, <2>1, HeadTailProperties
    <2> QED
      BY <1>6, <2>2, <2>3
  <1>9. u = <<u[1]>>
    BY <1>8
  <1> QED
    BY <1>5, <1>6, <1>7, <1>8, <1>9

LEMMA FirstData ==
    ASSUME NEW f, NEW j, ShortLine(f, j), j \in DataLines(f), \A e \in DataLines(f) : ~(e < j)
    PROVE  Data(f, j) = <<f[j + 1]>>
  <1>1. Data(f, j) = <<>> \o <<f[j + 1]>>
    BY ShortLineIs DEF Data
  <1>2. f[j + 1] \in Symbols
    BY DEF ShortLine
  <1>3. <<f[j + 1]>> \in Seq(Symbols)
    BY <1>2
  <1> QED
    BY <1>1, <1>3, ConcatEmptySeq

LEMMA LaterData ==
    ASSUME NEW f, NEW j, ShortLine(f, j), j \in DataLines(f), \E e \in DataLines(f) : e < j
    PROVE  Data(f, j) = <<LineFeed, f[j + 1]>>
  <1>1. Data(f, j) = <<LineFeed>> \o <<f[j + 1]>>
    BY ShortLineIs DEF Data
  <1>2. f[j + 1] \in Symbols /\ LineFeed \in Symbols
    BY DEF ShortLine, Symbols, Marks
  <1> QED
    BY <1>1, <1>2, OneAndOne

(* The item of a frame, from its data lines. *)
LEMMA ItemIsFlat ==
    ASSUME NEW f \in Seq(Symbols), \A j \in 1..Len(f) : Data(f, j) \in Seq(Symbols)
    PROVE  \E d \in Seq(Seq(Symbols)) :
               /\ Len(d) = Len(f)
               /\ \A j \in 1..Len(f) : d[j] = Data(f, j)
               /\ Item(f) = FlattenSeq(d)
  <1>1. Len(f) \in Nat /\ DOMAIN f = 1..Len(f)
    OBVIOUS
  <1>2. PICK d : d = [j \in 1..Len(f) |-> Data(f, j)]
    OBVIOUS
  <1>3. d \in Seq(Seq(Symbols)) /\ Len(d) = Len(f) /\ \A j \in 1..Len(f) : d[j] = Data(f, j)
    <2>1. d \in [1..Len(f) -> Seq(Symbols)]
      BY <1>2
    <2>2. \A j \in 1..Len(f) : d[j] = Data(f, j)
      BY <1>2
    <2>3. d \in Seq(Seq(Symbols))
      BY <1>1, <2>1
    <2>4. Len(d) = Len(f)
      BY <1>1, <2>1, <2>3
    <2> QED
      BY <2>2, <2>3, <2>4
  <1>4. Item(f) = FlattenSeq(d)
    BY <1>1, <1>2 DEF Item
  <1> QED
    BY <1>3, <1>4

LEMMA NoData ==
    ASSUME NEW f, NEW j, j \notin DataLines(f)
    PROVE  Data(f, j) = <<>> /\ Data(f, j) \in Seq(Symbols)
  BY DEF Data

LEMMA ItemNone ==
    ASSUME NEW f \in Seq(Symbols), DataLines(f) = {}
    PROVE  Item(f) = <<>>
  <1>1. \A j \in 1..Len(f) : Data(f, j) = <<>> /\ Data(f, j) \in Seq(Symbols)
    BY NoData
  <1>2. PICK d \in Seq(Seq(Symbols)) :
               /\ Len(d) = Len(f)
               /\ \A j \in 1..Len(f) : d[j] = Data(f, j)
               /\ Item(f) = FlattenSeq(d)
    BY <1>1, ItemIsFlat
  <1>3. \A j \in 1..Len(d) : d[j] = <<>>
    BY <1>1, <1>2
  <1> QED
    BY <1>2, <1>3, FlattenNoPart

LEMMA ItemOne ==
    ASSUME NEW f, NEW j, ShortLine(f, j), DataLines(f) = {j}
    PROVE  Item(f) = <<f[j + 1]>>
  <1>1. /\ f \in Seq(Symbols) /\ j \in 1..Len(f) /\ j \in Nat
        /\ j + 1 \in 1..Len(f)
    BY DEF ShortLine
  <1>2. Data(f, j) = <<f[j + 1]>>
    BY <1>1, FirstData
  <1>3. <<f[j + 1]>> \in Seq(Symbols)
    <2>1. f[j + 1] \in Symbols
      BY <1>1
    <2> QED
      BY <2>1
  <1>4. \A l \in 1..Len(f) : Data(f, l) \in Seq(Symbols) /\ (l # j => Data(f, l) = <<>>)
    BY <1>2, <1>3, NoData
  <1>5. PICK d \in Seq(Seq(Symbols)) :
               /\ Len(d) = Len(f)
               /\ \A l \in 1..Len(f) : d[l] = Data(f, l)
               /\ Item(f) = FlattenSeq(d)
    BY <1>1, <1>4, ItemIsFlat
  <1>6. \A l \in 1..Len(d) : l # j => d[l] = <<>>
    BY <1>4, <1>5
  <1>7. j \in 1..Len(d) /\ d[j] = <<f[j + 1]>>
    BY <1>1, <1>2, <1>5
  <1>8. FlattenSeq(d) = d[j]
    BY <1>6, <1>7, FlattenOnePart
  <1> QED
    BY <1>5, <1>7, <1>8

LEMMA ItemTwo ==
    ASSUME NEW f, NEW j, NEW m, ShortLine(f, j), ShortLine(f, m), j < m, DataLines(f) = {j, m}
    PROVE  Item(f) = <<f[j + 1], LineFeed, f[m + 1]>>
  <1>1. /\ f \in Seq(Symbols) /\ j \in 1..Len(f) /\ j \in Nat /\ m \in 1..Len(f) /\ m \in Nat
        /\ j + 1 \in 1..Len(f) /\ m + 1 \in 1..Len(f) /\ ~(m < j) /\ ~(j < j) /\ j # m
    BY DEF ShortLine
  <1>2. Data(f, j) = <<f[j + 1]>>
    BY <1>1, FirstData
  <1>3. Data(f, m) = <<LineFeed, f[m + 1]>>
    BY <1>1, LaterData
  <1>4. f[j + 1] \in Symbols /\ f[m + 1] \in Symbols /\ LineFeed \in Symbols
    BY <1>1 DEF Symbols, Marks
  <1>5. <<f[j + 1]>> \in Seq(Symbols) /\ <<LineFeed, f[m + 1]>> \in Seq(Symbols)
    BY <1>4
  <1>6. \A l \in 1..Len(f) : Data(f, l) \in Seq(Symbols) /\ (l # j /\ l # m => Data(f, l) = <<>>)
    BY <1>2, <1>3, <1>5, NoData
  <1>7. PICK d \in Seq(Seq(Symbols)) :
               /\ Len(d) = Len(f)
               /\ \A l \in 1..Len(f) : d[l] = Data(f, l)
               /\ Item(f) = FlattenSeq(d)
    BY <1>1, <1>6, ItemIsFlat
  <1>8. \A l \in 1..Len(d) : l # j /\ l # m => d[l] = <<>>
    BY <1>6, <1>7
  <1>9. j \in 1..Len(d) /\ m \in 1..Len(d)
    BY <1>1, <1>7
  <1>10. d[j] = <<f[j + 1]>> /\ d[m] = <<LineFeed, f[m + 1]>>
    BY <1>1, <1>2, <1>3, <1>7
  <1>11. FlattenSeq(d) = d[j] \o d[m]
    BY <1>8, <1>9, FlattenTwoParts
  <1>12. <<f[j + 1]>> \o <<LineFeed, f[m + 1]>> = <<f[j + 1], LineFeed, f[m + 1]>>
    BY <1>4, OneAndTwo
  <1> QED
    BY <1>7, <1>10, <1>11, <1>12

LEMMA BreaksAre ==
    ASSUME NEW k \in AnyKind, NEW i \in Nat
    PROVE  /\ LineFeed \in LineBreaks /\ Return \in LineBreaks /\ Separator \in LineBreaks
           /\ <<k, i>> \notin LineBreaks /\ <<"rest", i>> \notin LineBreaks
           /\ DataField \notin LineBreaks /\ Colon \notin LineBreaks
           /\ <<k, i>> # DataField /\ <<"rest", i>> # DataField
  BY TextsDiffer, MarksDiffer DEF LineBreaks, Marks

LEMMA DataLinesAre ==
    ASSUME NEW f \in Seq(Symbols), NEW j
    PROVE  j \in DataLines(f) <=> /\ j \in 1..Len(f) /\ f[j] = DataField
                                  /\ j > 1 => f[j - 1] \in LineBreaks
  BY MarksDiffer DEF DataLines, LineStarts, LineBreaks

LEMMA ItemOfComment ==
    ASSUME NEW i \in Nat, NEW s \in Styles, NEW f, Shape("comment", i, s, f)
    PROVE  Item(f) = <<>>
  <1>1. f \in Seq(Symbols) /\ Len(f) = 2 /\ f[1] = Colon /\ f[2] = <<"comment", i>>
    BY DEF Shape
  <1>2. <<"comment", i>> # DataField /\ Colon # DataField
    BY BreaksAre, MarksDiffer DEF AnyKind
  <1>3. ASSUME NEW j \in DataLines(f) PROVE FALSE
    <2>1. j \in 1..Len(f) /\ f[j] = DataField
      BY <1>1, DataLinesAre
    <2>2. j = 1 \/ j = 2
      BY <1>1, <2>1
    <2> QED
      BY <1>1, <1>2, <2>1, <2>2
  <1>4. DataLines(f) = {}
    BY <1>3
  <1> QED
    BY <1>1, <1>4, ItemNone

LEMMA ItemOfMulti ==
    ASSUME NEW i \in Nat, NEW s \in Styles, NEW f, Shape("multi", i, s, f)
    PROVE  Item(f) = <<<<"multi", i>>, LineFeed, <<"rest", i>>>>
  <1>1. f \in Seq(Symbols) /\ f[1] = DataField /\ f[2] = <<"multi", i>>
    BY DEF Shape
  <1>2. /\ LineFeed \in LineBreaks /\ Return \in LineBreaks
        /\ <<"multi", i>> \notin LineBreaks /\ <<"rest", i>> \notin LineBreaks
        /\ DataField \notin LineBreaks
        /\ <<"multi", i>> # DataField /\ <<"rest", i>> # DataField
        /\ LineFeed # DataField /\ Return # DataField
    BY BreaksAre, MarksDiffer DEF AnyKind
  <1>3. CASE s = "LF"
    <2>1. Len(f) = 5 /\ f[3] = LineFeed /\ f[4] = DataField /\ f[5] = <<"rest", i>>
      BY <1>3 DEF Shape
    <2>2. ShortLine(f, 1)
      BY <1>1, <1>2, <2>1, SMTT(30) DEF ShortLine
    <2>3. ShortLine(f, 4)
      BY <1>1, <1>2, <2>1, SMTT(30) DEF ShortLine
    <2>4. DataLines(f) = {1, 4}
      <3>1. 1 \in DataLines(f)
        BY <1>1, <2>1, DataLinesAre
      <3>2. 4 \in DataLines(f)
        <4>1. 4 \in 1..Len(f) /\ 4 - 1 = 3
          BY <2>1
        <4>2. f[4] = DataField /\ f[3] \in LineBreaks
          BY <1>2, <2>1
        <4> QED
          BY <1>1, <4>1, <4>2, DataLinesAre
      <3>3. ASSUME NEW j \in DataLines(f) PROVE j = 1 \/ j = 4
        <4>1. j \in 1..5 /\ f[j] = DataField
          BY <1>1, <2>1, DataLinesAre
        <4>2. j = 1 \/ j = 2 \/ j = 3 \/ j = 4 \/ j = 5
          BY <4>1
        <4> QED
          BY <1>1, <1>2, <2>1, <4>1, <4>2
      <3> QED
        BY <3>1, <3>3, <3>2
    <2>5. Item(f) = <<f[2], LineFeed, f[5]>>
      <3>1. PICK j : j = 1
        OBVIOUS
      <3>2. PICK m : m = 4
        OBVIOUS
      <3>3. ShortLine(f, j) /\ ShortLine(f, m) /\ j < m /\ DataLines(f) = {j, m}
        BY <2>2, <2>3, <2>4, <3>1, <3>2
      <3>4. Item(f) = <<f[j + 1], LineFeed, f[m + 1]>>
        BY <3>3, ItemTwo
      <3>5. j + 1 = 2 /\ m + 1 = 5
        BY <3>1, <3>2
      <3> QED
        BY <3>4, <3>5
    <2> QED
      BY <1>1, <2>1, <2>5
  <1>4. CASE s = "CRLF"
    <2>1. /\ Len(f) = 6 /\ f[3] = Return /\ f[4] = LineFeed
          /\ f[5] = DataField /\ f[6] = <<"rest", i>>
      BY <1>4 DEF Shape
    <2>2. ShortLine(f, 1)
      BY <1>1, <1>2, <2>1 DEF ShortLine
    <2>3. ShortLine(f, 5)
      BY <1>1, <1>2, <2>1, SMTT(30) DEF ShortLine
    <2>4. DataLines(f) = {1, 5}
      <3>1. 1 \in DataLines(f)
        BY <1>1, <2>1, DataLinesAre
      <3>2. 5 \in DataLines(f)
        <4>1. 5 \in 1..Len(f) /\ 5 - 1 = 4
          BY <2>1
        <4>2. f[5] = DataField /\ f[4] \in LineBreaks
          BY <1>2, <2>1
        <4> QED
          BY <1>1, <4>1, <4>2, DataLinesAre
      <3>3. ASSUME NEW j \in DataLines(f) PROVE j = 1 \/ j = 5
        <4>1. j \in 1..6 /\ f[j] = DataField
          BY <1>1, <2>1, DataLinesAre
        <4>2. j = 1 \/ j = 2 \/ j = 3 \/ j = 4 \/ j = 5 \/ j = 6
          BY <4>1
        <4> QED
          BY <1>1, <1>2, <2>1, <4>1, <4>2
      <3> QED
        BY <3>1, <3>3, <3>2
    <2>5. Item(f) = <<f[2], LineFeed, f[6]>>
      <3>1. PICK j : j = 1
        OBVIOUS
      <3>2. PICK m : m = 5
        OBVIOUS
      <3>3. ShortLine(f, j) /\ ShortLine(f, m) /\ j < m /\ DataLines(f) = {j, m}
        BY <2>2, <2>3, <2>4, <3>1, <3>2
      <3>4. Item(f) = <<f[j + 1], LineFeed, f[m + 1]>>
        BY <3>3, ItemTwo
      <3>5. j + 1 = 2 /\ m + 1 = 6
        BY <3>1, <3>2
      <3> QED
        BY <3>4, <3>5
    <2> QED
      BY <1>1, <2>1, <2>5
  <1> QED
    BY <1>3, <1>4 DEF Styles

LEMMA ItemOfOthers ==
    ASSUME NEW k \in AnyKind \ {"comment", "multi"}, NEW i \in Nat, NEW s \in Styles,
           NEW f, Shape(k, i, s, f)
    PROVE  Item(f) = <<<<k, i>>>>
  <1>1. f \in Seq(Symbols) /\ f[1] = DataField /\ f[2] = <<k, i>>
    BY DEF Shape
  <1>2. /\ Separator \in LineBreaks
        /\ <<k, i>> \notin LineBreaks /\ DataField \notin LineBreaks
        /\ <<k, i>> # DataField /\ <<"rest", i>> # DataField /\ Separator # DataField
    BY BreaksAre, MarksDiffer
  <1>3. Len(f) = 2 \/ (Len(f) = 4 /\ f[3] = Separator /\ f[4] = <<"rest", i>>)
    BY DEF Shape
  <1>4. ShortLine(f, 1)
    BY <1>1, <1>2, <1>3 DEF ShortLine
  <1>5. DataLines(f) = {1}
    <2>1. 1 \in DataLines(f)
      BY <1>1, <1>3, DataLinesAre
    <2>2. ASSUME NEW j \in DataLines(f) PROVE j = 1
      <3>1. j \in 1..Len(f) /\ f[j] = DataField
        BY <1>1, DataLinesAre
      <3>2. j = 1 \/ j = 2 \/ (Len(f) = 4 /\ (j = 3 \/ j = 4))
        <4>1. CASE Len(f) = 2
          BY <3>1, <4>1
        <4>2. CASE Len(f) = 4
          BY <3>1, <4>2
        <4> QED
          BY <1>3, <4>1, <4>2
      <3> QED
        BY <1>1, <1>2, <1>3, <3>1, <3>2
    <2> QED
      BY <2>1, <2>2
  <1>6. Item(f) = <<f[1 + 1]>>
    BY <1>4, <1>5, ItemOne
  <1> QED
    BY <1>1, <1>6

(* What stream_chat() makes of the frame of event i, of kind k: its item is *)
(* empty if it is a comment, begins with the event otherwise, and is JSON   *)
(* unless a line was cut at a separator.                                    *)
LEMMA ItemOfEvent ==
    ASSUME NEW k \in AnyKind, NEW i \in Nat, NEW s \in Styles, NEW f, Shape(k, i, s, f)
    PROVE  /\ k = "comment" => Item(f) = <<>>
           /\ k # "comment" => /\ Item(f) # <<>>
                               /\ Item(f)[1] = <<k, i>>
                               /\ IsJson(Item(f)) <=> k \notin {"garbage", "separated"}
  <1>1. CASE k = "comment"
    BY <1>1, ItemOfComment
  <1>2. CASE k = "multi"
    <2>1. PICK t : t = <<<<k, i>>, LineFeed, <<"rest", i>>>>
      OBVIOUS
    <2>2. Item(f) = t /\ t # <<>> /\ t[1] = <<k, i>>
      BY <1>2, <2>1, ItemOfMulti
    <2>3. t = Payload(k, i)
      BY <1>2, <2>1 DEF Payload
    <2>4. t[1][1] = k /\ t[1][2] = i
      BY <2>2
    <2>5. IsJson(t)
      BY <1>2, <2>3, <2>4 DEF IsJson
    <2> QED
      BY <1>2, <2>2, <2>5
  <1>3. CASE k # "comment" /\ k # "multi"
    <2>1. PICK t : t = <<<<k, i>>>>
      OBVIOUS
    <2>2. Item(f) = t
      BY <1>3, <2>1, ItemOfOthers
    <2>3. t # <<>> /\ t[1] = <<k, i>> /\ Len(t) = 1
      BY <2>1
    <2>4. t[1][1] = k /\ t[1][2] = i
      BY <2>3
    <2>5. t = Payload(k, i) <=> k # "separated"
      <3>1. CASE k = "separated"
        <4>1. PICK u : u = <<<<k, i>>, Separator, <<"rest", i>>>>
          OBVIOUS
        <4>2. Len(u) = 3 /\ u = Payload(k, i)
          BY <3>1, <4>1 DEF Payload
        <4> QED
          BY <2>3, <3>1, <4>2
      <3>2. CASE k # "separated"
        BY <1>3, <2>1, <3>2 DEF Payload
      <3> QED
        BY <3>1, <3>2
    <2>6. IsJson(t) <=> k \notin {"garbage", "separated"}
      BY <2>4, <2>5 DEF IsJson
    <2> QED
      BY <1>3, <2>2, <2>3, <2>6
  <1> QED
    BY <1>1, <1>2, <1>3

-----------------------------------------------------------------------------
(* What the events of an answer put on the wire, and what they say.         *)

LEMMA KindsAre == Kinds \subseteq AnyKind
  BY EventsAssumption DEF AnyKind

LEMMA EncodeType ==
    ASSUME NEW k \in AnyKind, NEW i \in Nat, NEW s \in Styles
    PROVE  /\ Encode(k, i, s) \in Seq(Symbols)
           /\ Marked(Body(k, i, s), s, Encode(k, i, s))
           /\ Solid(Body(k, i, s))
           /\ Len(Encode(k, i, s)) >= 1
           /\ Len(Encode(k, i, s)) >= Len(Mark(s))
  <1>1. Shape(k, i, s, Body(k, i, s)) /\ Encode(k, i, s) = Body(k, i, s) \o Mark(s)
    BY ShapeOfEvent
  <1>2. Solid(Body(k, i, s))
    BY <1>1, ShapeIsSolid
  <1>3. Body(k, i, s) \in Seq(Symbols)
    BY <1>2 DEF Solid
  <1>4. Marked(Body(k, i, s), s, Encode(k, i, s))
    BY <1>1, <1>3, MarkedIs
  <1>5. Encode(k, i, s) \in Seq(Symbols)
    BY <1>4 DEF Marked
  <1>6. Len(Encode(k, i, s)) = Len(Body(k, i, s)) + 2 \/ Len(Encode(k, i, s)) = Len(Body(k, i, s)) + 4
    BY <1>4 DEF Marked, Styles
  <1>7. Len(Encode(k, i, s)) >= 1
    BY <1>3, <1>6
  <1>8. Len(Encode(k, i, s)) >= Len(Mark(s))
    <2>1. /\ s = "LF" => Len(Mark(s)) = 2 /\ Len(Encode(k, i, s)) = Len(Body(k, i, s)) + 2
          /\ s = "CRLF" => Len(Mark(s)) = 4 /\ Len(Encode(k, i, s)) = Len(Body(k, i, s)) + 4
      BY <1>4, MarkIs DEF Marked
    <2>2. Len(Body(k, i, s)) \in Nat
      BY <1>3
    <2>3. PICK e : e = Len(Encode(k, i, s))
      OBVIOUS
    <2>4. PICK m : m = Len(Mark(s))
      OBVIOUS
    <2>5. e >= m
      BY <2>1, <2>2, <2>3, <2>4 DEF Styles
    <2> QED
      BY <2>3, <2>4, <2>5
  <1> QED
    BY <1>2, <1>4, <1>5, <1>7, <1>8

(* The events, encoded one by one. *)
Encoded(a, s, e) ==
    /\ e \in Seq(Seq(Symbols))
    /\ Len(e) = Len(a)
    /\ \A i \in 1..Len(a) : e[i] = Encode(a[i], i, s)

LEMMA EncodedExists ==
    ASSUME NEW a \in Seq(AnyKind), NEW s \in Styles
    PROVE  \E e : Encoded(a, s, e)
  <1>1. Len(a) \in Nat
    OBVIOUS
  <1>2. PICK e : e = [i \in 1..Len(a) |-> Encode(a[i], i, s)]
    OBVIOUS
  <1>3. \A i \in 1..Len(a) : e[i] = Encode(a[i], i, s)
    BY <1>2
  <1>4. \A i \in 1..Len(a) : Encode(a[i], i, s) \in Seq(Symbols)
    <2> SUFFICES ASSUME NEW i \in 1..Len(a) PROVE Encode(a[i], i, s) \in Seq(Symbols)
      OBVIOUS
    <2>1. a[i] \in AnyKind /\ i \in Nat
      BY <1>1
    <2> QED
      BY <2>1, EncodeType
  <1>5. e \in [1..Len(a) -> Seq(Symbols)]
    BY <1>2, <1>4
  <1>6. e \in Seq(Seq(Symbols)) /\ Len(e) = Len(a)
    BY <1>1, <1>5
  <1> QED
    BY <1>3, <1>6 DEF Encoded

LEMMA WireOfFirsts ==
    ASSUME NEW a \in Seq(AnyKind), NEW s \in Styles, NEW e, Encoded(a, s, e), NEW n \in 0..Len(a)
    PROVE  Wire(SubSeq(a, 1, n), s) = FlattenSeq(SubSeq(e, 1, n))
  <1>1. Len(a) \in Nat /\ n \in Nat /\ n <= Len(a) /\ Len(e) = Len(a) /\ n \in Int /\ 1 \in Int
    BY DEF Encoded
  <1>2. PICK b : b = SubSeq(a, 1, n)
    OBVIOUS
  <1>3. b \in Seq(AnyKind) /\ Len(b) = n /\ \A i \in 1..n : b[i] = a[i]
    <2>1. \A i \in 1..n : a[i] \in AnyKind
      BY <1>1
    <2> QED
      BY <1>1, <1>2, <2>1, SubSeqProperties
  <1>4. PICK d : d = SubSeq(e, 1, n)
    OBVIOUS
  <1>5. d \in Seq(Seq(Symbols)) /\ Len(d) = n /\ \A i \in 1..n : d[i] = e[i]
    <2>1. \A i \in 1..n : e[i] \in Seq(Symbols)
      BY <1>1 DEF Encoded
    <2> QED
      BY <1>1, <1>4, <2>1, SubSeqProperties
  <1>6. PICK f : f = [i \in 1..n |-> Encode(b[i], i, s)]
    OBVIOUS
  <1>7. \A i \in 1..n : f[i] = d[i]
    <2> SUFFICES ASSUME NEW i \in 1..n PROVE f[i] = d[i]
      OBVIOUS
    <2>1. f[i] = Encode(a[i], i, s)
      BY <1>3, <1>6
    <2>2. i \in 1..Len(a)
      BY <1>1
    <2> QED
      BY <1>5, <2>1, <2>2 DEF Encoded
  <1>8. f = d
    <2>1. d = [i \in 1..n |-> d[i]]
      BY <1>5
    <2>2. f = [i \in 1..n |-> f[i]]
      BY <1>6
    <2> QED
      BY <1>7, <2>1, <2>2
  <1>9. DOMAIN b = 1..n
    BY <1>3
  <1>10. Wire(b, s) = FlattenSeq(f)
    BY <1>6, <1>9 DEF Wire
  <1> QED
    BY <1>2, <1>4, <1>8, <1>10

(* The wire, event by event: nothing of no event, and one event more at the *)
(* end; a part of the events is a prefix, and a shorter one.                *)
LEMMA WireGrows ==
    ASSUME NEW a \in Seq(AnyKind), NEW s \in Styles
    PROVE  /\ Wire(SubSeq(a, 1, 0), s) = <<>>
           /\ Wire(SubSeq(a, 1, Len(a)), s) = Wire(a, s)
           /\ \A n \in 0..Len(a) : Wire(SubSeq(a, 1, n), s) \in Seq(Symbols)
           /\ \A n \in 0..(Len(a) - 1) :
                  Wire(SubSeq(a, 1, n + 1), s) = Wire(SubSeq(a, 1, n), s) \o Encode(a[n + 1], n + 1, s)
  <1>1. PICK e : Encoded(a, s, e)
    BY EncodedExists
  <1>2. e \in Seq(Seq(Symbols)) /\ Len(e) = Len(a) /\ Len(a) \in Nat
    BY <1>1 DEF Encoded
  <1>3. \A n \in 0..Len(a) : Wire(SubSeq(a, 1, n), s) = FlattenSeq(SubSeq(e, 1, n))
    BY <1>1, WireOfFirsts
  <1>4. Wire(SubSeq(a, 1, 0), s) = <<>>
    BY <1>2, <1>3, FlattenWhole
  <1>5. Wire(SubSeq(a, 1, Len(a)), s) = Wire(a, s)
    BY SubSeqFull
  <1>6. ASSUME NEW n \in 0..Len(a) PROVE Wire(SubSeq(a, 1, n), s) \in Seq(Symbols)
    BY <1>2, <1>3, FlattenType
  <1>7. ASSUME NEW n \in 0..(Len(a) - 1)
        PROVE  Wire(SubSeq(a, 1, n + 1), s) = Wire(SubSeq(a, 1, n), s) \o Encode(a[n + 1], n + 1, s)
    <2>1. n \in Nat /\ n + 1 <= Len(e) /\ n \in 0..Len(a) /\ n + 1 \in 0..Len(a) /\ n + 1 \in 1..Len(a)
      BY <1>2
    <2>2. FlattenSeq(SubSeq(e, 1, n + 1)) = FlattenSeq(SubSeq(e, 1, n)) \o e[n + 1]
      BY <1>2, <2>1, FlattenNext
    <2>3. e[n + 1] = Encode(a[n + 1], n + 1, s)
      BY <1>1, <2>1 DEF Encoded
    <2> QED
      BY <1>3, <2>1, <2>2, <2>3
  <1> QED
    BY <1>4, <1>5, <1>6, <1>7

LEMMA WireSplits ==
    ASSUME NEW a \in Seq(AnyKind), NEW s \in Styles, NEW m \in 0..Len(a), NEW n \in 0..Len(a), m <= n
    PROVE  Begins(Symbols, Wire(SubSeq(a, 1, n), s), Wire(SubSeq(a, 1, m), s))
  <1>1. PICK e : Encoded(a, s, e)
    BY EncodedExists
  <1>2. e \in Seq(Seq(Symbols)) /\ Len(e) = Len(a) /\ Len(a) \in Nat
    BY <1>1 DEF Encoded
  <1>3. /\ Wire(SubSeq(a, 1, m), s) = FlattenSeq(SubSeq(e, 1, m))
        /\ Wire(SubSeq(a, 1, n), s) = FlattenSeq(SubSeq(e, 1, n))
    BY <1>1, WireOfFirsts
  <1>4. e \in Seq(Seq(Symbols))
    BY <1>2
  <1>5. m \in Nat
    BY <1>2
  <1>6. n \in Nat
    BY <1>2
  <1>7. n <= Len(e)
    BY <1>2
  <1>8. Begins(Symbols, FlattenSeq(SubSeq(e, 1, n)), FlattenSeq(SubSeq(e, 1, m)))
    BY <1>4, <1>5, <1>6, <1>7, FlattenPrefix
  <1> QED
    BY <1>3, <1>8

AllFragments == {"thinking", "content"} \X Nat

LEMMA ExtractType ==
    ASSUME NEW k, NEW i \in Nat
    PROVE  ExtractFragment(k, i) \in Seq(AllFragments)
  <1>1. Thinking(i) \in AllFragments /\ Content(i) \in AllFragments
    BY DEF Thinking, Content, AllFragments
  <1>2. /\ <<>> \in Seq(AllFragments)
        /\ <<Thinking(i)>> \in Seq(AllFragments)
        /\ <<Content(i)>> \in Seq(AllFragments)
        /\ <<Thinking(i), Content(i)>> \in Seq(AllFragments)
    BY <1>1
  <1> QED
    BY <1>2 DEF ExtractFragment

(* What the events say, one by one. *)
LEMMA SaysExists ==
    ASSUME NEW N \in Nat
    PROVE  \E e \in Seq(Seq(AllFragments)) :
               /\ Len(e) = N
               /\ \A i \in 1..N : e[i] = SaidBy(i)
  <1>1. PICK e : e = [i \in 1..N |-> SaidBy(i)]
    OBVIOUS
  <1>2. \A i \in 1..N : SaidBy(i) \in Seq(AllFragments)
    BY ExtractType DEF SaidBy
  <1>3. e \in [1..N -> Seq(AllFragments)]
    BY <1>1, <1>2
  <1>4. \A i \in 1..N : e[i] = SaidBy(i)
    BY <1>1
  <1>5. e \in Seq(Seq(AllFragments))
    BY <1>3
  <1>6. Len(e) = N
    BY <1>3, <1>5
  <1> QED
    BY <1>4, <1>5, <1>6

LEMMA SaidOfFirsts ==
    ASSUME NEW N \in Nat, NEW e \in Seq(Seq(AllFragments)), Len(e) = N,
           \A i \in 1..N : e[i] = SaidBy(i), NEW n \in 0..N
    PROVE  Said(n) = FlattenSeq(SubSeq(e, 1, n))
  <1>1. n \in Nat /\ n <= N /\ n \in Int /\ 1 \in Int
    OBVIOUS
  <1>2. PICK d : d = SubSeq(e, 1, n)
    OBVIOUS
  <1>3. d \in Seq(Seq(AllFragments)) /\ Len(d) = n /\ \A i \in 1..n : d[i] = e[i]
    <2>1. \A i \in 1..n : e[i] \in Seq(AllFragments)
      BY <1>1
    <2> QED
      BY <1>1, <1>2, <2>1, SubSeqProperties
  <1>4. \A i \in 1..n : d[i] = SaidBy(i)
    BY <1>1, <1>3
  <1>5. d = [i \in 1..n |-> d[i]]
    BY <1>3
  <1>6. d = [i \in 1..n |-> SaidBy(i)]
    BY <1>4, <1>5
  <1> QED
    BY <1>2, <1>6 DEF Said

LEMMA SaidGrows ==
    ASSUME NEW N \in Nat
    PROVE  /\ Said(0) = <<>>
           /\ \A n \in 0..N : Said(n) \in Seq(AllFragments)
           /\ \A n \in 0..(N - 1) : Said(n + 1) = Said(n) \o SaidBy(n + 1)
           /\ \A n \in 0..N : Begins(AllFragments, Said(N), Said(n))
           /\ \A n \in 0..N : (\A d \in (n + 1)..N : SaidBy(d) = <<>>) => Said(N) = Said(n)
  <1>1. PICK e \in Seq(Seq(AllFragments)) :
               /\ Len(e) = N
               /\ \A i \in 1..N : e[i] = SaidBy(i)
    BY SaysExists
  <1>2. \A n \in 0..N : Said(n) = FlattenSeq(SubSeq(e, 1, n))
    BY <1>1, SaidOfFirsts
  <1>3. Said(0) = <<>>
    BY <1>2, FlattenWhole
  <1>4. \A n \in 0..N : Said(n) \in Seq(AllFragments)
    BY <1>1, <1>2, FlattenType
  <1>5. ASSUME NEW n \in 0..(N - 1) PROVE Said(n + 1) = Said(n) \o SaidBy(n + 1)
    <2>1. n \in Nat /\ n + 1 <= Len(e) /\ n \in 0..N /\ n + 1 \in 0..N /\ n + 1 \in 1..N
      BY <1>1
    <2>2. FlattenSeq(SubSeq(e, 1, n + 1)) = FlattenSeq(SubSeq(e, 1, n)) \o e[n + 1]
      BY <1>1, <2>1, FlattenNext
    <2> QED
      BY <1>1, <1>2, <2>1, <2>2
  <1>6. ASSUME NEW n \in 0..N PROVE Begins(AllFragments, Said(N), Said(n))
    <2>1. n \in Nat
      OBVIOUS
    <2>2. n <= N
      OBVIOUS
    <2>3. N <= Len(e)
      BY <1>1
    <2>4. Begins(AllFragments, FlattenSeq(SubSeq(e, 1, N)), FlattenSeq(SubSeq(e, 1, n)))
      BY <1>1, <2>1, <2>2, <2>3, FlattenPrefix
    <2>5. N \in 0..N
      OBVIOUS
    <2> QED
      BY <1>2, <2>4, <2>5
  <1>7. ASSUME NEW n \in 0..N, \A d \in (n + 1)..N : SaidBy(d) = <<>>
        PROVE  Said(N) = Said(n)
    <2>1. n \in Nat /\ n <= N /\ N <= Len(e) /\ N \in 0..N
      BY <1>1
    <2>2. \A d \in (n + 1)..N : e[d] = <<>>
      <3> SUFFICES ASSUME NEW d \in (n + 1)..N PROVE e[d] = <<>>
        OBVIOUS
      <3>1. d \in 1..N
        BY <2>1
      <3> QED
        BY <1>1, <1>7, <3>1
    <2>3. FlattenSeq(SubSeq(e, 1, N)) = FlattenSeq(SubSeq(e, 1, n))
      BY <1>1, <2>1, <2>2, FlattenSkips
    <2> QED
      BY <1>2, <2>1, <2>3
  <1> QED
    BY <1>3, <1>4, <1>5, <1>6, <1>7

-----------------------------------------------------------------------------
(* Prefixes and suffixes. *)

LEMMA CutIn ==
    ASSUME NEW S, NEW b \in Seq(S), NEW n \in 0..Len(b)
    PROVE  /\ SubSeq(b, 1, n) \in Seq(S)
           /\ Len(SubSeq(b, 1, n)) = n
           /\ SubSeq(b, n + 1, Len(b)) \in Seq(S)
           /\ Len(SubSeq(b, n + 1, Len(b))) = Len(b) - n
           /\ b = SubSeq(b, 1, n) \o SubSeq(b, n + 1, Len(b))
  <1>1. Len(b) \in Nat /\ n \in Nat /\ n <= Len(b)
    OBVIOUS
  <1>2. PICK l \in Int : l = n + 1
    BY <1>1
  <1>3. /\ SubSeq(b, 1, n) \in Seq(S)
        /\ Len(SubSeq(b, 1, n)) = n
    <2>1. \A i \in 1..n : b[i] \in S
      BY <1>1
    <2>2. n \in Int /\ 1 \in Int /\ n - 1 + 1 = n /\ (1 <= n \/ n = 0)
      BY <1>1
    <2> QED
      BY <1>1, <2>1, <2>2, SubSeqProperties
  <1>4. /\ SubSeq(b, l, Len(b)) \in Seq(S)
        /\ Len(SubSeq(b, l, Len(b))) = Len(b) - n
    <2>1. \A i \in l..Len(b) : b[i] \in S
      BY <1>1, <1>2
    <2>2. Len(b) \in Int
      BY <1>1
    <2>3. /\ SubSeq(b, l, Len(b)) \in Seq(S)
          /\ Len(SubSeq(b, l, Len(b))) = IF l <= Len(b) THEN Len(b) - l + 1 ELSE 0
      BY <2>1, <2>2, SubSeqProperties
    <2>4. (IF l <= Len(b) THEN Len(b) - l + 1 ELSE 0) = Len(b) - n
      BY <1>1, <1>2
    <2> QED
      BY <2>3, <2>4
  <1>5. SubSeq(b, 1, n) \o SubSeq(b, n + 1, Len(b)) = SubSeq(b, 1, Len(b))
    <2>1. 1 \in 1..(Len(b) + 1) /\ n \in (1 - 1)..Len(b) /\ Len(b) \in n..Len(b)
      BY <1>1
    <2> QED
      BY <2>1, ConcatAdjacentSubSeq
  <1>6. SubSeq(b, 1, Len(b)) = b
    BY SubSeqFull
  <1> QED
    BY <1>2, <1>3, <1>4, <1>5, <1>6

LEMMA FirstPart ==
    ASSUME NEW S, NEW x \in Seq(S), NEW y \in Seq(S)
    PROVE  SubSeq(x \o y, 1, Len(x)) = x
  <1>1. CASE Len(x) = 0
    <2>1. x = <<>>
      BY <1>1
    <2>2. SubSeq(x \o y, 1, 0) = <<>>
      BY SubSeqEmpty
    <2> QED
      BY <1>1, <2>1, <2>2
  <1>2. CASE Len(x) >= 1
    <2>1. 1 \in 1..Len(x) /\ Len(x) \in 1..Len(x)
      BY <1>2
    <2>2. SubSeq(x \o y, 1, Len(x)) = SubSeq(x, 1, Len(x))
      BY <2>1, SubSeqOfConcat1
    <2> QED
      BY <2>2, SubSeqFull
  <1>3. Len(x) \in Nat
    OBVIOUS
  <1> QED
    BY <1>1, <1>2, <1>3

LEMMA BeginsIsPrefix ==
    ASSUME NEW S, NEW x \in Seq(S), NEW y, Begins(S, y, x)
    PROVE  IsPrefix(x, y)
  <1>1. PICK rest \in Seq(S) : y = x \o rest
    BY DEF Begins
  <1>2. Len(y) = Len(x) + Len(rest) /\ Len(x) \in Nat /\ Len(rest) \in Nat
    BY <1>1, ConcatProperties
  <1>3. SubSeq(y, 1, Len(x)) = x
    BY <1>1, FirstPart
  <1>4. SubSeq(x, 1, Len(x)) = x
    BY SubSeqFull
  <1> QED
    BY <1>2, <1>3, <1>4 DEF IsPrefix

LEMMA EndIsSuffix ==
    ASSUME NEW S, NEW x \in Seq(S), NEW y \in Seq(S)
    PROVE  IsSuffix(x, y \o x)
  <1>1. PICK w : w = y \o x
    OBVIOUS
  <1>2. /\ w \in Seq(S) /\ Len(w) = Len(y) + Len(x) /\ Len(x) \in Nat /\ Len(y) \in Nat
        /\ \A i \in 1..(Len(y) + Len(x)) : w[i] = IF i <= Len(y) THEN y[i] ELSE x[i - Len(y)]
    BY <1>1, ConcatProperties
  <1>3. PICK rx : rx = Reverse(x)
    OBVIOUS
  <1>4. PICK rw : rw = Reverse(w)
    OBVIOUS
  <1>5. /\ rx \in Seq(S) /\ Len(rx) = Len(x)
        /\ \A i \in 1..Len(x) : rx[i] = x[(Len(x) - i) + 1]
    <2>1. \A i \in 1..Len(x) : (Len(x) - i) + 1 \in 1..Len(x)
      BY <1>2
    <2>2. rx = [i \in 1..Len(x) |-> x[(Len(x) - i) + 1]]
      BY <1>3 DEF Reverse
    <2>3. rx \in [1..Len(x) -> S]
      BY <2>1, <2>2
    <2>4. rx \in Seq(S) /\ Len(rx) = Len(x)
      BY <1>2, <2>3, SMTT(30)
    <2> QED
      BY <2>2, <2>4
  <1>6. /\ rw \in Seq(S) /\ Len(rw) = Len(w)
        /\ \A i \in 1..Len(w) : rw[i] = w[(Len(w) - i) + 1]
    <2>1. \A i \in 1..Len(w) : (Len(w) - i) + 1 \in 1..Len(w)
      BY <1>2
    <2>2. rw = [i \in 1..Len(w) |-> w[(Len(w) - i) + 1]]
      BY <1>4 DEF Reverse
    <2>3. rw \in [1..Len(w) -> S]
      BY <1>2, <2>1, <2>2
    <2>4. Len(w) \in Nat
      BY <1>2
    <2>5. rw \in Seq(S) /\ Len(rw) = Len(w)
      BY <2>3, <2>4
    <2> QED
      BY <2>2, <2>5
  <1>7. ASSUME NEW i \in 1..Len(x) PROVE rw[i] = rx[i]
    <2>1. /\ i \in 1..Len(w)
          /\ (Len(w) - i) + 1 \in 1..(Len(y) + Len(x))
          /\ ~((Len(w) - i) + 1 <= Len(y))
          /\ ((Len(w) - i) + 1) - Len(y) = (Len(x) - i) + 1
      BY <1>2
    <2>2. rw[i] = w[(Len(w) - i) + 1]
      BY <1>6, <2>1
    <2>3. w[(Len(w) - i) + 1] = x[((Len(w) - i) + 1) - Len(y)]
      BY <1>2, <2>1
    <2> QED
      BY <1>5, <2>1, <2>2, <2>3
  <1>8. PICK u : u = SubSeq(rw, 1, Len(x))
    OBVIOUS
  <1>9. u \in Seq(S) /\ Len(u) = Len(x) /\ \A i \in 1..Len(x) : u[i] = rw[i]
    <2>1. \A i \in 1..Len(x) : rw[i] \in S
      BY <1>2, <1>6
    <2>2. Len(x) \in Int /\ 1 \in Int /\ Len(x) - 1 + 1 = Len(x) /\ (1 <= Len(x) \/ Len(x) = 0)
          /\ \A i \in 1..Len(x) : 1 + i - 1 = i
      BY <1>2
    <2> QED
      BY <1>8, <2>1, <2>2, SubSeqProperties
  <1>10. u = rx
    <2>1. Len(u) = Len(rx) /\ \A i \in 1..Len(u) : u[i] = rx[i]
      BY <1>5, <1>7, <1>9
    <2>2. u \in Seq(S) /\ rx \in Seq(S)
      BY <1>5, <1>9
    <2> QED
      BY <2>1, <2>2, SeqEqual
  <1>11. SubSeq(rx, 1, Len(rx)) = rx
    BY <1>5, SubSeqFull
  <1>12. Len(rx) <= Len(rw)
    BY <1>2, <1>5, <1>6
  <1>13. IsPrefix(rx, rw)
    BY <1>5, <1>8, <1>10, <1>11, <1>12 DEF IsPrefix
  <1> QED
    BY <1>1, <1>3, <1>4, <1>13 DEF IsSuffix

LEMMA Associate ==
    ASSUME NEW x \in Seq(Symbols), NEW y \in Seq(Symbols), NEW z \in Seq(Symbols)
    PROVE  (x \o y) \o z = x \o (y \o z)
  BY ConcatAssociative

(* Concatenation under a name, which the provers do not expand.             *)
Cat(x, y) == x \o y

LEMMA CatAssociates ==
    \A S : \A x, y, z \in Seq(S) : Cat(Cat(x, y), z) = Cat(x, Cat(y, z))
  BY ConcatAssociative DEF Cat

(* What has been received and not been read, b, and what has not, r, follow *)
(* the first j events: then b begins with the next event, or is itself the  *)
(* beginning of it.                                                         *)
LEMMA NextEvent ==
    ASSUME NEW a \in Seq(AnyKind), NEW s \in Styles, NEW j \in Nat, j < Len(a),
           NEW b \in Seq(Symbols), NEW r \in Seq(Symbols),
           Wire(a, s) = Wire(SubSeq(a, 1, j), s) \o (b \o r)
    PROVE  Begins(Symbols, b \o r, Encode(a[j + 1], j + 1, s))
  <1>1. /\ Len(a) \in Nat /\ j \in 0..Len(a) /\ j + 1 \in 0..Len(a) /\ j \in 0..(Len(a) - 1)
        /\ Len(a) \in 0..Len(a) /\ j + 1 <= Len(a) /\ j + 1 \in 1..Len(a) /\ j + 1 \in Nat
    OBVIOUS
  <1>2. PICK w : w = Encode(a[j + 1], j + 1, s)
    OBVIOUS
  <1>3. w \in Seq(Symbols)
    <2>1. a[j + 1] \in AnyKind
      BY <1>1
    <2> QED
      BY <1>1, <1>2, <2>1, EncodeType
  <1>4. PICK p \in Seq(Symbols) : p = Wire(SubSeq(a, 1, j), s)
    BY <1>1, WireGrows
  <1>5. Wire(SubSeq(a, 1, j + 1), s) = p \o w
    BY <1>1, <1>2, <1>4, WireGrows
  <1>6. Wire(SubSeq(a, 1, Len(a)), s) = Wire(a, s)
    BY WireGrows
  <1>7. Begins(Symbols, Wire(a, s), p \o w)
    <2>1. Begins(Symbols, Wire(SubSeq(a, 1, Len(a)), s), Wire(SubSeq(a, 1, j + 1), s))
      BY <1>1, WireSplits
    <2> QED
      BY <1>5, <1>6, <2>1
  <1>8. PICK rest \in Seq(Symbols) : Wire(a, s) = (p \o w) \o rest
    BY <1>7 DEF Begins
  <1>9. (p \o w) \o rest = p \o (w \o rest)
    <2>1. p \in Seq(Symbols)
      OBVIOUS
    <2>2. rest \in Seq(Symbols)
      OBVIOUS
    <2> QED
      BY <1>3, <2>1, <2>2, Associate
  <1>10. p \o (b \o r) = p \o (w \o rest)
    BY <1>4, <1>8, <1>9
  <1>11. b \o r \in Seq(Symbols) /\ w \o rest \in Seq(Symbols)
    BY <1>3, ConcatProperties
  <1>12. b \o r = w \o rest
    BY <1>4, <1>10, <1>11, ConcatSimplifications
  <1> QED
    BY <1>2, <1>12 DEF Begins

LEMMA NoEvent ==
    ASSUME NEW a \in Seq(AnyKind), NEW s \in Styles,
           NEW b \in Seq(Symbols), NEW r \in Seq(Symbols),
           Wire(a, s) = Wire(SubSeq(a, 1, Len(a)), s) \o (b \o r)
    PROVE  b = <<>> /\ r = <<>> /\ ~HasFrame(b)
  <1>1. PICK p : p = Wire(a, s)
    OBVIOUS
  <1>2. p \in Seq(Symbols) /\ p = p \o (b \o r)
    <2>1. Len(a) \in 0..Len(a)
      OBVIOUS
    <2> QED
      BY <1>1, <2>1, WireGrows
  <1>3. b \o r \in Seq(Symbols)
    BY ConcatProperties
  <1>4. b \o r = <<>>
    BY <1>2, <1>3, ConcatEqualIffEmpty
  <1>5. b = <<>> /\ r = <<>>
    BY <1>4, ConcatEqualIffEmpty
  <1>6. Len(b) = 0
    BY <1>5
  <1>7. \A q : q \notin FrameEnds(b)
    <2> SUFFICES ASSUME NEW q, q \in FrameEnds(b) PROVE FALSE
      OBVIOUS
    <2>1. q \in 1..(Len(b) - 1) \/ q \in 1..(Len(b) - 3)
      BY FrameEndsAt
    <2> QED
      BY <1>6, <2>1
  <1> QED
    BY <1>5, <1>7 DEF HasFrame

(* After the first j events, b and r remain of the wire.                    *)
Remains(a, s, j, b, r) == Wire(a, s) = Wire(SubSeq(a, 1, j), s) \o (b \o r)

LEMMA HeadFrame ==
    ASSUME NEW a \in Seq(AnyKind), NEW s \in Styles, NEW j \in Nat, j < Len(a),
           NEW b \in Seq(Symbols), NEW r \in Seq(Symbols), Remains(a, s, j, b, r),
           NEW i, i = j + 1
    PROVE  /\ HasFrame(b) <=> Len(b) >= Len(Encode(a[i], i, s))
           /\ HasFrame(b) => /\ Frame(b) = Body(a[i], i, s)
                             /\ AfterFrame(b) \in Seq(Symbols)
                             /\ Remains(a, s, i, AfterFrame(b), r)
  <1>1. Wire(a, s) = Wire(SubSeq(a, 1, j), s) \o (b \o r)
    BY DEF Remains
  <1>2. /\ Len(a) \in Nat /\ j \in 0..Len(a) /\ j \in 0..(Len(a) - 1)
        /\ j + 1 \in 1..Len(a) /\ j + 1 \in Nat
    OBVIOUS
  <1>3. a[j + 1] \in AnyKind
    BY <1>2
  <1>4. PICK w : w = Encode(a[j + 1], j + 1, s)
    OBVIOUS
  <1>5. PICK e : e = Body(a[j + 1], j + 1, s)
    OBVIOUS
  <1>6. w \in Seq(Symbols)
    BY <1>2, <1>3, <1>4, EncodeType
  <1>7. Marked(e, s, w) /\ Solid(e)
    BY <1>2, <1>3, <1>4, <1>5, EncodeType
  <1>8. PICK rest \in Seq(Symbols) : b \o r = w \o rest
    BY <1>4, <1>1, NextEvent, ZenonT(30) DEF Begins
  <1>9. ASSUME NEW q \in 1..Len(b), q <= Len(w) PROVE b[q] = w[q]
    <2>1. Len(b) \in Nat /\ Len(w) \in Nat /\ q \in 1..Len(w)
      BY <1>6, <1>9
    <2>2. PICK c : c = b \o r
      OBVIOUS
    <2>3. c[q] = b[q]
      BY <2>2, Join
    <2>4. c[q] = w[q]
      BY <1>6, <1>8, <2>1, <2>2, Join
    <2> QED
      BY <2>3, <2>4
  <1>10. /\ HasFrame(b) <=> Len(b) >= Len(w)
         /\ HasFrame(b) => Frame(b) = e /\ AfterFrame(b) = SubSeq(b, Len(w) + 1, Len(b))
    BY <1>7, <1>9, FirstFrame
  <1>11. ASSUME HasFrame(b)
         PROVE  /\ AfterFrame(b) \in Seq(Symbols)
                /\ Wire(a, s) = Wire(SubSeq(a, 1, j + 1), s) \o (AfterFrame(b) \o r)
    <2>1. Len(w) \in 0..Len(b) /\ Len(b) \in Nat
      BY <1>6, <1>10, <1>11
    <2>2. PICK u : u = SubSeq(b, 1, Len(w))
      OBVIOUS
    <2>3. PICK t : t = AfterFrame(b)
      OBVIOUS
    <2>4. t = SubSeq(b, Len(w) + 1, Len(b))
      BY <1>10, <1>11, <2>3
    <2>5. /\ u \in Seq(Symbols) /\ Len(u) = Len(w)
          /\ t \in Seq(Symbols)
          /\ b = u \o t
      <3>1. PICK n \in 0..Len(b) : n = Len(w)
        BY <2>1
      <3>2. u = SubSeq(b, 1, n) /\ t = SubSeq(b, n + 1, Len(b))
        BY <2>2, <2>4, <3>1
      <3>3. /\ SubSeq(b, 1, n) \in Seq(Symbols)
            /\ Len(SubSeq(b, 1, n)) = n
            /\ SubSeq(b, n + 1, Len(b)) \in Seq(Symbols)
            /\ b = SubSeq(b, 1, n) \o SubSeq(b, n + 1, Len(b))
        BY <3>1, CutIn, ZenonT(30)
      <3> QED
        BY <3>1, <3>2, <3>3
    <2>6. u \in Seq(Symbols)
      BY <2>5
    <2>7. u = w
      <3>1. \A q \in 1..Len(u) : u[q] = b[q]
        <4>1. t \in Seq(Symbols)
          BY <2>5
        <4>2. b = u \o t
          BY <2>5
        <4> QED
          BY <2>6, <4>1, <4>2, Join
      <3>2. \A q \in 1..Len(u) : u[q] = w[q]
        <4> SUFFICES ASSUME NEW q \in 1..Len(u) PROVE u[q] = w[q]
          OBVIOUS
        <4>1. q \in 1..Len(b) /\ q <= Len(w)
          BY <2>1, <2>5
        <4> QED
          BY <1>9, <3>1, <4>1
      <3>3. u \in Seq(Symbols)
        BY <2>5
      <3> QED
        BY <1>6, <2>5, <3>2, <3>3, SeqEqual
    <2>8. PICK p \in Seq(Symbols) : p = Wire(SubSeq(a, 1, j), s)
      BY <1>2, WireGrows
    <2>9. Wire(SubSeq(a, 1, j + 1), s) = p \o w
      BY <1>2, <1>4, <2>8, WireGrows
    <2>10. t \in Seq(Symbols)
      BY <2>5
    <2>11. t \o r \in Seq(Symbols)
      BY <2>10, ConcatProperties
    <2>12. (w \o t) \o r = w \o (t \o r)
      <3>1. Cat(Cat(w, t), r) = Cat(w, Cat(t, r))
        BY <1>6, <2>10, CatAssociates
      <3> QED
        BY <3>1 DEF Cat
    <2>13. p \o (w \o (t \o r)) = (p \o w) \o (t \o r)
      <3>1. p \in Seq(Symbols)
        OBVIOUS
      <3> QED
        <4>1. Cat(t, r) \in Seq(Symbols)
          BY <2>11 DEF Cat
        <4>2. Cat(Cat(p, w), Cat(t, r)) = Cat(p, Cat(w, Cat(t, r)))
          BY <1>6, <3>1, <4>1, CatAssociates
        <4> QED
          BY <4>2 DEF Cat
    <2>14. Wire(a, s) = p \o (b \o r)
      BY <1>1, <2>8
    <2> QED
      BY <2>3, <2>5, <2>7, <2>9, <2>10, <2>12, <2>13, <2>14
  <1> QED
    BY <1>4, <1>5, <1>10, <1>11 DEF Remains

-----------------------------------------------------------------------------
(* The inductive invariant of stream_chat().                                *)

WireTo(n) == Wire(SubSeq(answer, 1, n), style)
NoDone(n) == \A d \in 1..n : answer[d] # "done"
Active == mode \in {"connecting", "reading", "holding"}

StreamTypes ==
    /\ answer \in Seq(AnyKind)
    /\ style \in Styles
    /\ buffer \in Seq(Symbols)
    /\ arriving \in Seq(Symbols)
    /\ out \in Seq(AllFragments)
    /\ held \in Seq(AllFragments)
    /\ mode \in {"connecting", "reading", "holding", "returned", "failed", "cancelled"}
    /\ IF mode = "holding" THEN Len(held) = 1 ELSE held = <<>>
    /\ cancelled \in BOOLEAN
    /\ mode = "cancelled" => cancelled
    /\ mode = "connecting" => out = <<>> /\ buffer = <<>>

(* j events have been taken from the buffer. *)
Taken(j) ==
    /\ j \in Nat /\ j <= Len(answer)
    /\ Wire(answer, style) = WireTo(j) \o (buffer \o arriving)
    /\ Active => NoDone(j) /\ Said(j) = out \o held

StreamInv ==
    /\ StreamTypes
    /\ Begins(AllFragments, Said(Len(answer)), out)
    /\ mode = "returned" => out = Said(EventsEnded)
    /\ \E j : Taken(j)

LEMMA SaidSame ==
    ASSUME answer' = answer, NEW n
    PROVE  Said(n)' = Said(n)
  BY DEF Said, SaidBy

LEMMA AssociateFragments ==
    ASSUME NEW x \in Seq(AllFragments), NEW y \in Seq(AllFragments), NEW z \in Seq(AllFragments)
    PROVE  (x \o y) \o z = x \o (y \o z)
  BY ConcatAssociative

LEMMA SaidPrefix ==
    ASSUME NEW N \in Nat, NEW j \in 0..N, NEW o \in Seq(AllFragments), NEW h \in Seq(AllFragments),
           Said(j) = o \o h
    PROVE  Begins(AllFragments, Said(N), o)
  <1>1. PICK rest \in Seq(AllFragments) : Said(N) = Said(j) \o rest
    BY SaidGrows DEF Begins
  <1>2. (o \o h) \o rest = o \o (h \o rest)
    BY AssociateFragments
  <1>3. h \o rest \in Seq(AllFragments)
    BY ConcatProperties
  <1> QED
    BY <1>1, <1>2, <1>3 DEF Begins

LEMMA YieldIs ==
    ASSUME out \in Seq(AllFragments), NEW f \in Seq(AllFragments),
           Len(f) = 0 \/ Len(f) = 1 \/ Len(f) = 2, Yield(f)
    PROVE  /\ mode' \in {"holding", "reading"}
           /\ out' \in Seq(AllFragments)
           /\ held' \in Seq(AllFragments)
           /\ IF mode' = "holding" THEN Len(held') = 1 ELSE held' = <<>>
           /\ out' \o held' = out \o f
  <1>1. <<>> \in Seq(AllFragments)
    OBVIOUS
  <1>2. CASE Len(f) = 0
    <2>1. f = <<>>
      BY <1>2
    <2>2. mode' = "reading" /\ held' = <<>> /\ out' = out
      BY <1>2, <2>1 DEF Yield
    <2> QED
      BY <1>1, <2>1, <2>2
  <1>3. CASE Len(f) = 1 \/ Len(f) = 2
    <2>1. f # <<>> /\ f[1] \in AllFragments
      BY <1>3
    <2>2. PICK t : t = Tail(f)
      OBVIOUS
    <2>3. t \in Seq(AllFragments) /\ Len(t) = Len(f) - 1
      BY <2>1, <2>2, HeadTailProperties
    <2>4. /\ mode' = IF Len(f) = 2 THEN "holding" ELSE "reading"
          /\ held' = IF Len(f) = 2 THEN t ELSE <<>>
          /\ out' = Append(out, f[1])
      BY <2>1, <2>2 DEF Yield
    <2>5. held' = t
      <3>1. CASE Len(f) = 1
        <4>1. Len(t) = 0
          BY <2>3, <3>1
        <4>2. t = <<>>
          BY <2>3, <4>1
        <4> QED
          BY <2>4, <3>1, <4>2
      <3> QED
        BY <1>3, <2>4, <3>1
    <2>6. PICK u : u = <<f[1]>>
      OBVIOUS
    <2>7. u \in Seq(AllFragments)
      <3>1. <<f[1]>> \in Seq(AllFragments)
        BY <2>1
      <3> QED
        BY <2>6, <3>1
    <2>8. out' = out \o u
      BY <2>1, <2>4, <2>6, AppendIsConcat
    <2>9. f = u \o t
      <3>1. 1 \in 1..Len(f) /\ Len(f) \in 1..Len(f)
        <4>1. PICK l \in Nat : l = Len(f)
          OBVIOUS
        <4>2. l = 1 \/ l = 2
          BY <1>3, <4>1
        <4>3. 1 \in 1..l /\ l \in 1..l
          BY <4>2
        <4> QED
          BY <4>1, <4>3
      <3>2. SubSeq(f, 1, Len(f)) = <<f[1]>> \o SubSeq(f, 1 + 1, Len(f))
        BY <3>1, SubSeqRecursiveFirst
      <3>3. SubSeq(f, 1, Len(f)) = f
        BY SubSeqFull
      <3>4. t = SubSeq(f, 2, Len(f))
        BY <2>1, <2>2, TailIsSubSeq
      <3> QED
        BY <2>6, <3>2, <3>3, <3>4
    <2>10. t \in Seq(AllFragments)
      BY <2>3
    <2>11. (out \o u) \o t = out \o (u \o t)
      <3>1. Cat(Cat(out, u), t) = Cat(out, Cat(u, t))
        BY <2>7, <2>10, CatAssociates
      <3> QED
        BY <3>1 DEF Cat
    <2>12. out' \in Seq(AllFragments)
      BY <2>7, <2>8, ConcatProperties
    <2>13. /\ mode' \in {"holding", "reading"}
           /\ IF mode' = "holding" THEN Len(held') = 1 ELSE held' = <<>>
      <3>1. CASE Len(f) = 1
        <4>1. mode' = "reading" /\ held' = <<>>
          BY <2>4, <3>1
        <4> QED
          BY <4>1
      <3>2. CASE Len(f) = 2
        <4>1. mode' = "holding" /\ Len(t) = 1
          BY <2>3, <2>4, <3>2
        <4> QED
          BY <2>5, <4>1
      <3> QED
        BY <1>3, <3>1, <3>2
    <2> QED
      BY <2>5, <2>8, <2>9, <2>10, <2>11, <2>12, <2>13
  <1> QED
    BY <1>2, <1>3

(* What an action that ends no answer has to show. *)
LEMMA StillStreaming ==
    ASSUME StreamInv, answer' = answer, StreamTypes', mode' # "returned",
           NEW j, Taken(j)', out' = out \/ Active'
    PROVE  StreamInv'
  <1>1. \A n : Said(n)' = Said(n)
    BY SaidSame
  <1>2. Len(answer) \in Nat /\ j \in 0..Len(answer)
    BY DEF StreamInv, StreamTypes, Taken
  <1>3. Begins(AllFragments, Said(Len(answer)), out')
    <2>1. CASE out' = out
      BY <2>1 DEF StreamInv
    <2>2. CASE Active'
      <3>1. Said(j) = out' \o held'
        BY <1>1, <2>2 DEF Taken
      <3>2. out' \in Seq(AllFragments) /\ held' \in Seq(AllFragments)
        BY DEF StreamTypes
      <3> QED
        BY <1>2, <3>1, <3>2, SaidPrefix
    <2> QED
      BY <2>1, <2>2
  <1>4. Begins(AllFragments, Said(Len(answer)), out)'
    BY <1>1, <1>3
  <1> QED
    BY <1>4 DEF StreamInv

LEMMA StreamStepConnected ==
    ASSUME StreamInv, Connected
    PROVE  StreamInv'
  <1>1. PICK j : Taken(j)
    BY DEF StreamInv
  <1>2. StreamTypes
    BY DEF StreamInv
  <1>3. StreamTypes'
    BY <1>2 DEF StreamTypes, Connected, Source
  <1>4. Taken(j)'
    BY <1>1, SaidSame DEF Taken, Connected, Source, Active, WireTo, NoDone
  <1> QED
    BY <1>3, <1>4, StillStreaming DEF Connected, Source

LEMMA StreamStepTransportFails ==
    ASSUME StreamInv, TransportFails
    PROVE  StreamInv'
  <1>1. PICK j : Taken(j)
    BY DEF StreamInv
  <1>2. StreamTypes
    BY DEF StreamInv
  <1>3. StreamTypes'
    BY <1>2 DEF StreamTypes, TransportFails, Source
  <1>4. Taken(j)'
    BY <1>1 DEF Taken, TransportFails, Source, Active, WireTo
  <1> QED
    BY <1>3, <1>4, StillStreaming DEF TransportFails, Source

LEMMA StreamStepReceiveChunk ==
    ASSUME StreamInv, ReceiveChunk
    PROVE  StreamInv'
  <1>1. PICK j : Taken(j)
    BY DEF StreamInv
  <1>2. StreamTypes /\ buffer \in Seq(Symbols) /\ arriving \in Seq(Symbols)
    BY DEF StreamInv, StreamTypes
  <1>3. PICK n \in 1..Len(arriving) :
               /\ buffer' = buffer \o SubSeq(arriving, 1, n)
               /\ arriving' = SubSeq(arriving, n + 1, Len(arriving))
    BY DEF ReceiveChunk
  <1>4. PICK u : u = SubSeq(arriving, 1, n)
    OBVIOUS
  <1>5. PICK v : v = SubSeq(arriving, n + 1, Len(arriving))
    OBVIOUS
  <1>6. u \in Seq(Symbols) /\ v \in Seq(Symbols) /\ arriving = u \o v
    <2>1. n \in 0..Len(arriving)
      BY <1>2
    <2>2. /\ SubSeq(arriving, 1, n) \in Seq(Symbols)
          /\ SubSeq(arriving, n + 1, Len(arriving)) \in Seq(Symbols)
          /\ arriving = SubSeq(arriving, 1, n) \o SubSeq(arriving, n + 1, Len(arriving))
      BY <1>2, <2>1, CutIn
    <2> QED
      BY <1>4, <1>5, <2>2
  <1>7. u \in Seq(Symbols)
    BY <1>6
  <1>8. v \in Seq(Symbols)
    BY <1>6
  <1>9. (buffer \o u) \o v = buffer \o (u \o v)
    <2>1. Cat(Cat(buffer, u), v) = Cat(buffer, Cat(u, v))
      BY <1>2, <1>7, <1>8, CatAssociates
    <2> QED
      BY <2>1 DEF Cat
  <1>10. buffer' = buffer \o u /\ arriving' = v
    BY <1>3, <1>4, <1>5
  <1>11. buffer' \o arriving' = buffer \o arriving
    BY <1>6, <1>9, <1>10
  <1>12. buffer' \in Seq(Symbols) /\ arriving' \in Seq(Symbols)
    BY <1>2, <1>7, <1>8, <1>10, ConcatProperties
  <1>13. mode = "reading" /\ UNCHANGED <<Source, mode, held, out>>
    BY DEF ReceiveChunk
  <1>14. StreamTypes'
    BY <1>2, <1>12, <1>13 DEF StreamTypes, Source
  <1>15. Taken(j)'
    BY <1>1, <1>11, <1>13, SaidSame DEF Taken, Source, Active, WireTo, NoDone
  <1> QED
    BY <1>13, <1>14, <1>15, StillStreaming DEF Source

(* A part of the answer is as long on the wire as the parts before it, or   *)
(* longer.                                                                  *)
LEMMA WireLonger ==
    ASSUME NEW a \in Seq(AnyKind), NEW s \in Styles, NEW m \in 0..Len(a), NEW n \in 0..Len(a), m <= n
    PROVE  /\ Len(Wire(SubSeq(a, 1, m), s)) \in Nat
           /\ Len(Wire(SubSeq(a, 1, n), s)) \in Nat
           /\ Len(Wire(SubSeq(a, 1, m), s)) <= Len(Wire(SubSeq(a, 1, n), s))
  <1>1. PICK x : x = Wire(SubSeq(a, 1, m), s)
    OBVIOUS
  <1>2. PICK y : y = Wire(SubSeq(a, 1, n), s)
    OBVIOUS
  <1>3. x \in Seq(Symbols)
    BY <1>1, WireGrows
  <1>4. y \in Seq(Symbols)
    BY <1>2, WireGrows
  <1>5. Begins(Symbols, y, x)
    BY <1>1, <1>2, WireSplits
  <1>6. PICK rest \in Seq(Symbols) : y = x \o rest
    BY <1>5 DEF Begins
  <1>7. Len(y) = Len(x) + Len(rest) /\ Len(x) \in Nat /\ Len(rest) \in Nat /\ Len(y) \in Nat
    BY <1>3, <1>4, <1>6, ConcatProperties
  <1> QED
    BY <1>1, <1>2, <1>7

(* A body that has ended lacks the end of its last event at most: with no   *)
(* frame in the buffer, the events taken are those that end in a blank line.*)
LEMMA LeftOffIsShort ==
    ASSUME answer \in Seq(AnyKind), style \in Styles,
           buffer \in Seq(Symbols), arriving \in Seq(Symbols), arriving \in LeftOff,
           NEW j \in Nat, j <= Len(answer), Remains(answer, style, j, buffer, arriving),
           ~HasFrame(buffer)
    PROVE  j = EventsEnded
  <1>1. PICK N \in Nat : N = Len(answer)
    OBVIOUS
  <1>2. PICK p : p = Wire(SubSeq(answer, 1, j), style)
    OBVIOUS
  <1>3. p \in Seq(Symbols)
    <2>1. j \in 0..Len(answer)
      BY <1>1
    <2> QED
      BY <1>2, <2>1, WireGrows
  <1>4. Len(Wire(answer, style)) = Len(p) + (Len(buffer) + Len(arriving))
    <2>1. Wire(answer, style) = p \o (buffer \o arriving)
      BY <1>2 DEF Remains
    <2>2. buffer \o arriving \in Seq(Symbols) /\ Len(buffer \o arriving) = Len(buffer) + Len(arriving)
      BY ConcatProperties
    <2> QED
      BY <1>3, <2>1, <2>2, ConcatProperties
  <1>5. Len(p) \in Nat /\ Len(buffer) \in Nat /\ Len(arriving) \in Nat
    BY <1>3
  <1>6. Len(arriving) <= Len(Mark(style))
    <2>1. PICK b \in Seq(Symbols) : b = Break(style)
      BY BreakIs
    <2>2. Len(Mark(style)) = Len(b) + Len(b) /\ Len(b) \in Nat
      BY <2>1, ConcatProperties DEF Mark
    <2>3. arriving = <<>> \/ arriving = b \/ arriving = Mark(style)
      BY <2>1 DEF LeftOff, Mark
    <2>4. CASE arriving = <<>>
      <3>1. Len(arriving) = 0
        BY <2>4
      <3> QED
        BY <2>2, <3>1
    <2>5. CASE arriving = b
      BY <2>2, <2>5
    <2>6. CASE arriving = Mark(style)
      BY <1>5, <2>6
    <2> QED
      BY <2>3, <2>4, <2>5, <2>6
  <1>7. ASSUME j < N
        PROVE  LET w == Encode(answer[j + 1], j + 1, style) IN
               /\ Len(w) \in Nat
               /\ Len(buffer) < Len(w)
               /\ Wire(SubSeq(answer, 1, j + 1), style) = p \o w
               /\ Len(Wire(SubSeq(answer, 1, j + 1), style)) = Len(p) + Len(w)
    <2>1. /\ j + 1 \in 1..N /\ j + 1 \in Nat /\ j \in 0..(Len(answer) - 1) /\ j < Len(answer)
          /\ answer[j + 1] \in AnyKind
      BY <1>1, <1>7
    <2>2. PICK i : i = j + 1
      OBVIOUS
    <2>3. PICK w : w = Encode(answer[i], i, style)
      OBVIOUS
    <2>4. w \in Seq(Symbols)
      BY <2>1, <2>2, <2>3, EncodeType
    <2>5. HasFrame(buffer) <=> Len(buffer) >= Len(w)
      BY <2>1, <2>2, <2>3, HeadFrame
    <2>6. Wire(SubSeq(answer, 1, j + 1), style) = p \o w
      BY <1>2, <2>1, <2>2, <2>3, WireGrows
    <2>7. Len(p \o w) = Len(p) + Len(w) /\ Len(w) \in Nat
      BY <1>3, <2>4, ConcatProperties
    <2> QED
      BY <1>5, <2>2, <2>3, <2>5, <2>6, <2>7
  <1>8. Wire(SubSeq(answer, 1, N), style) = Wire(answer, style)
    BY <1>1, WireGrows
  <1>9. CASE arriving = <<>>
    <2> SUFFICES ASSUME j < N PROVE FALSE
      BY <1>1, <1>9 DEF EventsEnded
    <2>1. PICK w : w = Len(Encode(answer[j + 1], j + 1, style))
      OBVIOUS
    <2>2. PICK x : x = Len(Wire(SubSeq(answer, 1, j + 1), style))
      OBVIOUS
    <2>3. w \in Nat /\ Len(buffer) < w /\ x = Len(p) + w
      BY <1>7, <2>1, <2>2
    <2>4. j + 1 \in 0..Len(answer) /\ N \in 0..Len(answer) /\ j + 1 <= N
      BY <1>1
    <2>5. x <= Len(Wire(answer, style))
      BY <1>8, <2>2, <2>4, WireLonger
    <2>6. Len(arriving) = 0
      BY <1>9
    <2> QED
      BY <1>4, <1>5, <2>3, <2>5, <2>6
  <1>10. CASE arriving # <<>>
    <2>1. j < N
      <3> SUFFICES ASSUME j = Len(answer) PROVE FALSE
        BY <1>1
      <3>1. Wire(answer, style) = Wire(SubSeq(answer, 1, Len(answer)), style) \o (buffer \o arriving)
        BY DEF Remains
      <3> QED
        BY <1>10, <3>1, NoEvent
    <2>2. ~(j + 1 < N)
      <3> SUFFICES ASSUME j + 1 < N PROVE FALSE
        OBVIOUS
      <3>1. PICK i : i = j + 1
        OBVIOUS
      <3>2. /\ i \in 0..(Len(answer) - 1) /\ i \in 0..Len(answer) /\ i + 1 \in 0..Len(answer)
            /\ N \in 0..Len(answer) /\ i + 1 <= N /\ i + 1 \in Nat /\ answer[i + 1] \in AnyKind
        <4>1. i + 1 \in 1..Len(answer) /\ i \in Nat /\ i + 1 <= N
          BY <1>1, <3>1
        <4> QED
          BY <1>1, <4>1
      <3>3. PICK w : w = Len(Encode(answer[j + 1], j + 1, style))
        OBVIOUS
      <3>4. PICK y : y = Wire(SubSeq(answer, 1, i), style)
        OBVIOUS
      <3>5. w \in Nat /\ Len(buffer) < w /\ Len(y) = Len(p) + w
        BY <1>7, <2>1, <3>1, <3>3, <3>4
      <3>6. PICK v : v = Encode(answer[i + 1], i + 1, style)
        OBVIOUS
      <3>7. v \in Seq(Symbols) /\ Len(v) >= Len(Mark(style))
        BY <3>2, <3>6, EncodeType
      <3>8. Wire(SubSeq(answer, 1, i + 1), style) = y \o v
        BY <3>2, <3>4, <3>6, WireGrows
      <3>9. y \in Seq(Symbols)
        BY <3>2, <3>4, WireGrows
      <3>10. Len(y \o v) = Len(y) + Len(v) /\ Len(v) \in Nat
        BY <3>7, <3>9, ConcatProperties
      <3>11. Len(y \o v) <= Len(Wire(answer, style))
        BY <1>8, <3>2, <3>8, WireLonger
      <3>12. Len(Mark(style)) \in Nat
        BY MarkIs
      <3> QED
        BY <1>4, <1>5, <1>6, <3>5, <3>7, <3>10, <3>11, <3>12
    <2> QED
      BY <1>1, <1>10, <2>1, <2>2 DEF EventsEnded
  <1> QED
    BY <1>9, <1>10

LEMMA StreamStepEndOfBody ==
    ASSUME StreamInv, EndOfBody
    PROVE  StreamInv'
  <1>1. PICK j : Taken(j)
    BY DEF StreamInv
  <1>2. /\ StreamTypes /\ buffer \in Seq(Symbols) /\ arriving \in Seq(Symbols)
        /\ answer \in Seq(AnyKind) /\ style \in Styles /\ Len(answer) \in Nat
        /\ out \in Seq(AllFragments)
    BY DEF StreamInv, StreamTypes
  <1>3. j \in Nat /\ j <= Len(answer)
    BY <1>1 DEF Taken
  <1>4. Wire(answer, style) = Wire(SubSeq(answer, 1, j), style) \o (buffer \o arriving)
    BY <1>1 DEF Taken, WireTo
  <1>5. j = EventsEnded
    <2>1. Remains(answer, style, j, buffer, arriving) /\ ~HasFrame(buffer)
      BY <1>4 DEF Remains, EndOfBody
    <2> QED
      BY <1>2, <1>3, <2>1, LeftOffIsShort DEF EndOfBody
  <1>6. out = Said(EventsEnded)
    <2>1. Said(j) = out \o held /\ held = <<>>
      BY <1>1, <1>2 DEF Taken, Active, EndOfBody, StreamTypes
    <2> QED
      BY <1>2, <1>5, <2>1, ConcatEmptySeq
  <1>7. StreamTypes'
    BY <1>2 DEF StreamTypes, EndOfBody, Source
  <1>8. Taken(j)'
    BY <1>1 DEF Taken, EndOfBody, Source, Active, WireTo
  <1>9. answer' = answer /\ out' = out /\ arriving' = arriving
    BY DEF EndOfBody, Source
  <1>10. /\ Said(Len(answer))' = Said(Len(answer))
         /\ Said(EventsEnded)' = Said(EventsEnded)
    BY <1>9 DEF Said, SaidBy, EventsEnded
  <1>11. Begins(AllFragments, Said(Len(answer)), out)'
    BY <1>9, <1>10 DEF StreamInv
  <1> QED
    BY <1>6, <1>7, <1>8, <1>9, <1>10, <1>11 DEF StreamInv

LEMMA StreamStepYieldHeld ==
    ASSUME StreamInv, YieldHeld
    PROVE  StreamInv'
  <1>1. PICK j : Taken(j)
    BY DEF StreamInv
  <1>2. /\ StreamTypes /\ out \in Seq(AllFragments) /\ held \in Seq(AllFragments)
    BY DEF StreamInv, StreamTypes
  <1>3. mode = "holding" /\ Yield(held) /\ UNCHANGED <<Source, arriving, buffer>>
    BY DEF YieldHeld
  <1>4. Len(held) = 1
    BY <1>2, <1>3 DEF StreamTypes
  <1>5. /\ mode' \in {"holding", "reading"}
        /\ out' \in Seq(AllFragments)
        /\ held' \in Seq(AllFragments)
        /\ IF mode' = "holding" THEN Len(held') = 1 ELSE held' = <<>>
        /\ out' \o held' = out \o held
    BY <1>2, <1>3, <1>4, YieldIs
  <1>6. StreamTypes'
    BY <1>2, <1>3, <1>5 DEF StreamTypes, Source
  <1>7. Taken(j)'
    BY <1>1, <1>3, <1>5, SaidSame DEF Taken, Source, Active, WireTo, NoDone
  <1>8. Active' /\ mode' # "returned" /\ answer' = answer
    BY <1>3, <1>5 DEF Active, Source
  <1> QED
    BY <1>6, <1>7, <1>8, StillStreaming

LEMMA StreamStepCancel ==
    ASSUME StreamInv, Cancel
    PROVE  StreamInv'
  <1>1. PICK j : Taken(j)
    BY DEF StreamInv
  <1>2. StreamTypes
    BY DEF StreamInv
  <1>3. StreamTypes'
    BY <1>2 DEF StreamTypes, Cancel
  <1>4. Taken(j)'
    BY <1>1, SaidSame DEF Taken, Cancel, Active, WireTo, NoDone
  <1> QED
    BY <1>3, <1>4, StillStreaming DEF Cancel

LEMMA StreamStutter ==
    ASSUME StreamInv, UNCHANGED vars
    PROVE  StreamInv'
  <1>1. \A n : Said(n)' = Said(n)
    BY SaidSame DEF vars
  <1>2. Said(EventsEnded)' = Said(EventsEnded) /\ Said(Len(answer))' = Said(Len(answer))
    BY DEF vars, Said, SaidBy, EventsEnded
  <1>3. StreamTypes'
    BY DEF vars, StreamInv, StreamTypes
  <1>4. PICK j : Taken(j)
    BY DEF StreamInv
  <1>5. Taken(j)'
    BY <1>1, <1>4 DEF vars, Taken, WireTo, NoDone, Active
  <1>6. Begins(AllFragments, Said(Len(answer)), out)'
    BY <1>2 DEF vars, StreamInv
  <1>7. (mode = "returned" => out = Said(EventsEnded))'
    BY <1>2 DEF vars, StreamInv
  <1> QED
    BY <1>3, <1>5, <1>6, <1>7 DEF StreamInv

(* What stream_chat() does with the frame of event i, of kind k. *)
LEMMA TakeItemOfEvent ==
    ASSUME NEW k \in AnyKind, NEW i \in Nat, NEW s \in Styles, NEW f, Shape(k, i, s, f),
           TakeItem(Item(f))
    PROVE  \/ k # "done" /\ Yield(IF k = "separated" THEN <<>> ELSE ExtractFragment(k, i))
           \/ cancelled /\ Ends("cancelled")
           \/ k = "done" /\ Ends("returned")
           \/ Ends("failed")
  <1>1. PICK item : item = Item(f)
    OBVIOUS
  <1>2. CASE k = "comment"
    <2>1. item = <<>>
      BY <1>1, <1>2, ItemOfEvent
    <2>2. Yield(<<>>)
      BY <1>1, <2>1 DEF TakeItem
    <2>3. (IF k = "separated" THEN <<>> ELSE ExtractFragment(k, i)) = <<>>
      BY <1>2 DEF ExtractFragment
    <2> QED
      BY <1>2, <2>2, <2>3
  <1>3. CASE k # "comment"
    <2>1. item # <<>> /\ item[1] = <<k, i>> /\ (IsJson(item) <=> k \notin {"garbage", "separated"})
      BY <1>1, <1>3, ItemOfEvent
    <2>2. item[1][1] = k /\ item[1][2] = i
      BY <2>1
    <2>3. IF cancelled THEN Ends("cancelled")
          ELSE IF k = "done" THEN Ends("returned")
          ELSE IF k \in {"garbage", "separated"} THEN Yield(<<>>)
          ELSE IF k = "scalar" THEN Ends("failed")
          ELSE Yield(ExtractFragment(k, i))
      BY <1>1, <2>1, <2>2 DEF TakeItem
    <2>4. CASE k = "garbage" \/ k = "separated"
      <3>1. (IF k = "separated" THEN <<>> ELSE ExtractFragment(k, i)) = <<>>
        BY <2>4 DEF ExtractFragment
      <3>2. k # "done"
        BY <2>4
      <3> QED
        BY <2>3, <2>4, <3>1, <3>2
    <2>5. CASE k # "garbage" /\ k # "separated"
      BY <2>3, <2>5
    <2> QED
      BY <2>4, <2>5
  <1> QED
    BY <1>2, <1>3

LEMMA SaidAhead ==
    ASSUME StreamInv, NEW j, Taken(j), j < Len(answer), mode = "reading"
    PROVE  /\ answer[j + 1] = "done" => \A m \in (j + 1)..Len(answer) : Said(m) = out
           /\ answer[j + 1] # "done" =>
                 /\ NoDone(j + 1)
                 /\ Said(j + 1) = out \o (IF answer[j + 1] = "separated" THEN <<>>
                                          ELSE ExtractFragment(answer[j + 1], j + 1))
  <1>1. PICK N \in Nat : N = Len(answer)
    BY DEF StreamInv, StreamTypes
  <1>2. /\ j \in Nat /\ j \in 0..N /\ j \in 0..(N - 1) /\ j + 1 \in Nat
        /\ \A d \in (j + 1)..N : j + 1 \in 1..d
    BY <1>1 DEF Taken
  <1>3. NoDone(j) /\ Said(j) = out
    <2>1. NoDone(j) /\ Said(j) = out \o held
      BY DEF Taken, Active
    <2>2. held = <<>> /\ out \in Seq(AllFragments)
      BY DEF StreamInv, StreamTypes
    <2> QED
      BY <2>1, <2>2, ConcatEmptySeq
  <1>4. ASSUME answer[j + 1] = "done", NEW m \in (j + 1)..N PROVE Said(m) = out
    <2>1. m \in Nat /\ j \in 0..m /\ \A d \in (j + 1)..m : d \in (j + 1)..N
      BY <1>2
    <2>2. \A d \in (j + 1)..m : SaidBy(d) = <<>>
      BY <1>2, <1>4, <2>1 DEF SaidBy
    <2> QED
      BY <1>3, <2>1, <2>2, SaidGrows
  <1>5. ASSUME answer[j + 1] # "done"
        PROVE  /\ NoDone(j + 1)
               /\ Said(j + 1) = out \o (IF answer[j + 1] = "separated" THEN <<>>
                                        ELSE ExtractFragment(answer[j + 1], j + 1))
    <2>1. NoDone(j + 1)
      <3> SUFFICES ASSUME NEW d \in 1..(j + 1) PROVE answer[d] # "done"
        BY DEF NoDone
      <3>1. d \in 1..j \/ d = j + 1
        BY <1>2
      <3> QED
        BY <1>3, <1>5, <3>1 DEF NoDone
    <2>2. SaidBy(j + 1) = IF answer[j + 1] = "separated" THEN <<>>
                          ELSE ExtractFragment(answer[j + 1], j + 1)
      BY <2>1 DEF SaidBy, NoDone
    <2>3. Said(j + 1) = Said(j) \o SaidBy(j + 1)
      BY <1>2, SaidGrows
    <2> QED
      BY <1>3, <2>1, <2>2, <2>3
  <1> QED
    BY <1>1, <1>4, <1>5

LEMMA StreamStepNextFrame ==
    ASSUME StreamInv, NextFrame
    PROVE  StreamInv'
  <1>1. PICK j : Taken(j)
    BY DEF StreamInv
  <1>2. /\ StreamTypes /\ buffer \in Seq(Symbols) /\ arriving \in Seq(Symbols)
        /\ answer \in Seq(AnyKind) /\ style \in Styles /\ Len(answer) \in Nat
        /\ out \in Seq(AllFragments) /\ held = <<>>
    BY DEF StreamInv, StreamTypes, NextFrame
  <1>3. j \in Nat /\ j <= Len(answer)
    BY <1>1 DEF Taken
  <1>4. Wire(answer, style) = Wire(SubSeq(answer, 1, j), style) \o (buffer \o arriving)
    BY <1>1 DEF Taken, WireTo
  <1>5. /\ mode = "reading" /\ HasFrame(buffer) /\ buffer' = AfterFrame(buffer)
        /\ answer' = answer /\ style' = style /\ cancelled' = cancelled /\ arriving' = arriving
        /\ TakeItem(Item(Frame(buffer)))
    BY DEF NextFrame, Source
  <1>6. j < Len(answer)
    <2> SUFFICES ASSUME j = Len(answer) PROVE FALSE
      BY <1>2, <1>3
    <2> QED
      BY <1>2, <1>4, <1>5, NoEvent
  <1>7. PICK i : i = j + 1
    OBVIOUS
  <1>8. PICK k : k = answer[i]
    OBVIOUS
  <1>9. i \in Nat /\ i <= Len(answer) /\ k \in AnyKind
    <2>1. i \in Nat /\ i <= Len(answer) /\ i \in 1..Len(answer)
      BY <1>2, <1>3, <1>6, <1>7
    <2> QED
      BY <1>2, <1>8, <2>1
  <1>10. /\ Frame(buffer) = Body(k, i, style)
         /\ AfterFrame(buffer) \in Seq(Symbols)
         /\ Wire(answer, style) = WireTo(i) \o (AfterFrame(buffer) \o arriving)
    <2>1. Remains(answer, style, j, buffer, arriving) /\ HasFrame(buffer)
      BY <1>4, <1>5 DEF Remains
    <2>2. /\ Frame(buffer) = Body(answer[i], i, style)
          /\ AfterFrame(buffer) \in Seq(Symbols)
          /\ Remains(answer, style, i, AfterFrame(buffer), arriving)
      BY <1>2, <1>3, <1>6, <1>7, <2>1, HeadFrame
    <2> QED
      BY <1>8, <2>2 DEF WireTo, Remains
  <1>11. Shape(k, i, style, Frame(buffer))
    BY <1>2, <1>9, <1>10, ShapeOfEvent
  <1>12. PICK f : f = IF k = "separated" THEN <<>> ELSE ExtractFragment(k, i)
    OBVIOUS
  <1>13. \/ k # "done" /\ Yield(f)
         \/ cancelled /\ Ends("cancelled")
         \/ k = "done" /\ Ends("returned")
         \/ Ends("failed")
    BY <1>2, <1>5, <1>9, <1>11, <1>12, TakeItemOfEvent
  <1>14. f \in Seq(AllFragments) /\ (Len(f) = 0 \/ Len(f) = 1 \/ Len(f) = 2)
    <2>1. f \in Seq(AllFragments)
      BY <1>9, <1>12, ExtractType
    <2>2. Len(f) = 0 \/ Len(f) = 1 \/ Len(f) = 2
      BY <1>12 DEF ExtractFragment
    <2> QED
      BY <2>1, <2>2
  <1>15. /\ k = "done" => \A m \in i..Len(answer) : Said(m) = out
         /\ k # "done" => NoDone(i) /\ Said(i) = out \o f
    BY <1>1, <1>5, <1>6, <1>7, <1>8, <1>12, SaidAhead
  <1>16. /\ Wire(answer, style)' = WireTo(i)' \o (buffer' \o arriving')
         /\ i \in Nat /\ i <= Len(answer)'
    BY <1>5, <1>9, <1>10 DEF WireTo
  <1>17. buffer' \in Seq(Symbols)
    BY <1>5, <1>10
  <1>18. \A n : Said(n)' = Said(n)
    BY <1>5, SaidSame
  <1>19. CASE k # "done" /\ Yield(f)
    <2>1. /\ mode' \in {"holding", "reading"}
          /\ out' \in Seq(AllFragments)
          /\ held' \in Seq(AllFragments)
          /\ IF mode' = "holding" THEN Len(held') = 1 ELSE held' = <<>>
          /\ out' \o held' = out \o f
      BY <1>2, <1>14, <1>19, YieldIs
    <2>2. StreamTypes'
      BY <1>2, <1>5, <1>17, <2>1 DEF StreamTypes
    <2>3. NoDone(i)'
      BY <1>5, <1>15, <1>19 DEF NoDone
    <2>4. Said(i)' = out' \o held'
      BY <1>15, <1>18, <1>19, <2>1
    <2>5. Taken(i)'
      BY <1>16, <2>3, <2>4 DEF Taken
    <2>6. Active' /\ mode' # "returned"
      BY <2>1 DEF Active
    <2> QED
      BY <1>5, <2>2, <2>5, <2>6, StillStreaming
  <1>20. CASE (cancelled /\ Ends("cancelled")) \/ Ends("failed")
    <2>1. /\ mode' \in {"cancelled", "failed"} /\ out' = out /\ held' = held
          /\ mode' = "cancelled" => cancelled
      BY <1>20 DEF Ends
    <2>2. StreamTypes'
      BY <1>2, <1>5, <1>17, <2>1 DEF StreamTypes
    <2>3. Taken(i)'
      BY <1>16, <2>1 DEF Taken, Active
    <2> QED
      BY <1>5, <2>1, <2>2, <2>3, StillStreaming
  <1>21. CASE k = "done" /\ Ends("returned")
    <2>1. mode' = "returned" /\ out' = out /\ held' = held
      BY <1>21 DEF Ends
    <2>2. StreamTypes'
      BY <1>2, <1>5, <1>17, <2>1 DEF StreamTypes
    <2>3. Taken(i)'
      BY <1>16, <2>1 DEF Taken, Active
    <2>4. Begins(AllFragments, Said(Len(answer)), out)'
      BY <1>5, <1>18, <2>1 DEF StreamInv
    <2>5. EventsEnded \in i..Len(answer)
      <3>1. CASE i = Len(answer)
        <4>1. Wire(answer, style) = Wire(SubSeq(answer, 1, Len(answer)), style)
                                    \o (AfterFrame(buffer) \o arriving)
          BY <1>10, <3>1 DEF WireTo
        <4>2. arriving = <<>>
          BY <1>2, <1>10, <4>1, NoEvent
        <4> QED
          BY <1>2, <1>9, <3>1, <4>2 DEF EventsEnded
      <3>2. CASE i # Len(answer)
        BY <1>2, <1>9, <3>2 DEF EventsEnded
      <3> QED
        BY <3>1, <3>2
    <2>6. EventsEnded' = EventsEnded
      BY <1>5 DEF EventsEnded
    <2>7. out' = Said(EventsEnded)'
      <3>1. \A n : (Said(n))' = Said(n)
        BY <1>18
      <3>2. Said(EventsEnded)' = Said(EventsEnded)
        BY <1>5 DEF Said, SaidBy, EventsEnded
      <3> QED
        BY <1>15, <1>21, <2>1, <2>5, <3>2
    <2> QED
      BY <2>2, <2>3, <2>4, <2>7 DEF StreamInv
  <1> QED
    BY <1>13, <1>19, <1>20, <1>21

LEMMA StreamInit ==
    ASSUME Init
    PROVE  StreamInv
  <1>1. answer \in Seq(AnyKind)
    <2>1. PICK n \in 0..MaxEvents : answer \in [1..n -> Kinds]
      BY DEF Init
    <2>2. n \in Nat
      BY EventsAssumption
    <2>3. answer \in [1..n -> AnyKind]
      BY <2>1, KindsAre
    <2> QED
      BY <2>2, <2>3
  <1>2. Len(answer) \in Nat /\ 0 \in 0..Len(answer) /\ Len(answer) \in 0..Len(answer)
    BY <1>1
  <1>3. style \in Styles
    BY DEF Init, Styles
  <1>4. /\ arriving = Wire(answer, style) /\ buffer = <<>> /\ out = <<>> /\ held = <<>>
        /\ mode = "connecting" /\ cancelled = FALSE
    BY DEF Init
  <1>5. WireTo(0) = <<>> /\ Wire(answer, style) \in Seq(Symbols)
    BY <1>1, <1>2, <1>3, WireGrows DEF WireTo
  <1>6. StreamTypes
    <2>1. <<>> \in Seq(Symbols) /\ <<>> \in Seq(AllFragments)
      OBVIOUS
    <2> QED
      BY <1>1, <1>3, <1>4, <1>5, <2>1 DEF StreamTypes
  <1>7. Taken(0)
    <2>1. arriving \in Seq(Symbols)
      BY <1>4, <1>5
    <2>2. <<>> \o (<<>> \o arriving) = arriving
      BY <2>1, ConcatEmptySeq
    <2>3. Wire(answer, style) = WireTo(0) \o (buffer \o arriving)
      BY <1>4, <1>5, <2>2
    <2>4. NoDone(0)
      BY DEF NoDone
    <2>5. Said(0) = <<>>
      BY SaidGrows
    <2>6. <<>> = <<>> \o <<>>
      BY ConcatEmptySeq, <1>4
    <2>7. Said(0) = out \o held
      BY <1>4, <2>5, <2>6
    <2> QED
      BY <1>2, <2>3, <2>4, <2>7 DEF Taken
  <1>8. Begins(AllFragments, Said(Len(answer)), out)
    <2>1. Said(Len(answer)) \in Seq(AllFragments)
      BY <1>2, SaidGrows
    <2>2. Said(Len(answer)) = <<>> \o Said(Len(answer))
      BY <2>1, ConcatEmptySeq
    <2> QED
      BY <1>4, <2>1, <2>2 DEF Begins
  <1> QED
    BY <1>4, <1>6, <1>7, <1>8 DEF StreamInv

LEMMA StreamStep ==
    ASSUME StreamInv, BackendStep \/ Cancel \/ UNCHANGED vars
    PROVE  StreamInv'
  BY StreamStepConnected, StreamStepTransportFails, StreamStepReceiveChunk, StreamStepEndOfBody,
     StreamStepNextFrame, StreamStepYieldHeld, StreamStepCancel, StreamStutter
     DEF BackendStep

LEMMA ProxyStepIsStreamStep ==
    ASSUME [ProxyNext]_proxyVars
    PROVE  BackendStep \/ Cancel \/ UNCHANGED vars
  BY DEF ProxyNext, SessionStep, ProxyStep, Relay, Complete, Fail, SendDone, ClientLeaves, Answered,
         proxyVars

(* What has been yielded, of the answer, whatever the chunks, a cancel or a *)
(* failure: the invariant of both callers of stream_chat().                 *)
THEOREM StreamInvariant == ProxySpec => []StreamInv
  <1>1. ProxyInit => StreamInv
    BY StreamInit DEF ProxyInit
  <1>2. StreamInv /\ [ProxyNext]_proxyVars => StreamInv'
    BY StreamStep, ProxyStepIsStreamStep
  <1> QED
    BY <1>1, <1>2, PTL DEF ProxySpec

-----------------------------------------------------------------------------
(* What the invariant says of the stream.                                   *)

(* stream_chat() yields the fragments of the answer in order, each once and *)
(* none left out, and the whole answer if it returns, but for a last event  *)
(* whose blank line the backend left off: for answers of any length and     *)
(* kinds, either line break and every cut into chunks.                      *)
THEOREM FragmentsAreTheAnswer == ProxySpec => []YieldsTheAnswer
  <1>1. StreamInv => YieldsTheAnswer
    <2> SUFFICES ASSUME StreamInv PROVE YieldsTheAnswer
      OBVIOUS
    <2>1. out \in Seq(AllFragments)
      BY DEF StreamInv, StreamTypes
    <2>2. Begins(AllFragments, Said(Len(answer)), out)
      BY DEF StreamInv
    <2>3. IsPrefix(out, Said(Len(answer)))
      BY <2>1, <2>2, BeginsIsPrefix
    <2> QED
      BY <2>3 DEF StreamInv, YieldsTheAnswer
  <1> QED
    BY <1>1, StreamInvariant, PTL

(* After a cancel stream_chat() yields no more than the text of the item    *)
(* whose thinking was yielded before it.                                    *)
THEOREM CancelStopsTheStream == ProxySpec => StopsAtCancel
  <1>1. [ProxyNext]_proxyVars => [cancelled /\ out' # out => mode = "holding"]_vars
    <2> SUFFICES ASSUME BackendStep \/ Cancel, cancelled, out' # out PROVE mode = "holding"
      BY ProxyStepIsStreamStep
    <2>1. ASSUME NextFrame PROVE FALSE
      BY <2>1 DEF NextFrame, TakeItem, Yield, Ends
    <2> QED
      BY <2>1 DEF BackendStep, Cancel, Connected, TransportFails, ReceiveChunk, EndOfBody, YieldHeld
  <1> QED
    BY <1>1, PTL DEF ProxySpec, StopsAtCancel

(* While no frame is whole, the events received are those taken.            *)
LEMMA ReceivedIsTaken ==
    ASSUME StreamInv, NEW j, Taken(j), ~HasFrame(buffer)
    PROVE  EventsReceived = j
  <1>1. /\ buffer \in Seq(Symbols) /\ arriving \in Seq(Symbols)
        /\ answer \in Seq(AnyKind) /\ style \in Styles /\ Len(answer) \in Nat
    BY DEF StreamInv, StreamTypes
  <1>2. j \in Nat /\ j <= Len(answer) /\ j \in 0..Len(answer)
    BY <1>1 DEF Taken
  <1>3. Remains(answer, style, j, buffer, arriving)
    BY DEF Taken, WireTo, Remains
  <1>4. PICK p : p = Wire(SubSeq(answer, 1, j), style)
    OBVIOUS
  <1>5. p \in Seq(Symbols)
    BY <1>1, <1>2, <1>4, WireGrows
  <1>6. PICK R : R = Received
    OBVIOUS
  <1>7. R = Len(p) + Len(buffer) /\ Len(p) \in Nat /\ Len(buffer) \in Nat
    <2>1. Wire(answer, style) = p \o (buffer \o arriving)
      BY <1>3, <1>4 DEF Remains
    <2>2. buffer \o arriving \in Seq(Symbols) /\ Len(buffer \o arriving) = Len(buffer) + Len(arriving)
      BY <1>1, ConcatProperties
    <2>3. Len(Wire(answer, style)) = Len(p) + (Len(buffer) + Len(arriving))
      BY <1>5, <2>1, <2>2, ConcatProperties
    <2>4. Len(p) \in Nat /\ Len(buffer) \in Nat /\ Len(arriving) \in Nat
      BY <1>1, <1>5
    <2> QED
      BY <1>6, <2>3, <2>4 DEF Received
  <1>8. ASSUME NEW n \in 0..Len(answer), n <= j
        PROVE  Len(Wire(SubSeq(answer, 1, n), style)) <= R
    <2>1. /\ Len(Wire(SubSeq(answer, 1, n), style)) \in Nat
          /\ Len(Wire(SubSeq(answer, 1, n), style)) <= Len(p)
      BY <1>1, <1>2, <1>4, <1>8, WireLonger
    <2> QED
      BY <1>7, <2>1
  <1>9. ASSUME NEW n \in 0..Len(answer), n > j
        PROVE  ~(Len(Wire(SubSeq(answer, 1, n), style)) <= R)
    <2>1. PICK i : i = j + 1
      OBVIOUS
    <2>2. /\ j < Len(answer) /\ i \in 0..Len(answer) /\ i \in 1..Len(answer) /\ i <= n /\ i \in Nat
          /\ j \in 0..(Len(answer) - 1)
      BY <1>1, <1>2, <1>9, <2>1
    <2>3. answer[i] \in AnyKind
      BY <1>1, <2>2
    <2>4. PICK w : w = Encode(answer[i], i, style)
      OBVIOUS
    <2>5. w \in Seq(Symbols)
      BY <1>1, <2>2, <2>3, <2>4, EncodeType
    <2>6. ~(Len(buffer) >= Len(w))
      BY <1>1, <1>2, <1>3, <2>1, <2>2, <2>4, HeadFrame
    <2>7. Wire(SubSeq(answer, 1, i), style) = p \o w
      BY <1>1, <1>4, <2>1, <2>2, <2>4, WireGrows
    <2>8. Len(Wire(SubSeq(answer, 1, i), style)) = Len(p) + Len(w) /\ Len(w) \in Nat
      BY <1>5, <2>5, <2>7, ConcatProperties
    <2>9. /\ Len(Wire(SubSeq(answer, 1, n), style)) \in Nat
          /\ Len(Wire(SubSeq(answer, 1, i), style)) <= Len(Wire(SubSeq(answer, 1, n), style))
      BY <1>1, <2>2, WireLonger
    <2> QED
      BY <1>7, <2>6, <2>8, <2>9
  <1>10. PICK whole : whole = {n \in 0..Len(answer) : Len(Wire(SubSeq(answer, 1, n), style)) <= R}
    OBVIOUS
  <1>11. \A n : n \in whole <=> n \in 0..j
    <2> SUFFICES ASSUME NEW n PROVE n \in whole <=> n \in 0..j
      OBVIOUS
    <2>1. n \in 0..j => n \in 0..Len(answer) /\ n <= j
      BY <1>1, <1>2
    <2>2. n \in 0..Len(answer) => n \in 0..j \/ n > j
      BY <1>1, <1>2
    <2> QED
      BY <1>8, <1>9, <1>10, <2>1, <2>2
  <1>12. \A m : m \in whole /\ (\A n \in whole : m >= n) <=> m = j
    <2>1. j \in 0..j /\ \A n \in 0..j : j >= n
      BY <1>2
    <2>2. \A m \in 0..j : m >= j => m = j
      BY <1>2
    <2> QED
      BY <1>11, <2>1, <2>2
  <1>13. Max(whole) = j
    BY <1>12 DEF Max
  <1> QED
    BY <1>6, <1>10, <1>13 DEF EventsReceived

(* While stream_chat() waits for the next chunk, it has yielded all that    *)
(* the events received whole say, wherever the chunks were cut.             *)
THEOREM NothingWaits == ProxySpec => []NothingHeldBack
  <1>1. StreamInv => NothingHeldBack
    <2> SUFFICES ASSUME StreamInv, mode = "reading", ~HasFrame(buffer)
                 PROVE  out = Said(EventsReceived)
      BY DEF NothingHeldBack
    <2>1. PICK j : Taken(j)
      BY DEF StreamInv
    <2>2. EventsReceived = j
      BY <2>1, ReceivedIsTaken
    <2>3. Said(j) = out \o held
      BY <2>1 DEF Taken, Active
    <2>4. held = <<>> /\ out \in Seq(AllFragments)
      BY DEF StreamInv, StreamTypes
    <2> QED
      BY <2>2, <2>3, <2>4, ConcatEmptySeq
  <1> QED
    BY <1>1, StreamInvariant, PTL

-----------------------------------------------------------------------------
(* The reply of chat_completions().                                         *)

(* A reply may end so: the fragments sent, and its outcome. *)
Ending(fragments, outcome) ==
    /\ fragments \in {<<>>, out}
    /\ outcome \in {Stop, ErrorChunk}
    /\ outcome = Stop => mode = "returned" /\ fragments = out

Ended == \E fragments, outcome : Ending(fragments, outcome) /\ sent = Append(fragments, outcome)
EndedDone ==
    \E fragments, outcome :
        Ending(fragments, outcome) /\ sent = Append(Append(fragments, outcome), DoneChunk)

(* The inductive invariant of the two callers. *)
ProxyInv ==
    /\ caller \in {"session", "streamed", "whole"}
    /\ reply = "none" <=> caller = "session"
    /\ cancelled => caller = "session"
    /\ reply \in {"none", "relaying", "closing", "over", "gone"}
    /\ reply = "none" => sent = <<>>
    /\ reply = "relaying" => sent = IF Streamed THEN out ELSE <<>>
    /\ reply = "closing" => Streamed /\ Ended
    /\ reply = "over" => IF Streamed THEN EndedDone ELSE Ended
    /\ reply = "gone" => Streamed /\ (sent = out \/ Ended)

LEMMA ProxyInit_ProxyInv ==
    ASSUME ProxyInit
    PROVE  ProxyInv
  BY DEF ProxyInit, Init, ProxyInv, Streamed

(* A step of stream_chat() yields one fragment or none. *)
LEMMA OutGrows ==
    ASSUME StreamInv, StreamInv', BackendStep
    PROVE  out' = out \o SubSeq(out', Len(out) + 1, Len(out'))
  <1>1. out \in Seq(AllFragments) /\ out' \in Seq(AllFragments)
    BY DEF StreamInv, StreamTypes
  <1>2. out' = out \/ \E x : out' = Append(out, x)
    <2>1. ASSUME NEW f, Yield(f) PROVE out' = out \/ \E x : out' = Append(out, x)
      BY <2>1 DEF Yield
    <2>2. ASSUME NEW how, Ends(how) PROVE out' = out
      BY <2>2 DEF Ends
    <2>3. ASSUME NextFrame PROVE out' = out \/ \E x : out' = Append(out, x)
      <3>1. PICK item : TakeItem(item)
        BY <2>3 DEF NextFrame
      <3> QED
        BY <2>1, <2>2, <3>1 DEF TakeItem
    <2>4. ASSUME YieldHeld PROVE out' = out \/ \E x : out' = Append(out, x)
      BY <2>1, <2>4 DEF YieldHeld
    <2> QED
      BY <2>3, <2>4 DEF BackendStep, Connected, TransportFails, ReceiveChunk, EndOfBody
  <1>3. PICK y : y = out'
    OBVIOUS
  <1>4. \E rest \in Seq(AllFragments) : y = out \o rest
    <2>1. CASE y = out
      <3>1. <<>> \in Seq(AllFragments) /\ out \o <<>> = out
        BY <1>1, ConcatEmptySeq
      <3> QED
        BY <2>1, <3>1
    <2>2. CASE \E x : y = Append(out, x)
      <3>1. PICK x : y = Append(out, x)
        BY <2>2
      <3>2. Len(out) \in Nat /\ y \in Seq(AllFragments)
        BY <1>1, <1>3
      <3>3. Len(y) = Len(out) + 1 /\ y[Len(out) + 1] = x
        BY <1>1, <3>1, AppendProperties
      <3>4. x \in AllFragments
        <4>1. Len(out) + 1 \in 1..Len(y)
          BY <3>2, <3>3
        <4> QED
          BY <3>2, <3>3, <4>1
      <3>5. y = out \o <<x>>
        BY <1>1, <3>1, <3>4, AppendIsConcat
      <3>6. <<x>> \in Seq(AllFragments)
        BY <3>4
      <3> QED
        BY <3>5, <3>6
    <2> QED
      BY <1>2, <1>3, <2>1, <2>2
  <1>5. PICK rest \in Seq(AllFragments) : y = out \o rest
    BY <1>4
  <1>6. SubSeq(y, 1, Len(out)) = out
    BY <1>1, <1>5, FirstPart
  <1>7. Len(out) \in 0..Len(y)
    <2>1. Len(y) = Len(out) + Len(rest) /\ Len(out) \in Nat /\ Len(rest) \in Nat
      BY <1>1, <1>5, ConcatProperties
    <2> QED
      BY <2>1
  <1>8. y = SubSeq(y, 1, Len(out)) \o SubSeq(y, Len(out) + 1, Len(y))
    <2>1. y \in Seq(AllFragments)
      BY <1>1, <1>3
    <2> QED
      BY <1>7, <2>1, CutIn
  <1> QED
    BY <1>3, <1>6, <1>8

LEMMA ProxyStep_ProxyInv ==
    ASSUME StreamInv, StreamInv', ProxyInv, [ProxyNext]_proxyVars
    PROVE  ProxyInv'
  <1>1. ASSUME UNCHANGED proxyVars PROVE ProxyInv'
    BY <1>1 DEF ProxyInv, proxyVars, vars, Streamed, Ended, EndedDone, Ending
  <1>2. ASSUME SessionStep PROVE ProxyInv'
    BY <1>2 DEF ProxyInv, SessionStep, Streamed
  <1>3. ASSUME Relay PROVE ProxyInv'
    <2>1. /\ reply = "relaying" /\ reply' = reply /\ caller' = caller /\ BackendStep
          /\ sent' = IF Streamed THEN sent \o SubSeq(out', Len(out) + 1, Len(out')) ELSE sent
      BY <1>3 DEF Relay
    <2>2. cancelled' = cancelled
      BY <2>1 DEF BackendStep, Connected, TransportFails, ReceiveChunk, EndOfBody, NextFrame,
                  YieldHeld, Source
    <2>3. sent = IF Streamed THEN out ELSE <<>>
      BY <2>1 DEF ProxyInv
    <2>4. out' = out \o SubSeq(out', Len(out) + 1, Len(out'))
      BY <2>1, OutGrows
    <2>5. sent' = IF Streamed THEN out' ELSE <<>>
      BY <2>1, <2>3, <2>4
    <2> QED
      BY <2>1, <2>2, <2>5 DEF ProxyInv, Streamed
  <1>4. ASSUME Complete \/ Fail PROVE ProxyInv'
    <2>1. PICK fragments : fragments = IF Streamed THEN sent ELSE IF Complete THEN out ELSE <<>>
      OBVIOUS
    <2>2. PICK outcome : outcome = IF Complete THEN Stop ELSE ErrorChunk
      OBVIOUS
    <2>3. /\ reply = "relaying" /\ caller' = caller /\ UNCHANGED vars
          /\ reply' = IF Streamed THEN "closing" ELSE "over"
          /\ Complete => mode = "returned"
      BY <1>4 DEF Complete, Fail
    <2>4. sent = IF Streamed THEN out ELSE <<>>
      BY <2>3 DEF ProxyInv
    <2>5. sent' = Append(fragments, outcome)
      <3>1. CASE Complete
        BY <2>1, <2>2, <3>1 DEF Complete
      <3>2. CASE ~Complete
        BY <1>4, <2>1, <2>2, <2>4, <3>2 DEF Fail
      <3> QED
        BY <3>1, <3>2
    <2>6. Ending(fragments, outcome)'
      <3>1. fragments \in {<<>>, out} /\ (Complete => fragments = out)
        BY <2>1, <2>4
      <3>2. outcome \in {Stop, ErrorChunk} /\ (outcome = Stop => Complete)
        BY <2>2 DEF Stop, ErrorChunk
      <3> QED
        BY <2>3, <3>1, <3>2 DEF Ending, vars
    <2>7. Ended'
      BY <2>5, <2>6 DEF Ended
    <2> QED
      BY <2>3, <2>7 DEF ProxyInv, Streamed, vars
  <1>5. ASSUME SendDone PROVE ProxyInv'
    <2>1. /\ reply = "closing" /\ reply' = "over" /\ caller' = caller /\ UNCHANGED vars
          /\ sent' = Append(sent, DoneChunk)
      BY <1>5 DEF SendDone
    <2>2. Streamed /\ Ended
      BY <2>1 DEF ProxyInv
    <2>3. PICK fragments, outcome : Ending(fragments, outcome) /\ sent = Append(fragments, outcome)
      BY <2>2 DEF Ended
    <2>4. Ending(fragments, outcome)'
      BY <2>1, <2>3 DEF Ending, vars
    <2>5. EndedDone'
      BY <2>1, <2>3, <2>4 DEF EndedDone
    <2> QED
      BY <2>1, <2>2, <2>5 DEF ProxyInv, Streamed, vars
  <1>6. ASSUME ClientLeaves PROVE ProxyInv'
    <2>1. /\ reply \in {"relaying", "closing"} /\ Streamed /\ reply' = "gone"
          /\ UNCHANGED <<vars, caller, sent>>
      BY <1>6 DEF ClientLeaves
    <2>2. sent = out \/ Ended
      BY <2>1 DEF ProxyInv
    <2>3. sent' = out' \/ Ended'
      BY <2>1, <2>2 DEF Ended, Ending, vars
    <2> QED
      BY <2>1, <2>3 DEF ProxyInv, Streamed, vars
  <1>7. ASSUME Answered PROVE ProxyInv'
    BY <1>1, <1>7 DEF Answered
  <1> QED
    BY <1>1, <1>2, <1>3, <1>4, <1>5, <1>6, <1>7 DEF ProxyNext, ProxyStep

(* A reply in progress holds what has been yielded, and one that has ended  *)
(* an outcome that is true of the stream.                                   *)
THEOREM ProxyInvariant == ProxySpec => [](StreamInv /\ ProxyInv)
  <1>1. ProxyInit => ProxyInv
    BY ProxyInit_ProxyInv
  <1>2. StreamInv /\ StreamInv' /\ ProxyInv /\ [ProxyNext]_proxyVars => ProxyInv'
    BY ProxyStep_ProxyInv
  <1> QED
    BY <1>1, <1>2, StreamInvariant, PTL DEF ProxySpec

Chunks == AllFragments \cup {Stop, ErrorChunk, DoneChunk}

LEMMA FragmentsAreChunks ==
    ASSUME StreamInv, NEW fragments \in {<<>>, out}
    PROVE  fragments \in Seq(Chunks) /\ IsPrefix(fragments, Said(Len(answer)))
  <1>1. out \in Seq(AllFragments) /\ Begins(AllFragments, Said(Len(answer)), out) /\ Len(answer) \in Nat
    BY DEF StreamInv, StreamTypes
  <1>2. CASE fragments = out
    <2>1. AllFragments \subseteq Chunks
      BY DEF Chunks
    <2>2. out \in Seq(Chunks)
      BY <1>1, <2>1
    <2> QED
      BY <1>1, <1>2, <2>2, BeginsIsPrefix
  <1>3. CASE fragments = <<>>
    <2>1. <<>> \in Seq(Chunks) /\ <<>> \in Seq(AllFragments)
      OBVIOUS
    <2>2. Said(Len(answer)) \in Seq(AllFragments)
      <3>1. Len(answer) \in 0..Len(answer)
        BY <1>1
      <3> QED
        BY <1>1, <3>1, SaidGrows
    <2>3. Said(Len(answer)) = <<>> \o Said(Len(answer))
      BY <2>2, ConcatEmptySeq
    <2>4. Begins(AllFragments, Said(Len(answer)), <<>>)
      BY <2>2, <2>3 DEF Begins
    <2>5. IsPrefix(<<>>, Said(Len(answer)))
      BY <2>1, <2>4, BeginsIsPrefix
    <2> QED
      BY <1>3, <2>1, <2>5
  <1> QED
    BY <1>2, <1>3

(* What was put together is taken apart. *)
LEMMA TakenApart ==
    ASSUME NEW S, NEW x \in Seq(S), NEW t \in Seq(S), NEW w, w = x \o t
    PROVE  /\ Len(x) \in 0..Len(w)
           /\ SubSeq(w, 1, Len(x)) = x
           /\ SubSeq(w, Len(x) + 1, Len(w)) = t
  <1>1. w \in Seq(S) /\ Len(w) = Len(x) + Len(t) /\ Len(x) \in Nat /\ Len(t) \in Nat
    BY ConcatProperties
  <1>2. Len(x) \in 0..Len(w)
    BY <1>1
  <1>3. SubSeq(w, 1, Len(x)) = x
    BY FirstPart
  <1>4. PICK u : u = SubSeq(w, Len(x) + 1, Len(w))
    OBVIOUS
  <1>5. w = x \o u /\ u \in Seq(S)
    BY <1>1, <1>2, <1>3, <1>4, CutIn
  <1>6. u = t
    <2>1. x \o u = x \o t
      BY <1>5
    <2>2. u \in Seq(S)
      BY <1>5
    <2> QED
      BY <2>1, <2>2, ConcatSimplifications
  <1> QED
    BY <1>2, <1>3, <1>4, <1>6

LEMMA EndingIsTrue ==
    ASSUME StreamInv, NEW fragments, NEW outcome, Ending(fragments, outcome),
           NEW tail, tail \in {<<outcome>>, <<outcome, DoneChunk>>}, sent = fragments \o tail,
           reply = "over" => tail = IF Streamed THEN <<outcome, DoneChunk>> ELSE <<outcome>>
    PROVE  OutcomeIsTrue
  <1>1. /\ fragments \in {<<>>, out} /\ outcome \in {Stop, ErrorChunk}
        /\ outcome = Stop => mode = "returned" /\ fragments = out
    BY DEF Ending
  <1>2. fragments \in Seq(Chunks) /\ IsPrefix(fragments, Said(Len(answer)))
    BY <1>1, FragmentsAreChunks
  <1>3. tail \in Seq(Chunks)
    <2>1. outcome \in Chunks /\ DoneChunk \in Chunks
      BY <1>1 DEF Chunks
    <2>2. <<outcome>> \in Seq(Chunks) /\ <<outcome, DoneChunk>> \in Seq(Chunks)
      BY <2>1
    <2> QED
      BY <2>2
  <1>4. /\ Len(fragments) \in 0..Len(sent)
        /\ SubSeq(sent, 1, Len(fragments)) = fragments
        /\ SubSeq(sent, Len(fragments) + 1, Len(sent)) = tail
    BY <1>2, <1>3, TakenApart
  <1>5. outcome = Stop => fragments = Said(EventsEnded)
    BY <1>1 DEF StreamInv
  <1> QED
    BY <1>1, <1>2, <1>4, <1>5 DEF OutcomeIsTrue

LEMMA EndedIs ==
    ASSUME StreamInv, NEW fragments, NEW outcome, Ending(fragments, outcome)
    PROVE  /\ Append(fragments, outcome) = fragments \o <<outcome>>
           /\ Append(Append(fragments, outcome), DoneChunk) = fragments \o <<outcome, DoneChunk>>
           /\ Last(Append(fragments, outcome)) = outcome
  <1>1. fragments \in Seq(Chunks) /\ outcome \in Chunks /\ DoneChunk \in Chunks
    BY FragmentsAreChunks DEF Ending, Chunks
  <1>2. Append(fragments, outcome) = fragments \o <<outcome>>
    BY <1>1, AppendIsConcat
  <1>3. PICK s : s = Append(fragments, outcome)
    OBVIOUS
  <1>4. s \in Seq(Chunks) /\ Len(s) = Len(fragments) + 1 /\ s[Len(fragments) + 1] = outcome
    BY <1>1, <1>3, AppendProperties
  <1>5. Append(s, DoneChunk) = s \o <<DoneChunk>>
    BY <1>1, <1>4, AppendIsConcat
  <1>6. (fragments \o <<outcome>>) \o <<DoneChunk>> = fragments \o (<<outcome>> \o <<DoneChunk>>)
    <2>1. <<outcome>> \in Seq(Chunks) /\ <<DoneChunk>> \in Seq(Chunks)
      BY <1>1
    <2> QED
      BY <1>1, <2>1, ConcatAssociative
  <1>7. <<outcome>> \o <<DoneChunk>> = <<outcome, DoneChunk>>
    <2>1. PICK x : x = <<outcome>>
      OBVIOUS
    <2>2. x \in Seq(Chunks) /\ Len(x) = 1 /\ x[1] = outcome
      BY <1>1, <2>1
    <2>3. PICK y : y = Append(x, DoneChunk)
      OBVIOUS
    <2>4. y \in Seq(Chunks) /\ Len(y) = 2 /\ y[1] = outcome /\ y[2] = DoneChunk
      <3>1. /\ y \in Seq(Chunks) /\ Len(y) = Len(x) + 1 /\ y[Len(x) + 1] = DoneChunk
            /\ \A i \in 1..Len(x) : y[i] = x[i]
        <4>1. x \in Seq(Chunks)
          BY <2>2
        <4>2. DoneChunk \in Chunks
          BY <1>1
        <4> QED
          BY <2>3, <4>1, <4>2, AppendProperties
      <3> QED
        BY <2>2, <3>1
    <2>5. y \in Seq(Chunks)
      BY <2>4
    <2>6. y = <<y[1], y[2]>>
      BY <2>4, <2>5
    <2>7. y = x \o <<DoneChunk>>
      BY <1>1, <2>2, <2>3, AppendIsConcat
    <2> QED
      BY <2>1, <2>4, <2>6, <2>7
  <1>8. Last(s) = outcome
    BY <1>4 DEF Last
  <1> QED
    BY <1>2, <1>3, <1>5, <1>6, <1>7, <1>8

(* The text of a reply is a part of the answer, and the whole of it where   *)
(* the reply says "stop" (but for a last event without its blank line); a   *)
(* reply has one outcome at most, one that is over has one, and a streamed  *)
(* one ends in [DONE] even after an error.                                  *)
THEOREM RepliesAreTrue == ProxySpec => []OutcomeIsTrue
  <1>1. ASSUME StreamInv, ProxyInv PROVE OutcomeIsTrue
    <2>1. CASE sent \in {<<>>, out} /\ reply # "over"
      <3>1. sent \in Seq(Chunks) /\ IsPrefix(sent, Said(Len(answer)))
        BY <1>1, <2>1, FragmentsAreChunks
      <3>2. <<>> \in Seq(Chunks) /\ sent = sent \o <<>>
        BY <3>1, ConcatEmptySeq
      <3>3. /\ Len(sent) \in 0..Len(sent)
            /\ SubSeq(sent, 1, Len(sent)) = sent
            /\ SubSeq(sent, Len(sent) + 1, Len(sent)) = <<>>
        BY <3>1, <3>2, TakenApart
      <3> QED
        BY <2>1, <3>1, <3>3 DEF OutcomeIsTrue
    <2>2. CASE Ended /\ (reply = "over" => ~Streamed)
      <3>1. PICK fragments, outcome : Ending(fragments, outcome) /\ sent = Append(fragments, outcome)
        BY <2>2 DEF Ended
      <3>2. sent = fragments \o <<outcome>>
        BY <1>1, <3>1, EndedIs
      <3> QED
        BY <1>1, <2>2, <3>1, <3>2, EndingIsTrue
    <2>3. CASE EndedDone /\ Streamed
      <3>1. PICK fragments, outcome :
                   Ending(fragments, outcome) /\ sent = Append(Append(fragments, outcome), DoneChunk)
        BY <2>3 DEF EndedDone
      <3>2. sent = fragments \o <<outcome, DoneChunk>>
        BY <1>1, <3>1, EndedIs
      <3> QED
        BY <1>1, <2>3, <3>1, <3>2, EndingIsTrue
    <2> QED
      BY <1>1, <2>1, <2>2, <2>3 DEF ProxyInv
  <1> QED
    BY <1>1, ProxyInvariant, PTL

(* The types of the stream and of the reply: what was not read is an end of *)
(* the wire, and a reply whose [DONE] is not sent yet has its outcome last. *)
THEOREM ProxyTypes == ProxySpec => []ProxyTypeOK
  <1>1. ASSUME StreamInv PROVE TypeOK
    <2>1. PICK j : Taken(j)
      BY <1>1 DEF StreamInv
    <2>2. /\ buffer \in Seq(Symbols) /\ arriving \in Seq(Symbols)
          /\ answer \in Seq(AnyKind) /\ style \in Styles /\ Len(answer) \in Nat
      BY <1>1 DEF StreamInv, StreamTypes
    <2>3. PICK rest : rest = buffer \o arriving
      OBVIOUS
    <2>4. rest \in Seq(Symbols)
      BY <2>2, <2>3, ConcatProperties
    <2>5. WireTo(j) \in Seq(Symbols)
      <3>1. j \in 0..Len(answer)
        BY <2>1, <2>2 DEF Taken
      <3> QED
        BY <2>2, <3>1, WireGrows DEF WireTo
    <2>6. Wire(answer, style) = WireTo(j) \o rest
      BY <2>1, <2>3 DEF Taken
    <2>7. IsSuffix(rest, Wire(answer, style))
      BY <2>4, <2>5, <2>6, EndIsSuffix
    <2>8. held # <<>> <=> mode = "holding"
      <3>1. IF mode = "holding" THEN Len(held) = 1 ELSE held = <<>>
        BY <1>1 DEF StreamInv, StreamTypes
      <3>2. Len(held) = 1 => held # <<>>
        OBVIOUS
      <3> QED
        BY <3>1, <3>2
    <2> QED
      BY <1>1, <2>3, <2>7, <2>8 DEF StreamInv, StreamTypes, TypeOK
  <1>2. ASSUME StreamInv, ProxyInv PROVE ProxyTypeOK
    <2>1. ASSUME Ended PROVE Last(sent) \in {Stop, ErrorChunk}
      <3>1. PICK fragments, outcome : Ending(fragments, outcome) /\ sent = Append(fragments, outcome)
        BY <2>1 DEF Ended
      <3>2. Last(sent) = outcome
        BY <1>2, <3>1, EndedIs
      <3> QED
        BY <3>1, <3>2 DEF Ending
    <2> QED
      BY <1>1, <1>2, <2>1 DEF ProxyInv, ProxyTypeOK
  <1> QED
    BY <1>2, ProxyInvariant, PTL
==============================================================================
