----------------------------- MODULE HdlcLinkProofs -----------------------------
(***************************************************************************)
(* Proofs about HdlcLink, for every alphabet, every bodies and all bounds: *)
(* its types, that it implements FrameFifo while no byte is lost, and what *)
(* a lost byte or an expired call costs.                                   *)
(*                                                                         *)
(* The argument: a recursive function is the CHOSEN one that satisfies its *)
(* equation, and an induction over sequences is one over a set of them.    *)
(* With these hdlc_unescape inverts hdlc_escape, and a line that lost no   *)
(* byte has one Form: what is left of a frame, then whole frames, and the  *)
(* frames the reader would be given are those (ScanForm).                  *)
(*                                                                         *)
(* With losses two potentials are counted.  A byte lost spoils the run     *)
(* behind one flag (BadLoss), and a run that is not a body sent is where   *)
(* the one damaged frame comes from (DamageInv).  It also makes one frame  *)
(* unsure (SureLoss); sure frames are returned, or paid for by a fault     *)
(* (MissInv).                                                              *)
(***************************************************************************)
EXTENDS HdlcLink, SequenceTheorems, FiniteSetTheorems, WellFoundedInduction, TLAPS

USE DEF vars

(***************************************************************************)
(* Induction and sequences.                                                *)
(***************************************************************************)

LEMMA Induction ==
  ASSUME NEW S, 0 \in S, \A n \in Nat : n \in S => n + 1 \in S
  PROVE  \A n \in Nat : n \in S
<1> SUFFICES ASSUME NEW m \in Nat, m \notin S PROVE FALSE
  OBVIOUS
<1> DEFINE T == {n \in Nat : n \notin S}
<1>1. PICK k \in T : \A y \in T : ~(<<y, k>> \in OpToRel(<, Nat))
  BY NatLessThanWellFounded, WFMin
<1>2. \A y \in T : ~(y < k)
  BY <1>1 DEF OpToRel
<1>3. k \in Nat /\ k \notin S /\ k # 0
  BY <1>1
<1>4. k - 1 \in Nat /\ k - 1 < k /\ (k - 1) + 1 = k
  BY <1>3
<1> QED BY <1>2, <1>3, <1>4

LEMMA HeadAndTail ==
  ASSUME NEW T, NEW s \in Seq(T), s # <<>>
  PROVE  /\ Head(s) \in T /\ Tail(s) \in Seq(T) /\ Len(s) = Len(Tail(s)) + 1
         /\ s = <<Head(s)>> \o Tail(s)
OBVIOUS

\* Induction over sequences, from the front.
LEMMA SeqInduction ==
  ASSUME NEW T, NEW S, <<>> \in S,
         \A s \in Seq(T) : \A b \in T : s \in S => <<b>> \o s \in S
  PROVE  \A s \in Seq(T) : s \in S
<1> DEFINE N == {n \in Nat : \A s \in Seq(T) : Len(s) = n => s \in S}
<1>1. 0 \in N
  BY EmptySeq
<1>2. ASSUME NEW n \in Nat, n \in N PROVE n + 1 \in N
  <2> SUFFICES ASSUME NEW s \in Seq(T), Len(s) = n + 1 PROVE s \in S
    OBVIOUS
  <2>1. s # <<>>
    OBVIOUS
  <2>2. /\ Head(s) \in T /\ Tail(s) \in Seq(T) /\ Len(s) = Len(Tail(s)) + 1
        /\ s = <<Head(s)>> \o Tail(s)
    BY <2>1, HeadAndTail
  <2>3. Len(Tail(s)) = n
    BY <2>2
  <2>4. Tail(s) \in S
    BY <1>2, <2>2, <2>3
  <2> QED BY <2>2, <2>4
<1>3. \A n \in Nat : n \in N
  <2> HIDE DEF N
  <2> QED BY <1>1, <1>2, Induction
<1> QED BY <1>3

(***************************************************************************)
(* hdlc_unescape: the recursive function is the one that satisfies its     *)
(* equation, and so can be read from the front.                            *)
(***************************************************************************)

PlainAt(w, p, n) ==
  IF n > Len(w) THEN <<>>
  ELSE IF w[n] # HdlcEscape THEN <<w[n]>> \o p[n + 1]
  ELSE IF n = Len(w) THEN <<>>
  ELSE <<Flip[w[n + 1]]>> \o p[n + 2]

PlainOf(w, p) == p = [n \in 1..(Len(w) + 1) |-> PlainAt(w, p, n)]

LEMMA UnescapedIs ==
  ASSUME NEW w
  PROVE  HdlcUnescaped(w) = (CHOOSE p : PlainOf(w, p))[1]
BY DEF HdlcUnescaped, PlainOf, PlainAt

\* The equation has a solution, built from the end of the body.
LEMMA PlainExists ==
  ASSUME NEW w \in Seq(Byte)
  PROVE  \E p \in [1..(Len(w) + 1) -> Seq(Byte)] : PlainOf(w, p)
<1> DEFINE l == Len(w) + 1
           F(k) == [l - k..l -> Seq(Byte)]
           S == {k \in Nat : k < l => \E p \in F(k) : \A n \in l - k..l : p[n] = PlainAt(w, p, n)}
<1>1. Len(w) \in Nat /\ l \in Nat \ {0} /\ \A n \in 1..Len(w) : w[n] \in Byte
  OBVIOUS
<1>2. 0 \in S
  <2> DEFINE p == [n \in l - 0..l |-> <<>>]
  <2>1. p \in F(0) /\ \A n \in l - 0..l : p[n] = <<>> /\ n > Len(w)
    BY <1>1
  <2>2. \A n \in l - 0..l : PlainAt(w, p, n) = <<>>
    BY <2>1 DEF PlainAt
  <2> QED BY <2>1, <2>2
<1>3. ASSUME NEW k \in Nat, k \in S PROVE k + 1 \in S
  <2> SUFFICES ASSUME k + 1 < l
               PROVE  \E q \in F(k + 1) : \A n \in l - (k + 1)..l : q[n] = PlainAt(w, q, n)
    OBVIOUS
  <2>1. PICK p \in F(k) : \A n \in l - k..l : p[n] = PlainAt(w, p, n)
    BY <1>1, <1>3
  <2> DEFINE m == l - (k + 1)
             q == [n \in m..l |-> IF n = m THEN PlainAt(w, p, m) ELSE p[n]]
  <2>2. m \in 1..Len(w) /\ l - k = m + 1 /\ m + 1 <= l /\ l = Len(w) + 1
    BY <1>1
  <2>p. p \in [m + 1..l -> Seq(Byte)]
    BY <2>1, <2>2
  <2> HIDE DEF m, l
  <2>3. PlainAt(w, p, m) \in Seq(Byte)
    <3>1. p[m + 1] \in Seq(Byte) /\ (m # Len(w) => p[m + 2] \in Seq(Byte))
      <4>1. m + 1 \in m + 1..l /\ (m # Len(w) => m + 2 \in m + 1..l)
        BY <1>1, <2>2
      <4> QED BY <2>p, <4>1
    <3>2. w[m] \in Byte /\ (m # Len(w) => Flip[w[m + 1]] \in Byte)
      BY <1>1, <2>2, LinkAssumption
    <3> QED BY <2>2, <3>1, <3>2 DEF PlainAt
  <2>4. q \in [m..l -> Seq(Byte)]
    BY <1>1, <2>2, <2>3
  <2>5. ASSUME NEW n \in m..l PROVE PlainAt(w, q, n) = PlainAt(w, p, n)
    <3>1. n <= Len(w) => q[n + 1] = p[n + 1] /\ (n # Len(w) => q[n + 2] = p[n + 2])
      BY <1>1, <2>2
    <3> QED BY <1>1, <2>2, <3>1 DEF PlainAt
  <2>6. \A n \in m..l : q[n] = PlainAt(w, p, n)
    BY <1>1, <2>1, <2>2
  <2> QED BY <2>4, <2>5, <2>6 DEF m
<1>4. Len(w) \in S
  <2> HIDE DEF S
  <2> QED BY <1>1, <1>2, <1>3, Induction
<1>5. PICK p \in [1..l -> Seq(Byte)] : \A n \in 1..l : p[n] = PlainAt(w, p, n)
  <2>1. l - Len(w) = 1 /\ Len(w) < l
    BY <1>1
  <2> QED BY <1>4, <2>1
<1>6. p = [n \in 1..l |-> PlainAt(w, p, n)]
  BY <1>5
<1> QED BY <1>5, <1>6 DEF PlainOf

\* It has one only.
LEMMA PlainUnique ==
  ASSUME NEW w \in Seq(Byte), NEW p, PlainOf(w, p), NEW q, PlainOf(w, q)
  PROVE  p = q
<1> DEFINE l == Len(w) + 1
           S == {k \in Nat : \A n \in 1..l : n >= l - k => p[n] = q[n]}
<1>1. Len(w) \in Nat /\ l \in Nat \ {0}
  OBVIOUS
<1>2. \A n \in 1..l : p[n] = PlainAt(w, p, n) /\ q[n] = PlainAt(w, q, n)
  BY DEF PlainOf
<1>3. 0 \in S
  <2>1. \A n \in 1..l : n >= l - 0 => n = l /\ n > Len(w)
    BY <1>1
  <2>2. \A n \in 1..l : n > Len(w) => PlainAt(w, p, n) = PlainAt(w, q, n)
    BY DEF PlainAt
  <2> QED BY <1>2, <2>1, <2>2
<1>4. ASSUME NEW k \in Nat, k \in S PROVE k + 1 \in S
  <2> SUFFICES ASSUME NEW n \in 1..l, n = l - (k + 1) PROVE p[n] = q[n]
    BY <1>1, <1>4
  <2>1. n <= Len(w) /\ n + 1 \in 1..l /\ n + 1 >= l - k
        /\ (n # Len(w) => n + 2 \in 1..l /\ n + 2 >= l - k)
    BY <1>1
  <2>2. p[n + 1] = q[n + 1] /\ (n # Len(w) => p[n + 2] = q[n + 2])
    BY <1>4, <2>1
  <2>3. PlainAt(w, p, n) = PlainAt(w, q, n)
    BY <2>1, <2>2 DEF PlainAt
  <2> QED BY <1>2, <2>3
<1>5. l \in S
  <2> HIDE DEF S
  <2> QED BY <1>1, <1>3, <1>4, Induction
<1>6. \A n \in 1..l : p[n] = q[n]
  BY <1>1, <1>5
<1>7. p = [n \in 1..l |-> p[n]] /\ q = [n \in 1..l |-> q[n]]
  BY DEF PlainOf
<1> QED BY <1>6, <1>7

Plain(w) == CHOOSE p : PlainOf(w, p)

LEMMA PlainIs ==
  ASSUME NEW w \in Seq(Byte)
  PROVE  /\ Plain(w) \in [1..(Len(w) + 1) -> Seq(Byte)] /\ PlainOf(w, Plain(w))
         /\ HdlcUnescaped(w) = Plain(w)[1]
<1>1. PICK p \in [1..(Len(w) + 1) -> Seq(Byte)] : PlainOf(w, p)
  BY PlainExists
<1>2. PlainOf(w, Plain(w))
  BY <1>1, Zenon DEF Plain
<1>3. Plain(w) = p
  BY <1>1, <1>2, PlainUnique
<1> QED BY <1>1, <1>2, <1>3, UnescapedIs DEF Plain

LEMMA UnescapedType ==
  ASSUME NEW w \in Seq(Byte)
  PROVE  HdlcUnescaped(w) \in Seq(Byte)
<1>1. 1 \in 1..(Len(w) + 1)
  OBVIOUS
<1> QED BY <1>1, PlainIs

\* Behind the first m bytes it goes on as if the body began there.
LEMMA PlainShift ==
  ASSUME NEW x \in Seq(Byte), NEW s \in Seq(Byte)
  PROVE  HdlcUnescaped(s) = Plain(x \o s)[Len(x) + 1]
<1> DEFINE w == x \o s
           m == Len(x)
           p == Plain(w)
           q == [n \in 1..(Len(s) + 1) |-> p[n + m]]
<1>1. /\ w \in Seq(Byte) /\ Len(w) = m + Len(s) /\ m \in Nat /\ Len(s) \in Nat
      /\ \A n \in 1..Len(s) : w[n + m] = s[n]
  <2>1. /\ w \in Seq(Byte) /\ Len(w) = Len(x) + Len(s)
        /\ \A i \in 1..Len(x) + Len(s) : w[i] = IF i <= Len(x) THEN x[i] ELSE s[i - Len(x)]
    BY ConcatProperties
  <2>2. Len(x) \in Nat /\ Len(s) \in Nat
    OBVIOUS
  <2> HIDE DEF w
  <2>3. ASSUME NEW n \in 1..Len(s) PROVE w[n + m] = s[n]
    <3>1. n + m \in 1..Len(x) + Len(s) /\ ~(n + m <= Len(x)) /\ (n + m) - Len(x) = n
      BY <2>2
    <3> QED BY <2>1, <3>1
  <2> QED BY <2>1, <2>2, <2>3
<1> HIDE DEF w, m
<1>2. \A n \in 1..(Len(w) + 1) : p[n] = PlainAt(w, p, n)
  BY <1>1, PlainIs DEF PlainOf
<1> HIDE DEF p
<1>3. ASSUME NEW n \in 1..(Len(s) + 1) PROVE q[n] = PlainAt(s, q, n)
  <2>0. Len(w) = m + Len(s) /\ m \in Nat /\ Len(s) \in Nat /\ n \in Nat /\ n >= 1 /\ n <= Len(s) + 1
    BY <1>1
  <2>1. n + m \in 1..(Len(w) + 1) /\ (n + m > Len(w) <=> n > Len(s))
        /\ (n + m = Len(w) <=> n = Len(s))
    <3> HIDE DEF q
    <3> QED BY <2>0
  <2>2. n <= Len(s) =>
          /\ n + 1 \in 1..(Len(s) + 1) /\ (n + m) + 1 = (n + 1) + m /\ w[n + m] = s[n]
          /\ n # Len(s) => /\ n + 2 \in 1..(Len(s) + 1) /\ (n + m) + 2 = (n + 2) + m
                           /\ w[(n + m) + 1] = s[n + 1]
    <3> HIDE DEF q
    <3>1. n <= Len(s) => n \in 1..Len(s) /\ (n # Len(s) => n + 1 \in 1..Len(s))
      BY <2>0
    <3>2. (n + 1) + m = (n + m) + 1 /\ (n + m) + 2 = (n + 2) + m
      BY <2>0
    <3>. DEFINE k == n + 1
    <3>5. n <= Len(s) /\ n # Len(s) => w[k + m] = s[k]
      <4> HIDE DEF k
      <4>1. n <= Len(s) /\ n # Len(s) => k \in 1..Len(s)
        BY <3>1 DEF k
      <4> QED BY <1>1, <4>1
    <3>6. n <= Len(s) => w[n + m] = s[n]
      BY <1>1, <3>1
    <3>3. n <= Len(s) => w[n + m] = s[n] /\ (n # Len(s) => w[(n + m) + 1] = s[n + 1])
      BY <3>2, <3>5, <3>6
    <3>4. n <= Len(s) => n + 1 \in 1..(Len(s) + 1) /\ (n # Len(s) => n + 2 \in 1..(Len(s) + 1))
      BY <2>0
    <3> QED BY <3>2, <3>3, <3>4
  <2>3. q[n] = PlainAt(w, p, n + m)
    BY <1>2, <2>1
  <2>4. n <= Len(s) => q[n + 1] = p[(n + m) + 1] /\ (n # Len(s) => q[n + 2] = p[(n + m) + 2])
    BY <2>2
  <2> HIDE DEF q
  <2>5. n > Len(s) \/ n <= Len(s)
    BY <1>1
  <2> QED BY <2>1, <2>2, <2>3, <2>4, <2>5 DEF PlainAt
<1>4. PlainOf(s, q)
  <2>1. q = [n \in 1..(Len(s) + 1) |-> q[n]]
    OBVIOUS
  <2> HIDE DEF q
  <2> QED BY <1>3, <2>1 DEF PlainOf
<1>5. q = Plain(s)
  <2> HIDE DEF q
  <2> QED BY <1>4, PlainIs, PlainUnique
<1>6. 1 \in 1..(Len(s) + 1)
  BY <1>1
<1>7. q[1] = p[1 + m] /\ 1 + m = m + 1
  BY <1>1, <1>6
<1> QED BY <1>5, <1>7, PlainIs DEF w, m, p

\* The body from its front: a plain byte, or an escape and what it stands for.
LEMMA UnescapedStep ==
  ASSUME NEW s \in Seq(Byte), NEW b \in Byte
  PROVE  /\ HdlcUnescaped(<<>>) = <<>>
         /\ b # HdlcEscape => HdlcUnescaped(<<b>> \o s) = <<b>> \o HdlcUnescaped(s)
         /\ HdlcUnescaped(<<HdlcEscape, b>> \o s) = <<Flip[b]>> \o HdlcUnescaped(s)
<1>1. HdlcUnescaped(<<>>) = <<>>
  <2>1. <<>> \in Seq(Byte) /\ 1 \in 1..(Len(<<>>) + 1) /\ 1 > Len(<<>>)
    OBVIOUS
  <2>2. HdlcUnescaped(<<>>) = PlainAt(<<>>, Plain(<<>>), 1)
    BY <2>1, PlainIs DEF PlainOf
  <2> QED BY <2>1, <2>2 DEF PlainAt
<1>2. ASSUME b # HdlcEscape PROVE HdlcUnescaped(<<b>> \o s) = <<b>> \o HdlcUnescaped(s)
  <2> DEFINE w == <<b>> \o s
  <2>1. w \in Seq(Byte) /\ Len(w) \in Nat \ {0} /\ w[1] = b /\ <<b>> \in Seq(Byte) /\ Len(<<b>>) = 1
    OBVIOUS
  <2>2. HdlcUnescaped(s) = Plain(w)[1 + 1]
    BY <2>1, PlainShift
  <2> HIDE DEF w
  <2>3. 1 \in 1..(Len(w) + 1) /\ ~(1 > Len(w))
    BY <2>1
  <2>4. HdlcUnescaped(w) = PlainAt(w, Plain(w), 1)
    BY <2>1, <2>3, PlainIs DEF PlainOf
  <2>5. PlainAt(w, Plain(w), 1) = <<b>> \o Plain(w)[1 + 1]
    BY <1>2, <2>1, <2>3 DEF PlainAt
  <2> QED BY <2>2, <2>4, <2>5 DEF w
<1>3. HdlcUnescaped(<<HdlcEscape, b>> \o s) = <<Flip[b]>> \o HdlcUnescaped(s)
  <2> DEFINE x == <<HdlcEscape, b>>
             w == x \o s
  <2>1. /\ HdlcEscape \in Byte /\ x \in Seq(Byte) /\ Len(x) = 2
        /\ w \in Seq(Byte) /\ Len(w) \in Nat /\ Len(w) >= 2 /\ w[1] = HdlcEscape /\ w[2] = b
    BY LinkAssumption
  <2> HIDE DEF x
  <2>2. HdlcUnescaped(s) = Plain(w)[2 + 1]
    BY <2>1, PlainShift
  <2> HIDE DEF w
  <2>3. 1 \in 1..(Len(w) + 1) /\ ~(1 > Len(w)) /\ 1 # Len(w) /\ 1 + 1 = 2 /\ 1 + 2 = 2 + 1
    BY <2>1
  <2>4. HdlcUnescaped(w) = PlainAt(w, Plain(w), 1)
    BY <2>1, <2>3, PlainIs DEF PlainOf
  <2>5. PlainAt(w, Plain(w), 1) = <<Flip[b]>> \o Plain(w)[2 + 1]
    BY <2>1, <2>3 DEF PlainAt
  <2> QED BY <2>2, <2>4, <2>5 DEF w, x
<1> QED BY <1>1, <1>2, <1>3

(***************************************************************************)
(* FlattenSeq, with which hdlc_escape and the line are put together.       *)
(***************************************************************************)

FlatAt(ss, e, i) == IF i = 1 THEN ss[i] ELSE e[i - 1] \o ss[i]

FlatOf(ss, e) == e = [i \in 1..Len(ss) |-> FlatAt(ss, e, i)]

Flat(ss) == CHOOSE e : FlatOf(ss, e)

LEMMA FlattenIs ==
  ASSUME NEW ss
  PROVE  FlattenSeq(ss) = IF Len(ss) = 0 THEN ss ELSE Flat(ss)[Len(ss)]
BY DEF FlattenSeq, Flat, FlatOf, FlatAt

LEMMA FlatExists ==
  ASSUME NEW T, NEW ss \in Seq(Seq(T))
  PROVE  \E e \in [1..Len(ss) -> Seq(T)] : FlatOf(ss, e)
<1> DEFINE F(k) == [1..k -> Seq(T)]
           P(k) == \E e \in F(k) : \A i \in 1..k : e[i] = FlatAt(ss, e, i)
           S == {k \in Nat : k <= Len(ss) => P(k)}
<1>1. Len(ss) \in Nat /\ \A i \in 1..Len(ss) : ss[i] \in Seq(T)
  OBVIOUS
<1>2. 0 \in S
  <2> DEFINE e == [i \in 1..0 |-> <<>>]
  <2>1. e \in F(0) /\ \A i \in 1..0 : e[i] = FlatAt(ss, e, i)
    OBVIOUS
  <2> QED BY <2>1
<1>3. ASSUME NEW k \in Nat, k \in S PROVE k + 1 \in S
  <2> SUFFICES ASSUME k + 1 <= Len(ss) PROVE P(k + 1)
    <3> HIDE DEF P
    <3> QED OBVIOUS
  <2>0. P(k)
    <3> HIDE DEF P
    <3> QED BY <1>1, <1>3
  <2>1. PICK e \in F(k) : \A i \in 1..k : e[i] = FlatAt(ss, e, i)
    BY <2>0
  <2> DEFINE q == [i \in 1..(k + 1) |-> IF i = k + 1 THEN FlatAt(ss, e, k + 1) ELSE e[i]]
  <2>2. FlatAt(ss, e, k + 1) \in Seq(T)
    <3>1. ss[k + 1] \in Seq(T) /\ (k + 1 # 1 => e[(k + 1) - 1] \in Seq(T))
      BY <1>1, <2>1
    <3> QED BY <3>1, ConcatProperties DEF FlatAt
  <2>3. q \in F(k + 1)
    BY <2>2, <2>1
  <2>4. ASSUME NEW i \in 1..(k + 1) PROVE FlatAt(ss, q, i) = FlatAt(ss, e, i)
    <3>1. i # 1 => q[i - 1] = e[i - 1]
      OBVIOUS
    <3> QED BY <3>1 DEF FlatAt
  <2>5. \A i \in 1..(k + 1) : q[i] = FlatAt(ss, e, i)
    BY <2>1
  <2> HIDE DEF q, F
  <2> QED BY <2>3, <2>4, <2>5
<1>4. Len(ss) \in S
  <2> HIDE DEF S
  <2> QED BY <1>1, <1>2, <1>3, Induction
<1>5. PICK e \in F(Len(ss)) : \A i \in 1..Len(ss) : e[i] = FlatAt(ss, e, i)
  BY <1>4
<1>6. e = [i \in 1..Len(ss) |-> FlatAt(ss, e, i)]
  BY <1>5
<1> QED BY <1>5, <1>6 DEF FlatOf

LEMMA FlatUnique ==
  ASSUME NEW T, NEW ss \in Seq(Seq(T)), NEW p, FlatOf(ss, p), NEW q, FlatOf(ss, q)
  PROVE  p = q
<1> DEFINE S == {k \in Nat : \A i \in 1..Len(ss) : i <= k => p[i] = q[i]}
<1>1. Len(ss) \in Nat
  OBVIOUS
<1>2. \A i \in 1..Len(ss) : p[i] = FlatAt(ss, p, i) /\ q[i] = FlatAt(ss, q, i)
  BY DEF FlatOf
<1>3. 0 \in S
  OBVIOUS
<1>4. ASSUME NEW k \in Nat, k \in S PROVE k + 1 \in S
  <2> SUFFICES ASSUME NEW i \in 1..Len(ss), i = k + 1 PROVE p[i] = q[i]
    <3>1. \A i \in 1..Len(ss) : i <= k + 1 => i <= k \/ i = k + 1
      BY <1>1
    <3> QED BY <1>4, <3>1
  <2>1. i # 1 => p[i - 1] = q[i - 1]
    <3>1. i # 1 => i - 1 \in 1..Len(ss) /\ i - 1 <= k
      BY <1>1
    <3> QED BY <1>4, <3>1
  <2>2. FlatAt(ss, p, i) = FlatAt(ss, q, i)
    BY <2>1 DEF FlatAt
  <2> QED BY <1>2, <2>2
<1>5. Len(ss) \in S
  <2> HIDE DEF S
  <2> QED BY <1>1, <1>3, <1>4, Induction
<1>6. \A i \in 1..Len(ss) : p[i] = q[i]
  BY <1>1, <1>5
<1>7. p = [i \in 1..Len(ss) |-> p[i]] /\ q = [i \in 1..Len(ss) |-> q[i]]
  BY DEF FlatOf
<1> QED BY <1>6, <1>7

LEMMA FlatIs ==
  ASSUME NEW T, NEW ss \in Seq(Seq(T))
  PROVE  Flat(ss) \in [1..Len(ss) -> Seq(T)] /\ FlatOf(ss, Flat(ss))
<1>1. PICK e \in [1..Len(ss) -> Seq(T)] : FlatOf(ss, e)
  BY FlatExists
<1>2. FlatOf(ss, Flat(ss))
  BY <1>1, Zenon DEF Flat
<1>3. Flat(ss) = e
  BY <1>1, <1>2, FlatUnique
<1> QED BY <1>1, <1>2, <1>3

LEMMA FlattenType ==
  ASSUME NEW T, NEW ss \in Seq(Seq(T))
  PROVE  FlattenSeq(ss) \in Seq(T)
<1>1. Len(ss) \in Nat /\ (Len(ss) = 0 => ss = <<>>) /\ <<>> \in Seq(T)
  OBVIOUS
<1>2. Len(ss) # 0 => Len(ss) \in 1..Len(ss)
  BY <1>1
<1> QED BY <1>1, <1>2, FlattenIs, FlatIs

\* One more at the end.
LEMMA FlattenAppend ==
  ASSUME NEW T, NEW ss \in Seq(Seq(T)), NEW x \in Seq(T)
  PROVE  FlattenSeq(Append(ss, x)) = FlattenSeq(ss) \o x
<1> DEFINE t == Append(ss, x)
           l == Len(ss)
           p == Flat(t)
           q == [i \in 1..l |-> p[i]]
<1>1. /\ t \in Seq(Seq(T)) /\ Len(t) = l + 1 /\ l \in Nat
      /\ t[l + 1] = x /\ \A i \in 1..l : t[i] = ss[i]
  BY AppendProperties
<1> HIDE DEF t
<1>2. \A i \in 1..(l + 1) : p[i] = FlatAt(t, p, i)
  BY <1>1, FlatIs DEF FlatOf
<1> HIDE DEF p
<1>3. q = Flat(ss)
  <2>1. ASSUME NEW i \in 1..l PROVE q[i] = FlatAt(ss, q, i)
    <3>1. i \in 1..(l + 1) /\ (i # 1 => i - 1 \in 1..l)
      BY <1>1
    <3>2. q[i] = p[i] /\ (i # 1 => q[i - 1] = p[i - 1]) /\ t[i] = ss[i]
      BY <1>1, <3>1
    <3> QED BY <1>2, <3>1, <3>2 DEF FlatAt
  <2>2. q = [i \in 1..l |-> q[i]]
    OBVIOUS
  <2> HIDE DEF q
  <2>3. FlatOf(ss, q)
    BY <2>1, <2>2 DEF FlatOf
  <2> QED BY <2>3, FlatIs, FlatUnique
<1>4. FlattenSeq(t) = FlatAt(t, p, l + 1)
  <2>1. l + 1 \in 1..(l + 1) /\ l + 1 # 0
    BY <1>1
  <2> QED BY <1>1, <1>2, <2>1, FlattenIs DEF p
<1>5. CASE l = 0
  <2>1. ss = <<>> /\ FlattenSeq(ss) = <<>>
    BY <1>5, FlattenIs
  <2>2. FlattenSeq(t) = x
    BY <1>1, <1>4, <1>5 DEF FlatAt
  <2> QED BY <2>1, <2>2, ConcatEmptySeq DEF t
<1>6. CASE l # 0
  <2>1. l + 1 # 1 /\ (l + 1) - 1 = l /\ l \in 1..l
    BY <1>1, <1>6
  <2>2. FlattenSeq(ss) = p[l]
    BY <1>3, <1>6, <2>1, FlattenIs
  <2>3. FlattenSeq(t) = p[(l + 1) - 1] \o x
    BY <1>1, <1>4, <2>1 DEF FlatAt
  <2> QED BY <2>1, <2>2, <2>3 DEF t
<1> QED BY <1>5, <1>6

\* One more in front.
LEMMA FlattenCons ==
  ASSUME NEW T, NEW ss \in Seq(Seq(T)), NEW x \in Seq(T)
  PROVE  FlattenSeq(<<x>> \o ss) = x \o FlattenSeq(ss)
<1> DEFINE t == <<x>> \o ss
           l == Len(ss)
           p == Flat(ss)
           q == [i \in 1..(l + 1) |-> IF i = 1 THEN x ELSE x \o p[i - 1]]
<1>1. /\ t \in Seq(Seq(T)) /\ Len(t) = l + 1 /\ l \in Nat /\ t[1] = x
      /\ \A i \in 1..(l + 1) : i # 1 => t[i] = ss[i - 1]
  OBVIOUS
<1> HIDE DEF t
<1>2. p \in [1..l -> Seq(T)] /\ \A i \in 1..l : p[i] = FlatAt(ss, p, i)
  BY FlatIs DEF FlatOf
<1> HIDE DEF p
<1>8. \A i \in 1..l : p[i] \in Seq(T) /\ ss[i] \in Seq(T)
  <2> DEFINE U == Seq(T)
  <2>1. p \in [1..l -> U] /\ ss \in Seq(U)
    BY <1>2
  <2> HIDE DEF U
  <2>2. \A i \in 1..l : p[i] \in U /\ ss[i] \in U
    BY <2>1
  <2> QED BY <2>2 DEF U
<1>3. q = Flat(t)
  <2>1. ASSUME NEW i \in 1..(l + 1) PROVE q[i] = FlatAt(t, q, i)
    <3>1. CASE i = 1
      BY <1>1, <3>1 DEF FlatAt
    <3>2. CASE i = 2
      <4>1. q[2] = x \o p[1] /\ q[1] = x /\ 1 \in 1..l /\ t[2] = ss[1] /\ 2 - 1 = 1
        BY <1>1, <3>2
      <4>2. p[1] = ss[1]
        BY <1>2, <4>1 DEF FlatAt
      <4>3. FlatAt(t, q, 2) = q[2 - 1] \o t[2]
        BY DEF FlatAt
      <4> HIDE DEF q
      <4> QED BY <3>2, <4>1, <4>2, <4>3
    <3>3. CASE i > 2
      <4> DEFINE j == i - 1
      <4>1. j \in 1..l /\ j # 1 /\ j - 1 \in 1..l /\ j \in 1..(l + 1) /\ i # 1
        BY <1>1, <3>3
      <4>2. q[i] = x \o p[j] /\ t[i] = ss[j]
        BY <1>1, <3>3, <4>1
      <4>7. q[j] = x \o p[j - 1]
        <5> HIDE DEF j
        <5> QED BY <4>1
      <4>3. p[j] = p[j - 1] \o ss[j]
        <5> HIDE DEF j
        <5> QED BY <1>2, <4>1 DEF FlatAt
      <4>4. FlatAt(t, q, i) = q[j] \o t[i]
        <5> HIDE DEF q
        <5> QED BY <4>1 DEF FlatAt
      <4>5. p[j - 1] \in Seq(T) /\ ss[j] \in Seq(T)
        BY <1>8, <4>1
      <4> HIDE DEF q, j
      <4>6. (x \o p[j - 1]) \o ss[j] = x \o (p[j - 1] \o ss[j])
        <5> DEFINE y == p[j - 1]
                   z == ss[j]
        <5>1. y \in Seq(T) /\ z \in Seq(T)
          BY <4>5
        <5> HIDE DEF y, z
        <5>2. (x \o y) \o z = x \o (y \o z)
          BY <5>1, ConcatAssociative
        <5> QED BY <5>2 DEF y, z
      <4> QED BY <4>2, <4>3, <4>4, <4>6, <4>7
    <3> QED BY <1>1, <3>1, <3>2, <3>3
  <2>2. q = [i \in 1..(l + 1) |-> q[i]]
    OBVIOUS
  <2> HIDE DEF q
  <2>3. FlatOf(t, q)
    BY <1>1, <2>1, <2>2 DEF FlatOf
  <2> QED BY <1>1, <2>3, FlatIs, FlatUnique
<1>4. FlattenSeq(t) = q[l + 1]
  <2>1. l + 1 # 0
    BY <1>1
  <2> HIDE DEF q
  <2> QED BY <1>1, <1>3, <2>1, FlattenIs
<1>5. l + 1 \in 1..(l + 1)
  BY <1>1
<1>6. CASE l = 0
  <2>1. ss = <<>> /\ FlattenSeq(ss) = <<>>
    BY <1>6, FlattenIs
  <2> QED BY <1>4, <1>5, <1>6, <2>1, ConcatEmptySeq DEF t
<1>7. CASE l # 0
  <2>1. FlattenSeq(ss) = p[l]
    BY <1>7, FlattenIs DEF p
  <2>2. q[l + 1] = x \o p[l]
    BY <1>1, <1>5, <1>7
  <2> QED BY <1>4, <2>1, <2>2 DEF t
<1> QED BY <1>6, <1>7

(***************************************************************************)
(* hdlc_escape, and back.                                                  *)
(***************************************************************************)

EscapedByte(b) == IF b \in {HdlcFlag, HdlcEscape} THEN <<HdlcEscape, Flip[b]>> ELSE <<b>>

NoFlag == Byte \ {HdlcFlag}

LEMMA EscapedByteType ==
  ASSUME NEW b \in Byte
  PROVE  EscapedByte(b) \in Seq(NoFlag) /\ EscapedByte(b) \in Seq(Byte) /\ EscapedByte(b) # <<>>
<1>1. CASE b \in {HdlcFlag, HdlcEscape}
  <2>1. HdlcEscape \in NoFlag /\ Flip[b] \in NoFlag /\ NoFlag \subseteq Byte
    BY <1>1, LinkAssumption DEF NoFlag
  <2>2. EscapedByte(b) = <<HdlcEscape, Flip[b]>>
    BY <1>1 DEF EscapedByte
  <2> QED BY <2>1, <2>2
<1>2. CASE b \notin {HdlcFlag, HdlcEscape}
  <2>1. b \in NoFlag
    BY <1>2 DEF NoFlag
  <2>2. EscapedByte(b) = <<b>>
    BY <1>2 DEF EscapedByte
  <2> QED BY <2>1, <2>2
<1> QED BY <1>1, <1>2

LEMMA EscapedStep ==
  /\ HdlcEscaped(<<>>) = <<>>
  /\ \A s \in Seq(Byte) : \A b \in Byte :
       HdlcEscaped(<<b>> \o s) = EscapedByte(b) \o HdlcEscaped(s)
<1> DEFINE M(f) == [i \in 1..Len(f) |-> EscapedByte(f[i])]
<1>1. \A f : HdlcEscaped(f) = FlattenSeq(M(f))
  BY DEF HdlcEscaped, EscapedByte
<1>2. HdlcEscaped(<<>>) = <<>>
  <2>1. M(<<>>) = <<>>
    OBVIOUS
  <2> QED BY <1>1, <2>1, FlattenIs
<1>3. ASSUME NEW s \in Seq(Byte), NEW b \in Byte
      PROVE  HdlcEscaped(<<b>> \o s) = EscapedByte(b) \o HdlcEscaped(s)
  <2>1. \A i \in 1..Len(s) : EscapedByte(s[i]) \in Seq(NoFlag)
    BY EscapedByteType
  <2>2. M(s) \in Seq(Seq(NoFlag))
    <3> DEFINE U == Seq(NoFlag)
    <3>1. Len(s) \in Nat /\ \A i \in 1..Len(s) : EscapedByte(s[i]) \in U
      BY <2>1
    <3> HIDE DEF U
    <3>2. M(s) \in Seq(U)
      BY <3>1
    <3> QED BY <3>2 DEF U
  <2>3. M(<<b>> \o s) = <<EscapedByte(b)>> \o M(s)
    <3> DEFINE t == <<b>> \o s
               m == M(s)
    <3>1. /\ Len(t) = Len(s) + 1 /\ Len(s) \in Nat /\ t[1] = b
          /\ \A i \in 1..(Len(s) + 1) : i # 1 => t[i] = s[i - 1]
      OBVIOUS
    <3>2. /\ m \in Seq(Seq(NoFlag)) /\ Len(m) = Len(s)
          /\ \A i \in 1..Len(s) : m[i] = EscapedByte(s[i])
      BY <2>2, <3>1
    <3> HIDE DEF t, m
    <3> DEFINE y == EscapedByte(b)
               z == <<y>> \o m
    <3>3. /\ y \in Seq(NoFlag) /\ z \in Seq(Seq(NoFlag)) /\ Len(z) = Len(s) + 1 /\ z[1] = y
          /\ \A i \in 1..(Len(s) + 1) : i # 1 => z[i] = m[i - 1]
      <4>1. y \in Seq(NoFlag)
        BY EscapedByteType
      <4> HIDE DEF y
      <4> QED BY <3>2, <4>1
    <3> HIDE DEF z
    <3>4. ASSUME NEW i \in 1..(Len(s) + 1) PROVE M(t)[i] = z[i]
      <4>1. CASE i = 1
        BY <3>1, <3>3, <4>1
      <4>2. CASE i # 1
        <5>1. i - 1 \in 1..Len(s) /\ t[i] = s[i - 1] /\ z[i] = m[i - 1]
          BY <3>1, <3>3, <4>2
        <5> QED BY <3>1, <3>2, <5>1
      <4> QED BY <4>1, <4>2
    <3>5. M(t) = [i \in 1..(Len(s) + 1) |-> M(t)[i]] /\ z = [i \in 1..(Len(s) + 1) |-> z[i]]
      BY <3>1, <3>3
    <3>6. M(t) = z
      <4> HIDE DEF M
      <4> QED BY <3>4, <3>5
    <3> QED BY <3>6 DEF t, z, m
  <2> HIDE DEF M
  <2> QED BY <1>1, <2>2, <2>3, EscapedByteType, FlattenCons
<1> QED BY <1>2, <1>3

\* No flag is left in an escaped body, and none vanishes.
LEMMA EscapedType ==
  ASSUME NEW f \in Seq(Byte)
  PROVE  /\ HdlcEscaped(f) \in Seq(NoFlag) /\ HdlcEscaped(f) \in Seq(Byte)
         /\ f # <<>> => HdlcEscaped(f) # <<>>
<1> DEFINE S == {s \in Seq(Byte) : /\ HdlcEscaped(s) \in Seq(NoFlag)
                                   /\ s # <<>> => HdlcEscaped(s) # <<>>}
<1>1. <<>> \in S
  <2>1. <<>> \in Seq(Byte) /\ <<>> \in Seq(NoFlag)
    OBVIOUS
  <2> QED BY <2>1, EscapedStep
<1>2. ASSUME NEW s \in Seq(Byte), NEW b \in Byte, s \in S PROVE <<b>> \o s \in S
  <2> DEFINE x == EscapedByte(b)
             y == HdlcEscaped(s)
  <2>1. x \in Seq(NoFlag) /\ x # <<>> /\ y \in Seq(NoFlag)
    BY <1>2, EscapedByteType
  <2>2. HdlcEscaped(<<b>> \o s) = x \o y
    BY EscapedStep, Zenon
  <2>4. <<b>> \o s \in Seq(Byte)
    OBVIOUS
  <2> HIDE DEF x, y
  <2>3. x \o y \in Seq(NoFlag) /\ x \o y # <<>>
    BY <2>1, ConcatProperties, ConcatEqualIffEmpty
  <2> QED BY <2>2, <2>3, <2>4
<1>3. \A s \in Seq(Byte) : s \in S
  <2> HIDE DEF S
  <2> QED BY <1>1, <1>2, SeqInduction
<1>4. NoFlag \subseteq Byte
  BY DEF NoFlag
<1> QED BY <1>3, <1>4, SeqMonotonic

\* What hdlc_escape writes hdlc_unescape reads back, for every body of any
\* length and every alphabet in which Flip is its own inverse.
\* protocol.py:124-147
THEOREM EscapeRoundTrip ==
  ASSUME NEW f \in Seq(Byte)
  PROVE  HdlcUnescaped(HdlcEscaped(f)) = f
<1> DEFINE S == {s \in Seq(Byte) : HdlcUnescaped(HdlcEscaped(s)) = s}
<1>1. <<>> \in S
  <2>1. HdlcEscape \in Byte /\ <<>> \in Seq(Byte)
    BY LinkAssumption
  <2> QED BY <2>1, EscapedStep, UnescapedStep
<1>2. ASSUME NEW s \in Seq(Byte), NEW b \in Byte, s \in S PROVE <<b>> \o s \in S
  <2> DEFINE y == HdlcEscaped(s)
  <2>1. y \in Seq(Byte) /\ HdlcUnescaped(y) = s
    BY <1>2, EscapedType
  <2>2. HdlcEscaped(<<b>> \o s) = EscapedByte(b) \o y
    BY EscapedStep, Zenon
  <2>5. <<b>> \o s \in Seq(Byte)
    OBVIOUS
  <2> HIDE DEF y
  <2>3. CASE b \in {HdlcFlag, HdlcEscape}
    <3>1. Flip[b] \in Byte /\ Flip[Flip[b]] = b
      BY LinkAssumption
    <3>2. HdlcUnescaped(<<HdlcEscape, Flip[b]>> \o y) = <<Flip[Flip[b]]>> \o HdlcUnescaped(y)
      BY <2>1, <3>1, UnescapedStep
    <3> QED BY <2>1, <2>2, <2>3, <2>5, <3>1, <3>2 DEF EscapedByte
  <2>4. CASE b \notin {HdlcFlag, HdlcEscape}
    <3>1. HdlcUnescaped(<<b>> \o y) = <<b>> \o HdlcUnescaped(y)
      BY <2>1, <2>4, UnescapedStep
    <3> QED BY <2>1, <2>2, <2>4, <2>5, <3>1 DEF EscapedByte
  <2> QED BY <2>3, <2>4
<1>3. \A s \in Seq(Byte) : s \in S
  <2> HIDE DEF S
  <2> QED BY <1>1, <1>2, SeqInduction
<1> QED BY <1>3

(***************************************************************************)
(* FramesIn, which is read from the front as well.                         *)
(***************************************************************************)

Ends(w, n) == {i \in (n + 1)..Len(w) : w[i] = HdlcFlag}

ScanAt(w, fr, n) ==
  IF n > Len(w) THEN <<>>
  ELSE IF w[n] # HdlcFlag \/ n + 1 \in Ends(w, n) THEN fr[n + 1]
  ELSE IF Ends(w, n) = {} THEN <<>>
  ELSE <<HdlcUnescaped(SubSeq(w, n + 1, Min(Ends(w, n)) - 1))>> \o fr[Min(Ends(w, n)) + 1]

ScanOf(w, fr) == fr = [n \in 1..(Len(w) + 1) |-> ScanAt(w, fr, n)]

Scan(w) == CHOOSE fr : ScanOf(w, fr)

LEMMA FramesInIs ==
  ASSUME NEW w
  PROVE  FramesIn(w) = Scan(w)[1]
BY DEF FramesIn, Scan, ScanOf, ScanAt, Ends

\* The least of a set of numbers.
LEMMA MinIs ==
  ASSUME NEW T, T \subseteq Nat, T # {}
  PROVE  Min(T) \in T /\ \A y \in T : Min(T) <= y
<1>1. PICK k \in T : \A y \in T : ~(<<y, k>> \in OpToRel(<, Nat))
  BY NatLessThanWellFounded, WFMin
<1>2. \A y \in T : ~(y < k)
  BY <1>1 DEF OpToRel
<1>3. \A y \in T : k <= y
  BY <1>2
<1> QED BY <1>3 DEF Min

LEMMA EndsIs ==
  ASSUME NEW w \in Seq(Byte), NEW n \in 1..Len(w), Ends(w, n) # {}
  PROVE  /\ Min(Ends(w, n)) \in (n + 1)..Len(w) /\ w[Min(Ends(w, n))] = HdlcFlag
         /\ SubSeq(w, n + 1, Min(Ends(w, n)) - 1) \in Seq(Byte)
<1> DEFINE e == Min(Ends(w, n))
<1>1. Len(w) \in Nat /\ \A i \in 1..Len(w) : w[i] \in Byte
  OBVIOUS
<1>2. Ends(w, n) \subseteq Nat
  BY <1>1 DEF Ends
<1>3. e \in (n + 1)..Len(w) /\ w[e] = HdlcFlag
  <2>1. e \in Ends(w, n)
    BY <1>2, MinIs
  <2> HIDE DEF e
  <2> QED BY <2>1 DEF Ends
<1> HIDE DEF e
<1>4. \A i \in n + 1..e - 1 : w[i] \in Byte
  BY <1>1, <1>3
<1>5. SubSeq(w, n + 1, e - 1) \in Seq(Byte)
  <2>1. n + 1 \in Int /\ e - 1 \in Int
    BY <1>1, <1>3
  <2> QED BY <1>4, <2>1, SubSeqProperties
<1> QED BY <1>3, <1>5 DEF e

LEMMA ScanType ==
  ASSUME NEW w \in Seq(Byte), NEW n \in 1..(Len(w) + 1), NEW fr,
         \A i \in (n + 1)..(Len(w) + 1) : fr[i] \in Seq(Seq(Byte))
  PROVE  ScanAt(w, fr, n) \in Seq(Seq(Byte))
<1> DEFINE e == Min(Ends(w, n))
           x == HdlcUnescaped(SubSeq(w, n + 1, e - 1))
<1>1. Len(w) \in Nat
  OBVIOUS
<1>2. n <= Len(w) => n + 1 \in (n + 1)..(Len(w) + 1)
  BY <1>1
<1>3. CASE n > Len(w)
  BY <1>3 DEF ScanAt
<1>4. CASE n <= Len(w) /\ Ends(w, n) # {}
  <2>1. e \in (n + 1)..Len(w) /\ x \in Seq(Byte)
    <3>1. n \in 1..Len(w)
      BY <1>4
    <3> QED BY <1>4, <3>1, EndsIs, UnescapedType
  <2> HIDE DEF e, x
  <2>2. e + 1 \in (n + 1)..(Len(w) + 1)
    BY <1>1, <2>1
  <2>3. fr[e + 1] \in Seq(Seq(Byte)) /\ <<x>> \in Seq(Seq(Byte))
    BY <2>1, <2>2
  <2>4. <<x>> \o fr[e + 1] \in Seq(Seq(Byte))
    BY <2>3, ConcatProperties
  <2> QED BY <1>2, <1>4, <2>4 DEF ScanAt, e, x
<1>5. CASE n <= Len(w) /\ Ends(w, n) = {}
  BY <1>2, <1>5 DEF ScanAt
<1> QED BY <1>1, <1>3, <1>4, <1>5

\* Only what comes later counts.
LEMMA ScanLocal ==
  ASSUME NEW w \in Seq(Byte), NEW n \in 1..(Len(w) + 1), NEW p, NEW q,
         \A i \in (n + 1)..(Len(w) + 1) : p[i] = q[i]
  PROVE  ScanAt(w, p, n) = ScanAt(w, q, n)
<1> DEFINE e == Min(Ends(w, n))
<1>1. Len(w) \in Nat
  OBVIOUS
<1>2. n <= Len(w) => n + 1 \in (n + 1)..(Len(w) + 1)
  BY <1>1
<1>3. CASE n > Len(w)
  BY <1>3 DEF ScanAt
<1>4. CASE n <= Len(w) /\ Ends(w, n) # {}
  <2>1. e \in (n + 1)..Len(w)
    <3>1. n \in 1..Len(w)
      BY <1>4
    <3> QED BY <1>4, <3>1, EndsIs
  <2> HIDE DEF e
  <2>2. e + 1 \in (n + 1)..(Len(w) + 1)
    BY <1>1, <2>1
  <2>3. p[e + 1] = q[e + 1]
    BY <2>2
  <2> QED BY <1>2, <1>4, <2>3 DEF ScanAt, e
<1>5. CASE n <= Len(w) /\ Ends(w, n) = {}
  BY <1>2, <1>5 DEF ScanAt
<1> QED BY <1>1, <1>3, <1>4, <1>5

LEMMA ScanExists ==
  ASSUME NEW w \in Seq(Byte)
  PROVE  \E fr \in [1..(Len(w) + 1) -> Seq(Seq(Byte))] : ScanOf(w, fr)
<1> DEFINE V == Seq(Seq(Byte))
           l == Len(w) + 1
           P(m) == \E p \in [m..l -> V] : \A n \in m..l : p[n] = ScanAt(w, p, n)
           S == {k \in Nat : k < l => P(l - k)}
<1>1. Len(w) \in Nat /\ l \in Nat \ {0}
  OBVIOUS
<1>2. 0 \in S
  <2> DEFINE p == [n \in l..l |-> <<>>]
  <2>1. p \in [l..l -> V] /\ \A n \in l..l : p[n] = <<>> /\ n > Len(w)
    BY <1>1
  <2>2. \A n \in l..l : ScanAt(w, p, n) = <<>>
    BY <2>1 DEF ScanAt
  <2>3. l - 0 = l
    BY <1>1
  <2> QED BY <2>1, <2>2, <2>3
<1>3. ASSUME NEW k \in Nat, k \in S PROVE k + 1 \in S
  <2> DEFINE m == l - (k + 1)
  <2> SUFFICES ASSUME k + 1 < l PROVE P(m)
    <3> HIDE DEF P
    <3> QED OBVIOUS
  <2>1. m \in 1..Len(w) /\ l - k = m + 1 /\ m + 1 <= l /\ l = Len(w) + 1 /\ k < l
    BY <1>1
  <2>0. P(m + 1)
    <3> HIDE DEF P
    <3> QED BY <1>1, <1>3, <2>1
  <2> HIDE DEF m, l
  <2>2. PICK p \in [m + 1..l -> V] : \A n \in m + 1..l : p[n] = ScanAt(w, p, n)
    BY <2>0
  <2> DEFINE q == [n \in m..l |-> IF n = m THEN ScanAt(w, p, m) ELSE p[n]]
  <2>3. ScanAt(w, p, m) \in V
    <3>1. \A i \in (m + 1)..(Len(w) + 1) : p[i] \in V
      <4> HIDE DEF V
      <4> QED BY <2>1, <2>2
    <3>2. m \in 1..(Len(w) + 1)
      BY <2>1
    <3> QED BY <3>1, <3>2, ScanType
  <2> HIDE DEF V
  <2>4. q \in [m..l -> V]
    BY <1>1, <2>1, <2>2, <2>3
  <2>5. ASSUME NEW n \in m..l PROVE q[n] = ScanAt(w, q, n)
    <3>1. \A i \in (n + 1)..(Len(w) + 1) : p[i] = q[i]
      BY <1>1, <2>1
    <3>2. n \in 1..(Len(w) + 1)
      BY <1>1, <2>1
    <3>3. q[n] = ScanAt(w, p, n)
      BY <1>1, <2>1, <2>2
    <3> HIDE DEF q
    <3> QED BY <3>1, <3>2, <3>3, ScanLocal
  <2> HIDE DEF q
  <2> QED BY <2>4, <2>5
<1>4. Len(w) \in S
  <2> HIDE DEF S
  <2> QED BY <1>1, <1>2, <1>3, Induction
<1>5. P(1)
  <2>1. l - Len(w) = 1 /\ Len(w) < l
    BY <1>1
  <2> HIDE DEF P
  <2> QED BY <1>4, <2>1
<1>6. PICK p \in [1..l -> V] : \A n \in 1..l : p[n] = ScanAt(w, p, n)
  BY <1>5
<1>7. p = [n \in 1..l |-> ScanAt(w, p, n)]
  BY <1>6
<1> QED BY <1>6, <1>7 DEF ScanOf

LEMMA ScanUnique ==
  ASSUME NEW w \in Seq(Byte), NEW p, ScanOf(w, p), NEW q, ScanOf(w, q)
  PROVE  p = q
<1> DEFINE l == Len(w) + 1
           S == {k \in Nat : \A n \in 1..l : n > l - k => p[n] = q[n]}
<1>1. Len(w) \in Nat /\ l \in Nat \ {0}
  OBVIOUS
<1>2. \A n \in 1..l : p[n] = ScanAt(w, p, n) /\ q[n] = ScanAt(w, q, n)
  BY DEF ScanOf
<1>3. 0 \in S
  BY <1>1
<1>4. ASSUME NEW k \in Nat, k \in S PROVE k + 1 \in S
  <2> SUFFICES ASSUME NEW n \in 1..l, n = l - k PROVE p[n] = q[n]
    <3>1. \A n \in 1..l : n > l - (k + 1) => n > l - k \/ n = l - k
      BY <1>1
    <3> QED BY <1>4, <3>1
  <2>1. \A i \in (n + 1)..(Len(w) + 1) : p[i] = q[i]
    <3>1. \A i \in (n + 1)..(Len(w) + 1) : i \in 1..l /\ i > l - k
      BY <1>1
    <3> QED BY <1>4, <3>1
  <2>2. ScanAt(w, p, n) = ScanAt(w, q, n)
    BY <2>1, ScanLocal
  <2> QED BY <1>2, <2>2
<1>5. l \in S
  <2> HIDE DEF S
  <2> QED BY <1>1, <1>3, <1>4, Induction
<1>6. \A n \in 1..l : p[n] = q[n]
  BY <1>1, <1>5
<1>7. p = [n \in 1..l |-> p[n]] /\ q = [n \in 1..l |-> q[n]]
  BY DEF ScanOf
<1> QED BY <1>6, <1>7

LEMMA ScanIs ==
  ASSUME NEW w \in Seq(Byte)
  PROVE  /\ Scan(w) \in [1..(Len(w) + 1) -> Seq(Seq(Byte))]
         /\ \A n \in 1..(Len(w) + 1) : Scan(w)[n] = ScanAt(w, Scan(w), n)
<1>1. PICK fr \in [1..(Len(w) + 1) -> Seq(Seq(Byte))] : ScanOf(w, fr)
  BY ScanExists
<1>2. ScanOf(w, Scan(w))
  BY <1>1, Zenon DEF Scan
<1>3. Scan(w) = fr
  BY <1>1, <1>2, ScanUnique
<1> QED BY <1>1, <1>2, <1>3 DEF ScanOf

LEMMA MinOnly ==
  ASSUME NEW T, T \subseteq Nat, NEW k \in T, \A y \in T : k <= y
  PROVE  Min(T) = k
<1>1. \A x \in T : (\A y \in T : x <= y) => x = k
  OBVIOUS
<1> QED BY <1>1 DEF Min

\* The bytes of x \o s, by their places in x and s.
LEMMA ConcatIs ==
  ASSUME NEW T, NEW x \in Seq(T), NEW s \in Seq(T)
  PROVE  /\ x \o s \in Seq(T) /\ Len(x \o s) = Len(x) + Len(s)
         /\ Len(x) \in Nat /\ Len(s) \in Nat
         /\ \A i \in 1..Len(x) : (x \o s)[i] = x[i]
         /\ \A i \in 1..Len(s) : (x \o s)[i + Len(x)] = s[i]
<1> DEFINE w == x \o s
<1>1. /\ w \in Seq(T) /\ Len(w) = Len(x) + Len(s)
      /\ \A i \in 1..Len(x) + Len(s) : w[i] = IF i <= Len(x) THEN x[i] ELSE s[i - Len(x)]
  BY ConcatProperties
<1>2. Len(x) \in Nat /\ Len(s) \in Nat
  OBVIOUS
<1> HIDE DEF w
<1>3. ASSUME NEW i \in 1..Len(s) PROVE w[i + Len(x)] = s[i]
  <2>1. i + Len(x) \in 1..Len(x) + Len(s) /\ ~(i + Len(x) <= Len(x)) /\ (i + Len(x)) - Len(x) = i
    BY <1>2
  <2> QED BY <1>1, <2>1
<1>4. ASSUME NEW i \in 1..Len(x) PROVE w[i] = x[i]
  <2>1. i \in 1..Len(x) + Len(s) /\ i <= Len(x)
    BY <1>2
  <2> QED BY <1>1, <2>1
<1> QED BY <1>1, <1>2, <1>3, <1>4 DEF w

\* Behind the first bytes it goes on as if the line began there.
LEMMA ScanShift ==
  ASSUME NEW x \in Seq(Byte), NEW s \in Seq(Byte)
  PROVE  FramesIn(s) = Scan(x \o s)[Len(x) + 1]
<1> DEFINE w == x \o s
           m == Len(x)
           l == Len(s)
           p == Scan(w)
           q == [n \in 1..(l + 1) |-> p[n + m]]
<1>1. /\ w \in Seq(Byte) /\ Len(w) = m + l /\ m \in Nat /\ l \in Nat
      /\ \A n \in 1..l : w[n + m] = s[n]
  BY ConcatIs
<1> HIDE DEF w, m
<1>2. \A n \in 1..(Len(w) + 1) : p[n] = ScanAt(w, p, n)
  BY <1>1, ScanIs
<1> HIDE DEF p
<1>3. ASSUME NEW n \in 1..(l + 1) PROVE q[n] = ScanAt(s, q, n)
  <2> DEFINE k == n + m
  <2>1. /\ k \in 1..(Len(w) + 1) /\ (k > Len(w) <=> n > l) /\ n \in Nat
        /\ n <= l => n + 1 \in 1..(l + 1) /\ k + 1 = (n + 1) + m
    <3> HIDE DEF q
    <3> QED BY <1>1
  <2>2. q[n] = ScanAt(w, p, k)
    BY <1>2, <2>1
  <2>3. n <= l => w[k] = s[n] /\ q[n + 1] = p[k + 1]
    BY <1>1, <2>1
  <2> HIDE DEF k
  <2>4. CASE n > l
    BY <2>1, <2>2, <2>4 DEF ScanAt
  <2>5. CASE n <= l
    <3>1. \A i \in 1..l : i + m \in Ends(w, k) <=> i \in Ends(s, n)
      <4>1. ASSUME NEW i \in 1..l PROVE i + m \in Ends(w, k) <=> i \in Ends(s, n)
        <5>1. w[i + m] = s[i]
          BY <1>1
        <5>2. i + m \in (k + 1)..Len(w) <=> i \in (n + 1)..l
          <6> HIDE DEF q
          <6> QED BY <1>1 DEF k
        <5> QED BY <5>1, <5>2 DEF Ends
      <4> QED BY <4>1
    <3>2. \A j \in Ends(w, k) : j - m \in 1..l /\ (j - m) + m = j
      <4> HIDE DEF q
      <4> QED BY <1>1, <2>1 DEF Ends, k
    <3>3. \A i \in Ends(s, n) : i \in 1..l
      <4> HIDE DEF q
      <4> QED BY <1>1 DEF Ends
    <3>4. k + 1 \in Ends(w, k) <=> n + 1 \in Ends(s, n)
      <4>1. CASE n + 1 \in 1..l
        BY <2>1, <2>5, <3>1, <4>1
      <4>2. CASE n + 1 \notin 1..l
        <5>1. n = l /\ k = Len(w)
          <6> HIDE DEF q
          <6> QED BY <1>1, <2>5, <4>2 DEF k
        <5>2. k + 1 \notin (k + 1)..Len(w) /\ n + 1 \notin (n + 1)..l
          <6> HIDE DEF q
          <6> QED BY <1>1, <2>1, <5>1
        <5> QED BY <5>2 DEF Ends
      <4> QED BY <4>1, <4>2
    <3>5. Ends(w, k) = {} <=> Ends(s, n) = {}
      BY <3>1, <3>2, <3>3
    <3>6. ASSUME Ends(s, n) # {}
          PROVE  /\ SubSeq(w, k + 1, Min(Ends(w, k)) - 1) = SubSeq(s, n + 1, Min(Ends(s, n)) - 1)
                 /\ q[Min(Ends(s, n)) + 1] = p[Min(Ends(w, k)) + 1]
      <4> DEFINE e == Min(Ends(s, n))
      <4>1. e \in Ends(s, n) /\ \A y \in Ends(s, n) : e <= y
        <5>1. Ends(s, n) \subseteq Nat
          BY <3>3
        <5> QED BY <3>6, <5>1, MinIs
      <4>2. e \in (n + 1)..l
        BY <4>1 DEF Ends
      <4> HIDE DEF e
      <4>3. e + m = Min(Ends(w, k))
        <5>1. e + m \in Ends(w, k)
          BY <3>1, <3>3, <4>1
        <5>2. \A y \in Ends(w, k) : e + m <= y
          <6> SUFFICES ASSUME NEW y \in Ends(w, k) PROVE e + m <= y
            OBVIOUS
          <6>1. y - m \in Ends(s, n)
            BY <3>1, <3>2
          <6>2. e <= y - m /\ y \in Int
            BY <3>2, <4>1, <6>1 DEF Ends
          <6> HIDE DEF q
          <6> QED BY <1>1, <4>2, <6>2
        <5>3. Ends(w, k) \subseteq Nat
          <6> HIDE DEF q
          <6> QED BY <1>1, <2>1 DEF Ends
        <5> QED BY <5>1, <5>2, <5>3, MinOnly
      <4>4. /\ e + 1 \in 1..(l + 1) /\ (e + 1) + m = (e + m) + 1
            /\ e - 1 \in Int /\ n + 1 \in Int /\ k + 1 \in Int /\ (e + m) - 1 \in Int
        <5> HIDE DEF q
        <5> QED BY <1>1, <2>1, <4>2
      <4>5. q[e + 1] = p[(e + m) + 1]
        BY <4>4
      <4>6. SubSeq(w, k + 1, (e + m) - 1) = SubSeq(s, n + 1, e - 1)
        <5> HIDE DEF q
        <5>1. (\A i \in n + 1..e - 1 : s[i] \in Byte) /\ (\A i \in k + 1..(e + m) - 1 : w[i] \in Byte)
          <6>1. \A i \in n + 1..e - 1 : i \in 1..l
            BY <1>1, <4>2
          <6>2. \A i \in k + 1..(e + m) - 1 : i \in 1..Len(w)
            BY <1>1, <2>1, <4>2
          <6> QED BY <1>1, <6>1, <6>2
        <5> DEFINE a == SubSeq(w, k + 1, (e + m) - 1)
                   b == SubSeq(s, n + 1, e - 1)
        <5>2. /\ a \in Seq(Byte)
              /\ Len(a) = IF k + 1 <= (e + m) - 1 THEN (e + m) - 1 - (k + 1) + 1 ELSE 0
              /\ \A i \in 1..((e + m) - 1 - (k + 1) + 1) : a[i] = w[k + 1 + i - 1]
          BY <4>4, <5>1, SubSeqProperties
        <5>3. /\ b \in Seq(Byte)
              /\ Len(b) = IF n + 1 <= e - 1 THEN e - 1 - (n + 1) + 1 ELSE 0
              /\ \A i \in 1..(e - 1 - (n + 1) + 1) : b[i] = s[n + 1 + i - 1]
          BY <4>4, <5>1, SubSeqProperties
        <5> HIDE DEF a, b
        <5>4. Len(a) = e - 1 - n /\ Len(b) = e - 1 - n
              /\ (e + m) - 1 - (k + 1) + 1 = e - 1 - n /\ e - 1 - (n + 1) + 1 = e - 1 - n
          BY <1>1, <4>2, <5>2, <5>3 DEF k
        <5>5. ASSUME NEW i \in 1..Len(a) PROVE a[i] = b[i]
          <6>1. a[i] = w[k + 1 + i - 1] /\ b[i] = s[n + 1 + i - 1]
            BY <5>2, <5>3, <5>4
          <6> DEFINE j == n + 1 + i - 1
          <6>2. j \in 1..l /\ k + 1 + i - 1 = j + m
            BY <1>1, <4>2, <5>4 DEF k
          <6> HIDE DEF j
          <6>3. w[j + m] = s[j]
            BY <1>1, <6>2
          <6> QED BY <6>1, <6>2, <6>3 DEF j
        <5>6. a = b
          BY <5>2, <5>3, <5>4, <5>5, SeqEqual
        <5> QED BY <5>6 DEF a, b
      <4> QED BY <4>3, <4>5, <4>6 DEF e
    <3>7. ~(n > l) /\ ~(k > Len(w))
      BY <1>1, <2>1, <2>5
    <3> HIDE DEF q
    <3> QED BY <2>2, <2>3, <2>5, <3>4, <3>5, <3>6, <3>7 DEF ScanAt
  <2> QED BY <1>1, <2>1, <2>4, <2>5
<1>4. ScanOf(s, q)
  <2>1. q = [n \in 1..(l + 1) |-> q[n]]
    OBVIOUS
  <2> HIDE DEF q
  <2> QED BY <1>3, <2>1 DEF ScanOf
<1>5. q = Scan(s)
  <2>1. PICK fr : ScanOf(s, fr)
    BY ScanExists
  <2>2. ScanOf(s, Scan(s))
    BY <2>1, Zenon DEF Scan
  <2> HIDE DEF q
  <2> QED BY <1>4, <2>2, ScanUnique
<1>6. 1 \in 1..(l + 1)
  BY <1>1
<1>7. q[1] = p[1 + m] /\ 1 + m = m + 1
  BY <1>1, <1>6
<1> QED BY <1>5, <1>7, FramesInIs DEF w, m, p

\* The line from its front: bytes that precede a flag, two flags in a row, ...
LEMMA ScanStep ==
  ASSUME NEW s \in Seq(Byte), NEW b \in Byte,
         b # HdlcFlag \/ (s # <<>> /\ Head(s) = HdlcFlag)
  PROVE  FramesIn(<<b>> \o s) = FramesIn(s)
<1> DEFINE w == <<b>> \o s
<1>1. /\ w \in Seq(Byte) /\ Len(w) \in Nat \ {0} /\ w[1] = b /\ <<b>> \in Seq(Byte) /\ Len(<<b>>) = 1
      /\ s # <<>> => Len(w) >= 2 /\ w[2] = Head(s)
  OBVIOUS
<1>2. FramesIn(s) = Scan(w)[1 + 1]
  BY <1>1, ScanShift
<1> HIDE DEF w
<1>3. 1 \in 1..(Len(w) + 1) /\ ~(1 > Len(w))
  BY <1>1
<1>4. FramesIn(w) = ScanAt(w, Scan(w), 1)
  BY <1>1, <1>3, ScanIs, FramesInIs
<1>5. w[1] # HdlcFlag \/ 1 + 1 \in Ends(w, 1)
  BY <1>1 DEF Ends
<1> QED BY <1>2, <1>3, <1>4, <1>5 DEF ScanAt, w

\* ... and a frame.
LEMMA ScanFrame ==
  ASSUME NEW x \in Seq(NoFlag), x # <<>>, NEW s \in Seq(Byte)
  PROVE  FramesIn(<<HdlcFlag>> \o (x \o (<<HdlcFlag>> \o s))) = <<HdlcUnescaped(x)>> \o FramesIn(s)
<1> DEFINE f == <<HdlcFlag>>
           t == f \o s
           y == x \o t
           w == f \o y
           m == Len(x)
           h == f \o (x \o f)
<1>1. /\ x \in Seq(Byte) /\ f \in Seq(Byte) /\ Len(f) = 1 /\ f[1] = HdlcFlag
      /\ m \in Nat \ {0} /\ \A i \in 1..m : x[i] \in Byte /\ x[i] # HdlcFlag
  <2>1. NoFlag \subseteq Byte /\ HdlcFlag \in Byte
    BY LinkAssumption DEF NoFlag
  <2> QED BY <2>1, SeqMonotonic DEF NoFlag
<1>2. h \in Seq(Byte) /\ Len(h) = m + 2 /\ w = h \o s
  <2> HIDE DEF f
  <2>0. x \o f \in Seq(Byte) /\ Len(x \o f) = Len(x) + Len(f)
    BY <1>1, ConcatIs, Zenon
  <2>1. x \o f \in Seq(Byte) /\ Len(x \o f) = m + 1
    BY <1>1, <2>0
  <2>5. h \in Seq(Byte) /\ Len(h) = Len(f) + Len(x \o f)
    BY <1>1, <2>1, ConcatIs, Zenon
  <2>2. h \in Seq(Byte) /\ Len(h) = 1 + Len(x \o f)
    BY <1>1, <2>5
  <2>3. (x \o f) \o s = x \o (f \o s)
    BY <1>1, ConcatAssociative
  <2>4. (f \o (x \o f)) \o s = f \o ((x \o f) \o s)
    BY <1>1, <2>1, ConcatAssociative
  <2> QED BY <1>1, <2>1, <2>2, <2>3, <2>4
<1>3. t \in Seq(Byte) /\ Len(t) \in Nat \ {0} /\ t[1] = HdlcFlag
  BY LinkAssumption
<1> HIDE DEF f, t, h
<1>4. /\ y \in Seq(Byte) /\ Len(y) = m + Len(t)
      /\ \A i \in 1..m : y[i] = x[i]
      /\ y[1 + m] = t[1]
  <2>1. 1 \in 1..Len(t)
    BY <1>3
  <2> QED BY <1>1, <1>3, <2>1, ConcatIs
<1> HIDE DEF y
<1>5. /\ w \in Seq(Byte) /\ Len(w) = 1 + Len(y) /\ w[1] = HdlcFlag
      /\ \A i \in 1..Len(y) : w[i + 1] = y[i]
  <2>1. /\ w \in Seq(Byte) /\ Len(w) = Len(f) + Len(y)
        /\ \A i \in 1..Len(f) : w[i] = f[i]
        /\ \A i \in 1..Len(y) : w[i + Len(f)] = y[i]
    <3>1. f \in Seq(Byte) /\ y \in Seq(Byte)
      BY <1>1, <1>4
    <3> QED BY <3>1, ConcatIs
  <2>2. 1 \in 1..Len(f)
    BY <1>1
  <2> HIDE DEF w
  <2> QED BY <1>1, <2>1, <2>2
<1> HIDE DEF w, m
<1>6. /\ \A i \in 1..m : i \in 1..Len(y) /\ w[i + 1] = x[i]
      /\ w[m + 2] = HdlcFlag /\ m + 2 \in 1..Len(w) /\ Len(w) \in Nat
  <2>1. m + 1 \in 1..Len(y) /\ (m + 1) + 1 = m + 2 /\ 1 + m = m + 1 /\ \A i \in 1..m : i \in 1..Len(y)
    BY <1>1, <1>3, <1>4
  <2>2. w[(m + 1) + 1] = y[m + 1]
    BY <1>5, <2>1
  <2>3. m + 2 \in 1..Len(w) /\ Len(w) \in Nat
    BY <1>1, <1>3, <1>4, <1>5
  <2> QED BY <1>3, <1>4, <1>5, <2>1, <2>2, <2>3
<1>7. \A j \in 2..(m + 1) : w[j] = x[j - 1] /\ w[j] # HdlcFlag
  <2> SUFFICES ASSUME NEW j \in 2..(m + 1) PROVE w[j] = x[j - 1] /\ w[j] # HdlcFlag
    OBVIOUS
  <2> DEFINE i == j - 1
  <2>1. i \in 1..m /\ i + 1 = j
    BY <1>1
  <2> HIDE DEF i
  <2>2. w[i + 1] = x[i] /\ x[i] # HdlcFlag
    BY <1>1, <1>6, <2>1
  <2> QED BY <2>1, <2>2 DEF i
<1>8. m + 2 \in Ends(w, 1) /\ Ends(w, 1) \subseteq Nat /\ \A e \in Ends(w, 1) : m + 2 <= e
  <2>1. m + 2 \in Ends(w, 1) /\ Ends(w, 1) \subseteq Nat
    BY <1>1, <1>6 DEF Ends
  <2>2. ASSUME NEW e \in Ends(w, 1) PROVE m + 2 <= e
    <3>1. e \in 2..Len(w) /\ w[e] = HdlcFlag
      BY DEF Ends
    <3>2. e \notin 2..(m + 1)
      BY <1>7, <3>1
    <3> QED BY <1>1, <3>1, <3>2
  <2> QED BY <2>1, <2>2
<1>9. Min(Ends(w, 1)) = m + 2 /\ 1 + 1 \notin Ends(w, 1) /\ Ends(w, 1) # {}
  <2>1. Min(Ends(w, 1)) = m + 2
    BY <1>8, MinOnly
  <2>2. ~(m + 2 <= 2)
    BY <1>1
  <2> QED BY <1>8, <2>1, <2>2
<1>10. SubSeq(w, 2, m + 1) = x
  <2> DEFINE a == SubSeq(w, 2, m + 1)
  <2>0. \A i \in 2..(m + 1) : w[i] \in Byte
    <3>1. \A i \in 2..(m + 1) : i \in 1..Len(w)
      BY <1>1, <1>6
    <3> QED BY <1>5, <3>1
  <2>1. /\ a \in Seq(Byte) /\ Len(a) = m
        /\ \A i \in 1..m : a[i] = w[2 + i - 1]
    <3> DEFINE lo == 2
               hi == m + 1
    <3>0. lo \in Int /\ hi \in Int /\ hi - lo + 1 = m /\ lo <= hi
      BY <1>1
    <3>1. \A i \in lo..hi : w[i] \in Byte
      BY <2>0
    <3>3. a = SubSeq(w, lo, hi)
      OBVIOUS
    <3> HIDE DEF a, lo, hi
    <3>2. /\ SubSeq(w, lo, hi) \in Seq(Byte)
          /\ Len(SubSeq(w, lo, hi)) = IF lo <= hi THEN hi - lo + 1 ELSE 0
          /\ \A i \in 1..(hi - lo + 1) : SubSeq(w, lo, hi)[i] = w[lo + i - 1]
      BY <3>0, <3>1, SubSeqProperties
    <3>4. \A i \in 1..m : a[i] = w[lo + i - 1]
      BY <3>0, <3>2, <3>3
    <3> QED BY <3>0, <3>2, <3>3, <3>4 DEF lo
  <2> HIDE DEF a
  <2>2. \A i \in 1..m : a[i] = x[i]
    <3> SUFFICES ASSUME NEW i \in 1..m PROVE a[i] = x[i]
      OBVIOUS
    <3>1. 2 + i - 1 = i + 1
      BY <1>1
    <3> QED BY <1>6, <2>1, <3>1
  <2>3. a = x
    BY <1>1, <2>1, <2>2, SeqEqual DEF m
  <2> QED BY <2>3 DEF a
<1>11. /\ FramesIn(w) = ScanAt(w, Scan(w), 1) /\ ~(1 > Len(w)) /\ w[1] = HdlcFlag
       /\ (m + 2) - 1 = m + 1 /\ 1 + 1 = 2
  <2>1. 1 \in 1..(Len(w) + 1) /\ ~(1 > Len(w)) /\ (m + 2) - 1 = m + 1
    BY <1>1, <1>6
  <2> QED BY <1>5, <2>1, ScanIs, FramesInIs
<1>12. FramesIn(s) = Scan(w)[(m + 2) + 1]
  BY <1>2, ScanShift
<1>13. ScanAt(w, Scan(w), 1) = <<HdlcUnescaped(x)>> \o Scan(w)[(m + 2) + 1]
  BY <1>9, <1>10, <1>11 DEF ScanAt
<1>14. FramesIn(w) = <<HdlcUnescaped(x)>> \o FramesIn(s)
  BY <1>11, <1>12, <1>13
<1> QED BY <1>14 DEF w, y, t, f

\* Nothing is in an empty line, nor behind a single flag.
LEMMA ScanEnd ==
  FramesIn(<<>>) = <<>> /\ FramesIn(<<HdlcFlag>>) = <<>>
<1>1. FramesIn(<<>>) = <<>>
  <2>1. <<>> \in Seq(Byte) /\ 1 \in 1..(Len(<<>>) + 1) /\ 1 > Len(<<>>)
    OBVIOUS
  <2> QED BY <2>1, ScanIs, FramesInIs DEF ScanAt
<1>2. FramesIn(<<HdlcFlag>>) = <<>>
  <2> DEFINE w == <<HdlcFlag>>
  <2>1. w \in Seq(Byte) /\ 1 \in 1..(Len(w) + 1) /\ ~(1 > Len(w)) /\ w[1] = HdlcFlag
    BY LinkAssumption
  <2>2. Ends(w, 1) = {}
    BY DEF Ends
  <2> HIDE DEF w
  <2> QED BY <2>1, <2>2, ScanIs, FramesInIs DEF ScanAt, w
<1> QED BY <1>1, <1>2

(***************************************************************************)
(* A line no byte of which was lost: whole frames, behind what a call left *)
(* of a frame when it timed out.                                           *)
(***************************************************************************)

Frame(b) == <<HdlcFlag>> \o (HdlcEscaped(b) \o <<HdlcFlag>>)

FrameSeq(bs) == [i \in 1..Len(bs) |-> Frame(bs[i])]

Frames(bs) == FlattenSeq(FrameSeq(bs))

Form(w, bs) ==
  \/ w = Frames(bs)
  \/ \E x \in Seq(NoFlag) : w = x \o (<<HdlcFlag>> \o Frames(bs))

LEMMA NoFlagSeq ==
  /\ HdlcFlag \in Byte /\ <<HdlcFlag>> \in Seq(Byte) /\ Len(<<HdlcFlag>>) = 1
  /\ \A x \in Seq(NoFlag) : x \in Seq(Byte)
<1>1. NoFlag \subseteq Byte /\ HdlcFlag \in Byte
  BY LinkAssumption DEF NoFlag
<1> QED BY <1>1, SeqMonotonic

LEMMA Joined ==
  /\ \A x, y \in Seq(Byte) : x \o y \in Seq(Byte)
  /\ \A x, y, z \in Seq(Byte) : (x \o y) \o z = x \o (y \o z)
BY ConcatProperties, ConcatAssociative

LEMMA BodyIs ==
  ASSUME NEW b \in Bodies
  PROVE  /\ b \in Seq(Byte) /\ b # <<>>
         /\ HdlcEscaped(b) \in Seq(NoFlag) /\ HdlcEscaped(b) \in Seq(Byte) /\ HdlcEscaped(b) # <<>>
         /\ HdlcUnescaped(HdlcEscaped(b)) = b /\ Frame(b) \in Seq(Byte)
<1> DEFINE e == HdlcEscaped(b)
           f == <<HdlcFlag>>
<1>1. b \in Seq(Byte) /\ b # <<>>
  BY LinkAssumption
<1>2. e \in Seq(NoFlag) /\ e \in Seq(Byte) /\ e # <<>> /\ HdlcUnescaped(e) = b
  BY <1>1, EscapedType, EscapeRoundTrip
<1>3. f \in Seq(Byte)
  BY NoFlagSeq
<1> HIDE DEF e, f
<1>4. e \o f \in Seq(Byte)
  BY <1>2, <1>3, ConcatProperties
<1>5. f \o (e \o f) \in Seq(Byte)
  BY <1>3, <1>4, ConcatProperties
<1> QED BY <1>1, <1>2, <1>5 DEF Frame, e, f

LEMMA FrameSeqType ==
  ASSUME NEW bs \in Seq(Bodies)
  PROVE  FrameSeq(bs) \in Seq(Seq(Byte))
<1> DEFINE U == Seq(Byte)
<1>1. Len(bs) \in Nat /\ \A i \in 1..Len(bs) : Frame(bs[i]) \in U
  BY BodyIs
<1> HIDE DEF U
<1>2. FrameSeq(bs) \in Seq(U)
  BY <1>1 DEF FrameSeq
<1> QED BY <1>2 DEF U

LEMMA FramesType ==
  ASSUME NEW bs \in Seq(Bodies)
  PROVE  Frames(bs) \in Seq(Byte) /\ <<HdlcFlag>> \o Frames(bs) \in Seq(Byte)
<1>1. Frames(bs) \in Seq(Byte)
  BY FrameSeqType, FlattenType DEF Frames
<1> QED BY <1>1, NoFlagSeq, ConcatProperties

LEMMA FramesEmpty == Frames(<<>>) = <<>>
<1>1. FrameSeq(<<>>) = <<>>
  BY DEF FrameSeq
<1> QED BY <1>1, FlattenIs DEF Frames

LEMMA FramesAppend ==
  ASSUME NEW bs \in Seq(Bodies), NEW b \in Bodies
  PROVE  Frames(Append(bs, b)) = Frames(bs) \o Frame(b)
<1> DEFINE t == Append(bs, b)
           m == FrameSeq(bs)
           y == Frame(b)
           z == Append(m, y)
<1>1. Len(t) = Len(bs) + 1 /\ Len(bs) \in Nat /\ t[Len(bs) + 1] = b /\ \A i \in 1..Len(bs) : t[i] = bs[i]
  BY AppendProperties
<1>2. m \in Seq(Seq(Byte)) /\ Len(m) = Len(bs) /\ \A i \in 1..Len(bs) : m[i] = Frame(bs[i])
  BY <1>1, FrameSeqType DEF FrameSeq
<1>3. y \in Seq(Byte)
  BY BodyIs
<1> HIDE DEF t, m, y
<1>4. Len(z) = Len(bs) + 1 /\ z[Len(bs) + 1] = y /\ \A i \in 1..Len(bs) : z[i] = m[i]
  BY <1>2, <1>3, AppendProperties
<1>5. z \in Seq(Seq(Byte))
  BY <1>2, <1>3, AppendProperties
<1> HIDE DEF z
<1>6. ASSUME NEW i \in 1..(Len(bs) + 1) PROVE Frame(t[i]) = z[i]
  <2>1. CASE i = Len(bs) + 1
    BY <1>1, <1>4, <2>1 DEF y
  <2>2. CASE i # Len(bs) + 1
    <3>1. i \in 1..Len(bs)
      BY <1>1, <2>2
    <3> QED BY <1>1, <1>2, <1>4, <3>1
  <2> QED BY <2>1, <2>2
<1>7. z = [i \in 1..(Len(bs) + 1) |-> z[i]]
  BY <1>4, <1>5
<1>8. FrameSeq(t) = [i \in 1..(Len(bs) + 1) |-> Frame(t[i])]
  BY <1>1 DEF FrameSeq
<1>9. FrameSeq(t) = z
  BY <1>6, <1>7, <1>8
<1> QED BY <1>2, <1>3, <1>9, FlattenAppend DEF Frames, t, z, m, y

LEMMA FramesCons ==
  ASSUME NEW bs \in Seq(Bodies), NEW b \in Bodies
  PROVE  Frames(<<b>> \o bs) = Frame(b) \o Frames(bs)
<1> DEFINE t == <<b>> \o bs
           m == FrameSeq(bs)
           y == Frame(b)
           z == <<y>> \o m
<1>1. /\ Len(t) = Len(bs) + 1 /\ Len(bs) \in Nat /\ t[1] = b
      /\ \A i \in 1..(Len(bs) + 1) : i # 1 => t[i] = bs[i - 1]
  OBVIOUS
<1>2. m \in Seq(Seq(Byte)) /\ Len(m) = Len(bs) /\ \A i \in 1..Len(bs) : m[i] = Frame(bs[i])
  BY <1>1, FrameSeqType DEF FrameSeq
<1>3. y \in Seq(Byte)
  BY BodyIs
<1> HIDE DEF t, m, y
<1>4. /\ z \in Seq(Seq(Byte)) /\ Len(z) = Len(bs) + 1 /\ z[1] = y
      /\ \A i \in 1..(Len(bs) + 1) : i # 1 => z[i] = m[i - 1]
  BY <1>2, <1>3
<1> HIDE DEF z
<1>5. ASSUME NEW i \in 1..(Len(bs) + 1) PROVE Frame(t[i]) = z[i]
  <2>1. CASE i = 1
    BY <1>1, <1>4, <2>1 DEF y
  <2>2. CASE i # 1
    <3>1. i - 1 \in 1..Len(bs) /\ t[i] = bs[i - 1] /\ z[i] = m[i - 1]
      BY <1>1, <1>4, <2>2
    <3> QED BY <1>2, <3>1
  <2> QED BY <2>1, <2>2
<1>6. z = [i \in 1..(Len(bs) + 1) |-> z[i]]
  BY <1>4
<1>7. FrameSeq(t) = [i \in 1..(Len(bs) + 1) |-> Frame(t[i])]
  BY <1>1 DEF FrameSeq
<1>8. FrameSeq(t) = z
  BY <1>5, <1>6, <1>7
<1> QED BY <1>2, <1>3, <1>8, FlattenCons DEF Frames, t, z, m, y

LEMMA ConsIs ==
  ASSUME NEW T, NEW b \in T, NEW s \in Seq(T)
  PROVE  <<b>> \o s \in Seq(T) /\ <<b>> \o s # <<>> /\ Head(<<b>> \o s) = b /\ Tail(<<b>> \o s) = s
OBVIOUS

LEMMA FrameConcat ==
  ASSUME NEW b \in Bodies, NEW w \in Seq(Byte)
  PROVE  Frame(b) \o w = <<HdlcFlag>> \o (HdlcEscaped(b) \o (<<HdlcFlag>> \o w))
<1> DEFINE e == HdlcEscaped(b)
           f == <<HdlcFlag>>
<1>1. e \in Seq(Byte) /\ f \in Seq(Byte)
  BY BodyIs, NoFlagSeq
<1> HIDE DEF e, f
<1>2. e \o f \in Seq(Byte)
  BY <1>1, ConcatProperties
<1>3. (f \o (e \o f)) \o w = f \o ((e \o f) \o w)
  BY <1>1, <1>2, ConcatAssociative
<1>4. (e \o f) \o w = e \o (f \o w)
  BY <1>1, ConcatAssociative
<1> QED BY <1>3, <1>4 DEF Frame, e, f

\* The frames that can be read of such a line are the whole ones.
LEMMA ScanFrames ==
  \A bs \in Seq(Bodies) :
    FramesIn(Frames(bs)) = bs /\ FramesIn(<<HdlcFlag>> \o Frames(bs)) = bs
<1> DEFINE S == {bs \in Seq(Bodies) :
                   FramesIn(Frames(bs)) = bs /\ FramesIn(<<HdlcFlag>> \o Frames(bs)) = bs}
<1>1. <<>> \in S
  <2>1. <<HdlcFlag>> \o <<>> = <<HdlcFlag>>
    BY NoFlagSeq, ConcatEmptySeq
  <2> QED BY <2>1, FramesEmpty, ScanEnd, EmptySeq
<1>2. ASSUME NEW s \in Seq(Bodies), NEW b \in Bodies, s \in S PROVE <<b>> \o s \in S
  <2> DEFINE e == HdlcEscaped(b)
             f == <<HdlcFlag>>
             t == Frames(s)
             w == Frames(<<b>> \o s)
             y == e \o (f \o t)
  <2>1. e \in Seq(NoFlag) /\ e \in Seq(Byte) /\ e # <<>> /\ HdlcUnescaped(e) = b
    BY BodyIs
  <2>2. t \in Seq(Byte) /\ FramesIn(t) = s /\ f \o t \in Seq(Byte)
    BY <1>2, FramesType
  <2>3. w = f \o y
    BY FramesCons, FrameConcat, <2>2
  <2>4. y \in Seq(Byte)
    <3> HIDE DEF e, t, f
    <3> QED BY <2>1, <2>2, ConcatProperties
  <2>5. w \in Seq(Byte) /\ w # <<>> /\ Head(w) = HdlcFlag
    <3> HIDE DEF w, y
    <3> QED BY <2>3, <2>4, NoFlagSeq, ConsIs
  <2>6. FramesIn(w) = <<b>> \o s
    <3> HIDE DEF e, t, w
    <3> QED BY <2>1, <2>2, <2>3, ScanFrame
  <2>7. FramesIn(f \o w) = <<b>> \o s
    <3> HIDE DEF w
    <3> QED BY <2>5, <2>6, NoFlagSeq, ScanStep
  <2>8. <<b>> \o s \in Seq(Bodies)
    BY ConsIs
  <2> QED BY <2>6, <2>7, <2>8
<1>3. \A s \in Seq(Bodies) : s \in S
  <2> HIDE DEF S
  <2> QED BY <1>1, <1>2, SeqInduction
<1> QED BY <1>3

LEMMA ScanForm ==
  ASSUME NEW bs \in Seq(Bodies), NEW w, Form(w, bs)
  PROVE  w \in Seq(Byte) /\ FramesIn(w) = bs
<1> DEFINE t == <<HdlcFlag>> \o Frames(bs)
           S == {x \in Seq(NoFlag) : x \o t \in Seq(Byte) /\ FramesIn(x \o t) = bs}
<1>1. t \in Seq(Byte) /\ FramesIn(t) = bs
  BY FramesType, ScanFrames
<1> HIDE DEF t
<1>2. <<>> \in S
  BY <1>1, ConcatEmptySeq
<1>3. ASSUME NEW x \in Seq(NoFlag), NEW b \in NoFlag, x \in S PROVE <<b>> \o x \in S
  <2>1. b \in Byte /\ b # HdlcFlag /\ x \in Seq(Byte) /\ <<b>> \in Seq(Byte) /\ x \o t \in Seq(Byte)
    BY <1>3, NoFlagSeq DEF NoFlag
  <2>2. (<<b>> \o x) \o t = <<b>> \o (x \o t)
    BY <1>1, <2>1, ConcatAssociative
  <2>3. FramesIn(<<b>> \o (x \o t)) = FramesIn(x \o t)
    BY <2>1, ScanStep
  <2>4. <<b>> \o (x \o t) \in Seq(Byte) /\ <<b>> \o x \in Seq(NoFlag)
    BY <2>1, ConsIs
  <2> QED BY <1>3, <2>2, <2>3, <2>4
<1>4. \A x \in Seq(NoFlag) : x \in S
  <2> HIDE DEF S
  <2> QED BY <1>2, <1>3, SeqInduction
<1> QED BY <1>4, FramesType, ScanFrames DEF Form, t

\* A byte is taken from whole frames, ...
LEMMA FramesTail ==
  ASSUME NEW bs \in Seq(Bodies), Frames(bs) # <<>>
  PROVE  LET w == Frames(bs)
             y == HdlcEscaped(Head(bs)) \o (<<HdlcFlag>> \o Frames(Tail(bs)))
         IN  /\ bs # <<>> /\ Head(bs) \in Bodies /\ Tail(bs) \in Seq(Bodies)
             /\ Head(w) = HdlcFlag /\ Tail(w) = y /\ w = <<HdlcFlag>> \o y /\ y \in Seq(Byte)
             /\ Form(Tail(w), Tail(bs))
<1> DEFINE f == <<HdlcFlag>>
           w == Frames(bs)
<1>1. bs # <<>>
  BY FramesEmpty
<1> DEFINE b == Head(bs)
           t == Tail(bs)
           e == HdlcEscaped(b)
           y == e \o (f \o Frames(t))
<1>2. b \in Bodies /\ t \in Seq(Bodies) /\ bs = <<b>> \o t
  BY <1>1, HeadAndTail
<1> HIDE DEF b, t
<1>3. w = f \o y
  BY <1>2, FramesCons, FramesType, FrameConcat
<1>4. e \in Seq(NoFlag) /\ y \in Seq(Byte)
  <2>1. e \in Seq(NoFlag) /\ e \in Seq(Byte)
    BY <1>2, BodyIs
  <2>2. f \o Frames(t) \in Seq(Byte)
    BY <1>2, FramesType
  <2> HIDE DEF e, f
  <2> QED BY <2>1, <2>2, ConcatProperties
<1>5. Form(y, t)
  BY <1>4 DEF Form
<1> HIDE DEF y, w
<1>6. Head(w) = HdlcFlag /\ Tail(w) = y
  BY <1>3, <1>4, NoFlagSeq, ConsIs
<1> QED BY <1>1, <1>2, <1>3, <1>4, <1>5, <1>6 DEF w, y, e, f, b, t

\* ... and from a line that may start in the middle of one.
LEMMA FormTail ==
  ASSUME NEW bs \in Seq(Bodies), NEW w, Form(w, bs), w # <<>>
  PROVE  /\ Head(w) # HdlcFlag => Form(Tail(w), bs)
         /\ Form(Tail(w), bs) \/ (bs # <<>> /\ Form(Tail(w), Tail(bs)))
<1> DEFINE f == <<HdlcFlag>>
<1>1. CASE w = Frames(bs)
  BY <1>1, FramesTail
<1>2. CASE w = f \o Frames(bs)
  <2>1. Head(w) = HdlcFlag /\ Tail(w) = Frames(bs)
    BY <1>2, FramesType, NoFlagSeq, ConsIs
  <2> QED BY <2>1 DEF Form
<1>3. ASSUME NEW x \in Seq(NoFlag), x # <<>>, w = x \o (f \o Frames(bs))
      PROVE  Head(w) # HdlcFlag /\ Form(Tail(w), bs)
  <2> DEFINE b == Head(x)
             y == Tail(x)
             t == f \o Frames(bs)
  <2>1. b \in NoFlag /\ y \in Seq(NoFlag) /\ x = <<b>> \o y
    BY <1>3, HeadAndTail
  <2> HIDE DEF b, y
  <2>2. b \in Byte /\ b # HdlcFlag /\ y \in Seq(Byte) /\ <<b>> \in Seq(Byte) /\ t \in Seq(Byte)
    BY <2>1, NoFlagSeq, FramesType DEF NoFlag
  <2> HIDE DEF t
  <2>3. w = <<b>> \o (y \o t) /\ y \o t \in Seq(Byte)
    BY <1>3, <2>1, <2>2, ConcatAssociative, ConcatProperties DEF t
  <2>4. Head(w) = b /\ Tail(w) = y \o t
    BY <2>2, <2>3, ConsIs
  <2> QED BY <2>1, <2>2, <2>4 DEF Form, t
<1>4. \A x \in Seq(NoFlag) : x = <<>> /\ w = x \o (f \o Frames(bs)) => w = f \o Frames(bs)
  BY FramesType, ConcatEmptySeq
<1> QED BY <1>1, <1>2, <1>3, <1>4 DEF Form

\* All bytes before the next flag are.
LEMMA FormSkip ==
  ASSUME NEW bs \in Seq(Bodies), NEW x \in Seq(NoFlag), NEW t \in Seq(Byte), Form(x \o t, bs)
  PROVE  Form(t, bs)
<1> DEFINE S == {y \in Seq(NoFlag) : Form(y \o t, bs) => Form(t, bs)}
<1>1. <<>> \in S
  BY ConcatEmptySeq
<1>2. ASSUME NEW y \in Seq(NoFlag), NEW b \in NoFlag, y \in S PROVE <<b>> \o y \in S
  <2> SUFFICES ASSUME Form((<<b>> \o y) \o t, bs) PROVE Form(y \o t, bs)
    BY <1>2, ConsIs
  <2>1. b \in Byte /\ b # HdlcFlag /\ y \in Seq(Byte) /\ <<b>> \in Seq(Byte)
    BY NoFlagSeq DEF NoFlag
  <2>2. (<<b>> \o y) \o t = <<b>> \o (y \o t) /\ y \o t \in Seq(Byte)
    BY <2>1, ConcatAssociative, ConcatProperties
  <2> DEFINE w == <<b>> \o (y \o t)
  <2>3. w # <<>> /\ Head(w) = b /\ Tail(w) = y \o t
    BY <2>1, <2>2, ConsIs
  <2>4. Form(w, bs)
    BY <2>2
  <2> HIDE DEF w
  <2> QED BY <2>1, <2>3, <2>4, FormTail
<1>3. \A y \in Seq(NoFlag) : y \in S
  <2> HIDE DEF S
  <2> QED BY <1>1, <1>2, SeqInduction
<1> QED BY <1>3

(***************************************************************************)
(* The line cut in two, and a byte taken out of it.                        *)
(***************************************************************************)

From(w, n) == SubSeq(w, n + 1, Len(w))

LEMMA CutIs ==
  ASSUME NEW T, NEW w \in Seq(T), NEW n \in 0..Len(w)
  PROVE  /\ SubSeq(w, 1, n) \in Seq(T) /\ Len(SubSeq(w, 1, n)) = n
         /\ From(w, n) \in Seq(T) /\ Len(From(w, n)) = Len(w) - n
         /\ SubSeq(w, 1, n) \o From(w, n) = w
<1> DEFINE x == SubSeq(w, 1, n)
           s == From(w, n)
<1>1. Len(w) \in Nat /\ n \in Nat /\ n <= Len(w) /\ \A i \in 1..Len(w) : w[i] \in T
  OBVIOUS
<1>2. x \in Seq(T) /\ Len(x) = n /\ \A i \in 1..n : x[i] = w[i]
  BY <1>1
<1>3. s \in Seq(T) /\ Len(s) = Len(w) - n /\ \A i \in 1..(Len(w) - n) : s[i] = w[n + i]
  BY <1>1 DEF From
<1> HIDE DEF x, s
<1> DEFINE y == x \o s
<1>4. /\ y \in Seq(T) /\ Len(y) = n + (Len(w) - n)
      /\ \A i \in 1..Len(x) : y[i] = x[i]
      /\ \A i \in 1..Len(s) : y[i + Len(x)] = s[i]
  BY <1>2, <1>3, ConcatIs
<1> HIDE DEF y
<1>5. Len(y) = Len(w)
  BY <1>1, <1>4
<1>6. ASSUME NEW i \in 1..Len(w) PROVE y[i] = w[i]
  <2>1. CASE i <= n
    <3>1. i \in 1..n
      BY <1>1, <2>1
    <3> QED BY <1>2, <1>4, <3>1
  <2>2. CASE i > n
    <3> DEFINE j == i - n
    <3>1. j \in 1..(Len(w) - n) /\ n + j = i /\ j + n = i
      BY <1>1, <2>2
    <3> HIDE DEF j
    <3>2. y[j + n] = s[j] /\ s[j] = w[n + j]
      BY <1>2, <1>3, <1>4, <3>1
    <3> QED BY <3>1, <3>2
  <2> QED BY <1>1, <2>1, <2>2
<1>7. y = w
  BY <1>4, <1>5, <1>6, SeqEqual
<1> QED BY <1>2, <1>3, <1>7 DEF x, s, y

LEMMA RemoveIs ==
  ASSUME NEW w \in Seq(Byte), NEW i \in 1..Len(w)
  PROVE  \E x \in Seq(Byte), b \in Byte, y \in Seq(Byte) : w = x \o (<<b>> \o y) /\ RemoveAt(w, i) = x \o y
<1> DEFINE x == SubSeq(w, 1, i - 1)
           s == From(w, i - 1)
<1>1. i - 1 \in 0..Len(w) /\ (i - 1) + 1 = i /\ Len(w) \in Nat
  OBVIOUS
<1>2. x \in Seq(Byte) /\ s \in Seq(Byte) /\ Len(s) = Len(w) - (i - 1) /\ x \o s = w
  <2> DEFINE n == i - 1
  <2>1. n \in 0..Len(w)
    BY <1>1
  <2> HIDE DEF n
  <2>2. /\ SubSeq(w, 1, n) \in Seq(Byte) /\ From(w, n) \in Seq(Byte)
        /\ Len(From(w, n)) = Len(w) - n /\ SubSeq(w, 1, n) \o From(w, n) = w
    BY <2>1, CutIs
  <2> QED BY <2>2 DEF n
<1>3. s # <<>>
  BY <1>1, <1>2
<1>4. Tail(s) = From(w, i)
  <2>1. s = SubSeq(w, i, Len(w))
    BY <1>1 DEF From
  <2>2. Tail(s) \in Seq(Byte) /\ Len(Tail(s)) = Len(w) - i /\ \A j \in 1..(Len(w) - i) : Tail(s)[j] = w[i + j]
    <3>1. /\ s \in Seq(Byte) /\ s # <<>> /\ Len(s) = Len(w) - (i - 1)
          /\ \A j \in 1..Len(s) : s[j] = w[(i - 1) + j]
      BY <1>1, <1>2, <1>3, <2>1
    <3> HIDE DEF s
    <3>2. Tail(s) \in Seq(Byte) /\ Len(Tail(s)) = Len(s) - 1 /\ \A j \in 1..(Len(s) - 1) : Tail(s)[j] = s[j + 1]
      BY <3>1
    <3>3. ASSUME NEW j \in 1..(Len(w) - i) PROVE Tail(s)[j] = w[i + j]
      <4> DEFINE k == j + 1
      <4>1. k \in 1..Len(s) /\ j \in 1..(Len(s) - 1) /\ (i - 1) + k = i + j
        BY <1>1, <3>1
      <4> HIDE DEF k
      <4>2. s[k] = w[i + j]
        BY <3>1, <4>1
      <4> QED BY <3>2, <4>1, <4>2 DEF k
    <3>4. Len(Tail(s)) = Len(w) - i
      BY <1>1, <3>1, <3>2
    <3> QED BY <3>2, <3>3, <3>4
  <2>3. From(w, i) \in Seq(Byte) /\ Len(From(w, i)) = Len(w) - i
        /\ \A j \in 1..(Len(w) - i) : From(w, i)[j] = w[i + j]
    BY DEF From
  <2> DEFINE p == Tail(s)
             q == From(w, i)
  <2> HIDE DEF p, q
  <2>4. p = q
    BY <2>2, <2>3, SeqEqual DEF p, q
  <2> QED BY <2>4 DEF p, q
<1>5. RemoveAt(w, i) = x \o Tail(s)
  BY <1>1, <1>4 DEF RemoveAt, From
<1>6. Head(s) \in Byte /\ Tail(s) \in Seq(Byte) /\ s = <<Head(s)>> \o Tail(s)
  BY <1>2, <1>3, HeadAndTail
<1> HIDE DEF x, s
<1> QED BY <1>2, <1>5, <1>6

LEMMA FromTail ==
  ASSUME NEW T, NEW w \in Seq(T), NEW n \in 1..Len(w)
  PROVE  Tail(w) \in Seq(T) /\ n - 1 \in 0..Len(Tail(w)) /\ From(Tail(w), n - 1) = From(w, n)
<1>1. Tail(w) \in Seq(T) /\ Len(Tail(w)) = Len(w) - 1 /\ \A j \in 1..(Len(w) - 1) : Tail(w)[j] = w[j + 1]
  OBVIOUS
<1> DEFINE t == Tail(w)
           m == n - 1
           p == From(t, m)
           q == From(w, n)
<1>2. m \in 0..Len(t) /\ Len(t) = Len(w) - 1 /\ Len(w) \in Nat /\ n = m + 1 /\ t \in Seq(T)
  BY <1>1
<1>3. q \in Seq(T) /\ Len(q) = Len(w) - n /\ \A j \in 1..(Len(w) - n) : q[j] = w[n + j]
  BY DEF From
<1> HIDE DEF t, m
<1>4. p \in Seq(T) /\ Len(p) = Len(t) - m /\ \A j \in 1..(Len(t) - m) : p[j] = t[m + j]
  BY <1>2 DEF From
<1> HIDE DEF p, q
<1>5. Len(p) = Len(q)
  BY <1>2, <1>3, <1>4
<1>6. ASSUME NEW j \in 1..Len(q) PROVE p[j] = q[j]
  <2> DEFINE i == m + j
  <2>0. ASSUME NEW l \in Nat, NEW u \in Int, u = l - 1, NEW a \in 0..u, n = a + 1, NEW c \in 1..(l - n)
        PROVE  c \in 1..(u - a) /\ a + c \in 1..(l - 1) /\ (a + c) + 1 = n + c
    BY <2>0
  <2>1. j \in 1..(Len(t) - m) /\ j \in 1..(Len(w) - n) /\ i \in 1..(Len(w) - 1) /\ i + 1 = n + j
    <3>1. j \in 1..(Len(w) - n)
      BY <1>3
    <3>2. Len(t) \in Int
      BY <1>2
    <3> QED BY <1>2, <2>0, <3>1, <3>2
  <2>2. t[i] = w[i + 1]
    <3> HIDE DEF i
    <3> QED BY <1>1, <2>1 DEF t
  <2> QED BY <1>3, <1>4, <2>1, <2>2
<1>7. p = q
  BY <1>3, <1>4, <1>5, <1>6, SeqEqual
<1> QED BY <1>2, <1>7 DEF p, q, t, m

\* Some of the frames are left when bytes have been taken.
Left(w, bs) == \E k \in 0..Len(bs) : Form(w, From(bs, k))

LEMMA FormSuffix ==
  ASSUME NEW x \in Seq(Byte), NEW t \in Seq(Byte), NEW bs \in Seq(Bodies), Form(x \o t, bs)
  PROVE  Left(t, bs)
<1> DEFINE S == {y \in Seq(Byte) : \A cs \in Seq(Bodies) : Form(y \o t, cs) => Left(t, cs)}
<1>1. <<>> \in S
  <2> SUFFICES ASSUME NEW cs \in Seq(Bodies), Form(t, cs) PROVE Left(t, cs)
    BY ConcatEmptySeq, EmptySeq
  <2>1. 0 \in 0..Len(cs) /\ From(cs, 0) = cs
    BY DEF From
  <2> QED BY <2>1 DEF Left
<1>2. ASSUME NEW y \in Seq(Byte), NEW b \in Byte, y \in S PROVE <<b>> \o y \in S
  <2> SUFFICES ASSUME NEW cs \in Seq(Bodies), Form((<<b>> \o y) \o t, cs) PROVE Left(t, cs)
    BY ConsIs
  <2> DEFINE v == y \o t
             w == <<b>> \o v
  <2>1. (<<b>> \o y) \o t = <<b>> \o (y \o t) /\ v \in Seq(Byte)
    <3>1. <<b>> \in Seq(Byte)
      OBVIOUS
    <3> QED BY <3>1, ConcatAssociative, ConcatProperties
  <2> HIDE DEF v
  <2>2. w # <<>> /\ Tail(w) = v
    BY <2>1, ConsIs
  <2>3. Form(w, cs)
    BY <2>1 DEF v
  <2> HIDE DEF w
  <2>4. CASE Form(v, cs)
    BY <1>2, <2>4 DEF v
  <2>5. CASE cs # <<>> /\ Form(v, Tail(cs))
    <3> DEFINE d == Tail(cs)
    <3>1. d \in Seq(Bodies) /\ Len(cs) \in Nat /\ Len(d) = Len(cs) - 1
      BY <2>5
    <3>2. Left(t, d)
      BY <1>2, <2>5, <3>1 DEF v
    <3>3. PICK k \in 0..Len(d) : Form(t, From(d, k))
      BY <3>2 DEF Left
    <3> DEFINE n == k + 1
    <3>4. n \in 1..Len(cs) /\ n - 1 = k /\ n \in 0..Len(cs)
      BY <3>1
    <3> HIDE DEF n
    <3>5. From(d, k) = From(cs, n)
      BY <3>4, FromTail
    <3> HIDE DEF d
    <3> QED BY <3>3, <3>4, <3>5 DEF Left
  <2> QED BY <2>2, <2>3, <2>4, <2>5, FormTail
<1>3. \A y \in Seq(Byte) : y \in S
  <2> HIDE DEF S
  <2> QED BY <1>1, <1>2, SeqInduction
<1> QED BY <1>3

(***************************************************************************)
(* Counting places on the line.                                            *)
(***************************************************************************)

\* Places that move together beyond m are not more than where they go.
LEMMA Slide ==
  ASSUME NEW U, U \subseteq Int, NEW T, IsFiniteSet(T), NEW m \in Int, NEW d \in Int,
         \A u \in U : IF u <= m THEN u \in T ELSE u + d \in T /\ u + d > m
  PROVE  IsFiniteSet(U) /\ Cardinality(U) <= Cardinality(T) /\ Cardinality(U) \in Nat
<1> DEFINE f == [u \in U |-> IF u <= m THEN u ELSE u + d]
<1>1. f \in [U -> T]
  OBVIOUS
<1>2. ASSUME NEW u \in U, NEW v \in U, f[u] = f[v] PROVE u = v
  <2>1. f[u] = (IF u <= m THEN u ELSE u + d) /\ f[v] = (IF v <= m THEN v ELSE v + d)
    OBVIOUS
  <2>2. u \in Int /\ v \in Int /\ (u > m => u + d > m) /\ (v > m => v + d > m)
    OBVIOUS
  <2> HIDE DEF f
  <2>3. (IF u <= m THEN u ELSE u + d) = (IF v <= m THEN v ELSE v + d)
    BY <1>2, <2>1
  <2>4. ASSUME NEW i \in Int, NEW j \in Int, i > m => i + d > m, j > m => j + d > m,
               (IF i <= m THEN i ELSE i + d) = (IF j <= m THEN j ELSE j + d)
        PROVE  i = j
    BY <2>4
  <2> QED BY <2>2, <2>3, <2>4
<1>3. f \in Injection(U, T)
  <2> HIDE DEF f
  <2> QED BY <1>1, <1>2 DEF Injection, IsInjective
<1> HIDE DEF f
<1> QED BY <1>3, FS_Injection, FS_CardinalityType

Flags(w) == {i \in 1..Len(w) : w[i] = HdlcFlag}

LEMMA FlagsFinite ==
  ASSUME NEW w \in Seq(Byte)
  PROVE  IsFiniteSet(Flags(w)) /\ Cardinality(Flags(w)) \in Nat
<1>1. IsFiniteSet(1..Len(w))
  BY FS_Interval
<1>2. Flags(w) \in SUBSET (1..Len(w))
  BY DEF Flags
<1> QED BY <1>1, <1>2, FS_Subset, FS_CardinalityType

LEMMA FlagsConcat ==
  ASSUME NEW x \in Seq(Byte), NEW s \in Seq(Byte)
  PROVE  Cardinality(Flags(x \o s)) <= Cardinality(Flags(x)) + Cardinality(Flags(s))
<1> DEFINE w == x \o s
           m == Len(x)
           A == {i \in Flags(w) : i <= m}
           B == {i \in Flags(w) : i > m}
<1>1. /\ w \in Seq(Byte) /\ Len(w) = m + Len(s) /\ m \in Nat /\ Len(s) \in Nat
      /\ \A i \in 1..m : w[i] = x[i]
      /\ \A i \in 1..Len(s) : w[i + m] = s[i]
  BY ConcatIs
<1> HIDE DEF w, m
<1>2. Flags(w) \subseteq Nat /\ Flags(w) = A \cup B
  BY <1>1 DEF Flags
<1>3. A \in SUBSET Flags(x)
  BY <1>1 DEF Flags, m
<1>4. IsFiniteSet(A) /\ Cardinality(A) <= Cardinality(Flags(x)) /\ Cardinality(A) \in Nat
  <2> HIDE DEF A
  <2> QED BY <1>3, FlagsFinite, FS_Subset, FS_CardinalityType
<1>5. ASSUME NEW u \in B PROVE u \in Int /\ u > 0 /\ u + (-m) \in Flags(s) /\ u + (-m) > 0
  <2>1. u \in 1..Len(w) /\ u > m /\ w[u] = HdlcFlag
    BY <1>2 DEF Flags
  <2> DEFINE j == u + (-m)
  <2>2. j \in 1..Len(s) /\ j + m = u
    BY <1>1, <2>1
  <2> HIDE DEF j
  <2>3. s[j] = HdlcFlag
    BY <1>1, <2>1, <2>2
  <2> QED BY <1>1, <2>1, <2>2, <2>3 DEF Flags, j
<1>6. IsFiniteSet(B) /\ Cardinality(B) <= Cardinality(Flags(s)) /\ Cardinality(B) \in Nat
  <2>1. B \subseteq Int /\ \A u \in B : ~(u <= 0)
    BY <1>5
  <2>2. -m \in Int /\ 0 \in Int
    BY <1>1
  <2> HIDE DEF B
  <2> QED BY <1>5, <2>1, <2>2, FlagsFinite, Slide
<1>7. Cardinality(A \cup B) <= Cardinality(A) + Cardinality(B)
  <2> HIDE DEF A, B
  <2>1. IsFiniteSet(A \cap B)
    BY <1>4, FS_Intersection
  <2>2. Cardinality(A \cap B) \in Nat
    BY <2>1, FS_CardinalityType
  <2>3. Cardinality(A \cup B) = Cardinality(A) + Cardinality(B) - Cardinality(A \cap B)
    BY <1>4, <1>6, FS_Union
  <2> QED BY <1>4, <1>6, <2>2, <2>3
<1>8. Cardinality(Flags(x)) \in Nat /\ Cardinality(Flags(s)) \in Nat
  BY FlagsFinite
<1>9. Cardinality(Flags(w)) <= Cardinality(Flags(x)) + Cardinality(Flags(s))
  <2> HIDE DEF A, B
  <2>1. Cardinality(Flags(w)) = Cardinality(A \cup B)
    BY <1>2
  <2>2. Cardinality(A \cup B) \in Nat
    BY <1>4, <1>6, FS_Union, FS_CardinalityType
  <2> QED BY <1>4, <1>6, <1>7, <1>8, <2>1, <2>2
<1> QED BY <1>9 DEF w

\* A frame brings two.
LEMMA FlagsFrame ==
  ASSUME NEW b \in Bodies
  PROVE  Cardinality(Flags(Frame(b))) <= 2
<1> DEFINE f == <<HdlcFlag>>
           e == HdlcEscaped(b)
<1>1. Cardinality(Flags(f)) <= 1
  <2>1. Flags(f) = {1}
    BY DEF Flags
  <2>2. Cardinality({1}) = 1
    BY FS_Singleton, Zenon
  <2> QED BY <2>1, <2>2
<1>2. Cardinality(Flags(e)) = 0
  <2>1. e \in Seq(NoFlag)
    BY BodyIs
  <2> HIDE DEF e
  <2>2. Flags(e) = {}
    BY <2>1 DEF Flags, NoFlag
  <2> QED BY <2>2, FS_EmptySet
<1>3. e \in Seq(Byte) /\ f \in Seq(Byte)
  BY BodyIs, NoFlagSeq
<1> HIDE DEF e, f
<1>4. e \o f \in Seq(Byte)
  BY <1>3, ConcatProperties
<1>5. Cardinality(Flags(e \o f)) <= Cardinality(Flags(e)) + Cardinality(Flags(f))
  BY <1>3, FlagsConcat
<1>6. Cardinality(Flags(f \o (e \o f))) <= Cardinality(Flags(f)) + Cardinality(Flags(e \o f))
  BY <1>3, <1>4, FlagsConcat
<1>7. f \o (e \o f) \in Seq(Byte)
  BY <1>3, <1>4, ConcatProperties
<1>8. /\ Cardinality(Flags(f)) \in Nat /\ Cardinality(Flags(e)) \in Nat
      /\ Cardinality(Flags(e \o f)) \in Nat /\ Cardinality(Flags(f \o (e \o f))) \in Nat
  BY <1>3, <1>4, <1>7, FlagsFinite
<1>9. Cardinality(Flags(f \o (e \o f))) <= 2
  BY <1>1, <1>2, <1>5, <1>6, <1>8
<1> QED BY <1>9 DEF Frame, e, f

\* What a place on the line becomes when a byte is lost.
LEMMA LossIs ==
  ASSUME NEW x \in Seq(Byte), NEW b \in Byte, NEW y \in Seq(Byte)
  PROVE  LET w == x \o (<<b>> \o y)
             v == x \o y
         IN  /\ w \in Seq(Byte) /\ v \in Seq(Byte) /\ Len(x) \in Nat /\ Len(y) \in Nat
             /\ Len(v) = Len(x) + Len(y) /\ Len(w) = Len(v) + 1
             /\ w[Len(x) + 1] = b
             /\ \A i \in 1..Len(x) : w[i] = v[i] /\ w[i] = x[i]
             /\ \A i \in (Len(x) + 1)..Len(v) : w[i + 1] = v[i]
<1> DEFINE z == <<b>> \o y
           w == x \o z
           v == x \o y
           m == Len(x)
<1>1. z \in Seq(Byte) /\ Len(z) = Len(y) + 1 /\ z[1] = b /\ \A i \in 1..Len(y) : z[i + 1] = y[i] /\ Len(y) \in Nat
  OBVIOUS
<1> HIDE DEF z
<1>2. /\ w \in Seq(Byte) /\ Len(w) = m + Len(z) /\ m \in Nat
      /\ \A i \in 1..m : w[i] = x[i]
      /\ \A i \in 1..Len(z) : w[i + m] = z[i]
  <2>1. z \in Seq(Byte)
    BY <1>1
  <2> QED BY <2>1, ConcatIs
<1>3. /\ v \in Seq(Byte) /\ Len(v) = m + Len(y)
      /\ \A i \in 1..m : v[i] = x[i]
      /\ \A i \in 1..Len(y) : v[i + m] = y[i]
  BY ConcatIs
<1> HIDE DEF w, v, m
<1>4. ASSUME NEW i \in (m + 1)..Len(v) PROVE w[i + 1] = v[i]
  <2> DEFINE j == i - m
             k == j + 1
  <2>1. j \in 1..Len(y) /\ j + m = i /\ k \in 1..Len(z) /\ k + m = i + 1
    BY <1>1, <1>2, <1>3
  <2> HIDE DEF j
  <2>2. v[i] = y[j] /\ z[k] = y[j]
    BY <1>1, <1>3, <2>1
  <2> HIDE DEF k
  <2>3. w[k + m] = z[k]
    BY <1>2, <2>1
  <2> QED BY <2>1, <2>2, <2>3
<1>5. w[m + 1] = b
  <2>1. 1 \in 1..Len(z) /\ 1 + m = m + 1
    BY <1>1, <1>2
  <2> QED BY <1>1, <1>2, <2>1
<1>6. Len(w) = Len(v) + 1
  BY <1>1, <1>2, <1>3
<1>7. \A i \in 1..m : w[i] = v[i] /\ w[i] = x[i]
  BY <1>2, <1>3
<1> QED BY <1>1, <1>2, <1>3, <1>4, <1>5, <1>6, <1>7 DEF w, v, m, z

LEMMA FlagsLoss ==
  ASSUME NEW w \in Seq(Byte), NEW i \in 1..Len(w)
  PROVE  /\ RemoveAt(w, i) \in Seq(Byte)
         /\ Cardinality(Flags(RemoveAt(w, i))) <= Cardinality(Flags(w))
<1>1. PICK x \in Seq(Byte), b \in Byte, y \in Seq(Byte) :
        w = x \o (<<b>> \o y) /\ RemoveAt(w, i) = x \o y
  BY RemoveIs
<1> DEFINE v == x \o y
           m == Len(x)
<1>2. /\ v \in Seq(Byte) /\ m \in Nat /\ Len(v) \in Nat /\ Len(w) = Len(v) + 1
      /\ \A j \in 1..m : w[j] = v[j]
      /\ \A j \in (m + 1)..Len(v) : w[j + 1] = v[j]
      /\ m <= Len(v)
  BY <1>1, LossIs
<1> HIDE DEF v, m
<1>3. ASSUME NEW u \in Flags(v)
      PROVE  IF u <= m THEN u \in Flags(w) ELSE u + 1 \in Flags(w) /\ u + 1 > m
  <2>1. u \in 1..Len(v) /\ v[u] = HdlcFlag
    BY DEF Flags
  <2>2. CASE u <= m
    <3>1. u \in 1..m /\ u \in 1..Len(w)
      BY <1>2, <2>1, <2>2
    <3> QED BY <1>2, <2>1, <2>2, <3>1 DEF Flags
  <2>3. CASE ~(u <= m)
    <3>1. u \in (m + 1)..Len(v) /\ u + 1 \in 1..Len(w) /\ u + 1 > m
      BY <1>2, <2>1, <2>3
    <3> QED BY <1>2, <2>1, <2>3, <3>1 DEF Flags
  <2> QED BY <2>2, <2>3
<1>4. Flags(v) \subseteq Int
  BY DEF Flags
<1>5. Cardinality(Flags(v)) <= Cardinality(Flags(w))
  BY <1>2, <1>3, <1>4, FlagsFinite, Slide
<1> QED BY <1>1, <1>2, <1>5 DEF v

(***************************************************************************)
(* Types.  exec_and_get_ver drops half of the flags it has read, and the   *)
(* line holds no more than two for each frame sent.                        *)
(***************************************************************************)

TypeInv ==
  /\ TypeOK
  /\ reader # "body" => body = <<>>
  /\ Len(sent) <= MaxFrames
  /\ reader = "ver" =>
       got = <<>> /\ dropped = 0 /\ Cardinality(Flags(wire)) <= 2 * Len(sent)

\* The two flags exec_and_get_ver cuts the VER out between.
LEMMA FirstTwo ==
  ASSUME NEW w \in Seq(Byte), NEW n \in DOMAIN w,
         Cardinality({i \in 1..n : w[i] = HdlcFlag}) > 1
  PROVE  LET flags == {i \in 1..n : w[i] = HdlcFlag}
             first == Min(flags)
             second == Min(flags \ {first})
         IN  /\ first \in 1..n /\ second \in (first + 1)..n /\ n \in 1..Len(w)
             /\ w[first] = HdlcFlag /\ w[second] = HdlcFlag
             /\ \A i \in 1..(second - 1) : i # first => w[i] # HdlcFlag
             /\ SubSeq(w, first + 1, second - 1) \in Seq(Byte)
<1> DEFINE flags == {i \in 1..n : w[i] = HdlcFlag}
           first == Min(flags)
           rest == flags \ {first}
           second == Min(rest)
<1>1. flags \subseteq Nat /\ n \in 1..Len(w) /\ Len(w) \in Nat /\ \A i \in 1..Len(w) : w[i] \in Byte
  OBVIOUS
<1>2. flags # {} /\ rest # {}
  <2>1. Cardinality({}) = 0 /\ Cardinality({first}) = 1
    BY FS_EmptySet, FS_Singleton, Zenon
  <2>2. ~(0 > 1) /\ ~(1 > 1)
    OBVIOUS
  <2>3. flags # {} /\ flags # {first}
    <3> HIDE DEF first
    <3> QED BY <2>1, <2>2
  <2> HIDE DEF flags
  <2>4. first \in flags
    BY <1>1, <2>3, MinIs
  <2> HIDE DEF first
  <2> QED BY <2>3, <2>4
<1>3. first \in flags /\ \A i \in flags : first <= i
  <2> HIDE DEF flags
  <2> QED BY <1>1, <1>2, MinIs
<1>4. second \in rest /\ \A i \in rest : second <= i
  <2>1. rest \subseteq Nat
    BY <1>1
  <2> HIDE DEF rest
  <2> QED BY <1>2, <2>1, MinIs
<1> HIDE DEF first, second
<1>5. first \in 1..n /\ second \in (first + 1)..n /\ w[first] = HdlcFlag /\ w[second] = HdlcFlag
  BY <1>1, <1>3, <1>4
<1>6. ASSUME NEW i \in 1..(second - 1), i # first PROVE w[i] # HdlcFlag
  BY <1>1, <1>4, <1>5, <1>6
<1>7. SubSeq(w, first + 1, second - 1) \in Seq(Byte)
  <2>1. first + 1 \in Int /\ second - 1 \in Int /\ \A i \in first + 1..second - 1 : w[i] \in Byte
    BY <1>1, <1>5
  <2> HIDE DEF flags, rest
  <2> QED BY <2>1, SubSeqProperties
<1> QED BY <1>1, <1>5, <1>6, <1>7 DEF first, second

LEMMA TypeInit == Init => TypeInv
<1> SUFFICES ASSUME Init PROVE TypeInv
  OBVIOUS
<1>1. Cardinality(Flags(wire)) = 0
  <2>1. Flags(wire) = {}
    BY DEF Init, Flags
  <2>2. Cardinality({}) = 0
    BY FS_EmptySet, Zenon
  <2> QED BY <2>1, <2>2
<1>2. MaxFrames \in Nat /\ MaxDeadlines \in Nat /\ MaxLost \in Nat
  BY LinkAssumption
<1>3. TypeOK
  BY <1>2 DEF Init, TypeOK
<1>4. Len(sent) = 0
  BY DEF Init
<1> QED BY <1>1, <1>2, <1>3, <1>4 DEF Init, TypeInv

LEMMA TypeStep == TypeInv /\ [Next]_vars => TypeInv'
<1> SUFFICES ASSUME TypeInv, [Next]_vars PROVE TypeInv'
  OBVIOUS
<1>0. /\ MaxFrames \in Nat /\ MaxDeadlines \in Nat /\ MaxLost \in Nat
      /\ Len(sent) \in Nat /\ Cardinality(Flags(wire)) \in Nat
  BY LinkAssumption, FlagsFinite DEF TypeInv, TypeOK
<1>1. ASSUME DevSend PROVE TypeInv'
  <2>1. PICK b \in Bodies :
          /\ wire' = wire \o <<HdlcFlag>> \o HdlcEscaped(b) \o <<HdlcFlag>>
          /\ sent' = Append(sent, b)
    BY <1>1 DEF DevSend
  <2>2. wire \in Seq(Byte) /\ sent \in Seq(Bodies)
    BY DEF TypeInv, TypeOK
  <2>3. wire' = wire \o Frame(b) /\ Frame(b) \in Seq(Byte)
    <3> DEFINE f == <<HdlcFlag>>
               e == HdlcEscaped(b)
    <3>1. f \in Seq(Byte) /\ e \in Seq(Byte) /\ Frame(b) \in Seq(Byte) /\ Frame(b) = f \o (e \o f)
      BY BodyIs, NoFlagSeq DEF Frame
    <3>2. wire' = ((wire \o f) \o e) \o f
      BY <2>1
    <3> HIDE DEF f, e
    <3>3. wire \o f \in Seq(Byte) /\ e \o f \in Seq(Byte)
      BY <2>2, <3>1, ConcatProperties
    <3>4. ((wire \o f) \o e) \o f = (wire \o f) \o (e \o f)
      BY <3>1, <3>3, ConcatAssociative
    <3>5. (wire \o f) \o (e \o f) = wire \o (f \o (e \o f))
      <4> DEFINE g == e \o f
      <4>1. g \in Seq(Byte)
        BY <3>3
      <4> HIDE DEF g
      <4>2. wire \in Seq(Byte) /\ f \in Seq(Byte)
        BY <2>2, <3>1
      <4>3. (wire \o f) \o g = wire \o (f \o g)
        BY <4>1, <4>2, ConcatAssociative
      <4> QED BY <4>3 DEF g
    <3> QED BY <3>1, <3>2, <3>4, <3>5
  <2>4. wire' \in Seq(Byte) /\ sent' \in Seq(Bodies) /\ Len(sent') = Len(sent) + 1
    BY <2>1, <2>2, <2>3, ConcatProperties, AppendProperties
  <2>5. Cardinality(Flags(wire')) <= Cardinality(Flags(wire)) + 2
    <3>1. /\ Cardinality(Flags(wire')) <= Cardinality(Flags(wire)) + Cardinality(Flags(Frame(b)))
          /\ Cardinality(Flags(Frame(b))) <= 2
      BY <2>2, <2>3, FlagsConcat, FlagsFrame
    <3>2. Cardinality(Flags(wire')) \in Nat /\ Cardinality(Flags(Frame(b))) \in Nat
      BY <2>3, <2>4, FlagsFinite
    <3> QED BY <1>0, <3>1, <3>2
  <2>6. Cardinality(Flags(wire')) \in Nat
    BY <2>4, FlagsFinite
  <2>7. /\ Len(sent') <= MaxFrames
        /\ reader = "ver" => Cardinality(Flags(wire')) <= 2 * Len(sent')
    BY <1>0, <1>1, <2>4, <2>5, <2>6 DEF DevSend, TypeInv
  <2> QED BY <1>1, <2>4, <2>7 DEF DevSend, TypeInv, TypeOK
<1>2. ASSUME LoseByte PROVE TypeInv'
  <2>1. PICK i \in DOMAIN wire : wire' = RemoveAt(wire, i)
    BY <1>2 DEF LoseByte
  <2>2. wire \in Seq(Byte) /\ i \in 1..Len(wire)
    BY <2>1 DEF TypeInv, TypeOK
  <2>3. wire' \in Seq(Byte) /\ Cardinality(Flags(wire')) <= Cardinality(Flags(wire))
    BY <2>1, <2>2, FlagsLoss
  <2>4. Cardinality(Flags(wire')) \in Nat
    BY <2>3, FlagsFinite
  <2>5. lost' \in 0..MaxLost
    BY <1>0, <1>2 DEF LoseByte, TypeInv, TypeOK
  <2>6. reader = "ver" => Cardinality(Flags(wire')) <= 2 * Len(sent)
    BY <1>0, <2>3, <2>4 DEF TypeInv
  <2> QED BY <1>2, <2>3, <2>5, <2>6 DEF LoseByte, TypeInv, TypeOK
<1>3. ASSUME GetVer PROVE TypeInv'
  <2> DEFINE flags(n) == {i \in 1..n : wire[i] = HdlcFlag}
             second(n) == Min(flags(n) \ {Min(flags(n))})
             x(n) == SubSeq(wire, Min(flags(n)) + 1, second(n) - 1)
  <2>1. PICK n \in DOMAIN wire :
          /\ Cardinality(flags(n)) > 1 /\ got' = Append(got, HdlcUnescaped(x(n)))
          /\ reader' = IF second(n) = Min(flags(n)) + 1 THEN "closed" ELSE "idle"
          /\ wire' = SubSeq(wire, n + 1, Len(wire))
          /\ dropped' = (Cardinality(flags(n)) - 1) \div 2
    BY <1>3, Zenon DEF GetVer
  <2>2. wire \in Seq(Byte) /\ n \in 1..Len(wire) /\ Len(wire) \in Nat
    BY DEF TypeInv, TypeOK
  <2>3. x(n) \in Seq(Byte)
    BY <2>1, <2>2, FirstTwo
  <2>4. HdlcUnescaped(x(n)) \in Seq(Byte)
    BY <2>3, UnescapedType
  <2>5. got' \in Seq(Seq(Byte))
    <3> DEFINE y == HdlcUnescaped(x(n))
    <3>1. y \in Seq(Byte) /\ got' = Append(got, y) /\ got \in Seq(Seq(Byte))
      BY <2>1, <2>4 DEF TypeInv, TypeOK
    <3> HIDE DEF y
    <3> QED BY <3>1, AppendProperties
  <2>6. wire' \in Seq(Byte)
    <3>1. n \in 0..Len(wire) /\ wire' = From(wire, n)
      BY <2>1, <2>2 DEF From
    <3> QED BY <2>2, <3>1, CutIs
  <2>7. dropped' \in 0..MaxFrames
    <3> DEFINE c == Cardinality(flags(n))
    <3>1. c \in Nat /\ c <= Cardinality(Flags(wire))
      <4>1. flags(n) \in SUBSET Flags(wire)
        BY <2>2 DEF Flags
      <4> HIDE DEF flags
      <4> QED BY <2>2, <4>1, FlagsFinite, FS_Subset, FS_CardinalityType
    <3>2. Cardinality(Flags(wire)) <= 2 * Len(sent) /\ Len(sent) <= MaxFrames
      BY <1>3 DEF GetVer, TypeInv
    <3>3. c > 1 /\ dropped' = (c - 1) \div 2
      BY <2>1
    <3> HIDE DEF c
    <3>4. c - 1 \in Nat /\ c - 1 <= 2 * MaxFrames
      BY <1>0, <3>1, <3>2, <3>3
    <3> QED BY <1>0, <3>3, <3>4
  <2>8. reader' \in {"closed", "idle"}
    <3> HIDE DEF flags, second
    <3> QED BY <2>1
  <2> HIDE DEF flags, second, x
  <2> QED BY <1>3, <2>5, <2>6, <2>7, <2>8 DEF GetVer, TypeInv, TypeOK
<1>4. ASSUME wire # <<>> PROVE wire = <<Head(wire)>> \o Tail(wire) /\ Head(wire) \in Byte /\ Tail(wire) \in Seq(Byte)
  BY <1>4, HeadAndTail DEF TypeInv, TypeOK
<1>5. ASSUME ReadFrame PROVE TypeInv'
  BY <1>5 DEF ReadFrame, TypeInv, TypeOK
<1>6. ASSUME Skip PROVE TypeInv'
  BY <1>4, <1>6 DEF Skip, NextByte, TypeInv, TypeOK
<1>7. ASSUME OpenAgain PROVE TypeInv'
  BY <1>4, <1>7 DEF OpenAgain, NextByte, TypeInv, TypeOK
<1>8. ASSUME Collect PROVE TypeInv'
  <2> DEFINE b == Head(wire)
  <2>0. b \in NoFlag /\ body \in Seq(NoFlag) /\ body' = Append(body, b)
    BY <1>4, <1>8 DEF Collect, NextByte, TypeInv, TypeOK, NoFlag
  <2> HIDE DEF b
  <2>1. body' \in Seq(Byte \ {HdlcFlag})
    BY <2>0, AppendProperties DEF NoFlag
  <2> QED BY <1>4, <1>8, <2>1 DEF Collect, NextByte, TypeInv, TypeOK
<1>9. ASSUME Return PROVE TypeInv'
  <2> DEFINE y == HdlcUnescaped(body)
  <2>1. y \in Seq(Byte)
    <3>1. body \in Seq(Byte)
      BY NoFlagSeq DEF TypeInv, TypeOK, NoFlag
    <3> QED BY <3>1, UnescapedType
  <2>2. got' = Append(got, y) /\ got \in Seq(Seq(Byte))
    BY <1>9 DEF Return, TypeInv, TypeOK
  <2> HIDE DEF y
  <2>3. got' \in Seq(Seq(Byte))
    BY <2>1, <2>2, AppendProperties
  <2> QED BY <1>4, <1>9, <2>3 DEF Return, NextByte, TypeInv, TypeOK
<1>10. ASSUME Deadline PROVE TypeInv'
  BY <1>0, <1>10 DEF Deadline, TypeInv, TypeOK
<1>11. ASSUME UNCHANGED vars PROVE TypeInv'
  BY <1>11 DEF TypeInv, TypeOK
<1> QED BY <1>1, <1>2, <1>3, <1>5, <1>6, <1>7, <1>8, <1>9, <1>10, <1>11 DEF Next, Reading

LEMMA TypesAlways == Spec => []TypeInv
BY TypeInit, TypeStep, PTL DEF Spec

\* Every variable has its type; in particular exec_and_get_ver never drops
\* more frames with its buffer than were sent.  protocol.py:198-222,
\* pdl.py:137-150
THEOREM TypeCorrect == Spec => []TypeOK
<1>1. TypeInv => TypeOK
  BY DEF TypeInv
<1> QED BY <1>1, TypesAlways, PTL

(***************************************************************************)
(* What each step does to the line as the reader sees it.                  *)
(***************************************************************************)

LEMMA LineType ==
  ASSUME TypeInv
  PROVE  /\ Line \in Seq(Byte) /\ wire \in Seq(Byte) /\ body \in Seq(NoFlag) /\ body \in Seq(Byte)
         /\ reader = "body" => Line = <<HdlcFlag>> \o (body \o wire)
         /\ reader # "body" => Line = wire
<1> DEFINE f == <<HdlcFlag>>
<1>1. wire \in Seq(Byte) /\ body \in Seq(NoFlag) /\ body \in Seq(Byte) /\ f \in Seq(Byte)
  BY NoFlagSeq DEF TypeInv, TypeOK, NoFlag
<1> HIDE DEF f
<1>2. f \o body \in Seq(Byte) /\ (f \o body) \o wire = f \o (body \o wire)
  BY <1>1, ConcatProperties, ConcatAssociative
<1>3. (f \o body) \o wire \in Seq(Byte)
  BY <1>1, <1>2, ConcatProperties
<1> QED BY <1>1, <1>2, <1>3 DEF Line, f

LEMMA SendLine ==
  ASSUME TypeInv, DevSend
  PROVE  \E b \in Bodies : Line' = Line \o Frame(b) /\ sent' = Append(sent, b)
<1>1. PICK b \in Bodies :
        /\ wire' = wire \o <<HdlcFlag>> \o HdlcEscaped(b) \o <<HdlcFlag>>
        /\ sent' = Append(sent, b)
  BY DEF DevSend
<1> DEFINE f == <<HdlcFlag>>
           e == HdlcEscaped(b)
           g == e \o f
           r == f \o body
<1>2. f \in Seq(Byte) /\ e \in Seq(Byte) /\ Frame(b) = f \o g /\ Frame(b) \in Seq(Byte)
  BY BodyIs, NoFlagSeq DEF Frame
<1>3. wire' = ((wire \o f) \o e) \o f
  BY <1>1
<1>4. wire \in Seq(Byte) /\ body \in Seq(Byte)
  BY LineType
<1>5. body' = body /\ reader' = reader
  BY DEF DevSend
<1>6. Line = (IF reader = "body" THEN r \o wire ELSE wire)
      /\ Line' = (IF reader' = "body" THEN (f \o body') \o wire' ELSE wire')
  BY DEF Line
<1> HIDE DEF f, e
<1>7. wire \o f \in Seq(Byte) /\ g \in Seq(Byte) /\ r \in Seq(Byte)
  BY <1>2, <1>4, ConcatProperties
<1>8. ((wire \o f) \o e) \o f = (wire \o f) \o g
  BY <1>2, <1>7, ConcatAssociative
<1>9. (wire \o f) \o g = wire \o Frame(b)
  <2> HIDE DEF g, r
  <2>1. wire \in Seq(Byte) /\ f \in Seq(Byte) /\ g \in Seq(Byte)
    BY <1>2, <1>4, <1>7
  <2>2. (wire \o f) \o g = wire \o (f \o g)
    BY <2>1, Joined, Zenon
  <2> QED BY <1>2, <2>2
<1>10. (r \o wire) \o Frame(b) = r \o (wire \o Frame(b))
  <2> HIDE DEF g, r
  <2>1. r \in Seq(Byte) /\ wire \in Seq(Byte) /\ Frame(b) \in Seq(Byte)
    BY <1>2, <1>4, <1>7
  <2> QED BY <2>1, Joined, Zenon
<1> HIDE DEF g
<1>11. Line' = Line \o Frame(b)
  BY <1>3, <1>5, <1>6, <1>8, <1>9, <1>10
<1> QED BY <1>1, <1>11

LEMMA LossLine ==
  ASSUME TypeInv, LoseByte
  PROVE  \E x \in Seq(Byte), b \in Byte, y \in Seq(Byte) :
           Line = x \o (<<b>> \o y) /\ Line' = x \o y
<1>1. PICK i \in DOMAIN wire : wire' = RemoveAt(wire, i)
  BY DEF LoseByte
<1>2. wire \in Seq(Byte) /\ body \in Seq(Byte) /\ i \in 1..Len(wire)
  BY LineType
<1>3. PICK x \in Seq(Byte), b \in Byte, y \in Seq(Byte) :
        wire = x \o (<<b>> \o y) /\ RemoveAt(wire, i) = x \o y
  BY <1>2, RemoveIs
<1> DEFINE r == <<HdlcFlag>> \o body
           z == <<b>> \o y
<1>4. body' = body /\ reader' = reader
  BY DEF LoseByte
<1>5. Line = (IF reader = "body" THEN r \o wire ELSE wire)
      /\ Line' = (IF reader' = "body" THEN (<<HdlcFlag>> \o body') \o wire' ELSE wire')
  BY DEF Line
<1>6. r \in Seq(Byte) /\ z \in Seq(Byte)
  BY <1>2, NoFlagSeq, ConcatProperties, ConsIs
<1>7. Line' = (IF reader = "body" THEN r \o wire' ELSE wire')
  BY <1>4, <1>5
<1> HIDE DEF r, z
<1>8. r \o x \in Seq(Byte) /\ (r \o x) \o z = r \o (x \o z) /\ (r \o x) \o y = r \o (x \o y)
  <2>1. x \in Seq(Byte) /\ y \in Seq(Byte)
    BY <1>3
  <2>2. r \o x \in Seq(Byte)
    BY <1>6, <2>1, Joined, Zenon
  <2>3. (r \o x) \o z = r \o (x \o z)
    BY <1>6, <2>1, Joined, Zenon
  <2>4. (r \o x) \o y = r \o (x \o y)
    BY <1>6, <2>1, Joined, Zenon
  <2> QED BY <2>2, <2>3, <2>4
<1>9. CASE reader = "body"
  <2>1. Line = (r \o x) \o z /\ Line' = (r \o x) \o y
    BY <1>1, <1>3, <1>5, <1>7, <1>8, <1>9 DEF z
  <2> QED BY <1>8, <2>1 DEF z
<1>10. CASE reader # "body"
  BY <1>1, <1>3, <1>5, <1>7, <1>10
<1> QED BY <1>9, <1>10

LEMMA SkipLine ==
  ASSUME TypeInv, Skip \/ OpenAgain
  PROVE  \/ Line' = Line
         \/ /\ Line # <<>> /\ Line' = Tail(Line) /\ reader' \in {"skip", "body"}
            /\ Line[1] # HdlcFlag \/ (Len(Line) > 1 /\ Line[2] = HdlcFlag)
<1>1. wire # <<>> /\ wire' = Tail(wire)
  BY DEF Skip, OpenAgain, NextByte
<1>2. wire = <<Head(wire)>> \o Tail(wire) /\ Tail(wire) \in Seq(Byte) /\ wire \in Seq(Byte)
  BY <1>1, HeadAndTail, LineType
<1> DEFINE f == <<HdlcFlag>>
<1>3. f \in Seq(Byte) /\ f \o <<>> = f
  BY NoFlagSeq
<1>4. CASE Skip
  <2>1. /\ reader = "skip" /\ reader' = IF Head(wire) = HdlcFlag THEN "body" ELSE "skip"
        /\ body = <<>> /\ body' = <<>>
    BY <1>4 DEF Skip, TypeInv
  <2>2. Head(wire) = wire[1]
    OBVIOUS
  <2> QED BY <1>1, <1>2, <1>3, <2>1, <2>2 DEF Line
<1>5. CASE OpenAgain
  <2>1. reader = "body" /\ reader' = "body" /\ body = <<>> /\ body' = <<>> /\ Head(wire) = HdlcFlag
    BY <1>5 DEF OpenAgain
  <2>2. Line = f \o wire /\ Line' = f \o Tail(wire)
    BY <1>1, <1>3, <2>1 DEF Line
  <2>3. Line # <<>> /\ Tail(Line) = wire
    BY <1>2, <2>2, NoFlagSeq, ConsIs
  <2>4. Len(Line) > 1 /\ Line[2] = HdlcFlag
    <3>1. Len(wire) > 0 /\ wire[1] = HdlcFlag /\ Len(f) = 1
      BY <1>1, <1>2, <2>1
    <3>2. Len(f \o wire) = Len(f) + Len(wire) /\ (f \o wire)[1 + Len(f)] = wire[1] /\ Len(wire) \in Nat
      <4>1. Len(wire) \in Nat
        BY <1>2
      <4>2. 1 \in 1..Len(wire)
        BY <3>1, <4>1
      <4> HIDE DEF f
      <4> QED BY <1>2, <1>3, <4>1, <4>2, ConcatIs
    <3> QED BY <2>2, <3>1, <3>2
  <2> QED BY <1>2, <2>1, <2>2, <2>3, <2>4
<1> QED BY <1>4, <1>5

LEMMA KeepLine ==
  ASSUME TypeInv, ReadFrame \/ Collect
  PROVE  Line' = Line
<1>1. CASE ReadFrame
  BY <1>1 DEF ReadFrame, Line
<1>2. CASE Collect
  <2> DEFINE f == <<HdlcFlag>>
             b == Head(wire)
             t == Tail(wire)
             r == f \o body
  <2>1. /\ reader = "body" /\ reader' = "body" /\ wire # <<>> /\ wire' = t
        /\ body' = Append(body, b)
    BY <1>2 DEF Collect, NextByte
  <2>2. wire = <<b>> \o t /\ t \in Seq(Byte) /\ b \in Byte /\ body \in Seq(Byte) /\ f \in Seq(Byte)
    BY <2>1, HeadAndTail, LineType, NoFlagSeq
  <2> HIDE DEF b, t, f
  <2>3. body' = body \o <<b>> /\ <<b>> \in Seq(Byte) /\ r \in Seq(Byte)
    BY <2>1, <2>2, AppendIsConcat, ConcatProperties
  <2>4. (r \o <<b>>) \o t = r \o (<<b>> \o t)
    <3> HIDE DEF r
    <3> QED BY <2>2, <2>3, Joined
  <2>5. f \o (body \o <<b>>) = (f \o body) \o <<b>>
    BY <2>2, <2>3, ConcatAssociative
  <2>6. Line = r \o wire /\ Line' = (f \o body') \o wire'
    BY <2>1 DEF Line, f
  <2> QED BY <2>1, <2>2, <2>3, <2>4, <2>5, <2>6
<1> QED BY <1>1, <1>2

LEMMA ReturnLine ==
  ASSUME TypeInv, Return
  PROVE  /\ body # <<>> /\ Line' \in Seq(Byte) /\ got' = Append(got, HdlcUnescaped(body))
         /\ Line = <<HdlcFlag>> \o (body \o (<<HdlcFlag>> \o Line'))
<1>1. /\ reader = "body" /\ reader' = "idle" /\ body # <<>> /\ wire # <<>> /\ wire' = Tail(wire)
      /\ Head(wire) = HdlcFlag /\ got' = Append(got, HdlcUnescaped(body))
  BY DEF Return, NextByte
<1>2. wire = <<HdlcFlag>> \o Tail(wire) /\ Tail(wire) \in Seq(Byte)
  BY <1>1, HeadAndTail, LineType
<1>3. Line' = wire'
  BY <1>1 DEF Line
<1> QED BY <1>1, <1>2, <1>3, LineType

LEMMA DeadlineLine ==
  ASSUME TypeInv, Deadline
  PROVE  /\ Line' \in Seq(Byte)
         /\ Line' = Line \/ Line = <<HdlcFlag>> \o (body \o Line')
<1>1. reader \in {"skip", "body"} /\ reader' = "idle" /\ wire' = wire
  BY DEF Deadline
<1>2. Line' = wire'
  BY <1>1 DEF Line
<1> QED BY <1>1, <1>2, LineType

(***************************************************************************)
(* The line keeps its form while no byte is lost, and each step is one of  *)
(* FrameFifo's, or none.                                                   *)
(***************************************************************************)

FormInv ==
  lost = 0 =>
    /\ reader # "closed"
    /\ reader = "ver" => wire = Frames(sent)
    /\ \E bs \in Seq(Bodies) : Form(Line, bs)

\* FrameFifo's actions on the frames pending.
Moved ==
  \/ Pending' = Pending /\ got' = got
  \/ \E b \in Bodies : Pending' = Append(Pending, b) /\ got' = got
  \/ \E n \in 1..Len(Pending) :
       /\ n > 1 => got = <<>>
       /\ Pending' = From(Pending, n) /\ got' = Append(got, Head(Pending))
  \/ 1 \in 1..Len(Pending) /\ Pending' = From(Pending, 1) /\ got' = got

LEMMA FormInit == Init => FormInv
<1> SUFFICES ASSUME Init PROVE FormInv
  OBVIOUS
<1>1. wire = <<>> /\ Line = <<>> /\ sent = <<>> /\ reader # "closed"
  BY DEF Init, Line
<1>2. Form(Line, <<>>) /\ wire = Frames(sent)
  BY <1>1, FramesEmpty DEF Form
<1>3. <<>> \in Seq(Bodies)
  OBVIOUS
<1> QED BY <1>1, <1>2, <1>3 DEF FormInv

LEMMA FromOne ==
  ASSUME NEW T, NEW s \in Seq(T), s # <<>>
  PROVE  From(s, 1) = Tail(s) /\ 1 \in 1..Len(s)
<1>1. 1 \in 1..Len(s) /\ 1 - 1 = 0 /\ Tail(s) \in Seq(T)
  OBVIOUS
<1>2. From(Tail(s), 1 - 1) = From(s, 1)
  BY <1>1, FromTail
<1>3. From(Tail(s), 0) = Tail(s)
  BY <1>1 DEF From
<1> QED BY <1>1, <1>2, <1>3

LEMMA SendForm ==
  ASSUME NEW bs \in Seq(Bodies), NEW w, Form(w, bs), NEW b \in Bodies
  PROVE  Append(bs, b) \in Seq(Bodies) /\ Form(w \o Frame(b), Append(bs, b))
<1> DEFINE f == <<HdlcFlag>>
           s == Frames(bs)
           r == Frame(b)
           t == f \o s
<1>1. s \in Seq(Byte) /\ t \in Seq(Byte) /\ r \in Seq(Byte) /\ f \in Seq(Byte)
  BY FramesType, BodyIs, NoFlagSeq
<1>2. Frames(Append(bs, b)) = s \o r /\ Append(bs, b) \in Seq(Bodies)
  BY FramesAppend, AppendProperties
<1> HIDE DEF s, r, f
<1>3. CASE w = s
  BY <1>2, <1>3 DEF Form, r
<1>4. ASSUME NEW x \in Seq(NoFlag), w = x \o t PROVE Form(w \o r, Append(bs, b))
  <2>1. t \o r = f \o (s \o r)
    BY <1>1, Joined, Zenon
  <2>2. x \in Seq(Byte)
    BY NoFlagSeq
  <2> HIDE DEF t
  <2>3. (x \o t) \o r = x \o (t \o r)
    BY <1>1, <2>2, Joined, Zenon
  <2>4. w \o r = x \o (f \o Frames(Append(bs, b)))
    BY <1>2, <1>4, <2>1, <2>3
  <2> QED BY <2>4 DEF Form, f
<1> QED BY <1>2, <1>3, <1>4 DEF Form, s, f, r

\* One frame is given up, or none, when a byte is taken.
LEMMA TailForm ==
  ASSUME NEW bs \in Seq(Bodies), NEW w, Form(w, bs), w # <<>>
  PROVE  Form(Tail(w), bs) \/ (1 \in 1..Len(bs) /\ From(bs, 1) \in Seq(Bodies) /\ Form(Tail(w), From(bs, 1)))
<1>1. bs # <<>> => From(bs, 1) = Tail(bs) /\ 1 \in 1..Len(bs) /\ Tail(bs) \in Seq(Bodies)
  BY FromOne, HeadAndTail
<1>2. Form(Tail(w), bs) \/ (bs # <<>> /\ Form(Tail(w), Tail(bs)))
  BY FormTail
<1> QED BY <1>1, <1>2

LEMMA LeftIs ==
  ASSUME NEW bs \in Seq(Bodies), NEW n \in 0..Len(bs)
  PROVE  From(bs, n) \in Seq(Bodies)
BY CutIs

LEMMA VerForm ==
  ASSUME TypeInv, FormInv, GetVer, lost = 0
  PROVE  /\ reader' # "closed" /\ reader' # "ver" /\ got' = <<Head(sent)>> /\ got = <<>>
         /\ \E k \in 1..Len(sent) : Form(wire', From(sent, k))
<1> DEFINE flags(n) == {i \in 1..n : wire[i] = HdlcFlag}
           second(n) == Min(flags(n) \ {Min(flags(n))})
           x(n) == SubSeq(wire, Min(flags(n)) + 1, second(n) - 1)
<1>1. PICK n \in DOMAIN wire :
        /\ Cardinality(flags(n)) > 1 /\ got' = Append(got, HdlcUnescaped(x(n)))
        /\ reader' = IF second(n) = Min(flags(n)) + 1 THEN "closed" ELSE "idle"
        /\ wire' = SubSeq(wire, n + 1, Len(wire))
  BY Zenon DEF GetVer
<1>2. wire \in Seq(Byte) /\ reader = "ver" /\ wire = Frames(sent) /\ sent \in Seq(Bodies) /\ got = <<>>
      /\ n \in 1..Len(wire)
  BY LineType DEF TypeInv, TypeOK, FormInv, GetVer
<1> DEFINE p == Min(flags(n))
           q == second(n)
<1>3. /\ p \in 1..n /\ q \in (p + 1)..n
      /\ wire[p] = HdlcFlag /\ wire[q] = HdlcFlag
      /\ \A i \in 1..(q - 1) : i # p => wire[i] # HdlcFlag
      /\ x(n) \in Seq(Byte)
  BY <1>1, <1>2, FirstTwo
<1>4. got' = <<HdlcUnescaped(SubSeq(wire, p + 1, q - 1))>> /\ reader' = IF q = p + 1 THEN "closed" ELSE "idle"
  BY <1>1, <1>2
<1> HIDE DEF p, q, flags, second, x
<1>5. wire # <<>>
  BY <1>2
<1> DEFINE e == HdlcEscaped(Head(sent))
           y == e \o (<<HdlcFlag>> \o Frames(Tail(sent)))
<1>6. /\ sent # <<>> /\ Head(sent) \in Bodies /\ Tail(sent) \in Seq(Bodies)
      /\ wire = <<HdlcFlag>> \o y /\ y \in Seq(Byte) /\ Form(Tail(wire), Tail(sent))
  BY <1>2, <1>5, FramesTail
<1>7. wire[1] = HdlcFlag /\ wire[2] # HdlcFlag
  <2>1. e \in Seq(NoFlag) /\ e \in Seq(Byte) /\ e # <<>>
    BY <1>6, BodyIs
  <2>2. <<HdlcFlag>> \o Frames(Tail(sent)) \in Seq(Byte)
    BY <1>6, FramesType
  <2> DEFINE t == <<HdlcFlag>> \o Frames(Tail(sent))
  <2> HIDE DEF e, t
  <2>3. e[1] \in NoFlag /\ 1 \in 1..Len(e)
    BY <2>1
  <2>4. t \in Seq(Byte)
    BY <2>2 DEF t
  <2>5. (e \o t)[1] = e[1] /\ e \o t \in Seq(Byte) /\ e \o t # <<>>
    BY <2>1, <2>3, <2>4
  <2> DEFINE z == e \o t
  <2>6. wire = <<HdlcFlag>> \o z
    BY <1>6 DEF t
  <2> HIDE DEF z
  <2>7. z \in Seq(Byte) /\ z # <<>> /\ z[1] \in NoFlag
    BY <2>3, <2>5 DEF z
  <2>8. wire[1] = HdlcFlag /\ wire[2] = z[1]
    BY <2>6, <2>7, NoFlagSeq
  <2> QED BY <2>7, <2>8 DEF NoFlag
<1> HIDE DEF e, y
<1>8. p = 1 /\ q # 2 /\ q \in 2..Len(wire)
  BY <1>2, <1>3, <1>7
<1>9. Min(Ends(wire, 1)) = q /\ 1 + 1 \notin Ends(wire, 1) /\ Ends(wire, 1) # {}
  <2>1. q \in Ends(wire, 1) /\ Ends(wire, 1) \subseteq Nat
    BY <1>2, <1>3, <1>8 DEF Ends
  <2>2. \A i \in Ends(wire, 1) : q <= i
    BY <1>2, <1>3, <1>8 DEF Ends
  <2>3. 1 + 1 \notin Ends(wire, 1)
    BY <1>7 DEF Ends
  <2> QED BY <2>1, <2>2, <2>3, MinOnly
<1>10. FramesIn(wire) = <<HdlcUnescaped(SubSeq(wire, 1 + 1, q - 1))>> \o Scan(wire)[q + 1]
  <2>1. 1 \in 1..(Len(wire) + 1) /\ ~(1 > Len(wire))
    BY <1>2
  <2> QED BY <1>2, <1>7, <1>9, <2>1, ScanIs, FramesInIs DEF ScanAt
<1>11. got' = <<Head(sent)>>
  <2> DEFINE u == HdlcUnescaped(SubSeq(wire, 1 + 1, q - 1))
             v == Scan(wire)[q + 1]
  <2>1. sent = <<u>> \o v
    BY <1>2, <1>10, ScanFrames
  <2>2. v \in Seq(Seq(Byte))
    <3>1. q + 1 \in 1..(Len(wire) + 1)
      BY <1>2, <1>8
    <3> QED BY <1>2, <3>1, ScanIs
  <2>3. got' = <<u>>
    BY <1>4, <1>8
  <2> HIDE DEF u, v
  <2>4. Head(<<u>> \o v) = u
    BY <2>2
  <2> QED BY <2>1, <2>3, <2>4
<1>12. \E k \in 1..Len(sent) : Form(wire', From(sent, k))
  <2> DEFINE t == Tail(wire)
             m == n - 1
             d == Tail(sent)
  <2>1. t \in Seq(Byte) /\ m \in 0..Len(t) /\ From(t, m) = From(wire, n)
    BY <1>2, FromTail
  <2>2. wire' = From(wire, n)
    BY <1>1 DEF From
  <2>3. Form(t, d) /\ d \in Seq(Bodies) /\ Len(d) = Len(sent) - 1 /\ Len(sent) \in Nat
    BY <1>2, <1>6
  <2> HIDE DEF t, m
  <2>4. /\ SubSeq(t, 1, m) \in Seq(Byte) /\ From(t, m) \in Seq(Byte)
        /\ SubSeq(t, 1, m) \o From(t, m) = t
    BY <2>1, CutIs
  <2>5. Left(wire', d)
    BY <2>1, <2>2, <2>3, <2>4, FormSuffix
  <2>6. PICK k \in 0..Len(d) : Form(wire', From(d, k))
    BY <2>5 DEF Left
  <2> DEFINE j == k + 1
  <2>7. j \in 1..Len(sent) /\ j - 1 = k
    BY <2>3
  <2> HIDE DEF j
  <2>8. From(d, k) = From(sent, j)
    BY <1>2, <2>7, FromTail
  <2> QED BY <2>6, <2>7, <2>8
<1> QED BY <1>2, <1>4, <1>8, <1>11, <1>12

LEMMA ReturnForm ==
  ASSUME TypeInv, Return, NEW bs \in Seq(Bodies), Form(Line, bs)
  PROVE  /\ 1 \in 1..Len(bs) /\ got' = Append(got, Head(bs))
         /\ From(bs, 1) \in Seq(Bodies) /\ Form(Line', From(bs, 1))
<1> DEFINE f == <<HdlcFlag>>
           x == body
           t == Line'
           u == HdlcUnescaped(body)
           h == f \o (x \o f)
<1>1. x # <<>> /\ t \in Seq(Byte) /\ got' = Append(got, u) /\ Line = f \o (x \o (f \o t))
  BY ReturnLine
<1>2. x \in Seq(NoFlag) /\ x \in Seq(Byte) /\ f \in Seq(Byte)
  BY LineType, NoFlagSeq
<1>3. FramesIn(Line) = <<u>> \o FramesIn(t)
  BY <1>1, <1>2, ScanFrame
<1>4. FramesIn(Line) = bs
  BY ScanForm
<1> HIDE DEF f, x, t, u
<1>5. Line = h \o t /\ h \in Seq(Byte)
  <2>1. x \o f \in Seq(Byte) /\ h \in Seq(Byte)
    BY <1>2, Joined
  <2>2. (x \o f) \o t = x \o (f \o t)
    BY <1>1, <1>2, Joined, Zenon
  <2> DEFINE g == x \o f
  <2>3. (f \o g) \o t = f \o (g \o t)
    <3>1. g \in Seq(Byte)
      BY <2>1
    <3> HIDE DEF g
    <3> QED BY <1>1, <1>2, <3>1, Joined, Zenon
  <2> QED BY <1>1, <2>1, <2>2, <2>3
<1>6. PICK k \in 0..Len(bs) : Form(t, From(bs, k))
  <2> HIDE DEF h
  <2>1. Left(t, bs)
    BY <1>1, <1>5, FormSuffix
  <2> QED BY <2>1 DEF Left
<1> DEFINE cs == From(bs, k)
<1>7. cs \in Seq(Bodies) /\ FramesIn(t) = cs
  BY <1>6, LeftIs, ScanForm
<1> HIDE DEF cs
<1>8. bs = <<u>> \o cs
  BY <1>3, <1>4, <1>7
<1>9. Head(bs) = u /\ Tail(bs) = cs /\ bs # <<>>
  BY <1>7, <1>8
<1> QED BY <1>1, <1>6, <1>7, <1>9, FromOne DEF t, cs

LEMMA DeadlineForm ==
  ASSUME TypeInv, Deadline, NEW bs \in Seq(Bodies), Form(Line, bs)
  PROVE  \/ Form(Line', bs)
         \/ 1 \in 1..Len(bs) /\ From(bs, 1) \in Seq(Bodies) /\ Form(Line', From(bs, 1))
<1>1. CASE Line' = Line
  BY <1>1
<1>2. CASE Line = <<HdlcFlag>> \o (body \o Line')
  <2> DEFINE z == body \o Line'
  <2>1. Line' \in Seq(Byte) /\ body \in Seq(NoFlag) /\ body \in Seq(Byte)
    BY DeadlineLine, LineType
  <2>2. z \in Seq(Byte)
    BY <2>1, Joined
  <2>3. Line # <<>> /\ Tail(Line) = z
    <3>1. Line = <<HdlcFlag>> \o z
      BY <1>2
    <3> HIDE DEF z
    <3> QED BY <2>2, <3>1, NoFlagSeq, ConsIs
  <2>4. Form(z, bs) \/ (1 \in 1..Len(bs) /\ From(bs, 1) \in Seq(Bodies) /\ Form(z, From(bs, 1)))
    <3> HIDE DEF z
    <3> QED BY <2>3, TailForm
  <2> QED BY <2>1, <2>4, FormSkip
<1> QED BY <1>1, <1>2, DeadlineLine

LEMMA FormStep ==
  ASSUME TypeInv, FormInv, [Next]_vars, lost' = 0
  PROVE  FormInv' /\ Moved
<1>1. lost = 0
  <2>1. lost \in Nat
    BY DEF TypeInv, TypeOK
  <2>2. lost' = lost \/ lost' = lost + 1
    BY DEF Next, Reading, DevSend, LoseByte, GetVer, ReadFrame, Skip, OpenAgain, Collect,
           Return, NextByte, Deadline
  <2> QED BY <2>1, <2>2
<1>2. reader # "closed" /\ (reader = "ver" => wire = Frames(sent)) /\ sent \in Seq(Bodies)
  BY <1>1 DEF FormInv, TypeInv, TypeOK
<1>3. PICK bs \in Seq(Bodies) : Form(Line, bs)
  BY <1>1 DEF FormInv
<1>4. Pending = bs
  BY <1>3, ScanForm DEF Pending
<1>5. ASSUME NEW cs \in Seq(Bodies), Form(Line', cs) PROVE Pending' = cs
  <2>1. FramesIn(Line') = cs
    BY <1>5, ScanForm
  <2> QED BY <2>1 DEF Pending
<1>6. ASSUME DevSend PROVE FormInv' /\ Moved
  <2>1. PICK b \in Bodies : Line' = Line \o Frame(b) /\ sent' = Append(sent, b)
    BY <1>6, SendLine
  <2>2. Append(bs, b) \in Seq(Bodies) /\ Form(Line', Append(bs, b))
    BY <1>3, <2>1, SendForm
  <2>3. Pending' = Append(Pending, b)
    BY <1>4, <1>5, <2>2
  <2>4. reader' = reader /\ got' = got
    BY <1>6 DEF DevSend
  <2>5. reader = "ver" => wire' = Frames(sent')
    <3>1. reader = "ver" => Line = wire /\ Line' = wire'
      BY <2>4 DEF Line
    <3> QED BY <1>2, <2>1, <3>1, FramesAppend
  <2> QED BY <1>2, <2>2, <2>3, <2>4, <2>5 DEF FormInv, Moved
<1>7. ASSUME Form(Line', bs) \/ (1 \in 1..Len(bs) /\ From(bs, 1) \in Seq(Bodies) /\ Form(Line', From(bs, 1))),
             got' = got, reader' # "ver", reader' # "closed"
      PROVE  FormInv' /\ Moved
  <2>1. CASE Form(Line', bs)
    <3>1. Pending' = Pending
      BY <1>3, <1>4, <1>5, <2>1
    <3> QED BY <1>3, <1>7, <2>1, <3>1 DEF FormInv, Moved
  <2>2. CASE 1 \in 1..Len(bs) /\ From(bs, 1) \in Seq(Bodies) /\ Form(Line', From(bs, 1))
    <3>1. Pending' = From(Pending, 1)
      BY <1>4, <1>5, <2>2
    <3> QED BY <1>4, <1>7, <2>2, <3>1 DEF FormInv, Moved
  <2> QED BY <1>7, <2>1, <2>2
<1>8. ASSUME Skip \/ OpenAgain PROVE FormInv' /\ Moved
  <2>1. got' = got /\ reader' # "ver" /\ reader' # "closed"
    BY <1>8 DEF Skip, OpenAgain
  <2>2. Line' = Line \/ (Line # <<>> /\ Line' = Tail(Line))
    BY <1>8, SkipLine
  <2>3. Form(Line', bs) \/ (1 \in 1..Len(bs) /\ From(bs, 1) \in Seq(Bodies) /\ Form(Line', From(bs, 1)))
    BY <1>3, <2>2, TailForm
  <2> QED BY <1>7, <2>1, <2>3
<1>9. ASSUME ReadFrame \/ Collect PROVE FormInv' /\ Moved
  <2>1. got' = got /\ reader' # "ver" /\ reader' # "closed"
    BY <1>9 DEF ReadFrame, Collect
  <2> QED BY <1>3, <1>7, <1>9, <2>1, KeepLine
<1>10. ASSUME Deadline PROVE FormInv' /\ Moved
  <2>1. got' = got /\ reader' # "ver" /\ reader' # "closed"
    BY <1>10 DEF Deadline
  <2> QED BY <1>3, <1>7, <1>10, <2>1, DeadlineForm
<1>11. ASSUME Return PROVE FormInv' /\ Moved
  <2>1. reader' # "ver" /\ reader' # "closed"
    BY <1>11 DEF Return
  <2>2. /\ 1 \in 1..Len(bs) /\ got' = Append(got, Head(bs))
        /\ From(bs, 1) \in Seq(Bodies) /\ Form(Line', From(bs, 1))
    BY <1>3, <1>11, ReturnForm
  <2>3. Pending' = From(Pending, 1) /\ ~(1 > 1)
    BY <1>4, <1>5, <2>2
  <2> QED BY <1>4, <2>1, <2>2, <2>3 DEF FormInv, Moved
<1>12. ASSUME GetVer PROVE FormInv' /\ Moved
  <2>1. /\ reader' # "closed" /\ reader' # "ver" /\ got' = <<Head(sent)>> /\ got = <<>>
        /\ \E k \in 1..Len(sent) : Form(wire', From(sent, k))
    BY <1>1, <1>12, VerForm
  <2>2. reader = "ver" /\ reader' # "body"
    BY <1>12 DEF GetVer
  <2>3. Line = wire /\ Line' = wire'
    BY <2>2 DEF Line
  <2>4. bs = sent
    <3>1. Form(Line, sent)
      BY <1>2, <2>2, <2>3 DEF Form
    <3> QED BY <1>2, <1>4, <3>1, ScanForm DEF Pending
  <2>5. PICK k \in 1..Len(sent) : Form(Line', From(sent, k))
    BY <2>1, <2>3
  <2>6. From(sent, k) \in Seq(Bodies)
    BY <1>2, LeftIs
  <2>7. Pending' = From(Pending, k)
    BY <1>4, <1>5, <2>4, <2>5, <2>6
  <2>8. got' = Append(got, Head(Pending))
    BY <1>4, <2>1, <2>4
  <2> QED BY <1>4, <2>1, <2>4, <2>5, <2>6, <2>7, <2>8 DEF FormInv, Moved
<1>13. ASSUME LoseByte PROVE FALSE
  BY <1>1, <1>13 DEF LoseByte
<1>14. ASSUME UNCHANGED vars PROVE FormInv' /\ Moved
  <2>1. Line' = Line
    BY <1>14 DEF Line
  <2>2. Pending' = Pending
    BY <2>1 DEF Pending
  <2> QED BY <1>2, <1>3, <1>14, <2>1, <2>2 DEF FormInv, Moved
<1> QED BY <1>6, <1>8, <1>9, <1>10, <1>11, <1>12, <1>13, <1>14 DEF Next, Reading

\* While no byte is lost the reader is given whole frames, in order, none
\* twice, wherever its calls time out and wherever the buffer that held the
\* VER ended.  protocol.py:198-222, pdl.py:137-150
THEOREM ImplementsFifo == Spec => LinkIsFifo
<1>1. Init => Fifo!Init
  <2> SUFFICES ASSUME Init PROVE Fifo!Init
    OBVIOUS
  <2>1. Line = <<>> /\ got = <<>> /\ lost = 0
    BY DEF Init, Line
  <2>2. Pending = <<>>
    BY <2>1, ScanEnd DEF Pending
  <2> QED BY <2>1, <2>2 DEF Fifo!Init
<1>2. TypeInv /\ FormInv /\ [Next]_vars => FormInv' /\ [Fifo!Next]_(Fifo!vars)
  <2> SUFFICES ASSUME TypeInv, FormInv, [Next]_vars PROVE FormInv' /\ [Fifo!Next]_(Fifo!vars)
    OBVIOUS
  <2>1. lost \in Nat /\ (lost' = lost \/ lost' = lost + 1)
    BY DEF TypeInv, TypeOK, Next, Reading, DevSend, LoseByte, GetVer, ReadFrame, Skip, OpenAgain,
           Collect, Return, NextByte, Deadline
  <2>2. CASE lost > 0
    <3>1. lost # 0 /\ lost' # 0 /\ lost' > 0
      BY <2>1, <2>2
    <3> QED BY <2>2, <3>1 DEF Fifo!vars, FormInv
  <2>3. CASE lost = 0 /\ lost' # 0
    <3>1. lost' > 0 /\ ~(lost > 0)
      BY <2>1, <2>3
    <3> QED BY <2>3, <3>1 DEF Fifo!Next, Fifo!Break, FormInv
  <2>4. CASE lost = 0 /\ lost' = 0
    <3>1. FormInv' /\ Moved
      BY <2>4, FormStep
    <3>2. ~(lost > 0) /\ ~(lost' > 0)
      BY <2>4
    <3>3. CASE Pending' = Pending /\ got' = got
      BY <2>4, <3>1, <3>2, <3>3 DEF Fifo!vars
    <3>4. CASE \E b \in Bodies : Pending' = Append(Pending, b) /\ got' = got
      BY <2>4, <3>1, <3>2, <3>4 DEF Fifo!Next, Fifo!Put
    <3>5. CASE \E n \in 1..Len(Pending) :
                 /\ n > 1 => got = <<>>
                 /\ Pending' = From(Pending, n) /\ got' = Append(got, Head(Pending))
      BY <2>4, <3>1, <3>2, <3>5 DEF Fifo!Next, Fifo!Take, Fifo!Leave, From
    <3>6. CASE 1 \in 1..Len(Pending) /\ Pending' = From(Pending, 1) /\ got' = got
      <4>1. ~(1 > 1)
        OBVIOUS
      <4> QED BY <2>4, <3>1, <3>2, <3>6, <4>1 DEF Fifo!Next, Fifo!GiveUp, Fifo!Leave, From
    <3> QED BY <3>1, <3>3, <3>4, <3>5, <3>6 DEF Moved
  <2> QED BY <2>1, <2>2, <2>3, <2>4
<1> QED BY <1>1, <1>2, FormInit, TypesAlways, PTL DEF Spec, LinkIsFifo, Fifo!Spec

(***************************************************************************)
(* A line that has lost bytes is cut into runs: what is between a flag and *)
(* the next, or the end of the line.  IsRun: x is the run behind place i.  *)
(***************************************************************************)

IsRun(w, i, x) ==
  /\ i + Len(x) <= Len(w) /\ \A k \in 1..Len(x) : w[i + k] = x[k]
  /\ i + Len(x) = Len(w) \/ w[i + Len(x) + 1] = HdlcFlag

HasRun(w, i, G) == \E x \in G : IsRun(w, i, x)

LEMMA RunUnique ==
  ASSUME NEW w \in Seq(Byte), NEW i \in 1..Len(w), NEW x \in Seq(NoFlag), IsRun(w, i, x),
         NEW y \in Seq(NoFlag), IsRun(w, i, y)
  PROVE  x = y
<1>1. /\ Len(x) \in Nat /\ Len(y) \in Nat /\ Len(w) \in Nat /\ i \in Nat
      /\ \A k \in 1..Len(x) : x[k] # HdlcFlag
      /\ \A k \in 1..Len(y) : y[k] # HdlcFlag
  BY DEF NoFlag
<1>2. ASSUME NEW a \in Seq(NoFlag), NEW c \in Seq(NoFlag), IsRun(w, i, a), IsRun(w, i, c),
             Len(a) < Len(c)
      PROVE  FALSE
  <2> DEFINE k == Len(a) + 1
  <2>1. k \in 1..Len(c) /\ i + k = i + Len(a) + 1 /\ Len(a) \in Nat /\ Len(c) \in Nat
    BY <1>1, <1>2
  <2>2. i + Len(a) # Len(w)
    BY <1>1, <1>2, <2>1 DEF IsRun
  <2>3. c[k] \in NoFlag
    <3> HIDE DEF k
    <3> QED BY <2>1
  <2> HIDE DEF k
  <2>4. w[i + k] = HdlcFlag /\ w[i + k] = c[k]
    BY <1>2, <2>1, <2>2 DEF IsRun
  <2> QED BY <2>3, <2>4 DEF NoFlag
<1>3. Len(x) = Len(y)
  <2>1. ~(Len(x) < Len(y)) /\ ~(Len(y) < Len(x))
    BY <1>2
  <2> QED BY <1>1, <2>1
<1>4. \A k \in 1..Len(x) : x[k] = y[k]
  BY <1>3 DEF IsRun
<1> QED BY <1>3, <1>4, SeqEqual

\* Behind the first bytes the runs are those of the rest.
LEMMA RunSuffix ==
  ASSUME NEW x \in Seq(Byte), NEW s \in Seq(Byte), NEW i \in 1..Len(s), NEW G, G \subseteq Seq(NoFlag)
  PROVE  HasRun(x \o s, i + Len(x), G) <=> HasRun(s, i, G)
<1> DEFINE w == x \o s
           m == Len(x)
<1>1. /\ w \in Seq(Byte) /\ Len(w) = m + Len(s) /\ m \in Nat /\ Len(s) \in Nat
      /\ \A j \in 1..Len(s) : w[j + m] = s[j]
  BY ConcatIs
<1> HIDE DEF w, m
<1>2. ASSUME NEW r \in G PROVE IsRun(w, i + m, r) <=> IsRun(s, i, r)
  <2>1. Len(r) \in Nat /\ i \in Nat /\ i >= 1
    OBVIOUS
  <2>2. (i + m) + Len(r) <= Len(w) <=> i + Len(r) <= Len(s)
    BY <1>1, <2>1
  <2>3. (i + m) + Len(r) = Len(w) <=> i + Len(r) = Len(s)
    <3> DEFINE a == i + Len(r)
               d == Len(s)
               e == Len(w)
    <3>1. a \in Int /\ (i + m) + Len(r) = a + m /\ d \in Int /\ m \in Int /\ e = m + d
      BY <1>1, <2>1
    <3> HIDE DEF a, d, e
    <3>2. a + m = e <=> a = d
      BY <3>1
    <3> QED BY <3>1, <3>2 DEF a, d, e
  <2>4. ASSUME i + Len(r) <= Len(s), NEW k \in 1..Len(r) PROVE w[(i + m) + k] = s[i + k]
    <3> DEFINE j == i + k
    <3>1. j \in 1..Len(s) /\ (i + m) + k = j + m
      BY <1>1, <2>1, <2>4
    <3> HIDE DEF j
    <3>2. w[j + m] = s[j]
      BY <1>1, <3>1
    <3> QED BY <3>1, <3>2 DEF j
  <2>5. ASSUME i + Len(r) <= Len(s), i + Len(r) # Len(s)
        PROVE  w[(i + m) + Len(r) + 1] = s[i + Len(r) + 1]
    <3> DEFINE j == i + Len(r) + 1
    <3>1. j \in 1..Len(s) /\ (i + m) + Len(r) + 1 = j + m
      BY <1>1, <2>1, <2>5
    <3> HIDE DEF j
    <3>2. w[j + m] = s[j]
      BY <1>1, <3>1
    <3> QED BY <3>1, <3>2 DEF j
  <2> QED BY <2>2, <2>3, <2>4, <2>5 DEF IsRun
<1> QED BY <1>2 DEF HasRun, w, m

\* A run that ends with a flag depends on nothing behind the flag.
LEMMA RunClosed ==
  ASSUME NEW w \in Seq(Byte), NEW v \in Seq(Byte), NEW i \in 1..Len(w), NEW p \in (i + 1)..Len(w),
         p <= Len(v), w[p] = HdlcFlag, \A j \in 1..p : v[j] = w[j],
         NEW G, G \subseteq Seq(NoFlag)
  PROVE  HasRun(w, i, G) => HasRun(v, i, G)
<1> SUFFICES ASSUME NEW r \in G, IsRun(w, i, r) PROVE IsRun(v, i, r)
  BY DEF HasRun
<1>1. /\ r \in Seq(NoFlag) /\ Len(r) \in Nat /\ i \in Nat /\ i >= 1 /\ p \in Nat /\ i < p
      /\ p <= Len(w) /\ Len(w) \in Nat /\ Len(v) \in Nat
  OBVIOUS
<1>2. i + Len(r) < p
  <2> SUFFICES ASSUME ~(i + Len(r) < p) PROVE FALSE
    OBVIOUS
  <2> DEFINE k == p - i
  <2>1. k \in 1..Len(r) /\ i + k = p
    BY <1>1
  <2> HIDE DEF k
  <2>2. r[k] \in NoFlag /\ w[i + k] = r[k]
    BY <1>1, <2>1 DEF IsRun
  <2> QED BY <2>1, <2>2 DEF NoFlag
<1>3. i + Len(r) # Len(w) /\ i + Len(r) <= Len(v) /\ i + Len(r) + 1 \in 1..p
  BY <1>1, <1>2
<1>4. w[i + Len(r) + 1] = HdlcFlag
  BY <1>3 DEF IsRun
<1>5. v[i + Len(r) + 1] = HdlcFlag
  BY <1>3, <1>4
<1>6. \A k \in 1..Len(r) : i + k \in 1..p
  BY <1>1, <1>2
<1>7. \A k \in 1..Len(r) : v[i + k] = r[k]
  BY <1>6 DEF IsRun
<1> QED BY <1>3, <1>5, <1>7 DEF IsRun

\* One at the end of the line is closed by what is sent next.
LEMMA RunExtended ==
  ASSUME NEW w \in Seq(Byte), NEW s \in Seq(Byte), s # <<>>, s[1] = HdlcFlag, NEW i \in 1..Len(w),
         NEW G, G \subseteq Seq(NoFlag), HasRun(w, i, G)
  PROVE  HasRun(w \o s, i, G)
<1> DEFINE v == w \o s
<1>1. /\ v \in Seq(Byte) /\ Len(v) = Len(w) + Len(s) /\ Len(w) \in Nat /\ Len(s) \in Nat \ {0}
      /\ \A j \in 1..Len(w) : v[j] = w[j]
      /\ v[1 + Len(w)] = HdlcFlag
  <2>1. /\ v \in Seq(Byte) /\ Len(v) = Len(w) + Len(s) /\ Len(w) \in Nat /\ Len(s) \in Nat
        /\ \A j \in 1..Len(w) : v[j] = w[j]
        /\ \A j \in 1..Len(s) : v[j + Len(w)] = s[j]
    BY ConcatIs
  <2>2. 1 \in 1..Len(s) /\ Len(s) \in Nat \ {0}
    OBVIOUS
  <2> HIDE DEF v
  <2> QED BY <2>1, <2>2
<1> HIDE DEF v
<1>2. PICK r \in G : IsRun(w, i, r)
  BY DEF HasRun
<1>3. Len(r) \in Nat /\ i \in Nat /\ i >= 1 /\ i + Len(r) <= Len(w)
  BY <1>2 DEF IsRun
<1>4. \A k \in 1..Len(r) : i + k \in 1..Len(w)
  BY <1>1, <1>3
<1>5. \A k \in 1..Len(r) : v[i + k] = r[k]
  BY <1>1, <1>2, <1>4 DEF IsRun
<1>6. i + Len(r) <= Len(v)
  BY <1>1, <1>3
<1>7. v[i + Len(r) + 1] = HdlcFlag
  <2>1. CASE i + Len(r) = Len(w)
    <3>1. i + Len(r) + 1 = 1 + Len(w)
      BY <1>1, <2>1
    <3> QED BY <1>1, <3>1
  <2>2. CASE i + Len(r) # Len(w)
    <3>1. i + Len(r) + 1 \in 1..Len(w) /\ w[i + Len(r) + 1] = HdlcFlag
      BY <1>1, <1>2, <1>3, <2>2 DEF IsRun
    <3> QED BY <1>1, <3>1
  <2> QED BY <2>1, <2>2
<1>8. IsRun(v, i, r)
  BY <1>5, <1>6, <1>7 DEF IsRun
<1> QED BY <1>2, <1>8 DEF HasRun, v

(***************************************************************************)
(* The damaged runs.  A flag is in order when the run behind it is a body  *)
(* that was sent, or empty; but the first flag of the line, from which     *)
(* exec_and_get_ver reads on (mid is FALSE), must have a body behind it.   *)
(***************************************************************************)

Earlier(w, i) == \E j \in 1..(i - 1) : w[j] = HdlcFlag

InOrder(w, i, G, mid) == HasRun(w, i, G) \/ (HasRun(w, i, {<<>>}) /\ (mid \/ Earlier(w, i)))

Bad(w, G, mid) == {i \in Flags(w) : ~InOrder(w, i, G, mid)}

LEMMA BadFinite ==
  ASSUME NEW w \in Seq(Byte), NEW G, NEW mid
  PROVE  /\ IsFiniteSet(Bad(w, G, mid)) /\ Cardinality(Bad(w, G, mid)) \in Nat
         /\ Bad(w, G, mid) \subseteq Nat
<1>1. Bad(w, G, mid) \in SUBSET Flags(w) /\ Flags(w) \subseteq Nat
  BY DEF Bad, Flags
<1> QED BY <1>1, FlagsFinite, FS_Subset, FS_CardinalityType

LEMMA EmptyRun == {<<>>} \subseteq Seq(NoFlag)
OBVIOUS

\* Reading drops the first damaged runs, ...
LEMMA BadDrop ==
  ASSUME NEW x \in Seq(Byte), NEW s \in Seq(Byte), NEW G, G \subseteq Seq(NoFlag), NEW mid \in BOOLEAN
  PROVE  /\ Cardinality(Bad(s, G, TRUE)) <= Cardinality(Bad(x \o s, G, mid))
         /\ (\E i \in Bad(x \o s, G, mid) : i <= Len(x)) =>
              Cardinality(Bad(s, G, TRUE)) + 1 <= Cardinality(Bad(x \o s, G, mid))
<1> DEFINE w == x \o s
           m == Len(x)
           B == Bad(w, G, mid)
           U == Bad(s, G, TRUE)
<1>1. /\ w \in Seq(Byte) /\ Len(w) = m + Len(s) /\ m \in Nat /\ Len(s) \in Nat
      /\ \A j \in 1..Len(s) : w[j + m] = s[j]
  BY ConcatIs
<1>2. \A i \in 1..Len(s) : /\ HasRun(w, i + m, G) <=> HasRun(s, i, G)
                           /\ HasRun(w, i + m, {<<>>}) <=> HasRun(s, i, {<<>>})
  BY RunSuffix, EmptyRun
<1> HIDE DEF w, m
<1>3. ASSUME NEW u \in U PROVE u \in Int /\ u > 0 /\ u + m \in B /\ u + m > m
  <2>1. u \in 1..Len(s) /\ s[u] = HdlcFlag /\ ~HasRun(s, u, G) /\ ~HasRun(s, u, {<<>>})
    BY DEF Bad, Flags, InOrder
  <2>2. u + m \in 1..Len(w) /\ u + m > m
    BY <1>1, <2>1
  <2>3. w[u + m] = HdlcFlag /\ ~InOrder(w, u + m, G, mid)
    BY <1>1, <1>2, <2>1 DEF InOrder
  <2> QED BY <2>1, <2>2, <2>3 DEF Bad, Flags
<1>4. IsFiniteSet(B) /\ Cardinality(B) \in Nat
  BY <1>1, BadFinite
<1>5. U \subseteq Int /\ (\A u \in U : ~(u <= 0)) /\ 0 \in Int /\ m \in Int
  <2> HIDE DEF U, B
  <2> QED BY <1>1, <1>3
<1>6. \A u \in U : u + m > 0
  <2> HIDE DEF U, B
  <2> QED BY <1>1, <1>3
<1>7. Cardinality(U) <= Cardinality(B)
  <2> HIDE DEF U, B
  <2> QED BY <1>3, <1>4, <1>5, <1>6, Slide
<1>8. ASSUME NEW i \in B, i <= m PROVE Cardinality(U) + 1 <= Cardinality(B)
  <2> DEFINE C == B \ {i}
  <2>1. IsFiniteSet(C) /\ Cardinality(C) = Cardinality(B) - 1
    <3> HIDE DEF B
    <3> QED BY <1>4, FS_RemoveElement
  <2>2. ASSUME NEW u \in U PROVE u + m \in C
    <3>1. u + m # i
      <4>1. i \in Int
        BY <1>1, BadFinite
      <4> HIDE DEF U, B
      <4> QED BY <1>3, <1>1, <1>8, <4>1
    <3> HIDE DEF U, B
    <3> QED BY <1>3, <3>1
  <2>3. Cardinality(U) <= Cardinality(C) /\ Cardinality(U) \in Nat
    <3> HIDE DEF U, B, C
    <3> QED BY <1>5, <1>6, <2>1, <2>2, Slide
  <2> HIDE DEF U, B, C
  <2> QED BY <1>4, <2>1, <2>3
<1> QED BY <1>7, <1>8 DEF w, m, B, U

\* ... a frame that is sent brings none, ...
LEMMA BadSend ==
  ASSUME NEW w \in Seq(Byte), NEW b \in Bodies, NEW G, NEW H, G \subseteq H,
         H \subseteq Seq(NoFlag), HdlcEscaped(b) \in H, NEW mid \in BOOLEAN
  PROVE  Cardinality(Bad(w \o Frame(b), H, mid)) <= Cardinality(Bad(w, G, mid))
<1> DEFINE f == <<HdlcFlag>>
           e == HdlcEscaped(b)
           s == Frame(b)
           v == w \o s
           l == Len(w)
           c == Len(e)
<1>1. e \in Seq(NoFlag) /\ e \in Seq(Byte) /\ f \in Seq(Byte) /\ s \in Seq(Byte) /\ c \in Nat
  BY BodyIs, NoFlagSeq
<1>2. /\ Len(s) = c + 2 /\ s[1] = HdlcFlag /\ s[c + 2] = HdlcFlag
      /\ \A i \in 1..c : s[i + 1] = e[i]
  <2> DEFINE g == e \o f
  <2>1. s = f \o g
    BY DEF Frame
  <2> HIDE DEF e, s
  <2>2. /\ g \in Seq(Byte) /\ Len(g) = c + 1
        /\ \A i \in 1..c : g[i] = e[i]
        /\ g[c + 1] = HdlcFlag
    BY <1>1
  <2> HIDE DEF g, c
  <2>3. /\ Len(f \o g) = Len(g) + 1 /\ (f \o g)[1] = HdlcFlag
        /\ \A i \in 1..Len(g) : (f \o g)[i + 1] = g[i]
    BY <1>1, <2>2
  <2>4. c + 1 \in 1..Len(g) /\ (c + 1) + 1 = c + 2 /\ \A i \in 1..c : i \in 1..Len(g)
    BY <1>1, <2>2
  <2> HIDE DEF f
  <2>5. (f \o g)[(c + 1) + 1] = g[c + 1]
    BY <2>3, <2>4
  <2>6. Len(g) + 1 = c + 2
    BY <1>1, <2>2
  <2> QED BY <2>1, <2>2, <2>3, <2>4, <2>5, <2>6
<1>3. /\ v \in Seq(Byte) /\ Len(v) = l + Len(s) /\ l \in Nat
      /\ \A j \in 1..l : v[j] = w[j]
      /\ \A j \in 1..Len(s) : v[j + l] = s[j]
  BY <1>1, ConcatIs
<1>4. ASSUME NEW i \in 1..l PROVE InOrder(w, i, G, mid) => InOrder(v, i, H, mid)
  <2>1. HasRun(w, i, G) => HasRun(v, i, H)
    <3>1. G \subseteq Seq(NoFlag) /\ s # <<>>
      BY <1>1, <1>2
    <3>2. HasRun(w, i, G) => HasRun(v, i, G)
      <4> HIDE DEF s
      <4> QED BY <1>1, <1>2, <3>1, RunExtended
    <3> QED BY <3>2 DEF HasRun
  <2>2. HasRun(w, i, {<<>>}) => HasRun(v, i, {<<>>})
    <3>1. s # <<>>
      BY <1>1, <1>2
    <3> HIDE DEF s
    <3> QED BY <1>1, <1>2, <3>1, EmptyRun, RunExtended
  <2>3. Earlier(w, i) => Earlier(v, i)
    <3>1. \A j \in 1..(i - 1) : j \in 1..l
      BY <1>3
    <3> QED BY <1>3, <3>1 DEF Earlier
  <2> QED BY <2>1, <2>2, <2>3 DEF InOrder
<1> HIDE DEF e, s, v, l, c
<1>5. HasRun(s, 1, H)
  <2>1. 1 + c <= Len(s) /\ 1 + c + 1 = c + 2 /\ \A k \in 1..c : 1 + k = k + 1
    BY <1>1, <1>2
  <2>2. IsRun(s, 1, e)
    BY <1>2, <2>1 DEF IsRun, c
  <2> QED BY <2>2 DEF HasRun, e
<1>6. HasRun(s, c + 2, {<<>>})
  <2>1. (c + 2) + Len(<<>>) = Len(s) /\ 1..Len(<<>>) = {}
    BY <1>1, <1>2
  <2>2. IsRun(s, c + 2, <<>>)
    BY <1>1, <1>2, <2>1 DEF IsRun
  <2> QED BY <2>2 DEF HasRun
<1>7. ASSUME NEW i \in 1..Len(s), s[i] = HdlcFlag PROVE i = 1 \/ i = c + 2
  <2> SUFFICES ASSUME i # 1, i # c + 2 PROVE FALSE
    OBVIOUS
  <2> DEFINE k == i - 1
  <2>1. k \in 1..c /\ k + 1 = i
    BY <1>1, <1>2
  <2> HIDE DEF k
  <2>2. s[i] = e[k] /\ e[k] \in NoFlag
    BY <1>1, <1>2, <2>1 DEF c
  <2> QED BY <1>7, <2>2 DEF NoFlag
<1>8. Bad(v, H, mid) \subseteq Bad(w, G, mid)
  <2> SUFFICES ASSUME NEW i \in Bad(v, H, mid) PROVE i \in Bad(w, G, mid)
    OBVIOUS
  <2>1. i \in 1..Len(v) /\ v[i] = HdlcFlag /\ ~InOrder(v, i, H, mid)
    BY DEF Bad, Flags
  <2>2. CASE i <= l
    <3>1. i \in 1..l
      BY <1>3, <2>1, <2>2
    <3> QED BY <1>3, <1>4, <2>1, <3>1 DEF Bad, Flags, l
  <2>3. CASE ~(i <= l)
    <3> DEFINE j == i - l
    <3>1. j \in 1..Len(s) /\ j + l = i
      BY <1>1, <1>2, <1>3, <2>1, <2>3
    <3> HIDE DEF j
    <3>2. s[j] = HdlcFlag
      BY <1>3, <2>1, <3>1
    <3>3. CASE j = 1
      <4>1. HasRun(v, i, H)
        BY <1>1, <1>5, <3>1, <3>3, RunSuffix DEF v, l
      <4> QED BY <2>1, <4>1 DEF InOrder
    <3>4. CASE j = c + 2
      <4>1. HasRun(v, i, {<<>>})
        BY <1>1, <1>6, <3>1, <3>4, RunSuffix, EmptyRun DEF v, l
      <4>2. 1 + l \in 1..(i - 1) /\ 1 \in 1..Len(s)
        BY <1>1, <1>2, <1>3, <3>1, <3>4
      <4>3. v[1 + l] = HdlcFlag
        BY <1>2, <1>3, <4>2
      <4> QED BY <2>1, <4>1, <4>2, <4>3 DEF InOrder, Earlier
    <3> QED BY <1>7, <3>1, <3>2, <3>3, <3>4
  <2> QED BY <2>2, <2>3
<1>9. Bad(v, H, mid) \in SUBSET Bad(w, G, mid)
  BY <1>8
<1> QED BY <1>9, BadFinite, FS_Subset DEF v, s

LEMMA GreatestIs ==
  ASSUME NEW T, T \subseteq Nat, T # {}, NEW m \in Nat, \A t \in T : t <= m
  PROVE  \E p \in T : \A t \in T : t <= p
<1> DEFINE D == {k \in Nat : m - k \in T}
           k == Min(D)
<1>1. D \subseteq Nat /\ D # {}
  <2>1. PICK t \in T : TRUE
    OBVIOUS
  <2>2. m - t \in Nat /\ m - (m - t) = t
    BY <2>1
  <2> QED BY <2>1, <2>2
<1>2. k \in D /\ \A y \in D : k <= y
  <2> HIDE DEF D
  <2> QED BY <1>1, MinIs
<1> HIDE DEF k
<1>3. ASSUME NEW t \in T PROVE t <= m - k
  <2>1. m - t \in Nat /\ m - (m - t) = t
    OBVIOUS
  <2>2. k <= m - t /\ k \in Nat
    BY <1>2, <2>1
  <2> QED BY <2>1, <2>2
<1> QED BY <1>2, <1>3

\* Every flag but one has its run closed before the place of the loss, or has
\* another flag between that place and itself.
LEMMA OneOpen ==
  ASSUME NEW x \in Seq(Byte), NEW y \in Seq(Byte)
  PROVE  \E p \in Nat : \A u \in Flags(x \o y) :
           \/ u = p
           \/ u <= Len(x) /\ \E i \in (u + 1)..Len(x) : x[i] = HdlcFlag
           \/ u > Len(x) /\ Earlier(x \o y, u)
<1> DEFINE v == x \o y
           m == Len(x)
<1>1. v \in Seq(Byte) /\ Len(v) = m + Len(y) /\ m \in Nat /\ Len(y) \in Nat
      /\ \A i \in 1..m : v[i] = x[i]
  BY ConcatIs
<1> HIDE DEF v, m
<1>2. Flags(x) \subseteq Nat /\ \A t \in Flags(x) : t \in 1..m /\ x[t] = HdlcFlag
  BY <1>1 DEF Flags, m
<1>3. Flags(v) \subseteq Nat /\ \A u \in Flags(v) : u \in 1..Len(v) /\ v[u] = HdlcFlag
  BY <1>1 DEF Flags
<1>4. CASE Flags(x) # {}
  <2>1. \A t \in Flags(x) : t <= m
    BY <1>1, <1>2
  <2>2. PICK p \in Flags(x) : \A t \in Flags(x) : t <= p
    BY <1>1, <1>2, <1>4, <2>1, GreatestIs
  <2>3. ASSUME NEW u \in Flags(v), u # p
        PROVE  \/ u <= m /\ \E i \in (u + 1)..m : x[i] = HdlcFlag
               \/ u > m /\ Earlier(v, u)
    <3>1. p \in 1..m /\ x[p] = HdlcFlag /\ u \in 1..Len(v) /\ v[u] = HdlcFlag
      BY <1>2, <1>3, <2>2
    <3>2. CASE u <= m
      <4>1. u \in Flags(x)
        <5>1. u \in 1..m
          BY <1>1, <3>1, <3>2
        <5> QED BY <1>1, <3>1, <5>1 DEF Flags, m
      <4>2. p \in (u + 1)..m
        BY <1>1, <2>2, <2>3, <3>1, <4>1
      <4> QED BY <3>1, <3>2, <4>2
    <3>3. CASE u > m
      <4>1. p \in 1..(u - 1) /\ v[p] = HdlcFlag
        BY <1>1, <3>1, <3>3
      <4> QED BY <3>3, <4>1 DEF Earlier
    <3> QED BY <1>1, <3>1, <3>2, <3>3
  <2> QED BY <1>2, <2>2, <2>3 DEF v, m
<1>5. CASE Flags(x) = {}
  <2> DEFINE p == IF Flags(v) = {} THEN 0 ELSE Min(Flags(v))
  <2>1. p \in Nat /\ \A u \in Flags(v) : p \in Flags(v) /\ p <= u
    <3>1. CASE Flags(v) = {}
      BY <3>1
    <3>2. CASE Flags(v) # {}
      BY <1>3, <3>2, MinIs
    <3> QED BY <3>1, <3>2
  <2> HIDE DEF p
  <2>2. ASSUME NEW u \in Flags(v), u # p PROVE u > m /\ Earlier(v, u)
    <3>1. p \in 1..(u - 1) /\ v[p] = HdlcFlag
      BY <1>3, <2>1, <2>2
    <3>2. ~(u <= m)
      <4> SUFFICES ASSUME u <= m PROVE FALSE
        OBVIOUS
      <4>1. u \in 1..m
        BY <1>1, <1>3
      <4>2. x[u] = HdlcFlag
        BY <1>1, <1>3, <4>1
      <4> QED BY <1>5, <4>1, <4>2 DEF Flags, m
    <3>3. u \in Int /\ m \in Int
      BY <1>1, <1>3
    <3> QED BY <3>1, <3>2, <3>3 DEF Earlier
  <2> QED BY <2>1, <2>2 DEF v, m
<1> QED BY <1>4, <1>5

\* ... and a byte that is lost damages one more.
LEMMA BadLoss ==
  ASSUME NEW x \in Seq(Byte), NEW b \in Byte, NEW y \in Seq(Byte),
         NEW G, G \subseteq Seq(NoFlag), NEW mid \in BOOLEAN
  PROVE  Cardinality(Bad(x \o y, G, mid)) <= Cardinality(Bad(x \o (<<b>> \o y), G, mid)) + 1
<1> DEFINE w == x \o (<<b>> \o y)
           v == x \o y
           m == Len(x)
<1>1. /\ w \in Seq(Byte) /\ v \in Seq(Byte) /\ m \in Nat /\ Len(y) \in Nat
      /\ Len(v) = m + Len(y) /\ Len(w) = Len(v) + 1
      /\ \A i \in 1..m : w[i] = v[i] /\ w[i] = x[i]
      /\ \A i \in (m + 1)..Len(v) : w[i + 1] = v[i]
  BY LossIs
<1>2. PICK p \in Nat : \A u \in Flags(v) :
        \/ u = p
        \/ u <= m /\ \E i \in (u + 1)..m : x[i] = HdlcFlag
        \/ u > m /\ Earlier(v, u)
  BY OneOpen
<1>3. \A K : K \subseteq Seq(NoFlag) => \A i \in 1..Len(y) :
        HasRun(w, i + (m + 1), K) <=> HasRun(v, i + m, K)
  <2> SUFFICES ASSUME NEW K, K \subseteq Seq(NoFlag), NEW i \in 1..Len(y)
               PROVE  HasRun(w, i + (m + 1), K) <=> HasRun(v, i + m, K)
    OBVIOUS
  <2> DEFINE z == x \o <<b>>
  <2>1. z \in Seq(Byte) /\ Len(z) = m + 1 /\ w = z \o y
    <3> DEFINE g == <<b>>
    <3>1. g \in Seq(Byte) /\ Len(g) = 1
      OBVIOUS
    <3> HIDE DEF g
    <3>2. (x \o g) \o y = x \o (g \o y)
      BY <3>1, Joined, Zenon
    <3>3. x \o g \in Seq(Byte) /\ Len(x \o g) = Len(x) + Len(g)
      BY <3>1, ConcatIs
    <3> QED BY <3>1, <3>2, <3>3 DEF g
  <2> HIDE DEF z, w, v
  <2>2. HasRun(z \o y, i + Len(z), K) <=> HasRun(y, i, K)
    BY <2>1, RunSuffix
  <2>3. HasRun(v, i + m, K) <=> HasRun(y, i, K)
    BY RunSuffix DEF v
  <2> QED BY <2>1, <2>2, <2>3
<1> HIDE DEF w, v, m
<1> DEFINE B == Bad(w, G, mid)
           U == Bad(v, G, mid) \ {p}
<1>4. ASSUME NEW u \in U PROVE u \in Int /\ IF u <= m THEN u \in B ELSE u + 1 \in B /\ u + 1 > m
  <2>1. u \in Flags(v) /\ u \in 1..Len(v) /\ v[u] = HdlcFlag /\ ~InOrder(v, u, G, mid) /\ u # p
    BY DEF Bad, Flags
  <2>2. CASE u <= m
    <3>1. PICK i \in (u + 1)..m : x[i] = HdlcFlag
      BY <1>1, <1>2, <2>1, <2>2
    <3>2. /\ i \in 1..m /\ i <= Len(v) /\ i \in (u + 1)..Len(w) /\ u \in 1..Len(w) /\ u \in 1..m
          /\ \A j \in 1..i : j \in 1..m
      BY <1>1, <2>1, <2>2, <3>1
    <3>3. w[i] = HdlcFlag /\ \A j \in 1..i : v[j] = w[j]
      BY <1>1, <3>1, <3>2
    <3>4. HasRun(w, u, G) => HasRun(v, u, G)
      BY <1>1, <3>2, <3>3, RunClosed
    <3>5. HasRun(w, u, {<<>>}) => HasRun(v, u, {<<>>})
      BY <1>1, <3>2, <3>3, EmptyRun, RunClosed
    <3>6. Earlier(w, u) => Earlier(v, u)
      <4>1. \A j \in 1..(u - 1) : j \in 1..m
        BY <1>1, <3>2
      <4> QED BY <1>1, <4>1 DEF Earlier
    <3>7. u \in B
      BY <1>1, <2>1, <3>2, <3>4, <3>5, <3>6 DEF Bad, Flags, InOrder
    <3> QED BY <2>1, <2>2, <3>7
  <2>3. CASE ~(u <= m)
    <3> DEFINE j == u - m
    <3>1. j \in 1..Len(y) /\ j + m = u /\ j + (m + 1) = u + 1 /\ u \in (m + 1)..Len(v)
          /\ u + 1 \in 1..Len(w) /\ u + 1 > m
      BY <1>1, <2>1, <2>3
    <3> HIDE DEF j
    <3>2. /\ HasRun(w, u + 1, G) <=> HasRun(v, u, G)
          /\ HasRun(w, u + 1, {<<>>}) <=> HasRun(v, u, {<<>>})
      BY <1>3, <3>1, EmptyRun
    <3>3. Earlier(v, u)
      <4>1. ~(\E i \in (u + 1)..m : x[i] = HdlcFlag)
        BY <1>1, <2>1, <2>3
      <4> QED BY <1>2, <2>1, <4>1
    <3>4. ~InOrder(w, u + 1, G, mid)
      BY <2>1, <3>2, <3>3 DEF InOrder
    <3>5. w[u + 1] = HdlcFlag
      BY <1>1, <2>1, <3>1
    <3>6. u + 1 \in B
      BY <3>1, <3>4, <3>5 DEF Bad, Flags
    <3> QED BY <2>1, <2>3, <3>1, <3>6
  <2> QED BY <2>2, <2>3
<1>5. IsFiniteSet(B) /\ Cardinality(B) \in Nat /\ IsFiniteSet(Bad(v, G, mid)) /\ Cardinality(Bad(v, G, mid)) \in Nat
  BY <1>1, BadFinite
<1>6. Cardinality(U) <= Cardinality(B)
  <2>1. U \subseteq Int /\ 1 \in Int /\ m \in Int
    BY <1>1, <1>4
  <2>2. \A u \in U : IF u <= m THEN u \in B ELSE u + 1 \in B /\ u + 1 > m
    BY <1>4
  <2> HIDE DEF U, B
  <2> QED BY <1>5, <2>1, <2>2, Slide
<1>7. Cardinality(U) = Cardinality(Bad(v, G, mid)) \/ Cardinality(U) = Cardinality(Bad(v, G, mid)) - 1
  <2> DEFINE C == Bad(v, G, mid)
  <2>1. IsFiniteSet(C)
    BY <1>5
  <2> HIDE DEF C
  <2>2. Cardinality(C \ {p}) = IF p \in C THEN Cardinality(C) - 1 ELSE Cardinality(C)
    BY <2>1, FS_RemoveElement
  <2> QED BY <2>2 DEF C
<1>8. Cardinality(Bad(v, G, mid)) <= Cardinality(B) + 1
  <2> HIDE DEF U, B
  <2> QED BY <1>5, <1>6, <1>7
<1> QED BY <1>8 DEF B, w, v

\* The buffer of exec_and_get_ver: the run y behind its first flag p is
\* returned, and the first n bytes are gone.
LEMMA VerLine ==
  ASSUME TypeInv, GetVer
  PROVE  /\ reader = "ver" /\ reader' # "ver" /\ Line = wire /\ got = <<>> /\ dropped = 0
         /\ \E n \in 1..Len(wire) : \E p \in 1..n : \E y \in Seq(NoFlag) :
              /\ IsRun(wire, p, y) /\ got' = <<HdlcUnescaped(y)>>
              /\ wire[p] = HdlcFlag /\ ~Earlier(wire, p)
              /\ Line' = From(wire, n) /\ (reader' = "closed" \/ y # <<>>)
              /\ dropped' = (Cardinality({i \in 1..n : wire[i] = HdlcFlag}) - 1) \div 2
<1> DEFINE flags(n) == {i \in 1..n : wire[i] = HdlcFlag}
           second(n) == Min(flags(n) \ {Min(flags(n))})
           x(n) == SubSeq(wire, Min(flags(n)) + 1, second(n) - 1)
<1>1. PICK n \in DOMAIN wire :
        /\ Cardinality(flags(n)) > 1 /\ got' = Append(got, HdlcUnescaped(x(n)))
        /\ reader' = IF second(n) = Min(flags(n)) + 1 THEN "closed" ELSE "idle"
        /\ wire' = SubSeq(wire, n + 1, Len(wire))
        /\ dropped' = (Cardinality(flags(n)) - 1) \div 2
  BY Zenon DEF GetVer
<1>2. wire \in Seq(Byte) /\ reader = "ver" /\ got = <<>> /\ dropped = 0 /\ n \in 1..Len(wire)
      /\ Line = wire
  BY LineType DEF TypeInv, TypeOK, GetVer
<1> DEFINE p == Min(flags(n))
           q == second(n)
           y == x(n)
<1>3. /\ p \in 1..n /\ q \in (p + 1)..n
      /\ wire[p] = HdlcFlag /\ wire[q] = HdlcFlag
      /\ \A i \in 1..(q - 1) : i # p => wire[i] # HdlcFlag
  BY <1>1, <1>2, FirstTwo
<1>4. /\ got' = <<HdlcUnescaped(y)>> /\ reader' = IF q = p + 1 THEN "closed" ELSE "idle"
      /\ y = SubSeq(wire, p + 1, q - 1)
  BY <1>1, <1>2
<1> HIDE DEF p, q, y, second, x
<1>5. reader' # "ver" /\ Line' = From(wire, n)
  <2>1. reader' # "ver" /\ reader' # "body"
    BY <1>4
  <2> QED BY <1>1, <2>1 DEF Line, From
<1>6. y \in Seq(NoFlag) /\ Len(y) = q - p - 1 /\ \A k \in 1..Len(y) : y[k] = wire[p + k]
  <2>1. p + 1 \in Int /\ q - 1 \in Int /\ p \in Nat /\ q \in Nat /\ p < q
    BY <1>2, <1>3
  <2>2. \A i \in (p + 1)..(q - 1) : wire[i] \in NoFlag
    <3>1. \A i \in (p + 1)..(q - 1) : i \in 1..Len(wire) /\ i \in 1..(q - 1) /\ i # p
      BY <1>2, <1>3, <2>1
    <3>2. \A i \in 1..Len(wire) : wire[i] \in Byte
      BY <1>2
    <3> QED BY <1>3, <3>1, <3>2 DEF NoFlag
  <2>3. y \in Seq(NoFlag)
    BY <1>4, <2>1, <2>2, SubSeqProperties
  <2>4. /\ Len(y) = IF p + 1 <= q - 1 THEN (q - 1) - (p + 1) + 1 ELSE 0
        /\ \A k \in 1..((q - 1) - (p + 1) + 1) : y[k] = wire[(p + 1) + k - 1]
    BY <1>4, <2>1, <2>2, SubSeqProperties
  <2>5. Len(y) = q - p - 1
    BY <2>1, <2>4
  <2>6. \A k \in 1..(q - p - 1) : k \in 1..((q - 1) - (p + 1) + 1) /\ p + k = (p + 1) + k - 1
    BY <2>1
  <2> QED BY <2>3, <2>4, <2>5, <2>6
<1>7. IsRun(wire, p, y)
  <2>1. p + Len(y) + 1 = q /\ p + Len(y) <= Len(wire)
    BY <1>2, <1>3, <1>6
  <2> QED BY <1>3, <1>6, <2>1 DEF IsRun
<1>8. ~Earlier(wire, p)
  <2>1. \A j \in 1..(p - 1) : j \in 1..(q - 1) /\ j # p
    BY <1>2, <1>3
  <2> QED BY <1>3, <2>1 DEF Earlier
<1>9. reader' = "closed" \/ y # <<>>
  <2> SUFFICES ASSUME y = <<>> PROVE q = p + 1
    BY <1>4
  <2>1. Len(y) = 0 /\ p \in Int /\ q \in Int
    BY <1>2, <1>3
  <2> QED BY <1>6, <2>1
<1> QED BY <1>1, <1>2, <1>3, <1>4, <1>5, <1>6, <1>7, <1>8, <1>9

(***************************************************************************)
(* A byte lost damages one frame.                                          *)
(***************************************************************************)

\* What is on the line of the bodies sent.
Own == {HdlcEscaped(b) : b \in Range(sent)}

DamageInv == Cardinality(Damaged) + Cardinality(Bad(Line, Own, reader # "ver")) <= lost

LEMMA OwnIs ==
  ASSUME TypeInv
  PROVE  /\ Own \subseteq Seq(NoFlag) /\ <<>> \notin Own /\ Range(sent) \subseteq Bodies
         /\ \A e \in Own : HdlcUnescaped(e) \in Range(sent)
<1>1. Range(sent) \subseteq Bodies
  BY DEF TypeInv, TypeOK, Range
<1> QED BY <1>1, BodyIs DEF Own

LEMMA DamagedFinite ==
  ASSUME TypeInv
  PROVE  IsFiniteSet(Damaged) /\ Cardinality(Damaged) \in Nat
<1>1. Damaged \in SUBSET (1..Len(got)) /\ Len(got) \in Nat
  BY DEF Damaged, TypeInv, TypeOK
<1>2. IsFiniteSet(1..Len(got))
  BY <1>1, FS_Interval
<1> QED BY <1>1, <1>2, FS_Subset, FS_CardinalityType

\* A call that returns adds one damaged frame, if the body it read was not sent.
LEMMA DamagedReturn ==
  ASSUME TypeInv, NEW u, got' = Append(got, u), sent' = sent
  PROVE  /\ u \in Range(sent) => Damaged' = Damaged
         /\ IsFiniteSet(Damaged') /\ Cardinality(Damaged') <= Cardinality(Damaged) + 1
         /\ Cardinality(Damaged') \in Nat
<1> DEFINE l == Len(got) + 1
<1>1. got \in Seq(Seq(Byte)) /\ Len(got) \in Nat
  BY DEF TypeInv, TypeOK
<1>2. DOMAIN got' = DOMAIN got \cup {l} /\ l \notin DOMAIN got /\ got'[l] = u
      /\ \A n \in DOMAIN got : got'[n] = got[n]
  BY <1>1
<1> HIDE DEF l
<1>3. Damaged' = Damaged \cup (IF u \in Range(sent) THEN {} ELSE {l})
  BY <1>2 DEF Damaged
<1>4. IsFiniteSet(Damaged) /\ Cardinality(Damaged) \in Nat
  BY DamagedFinite
<1>5. IsFiniteSet(Damaged \cup {l}) /\ Cardinality(Damaged \cup {l}) <= Cardinality(Damaged) + 1
      /\ Cardinality(Damaged \cup {l}) \in Nat
  <2> DEFINE D == Damaged
  <2>1. IsFiniteSet(D) /\ Cardinality(D) \in Nat
    BY <1>4
  <2> HIDE DEF D
  <2>2. IsFiniteSet(D \cup {l})
        /\ Cardinality(D \cup {l}) = IF l \in D THEN Cardinality(D) ELSE Cardinality(D) + 1
    BY <2>1, FS_AddElement
  <2>3. IsFiniteSet(D \cup {l}) /\ Cardinality(D \cup {l}) <= Cardinality(D) + 1
        /\ Cardinality(D \cup {l}) \in Nat
    BY <2>1, <2>2
  <2> QED BY <2>3 DEF D
<1>6. CASE u \in Range(sent)
  <2>1. Damaged' = Damaged
    BY <1>3, <1>6
  <2>2. Cardinality(Damaged) <= Cardinality(Damaged) + 1
    BY <1>4
  <2> QED BY <1>4, <2>1, <2>2
<1>7. CASE u \notin Range(sent)
  <2>1. Damaged' = Damaged \cup {l}
    BY <1>3, <1>7
  <2> QED BY <1>5, <1>7, <2>1
<1> QED BY <1>6, <1>7

\* Where a frame's flags are, when its body x has none: at its ends.
LEMMA FirstRun ==
  ASSUME NEW x \in Seq(NoFlag), NEW t \in Seq(Byte), NEW w,
         w = <<HdlcFlag>> \o (x \o (<<HdlcFlag>> \o t))
  PROVE  LET h == <<HdlcFlag>> \o (x \o <<HdlcFlag>>)
         IN  /\ w \in Seq(Byte) /\ h \in Seq(Byte) /\ w = h \o t /\ Len(h) = Len(x) + 2
             /\ Len(x) \in Nat /\ Len(w) = Len(h) + Len(t)
             /\ 1 \in Flags(w) /\ IsRun(w, 1, x)
<1> DEFINE f == <<HdlcFlag>>
           g == f \o t
           k == x \o f
           h == f \o k
           c == Len(x)
<1>1. f \in Seq(Byte) /\ x \in Seq(Byte) /\ t \in Seq(Byte) /\ Len(f) = 1 /\ f[1] = HdlcFlag
  BY NoFlagSeq
<1> HIDE DEF f
<1>2. g \in Seq(Byte) /\ k \in Seq(Byte) /\ h \in Seq(Byte)
  BY <1>1, Joined
<1>3. w = h \o t
  <2>1. k \o t = x \o g
    BY <1>1, Joined, Zenon
  <2>2. (f \o k) \o t = f \o (k \o t)
    <3> HIDE DEF k
    <3> QED BY <1>1, <1>2, Joined, Zenon
  <2> QED BY <2>1, <2>2 DEF f
<1>4. /\ Len(k) = c + 1 /\ c \in Nat /\ k[1 + c] = HdlcFlag
      /\ \A i \in 1..c : k[i] = x[i]
  <2>0. x \in Seq(Byte) /\ f \in Seq(Byte)
    BY <1>1
  <2>1. /\ Len(x \o f) = Len(x) + Len(f) /\ Len(x) \in Nat
        /\ \A i \in 1..Len(x) : (x \o f)[i] = x[i]
        /\ \A i \in 1..Len(f) : (x \o f)[i + Len(x)] = f[i]
    <3> HIDE DEF c, k
    <3> QED BY <2>0, ConcatIs
  <2>2. /\ Len(k) = c + Len(f) /\ c \in Nat
        /\ \A i \in 1..c : k[i] = x[i]
        /\ \A i \in 1..Len(f) : k[i + c] = f[i]
    BY <2>1, Zenon
  <2> HIDE DEF k, c
  <2> QED BY <1>1, <2>2
<1> HIDE DEF k
<1>5. /\ Len(h) = 1 + Len(k) /\ h[1] = HdlcFlag
      /\ \A i \in 1..Len(k) : h[i + 1] = k[i]
  <2>0. k \in Seq(Byte) /\ f \in Seq(Byte)
    BY <1>1, <1>2
  <2>1. /\ Len(f \o k) = Len(f) + Len(k)
        /\ \A i \in 1..Len(f) : (f \o k)[i] = f[i]
        /\ \A i \in 1..Len(k) : (f \o k)[i + Len(f)] = k[i]
    <3> HIDE DEF c, h
    <3> QED BY <2>0, ConcatIs
  <2>2. /\ Len(h) = Len(f) + Len(k)
        /\ \A i \in 1..Len(f) : h[i] = f[i]
        /\ \A i \in 1..Len(k) : h[i + Len(f)] = k[i]
    BY <2>1, Zenon
  <2> HIDE DEF h
  <2> QED BY <1>1, <2>2
<1> HIDE DEF h, c
<1>6. /\ w \in Seq(Byte) /\ Len(w) = Len(h) + Len(t) /\ Len(t) \in Nat
      /\ \A i \in 1..Len(h) : w[i] = h[i]
  <2>1. h \in Seq(Byte) /\ t \in Seq(Byte)
    BY <1>1, <1>2
  <2>2. /\ h \o t \in Seq(Byte) /\ Len(h \o t) = Len(h) + Len(t) /\ Len(t) \in Nat
        /\ \A i \in 1..Len(h) : (h \o t)[i] = h[i]
    BY <2>1, ConcatIs
  <2> QED BY <1>3, <2>2
<1>7. Len(h) = c + 2
  BY <1>4, <1>5
<1>8. w[1] = HdlcFlag /\ 1 \in 1..Len(w) /\ \A i \in 1..c : w[i + 1] = x[i]
  <2>1. 1 \in 1..Len(h) /\ 1 \in 1..Len(w)
    BY <1>4, <1>6, <1>7
  <2>2. ASSUME NEW i \in 1..c PROVE i + 1 \in 1..Len(h) /\ i \in 1..Len(k)
    BY <1>4, <1>7
  <2> QED BY <1>4, <1>5, <1>6, <2>1, <2>2
<1>9. w[c + 2] = HdlcFlag
  <2>1. c + 2 \in 1..Len(h) /\ 1 + c \in 1..Len(k) /\ (1 + c) + 1 = c + 2
    BY <1>4, <1>7
  <2>2. h[(1 + c) + 1] = k[1 + c]
    BY <1>5, <2>1
  <2> QED BY <1>4, <1>6, <2>1, <2>2
<1>10. IsRun(w, 1, x)
  <2>1. 1 + c <= Len(w) /\ 1 + c + 1 = c + 2 /\ \A i \in 1..c : 1 + i = i + 1
    BY <1>4, <1>6, <1>7
  <2> QED BY <1>8, <1>9, <2>1 DEF IsRun, c
<1> QED BY <1>2, <1>3, <1>4, <1>6, <1>7, <1>8, <1>10 DEF Flags, h, k, f, c

\* Reading on drops the first bytes of the line.
LEMMA DamageRead ==
  ASSUME TypeInv, DamageInv, NEW x \in Seq(Byte), Line' \in Seq(Byte), Line = x \o Line',
         reader # "ver", reader' # "ver", sent' = sent, lost' = lost, got' = got
  PROVE  DamageInv'
<1>1. Own \subseteq Seq(NoFlag) /\ Own' = Own /\ Damaged' = Damaged
  BY OwnIs DEF Own, Damaged
<1> DEFINE s == Line'
           G == Own
<1>2. s \in Seq(Byte) /\ G \subseteq Seq(NoFlag)
  BY <1>1
<1>3. Line \in Seq(Byte) /\ lost \in Nat
  BY LineType DEF TypeInv, TypeOK
<1>4. Cardinality(Bad(s, G, TRUE)) <= Cardinality(Bad(Line, G, TRUE))
      /\ Cardinality(Bad(s, G, TRUE)) \in Nat /\ Cardinality(Bad(Line, G, TRUE)) \in Nat
  <2> HIDE DEF s, G
  <2>1. Cardinality(Bad(s, G, TRUE)) <= Cardinality(Bad(x \o s, G, TRUE))
    BY <1>2, BadDrop
  <2> QED BY <1>2, <1>3, <2>1, BadFinite DEF s
<1>5. (reader # "ver") = TRUE /\ (reader' # "ver") = TRUE
  OBVIOUS
<1>6. Cardinality(Damaged) \in Nat
  BY DamagedFinite
<1>7. Cardinality(Damaged) + Cardinality(Bad(Line, G, TRUE)) <= lost
  BY <1>5 DEF DamageInv
<1>8. Cardinality(Damaged) + Cardinality(Bad(s, G, TRUE)) <= lost
  <2> DEFINE a == Cardinality(Damaged)
             b == Cardinality(Bad(Line, G, TRUE))
             c == Cardinality(Bad(s, G, TRUE))
  <2>1. a \in Nat /\ b \in Nat /\ c \in Nat /\ lost \in Nat /\ c <= b /\ a + b <= lost
    BY <1>3, <1>4, <1>6, <1>7
  <2> HIDE DEF a, b, c
  <2>2. a + c <= lost
    BY <2>1
  <2> QED BY <2>2 DEF a, c
<1> QED BY <1>1, <1>5, <1>8 DEF DamageInv

\* What a call returns is the run behind a flag that is gone with it.
LEMMA DamageReturn ==
  ASSUME TypeInv, DamageInv, NEW x \in Seq(Byte), Line' \in Seq(Byte), Line = x \o Line',
         NEW p \in 1..Len(x), Line[p] = HdlcFlag,
         NEW y \in Seq(NoFlag), IsRun(Line, p, y), got' = Append(got, HdlcUnescaped(y)),
         reader = "ver" => ~Earlier(Line, p), reader # "ver" => y # <<>>,
         reader' # "ver", sent' = sent, lost' = lost
  PROVE  DamageInv'
<1>1. /\ Own \subseteq Seq(NoFlag) /\ Own' = Own
      /\ \A e \in Own : HdlcUnescaped(e) \in Range(sent)
  BY OwnIs DEF Own
<1> DEFINE s == Line'
           G == Own
           mid == (reader # "ver")
           u == HdlcUnescaped(y)
<1>2. s \in Seq(Byte) /\ G \subseteq Seq(NoFlag) /\ mid \in BOOLEAN /\ Line = x \o s
  BY <1>1
<1>3. Line \in Seq(Byte) /\ lost \in Nat /\ p \in 1..Len(Line)
  <2>1. Line \in Seq(Byte) /\ lost \in Nat
    BY LineType DEF TypeInv, TypeOK
  <2>2. Len(x) <= Len(Line) /\ Len(x) \in Nat /\ Len(Line) \in Nat
    <3> HIDE DEF s
    <3>1. Len(x \o s) = Len(x) + Len(s) /\ Len(x) \in Nat /\ Len(s) \in Nat
      BY <1>2, ConcatIs
    <3> QED BY <1>2, <3>1
  <2> QED BY <2>1, <2>2
<1>4. ASSUME u \notin Range(sent) PROVE p \in Bad(Line, G, mid)
  <2>1. ~HasRun(Line, p, G)
    <3> SUFFICES ASSUME NEW r \in G, IsRun(Line, p, r) PROVE FALSE
      BY DEF HasRun
    <3>1. r \in Seq(NoFlag)
      BY <1>2
    <3>2. r = y
      BY <1>3, <3>1, RunUnique
    <3> QED BY <1>1, <1>4, <3>2
  <2>2. ~(HasRun(Line, p, {<<>>}) /\ (mid \/ Earlier(Line, p)))
    <3> SUFFICES ASSUME HasRun(Line, p, {<<>>}), mid \/ Earlier(Line, p) PROVE FALSE
      OBVIOUS
    <3>1. IsRun(Line, p, <<>>) /\ <<>> \in Seq(NoFlag)
      BY DEF HasRun
    <3>2. y = <<>>
      BY <1>3, <3>1, RunUnique
    <3> QED BY <3>2
  <2> QED BY <1>3, <2>1, <2>2 DEF Bad, Flags, InOrder
<1>5. /\ Cardinality(Bad(s, G, TRUE)) <= Cardinality(Bad(Line, G, mid))
      /\ u \notin Range(sent) => Cardinality(Bad(s, G, TRUE)) + 1 <= Cardinality(Bad(Line, G, mid))
      /\ Cardinality(Bad(s, G, TRUE)) \in Nat /\ Cardinality(Bad(Line, G, mid)) \in Nat
  <2>1. p <= Len(x)
    <3>1. Len(x) \in Nat
      OBVIOUS
    <3> QED BY <3>1
  <2> HIDE DEF s, G, mid, u
  <2>2. /\ Cardinality(Bad(s, G, TRUE)) <= Cardinality(Bad(x \o s, G, mid))
        /\ (\E i \in Bad(x \o s, G, mid) : i <= Len(x)) =>
             Cardinality(Bad(s, G, TRUE)) + 1 <= Cardinality(Bad(x \o s, G, mid))
    BY <1>2, BadDrop
  <2>3. Cardinality(Bad(s, G, TRUE)) \in Nat /\ Cardinality(Bad(Line, G, mid)) \in Nat
    BY <1>2, <1>3, BadFinite
  <2> QED BY <1>2, <1>4, <2>1, <2>2, <2>3
<1>6. /\ u \in Range(sent) => Damaged' = Damaged
      /\ Cardinality(Damaged') <= Cardinality(Damaged) + 1
      /\ Cardinality(Damaged') \in Nat /\ Cardinality(Damaged) \in Nat
  BY DamagedReturn, DamagedFinite
<1>7. (reader' # "ver") = TRUE
  OBVIOUS
<1>8. Cardinality(Damaged) + Cardinality(Bad(Line, G, mid)) <= lost
  BY DEF DamageInv
<1>9. Cardinality(Damaged') + Cardinality(Bad(s, G, TRUE)) <= lost
  <2> HIDE DEF s, G, mid, u
  <2> DEFINE a == Cardinality(Damaged)
             d == Cardinality(Damaged')
             b == Cardinality(Bad(Line, G, mid))
             c == Cardinality(Bad(s, G, TRUE))
  <2>1. a \in Nat /\ b \in Nat /\ c \in Nat /\ d \in Nat /\ lost \in Nat /\ a + b <= lost
    BY <1>3, <1>5, <1>6, <1>8
  <2>2. CASE u \in Range(sent)
    <3>1. d = a
      BY <1>6, <2>2
    <3>2. c <= b
      BY <1>5
    <3> HIDE DEF a, b, c, d
    <3>3. d + c <= lost
      BY <2>1, <3>1, <3>2
    <3> QED BY <3>3 DEF c, d
  <2>3. CASE u \notin Range(sent)
    <3>1. d <= a + 1 /\ c + 1 <= b
      BY <1>5, <1>6, <2>3
    <3> HIDE DEF a, b, c, d
    <3>3. d + c <= lost
      BY <2>1, <3>1
    <3> QED BY <3>3 DEF c, d
  <2> QED BY <2>2, <2>3
<1> QED BY <1>1, <1>7, <1>9 DEF DamageInv

LEMMA DamageInit == Init => DamageInv
<1> SUFFICES ASSUME Init PROVE DamageInv
  OBVIOUS
<1>1. Line = <<>> /\ got = <<>> /\ lost = 0
  BY DEF Init, Line
<1>2. Damaged = {} /\ Bad(Line, Own, reader # "ver") = {}
  BY <1>1 DEF Damaged, Bad, Flags
<1>3. Cardinality({}) = 0
  BY FS_EmptySet, Zenon
<1> QED BY <1>1, <1>2, <1>3 DEF DamageInv

LEMMA DamageSend ==
  ASSUME TypeInv, DamageInv, DevSend
  PROVE  DamageInv'
<1>1. PICK b \in Bodies : Line' = Line \o Frame(b) /\ sent' = Append(sent, b)
  BY SendLine
<1>2. got' = got /\ reader' = reader /\ lost' = lost
  BY DEF DevSend
<1> DEFINE G == Own
           H == Own'
           mid == (reader # "ver")
<1>3. Range(sent') = Range(sent) \cup {b} /\ Range(sent) \subseteq Bodies
  <2>1. sent \in Seq(Bodies) /\ Len(sent) \in Nat
    BY DEF TypeInv, TypeOK
  <2>2. DOMAIN sent' = DOMAIN sent \cup {Len(sent) + 1} /\ sent'[Len(sent) + 1] = b
        /\ \A n \in DOMAIN sent : sent'[n] = sent[n]
    BY <1>1, <2>1
  <2>3. \A n \in DOMAIN sent : sent[n] \in Bodies
    BY <2>1
  <2> HIDE DEF G, H, mid
  <2> QED BY <2>2, <2>3 DEF Range
<1>4. G \subseteq H /\ HdlcEscaped(b) \in H /\ H \subseteq Seq(NoFlag)
  <2>1. \A c \in Bodies : HdlcEscaped(c) \in Seq(NoFlag)
    BY BodyIs
  <2> QED BY <1>3, <2>1 DEF Own
<1>5. Line \in Seq(Byte) /\ Frame(b) \in Seq(Byte) /\ mid \in BOOLEAN
  BY LineType, BodyIs
<1>6. Damaged' \in SUBSET Damaged
  BY <1>2, <1>3 DEF Damaged
<1>7. Cardinality(Damaged') <= Cardinality(Damaged) /\ Cardinality(Damaged) \in Nat
      /\ Cardinality(Damaged') \in Nat
  <2>1. IsFiniteSet(Damaged) /\ Cardinality(Damaged) \in Nat
    BY DamagedFinite
  <2> QED BY <1>6, <2>1, FS_Subset, FS_CardinalityType
<1>8. Cardinality(Bad(Line', H, mid)) <= Cardinality(Bad(Line, G, mid))
      /\ Cardinality(Bad(Line, G, mid)) \in Nat /\ Cardinality(Bad(Line', H, mid)) \in Nat
  <2> HIDE DEF G, H, mid
  <2>1. Cardinality(Bad(Line \o Frame(b), H, mid)) <= Cardinality(Bad(Line, G, mid))
    BY <1>4, <1>5, BadSend
  <2>2. Line \o Frame(b) \in Seq(Byte)
    BY <1>5, Joined
  <2>3. Cardinality(Bad(Line \o Frame(b), H, mid)) \in Nat /\ Cardinality(Bad(Line, G, mid)) \in Nat
    BY <1>5, <2>2, BadFinite
  <2> QED BY <1>1, <2>1, <2>3
<1>9. lost \in Nat
  BY DEF TypeInv, TypeOK
<1>10. Cardinality(Damaged') + Cardinality(Bad(Line', H, mid)) <= lost
  <2> DEFINE a == Cardinality(Damaged)
             d == Cardinality(Damaged')
             e == Cardinality(Bad(Line, G, mid))
             c == Cardinality(Bad(Line', H, mid))
  <2>1. a \in Nat /\ d \in Nat /\ e \in Nat /\ c \in Nat /\ a + e <= lost /\ d <= a /\ c <= e
    BY <1>7, <1>8 DEF DamageInv
  <2> HIDE DEF a, d, e, c
  <2>2. d + c <= lost
    BY <1>9, <2>1
  <2> QED BY <2>2 DEF d, c
<1> QED BY <1>2, <1>10 DEF DamageInv

LEMMA DamageLoss ==
  ASSUME TypeInv, DamageInv, LoseByte
  PROVE  DamageInv'
<1>1. PICK x \in Seq(Byte), b \in Byte, y \in Seq(Byte) : Line = x \o (<<b>> \o y) /\ Line' = x \o y
  BY LossLine
<1>2. got' = got /\ reader' = reader /\ sent' = sent /\ lost' = lost + 1
  BY DEF LoseByte
<1>3. Own \subseteq Seq(NoFlag) /\ Own' = Own /\ Damaged' = Damaged
  BY <1>2, OwnIs DEF Own, Damaged
<1> DEFINE G == Own
           mid == (reader # "ver")
<1>4. /\ Line \in Seq(Byte) /\ x \o y \in Seq(Byte) /\ mid \in BOOLEAN /\ lost \in Nat
      /\ Cardinality(Damaged) \in Nat
  BY LineType, Joined, DamagedFinite DEF TypeInv, TypeOK
<1> HIDE DEF G
<1>5. Cardinality(Bad(x \o y, G, mid)) <= Cardinality(Bad(Line, G, mid)) + 1
  <2> HIDE DEF mid
  <2>1. G \subseteq Seq(NoFlag)
    BY <1>3 DEF G
  <2>2. Cardinality(Bad(x \o y, G, mid)) <= Cardinality(Bad(x \o (<<b>> \o y), G, mid)) + 1
    BY <1>4, <2>1, BadLoss
  <2> QED BY <1>1, <2>2
<1>6. Cardinality(Bad(x \o y, G, mid)) \in Nat /\ Cardinality(Bad(Line, G, mid)) \in Nat
  BY <1>4, BadFinite
<1>7. Cardinality(Damaged) + Cardinality(Bad(x \o y, G, mid)) <= lost + 1
  <2> DEFINE a == Cardinality(Damaged)
             e == Cardinality(Bad(Line, G, mid))
             c == Cardinality(Bad(x \o y, G, mid))
  <2>1. a \in Nat /\ e \in Nat /\ c \in Nat /\ a + e <= lost /\ c <= e + 1
    BY <1>4, <1>5, <1>6 DEF DamageInv, G
  <2> HIDE DEF a, e, c
  <2>2. a + c <= lost + 1
    BY <1>4, <2>1
  <2> QED BY <2>2 DEF a, c
<1> QED BY <1>1, <1>2, <1>3, <1>7 DEF DamageInv, G

LEMMA DamageStep == TypeInv /\ DamageInv /\ [Next]_vars => DamageInv'
<1> SUFFICES ASSUME TypeInv, DamageInv, [Next]_vars PROVE DamageInv'
  OBVIOUS
<1>1. Line \in Seq(Byte)
  BY LineType
<1>2. ASSUME GetVer PROVE DamageInv'
  <2>1. reader = "ver" /\ reader' # "ver" /\ Line = wire /\ got = <<>>
    BY <1>2, VerLine
  <2>2. PICK n \in 1..Len(wire) : \E p \in 1..n : \E y \in Seq(NoFlag) :
              /\ IsRun(wire, p, y) /\ got' = <<HdlcUnescaped(y)>>
              /\ wire[p] = HdlcFlag /\ ~Earlier(wire, p) /\ Line' = From(wire, n)
    BY <1>2, VerLine
  <2>3. PICK p \in 1..n : \E y \in Seq(NoFlag) :
              /\ IsRun(wire, p, y) /\ got' = <<HdlcUnescaped(y)>>
              /\ wire[p] = HdlcFlag /\ ~Earlier(wire, p) /\ Line' = From(wire, n)
    BY <2>2
  <2>4. PICK y \in Seq(NoFlag) :
              /\ IsRun(wire, p, y) /\ got' = <<HdlcUnescaped(y)>>
              /\ wire[p] = HdlcFlag /\ ~Earlier(wire, p) /\ Line' = From(wire, n)
    BY <2>3
  <2> DEFINE x == SubSeq(wire, 1, n)
  <2>5. wire \in Seq(Byte) /\ n \in 0..Len(wire)
    BY <1>1, <2>1
  <2>6. x \in Seq(Byte) /\ Len(x) = n /\ From(wire, n) \in Seq(Byte) /\ x \o From(wire, n) = wire
    BY <2>5, CutIs
  <2>7. got' = Append(got, HdlcUnescaped(y)) /\ sent' = sent /\ lost' = lost
    BY <1>2, <2>1, <2>4 DEF GetVer
  <2> HIDE DEF x
  <2>8. p \in 1..Len(x) /\ Line = x \o Line' /\ Line' \in Seq(Byte)
    BY <2>1, <2>4, <2>6
  <2> QED BY <2>1, <2>4, <2>6, <2>7, <2>8, DamageReturn
<1>3. ASSUME ReadFrame \/ Collect PROVE DamageInv'
  <2>1. Line' = Line /\ sent' = sent /\ lost' = lost /\ got' = got
    BY <1>3, KeepLine DEF ReadFrame, Collect, NextByte
  <2>2. (reader # "ver") = TRUE /\ (reader' # "ver") = TRUE
    BY <1>3 DEF ReadFrame, Collect
  <2> QED BY <2>1, <2>2 DEF DamageInv, Damaged, Own
<1>4. ASSUME Skip \/ OpenAgain PROVE DamageInv'
  <2>1. reader # "ver" /\ reader' # "ver" /\ sent' = sent /\ lost' = lost /\ got' = got
    BY <1>4 DEF Skip, OpenAgain, NextByte
  <2>2. CASE Line' = Line
    <3>1. (reader # "ver") = TRUE /\ (reader' # "ver") = TRUE
      BY <2>1
    <3> QED BY <2>1, <2>2, <3>1 DEF DamageInv, Damaged, Own
  <2>3. CASE Line # <<>> /\ Line' = Tail(Line)
    <3> DEFINE h == <<Head(Line)>>
    <3>1. h \in Seq(Byte) /\ Line' \in Seq(Byte) /\ Line = h \o Line'
      <4>1. Head(Line) \in Byte /\ Tail(Line) \in Seq(Byte) /\ Line = h \o Tail(Line)
        BY <1>1, <2>3, HeadAndTail
      <4> QED BY <2>3, <4>1
    <3> HIDE DEF h
    <3> QED BY <2>1, <3>1, DamageRead
  <2> QED BY <1>4, <2>2, <2>3, SkipLine
<1>5. ASSUME Return PROVE DamageInv'
  <2> DEFINE h == <<HdlcFlag>> \o (body \o <<HdlcFlag>>)
             t == Line'
  <2>1. /\ body # <<>> /\ t \in Seq(Byte) /\ got' = Append(got, HdlcUnescaped(body))
        /\ Line = <<HdlcFlag>> \o (body \o (<<HdlcFlag>> \o t))
    BY <1>5, ReturnLine
  <2>2. body \in Seq(NoFlag)
    BY LineType
  <2> HIDE DEF t
  <2>3. /\ h \in Seq(Byte) /\ Line = h \o t /\ Len(h) = Len(body) + 2 /\ Len(body) \in Nat
        /\ 1 \in Flags(Line) /\ IsRun(Line, 1, body)
    BY <2>1, <2>2, FirstRun
  <2>4. reader # "ver" /\ reader' # "ver" /\ sent' = sent /\ lost' = lost
    BY <1>5 DEF Return, NextByte
  <2> HIDE DEF h
  <2>5. 1 \in 1..Len(h) /\ Line[1] = HdlcFlag
    BY <2>3 DEF Flags
  <2> QED BY <2>1, <2>2, <2>3, <2>4, <2>5, DamageReturn DEF t
<1>6. ASSUME Deadline PROVE DamageInv'
  <2>1. reader # "ver" /\ reader' # "ver" /\ sent' = sent /\ lost' = lost /\ got' = got
    BY <1>6 DEF Deadline
  <2>2. Line' \in Seq(Byte)
    BY <1>6, DeadlineLine
  <2>3. CASE Line' = Line
    <3>1. (reader # "ver") = TRUE /\ (reader' # "ver") = TRUE
      BY <2>1
    <3> QED BY <2>1, <2>3, <3>1 DEF DamageInv, Damaged, Own
  <2>4. CASE Line = <<HdlcFlag>> \o (body \o Line')
    <3> DEFINE f == <<HdlcFlag>>
               t == Line'
               h == f \o body
    <3>1. f \in Seq(Byte) /\ body \in Seq(Byte) /\ t \in Seq(Byte)
      BY <2>2, LineType, NoFlagSeq
    <3>2. h \in Seq(Byte) /\ Line = h \o t
      <4>1. Line = f \o (body \o t)
        BY <2>4
      <4> HIDE DEF f, t
      <4>2. (f \o body) \o t = f \o (body \o t)
        BY <3>1, Joined, Zenon
      <4>3. f \o body \in Seq(Byte)
        BY <3>1, Joined
      <4> QED BY <4>1, <4>2, <4>3
    <3> HIDE DEF h
    <3> QED BY <2>1, <2>2, <3>2, DamageRead
  <2> QED BY <1>6, <2>3, <2>4, DeadlineLine
<1>7. ASSUME UNCHANGED vars PROVE DamageInv'
  BY <1>7 DEF DamageInv, Damaged, Own, Line
<1> QED BY <1>2, <1>3, <1>4, <1>5, <1>6, <1>7, DamageSend, DamageLoss DEF Next, Reading

\* A byte lost on the line damages at most one frame of those returned, and
\* none that is still to come: the reader is in step again with the next
\* frame, wherever the byte is lost, whatever the calls had read by then and
\* whether they timed out.  protocol.py:198-222
THEOREM OneDamaged == Spec => []OneDamagedPerByte
<1>1. TypeInv /\ DamageInv => OneDamagedPerByte
  <2> SUFFICES ASSUME TypeInv, DamageInv PROVE OneDamagedPerByte
    OBVIOUS
  <2> DEFINE a == Cardinality(Damaged)
             c == Cardinality(Bad(Line, Own, reader # "ver"))
  <2>1. a \in Nat /\ c \in Nat /\ a + c <= lost /\ lost \in Nat
    <3>1. Line \in Seq(Byte)
      BY LineType
    <3> QED BY <3>1, DamagedFinite, BadFinite DEF DamageInv, TypeInv, TypeOK
  <2> HIDE DEF a, c
  <2>2. a <= lost
    BY <2>1
  <2> QED BY <2>2 DEF OneDamagedPerByte, a
<1> QED BY <1>1, DamageInit, DamageStep, TypesAlways, PTL DEF Spec

(***************************************************************************)
(* The frames that will be returned whole.  A flag is sure when nothing    *)
(* but a flag is before it, so that the reader takes it for an opener, and *)
(* a body that was sent is behind it.  A line that ends in mid-frame is    *)
(* Cut: the next frame's opening flag will be taken for a closing one.     *)
(***************************************************************************)

Sure(w, G) == {i \in Flags(w) : (i = 1 \/ w[i - 1] = HdlcFlag) /\ HasRun(w, i, G)}

First(w, n, G) == {i \in Sure(w, G) : i <= n}

Cut(w) == IF w # <<>> /\ w[Len(w)] # HdlcFlag THEN 1 ELSE 0

LEMMA SureFinite ==
  ASSUME NEW w \in Seq(Byte), NEW G
  PROVE  /\ IsFiniteSet(Sure(w, G)) /\ Cardinality(Sure(w, G)) \in Nat /\ Sure(w, G) \subseteq Nat
         /\ \A n : IsFiniteSet(First(w, n, G)) /\ Cardinality(First(w, n, G)) \in Nat
<1>1. Sure(w, G) \in SUBSET Flags(w) /\ Flags(w) \subseteq Nat
  BY DEF Sure, Flags
<1>2. IsFiniteSet(Sure(w, G)) /\ Cardinality(Sure(w, G)) \in Nat
  BY <1>1, FlagsFinite, FS_Subset, FS_CardinalityType
<1>3. ASSUME NEW n PROVE IsFiniteSet(First(w, n, G)) /\ Cardinality(First(w, n, G)) \in Nat
  <2>1. First(w, n, G) \in SUBSET Sure(w, G)
    BY DEF First
  <2> QED BY <1>2, <2>1, FS_Subset, FS_CardinalityType
<1> QED BY <1>1, <1>2, <1>3

\* The byte behind a sure flag is no flag.
LEMMA SureOpens ==
  ASSUME NEW w \in Seq(Byte), NEW G, G \subseteq Seq(NoFlag), <<>> \notin G, NEW i \in Sure(w, G)
  PROVE  /\ i \in 1..Len(w) /\ w[i] = HdlcFlag /\ (i = 1 \/ w[i - 1] = HdlcFlag)
         /\ i + 1 \in 1..Len(w) /\ w[i + 1] # HdlcFlag
         /\ HasRun(w, i, G)
<1>1. i \in 1..Len(w) /\ w[i] = HdlcFlag /\ (i = 1 \/ w[i - 1] = HdlcFlag) /\ HasRun(w, i, G)
  BY DEF Sure, Flags
<1>2. PICK r \in G : IsRun(w, i, r)
  BY <1>1 DEF HasRun
<1>3. r \in Seq(NoFlag) /\ r # <<>>
  BY <1>2
<1>4. 1 \in 1..Len(r) /\ Len(r) \in Nat /\ r[1] \in NoFlag
  BY <1>3
<1>5. i + 1 \in 1..Len(w) /\ w[i + 1] = r[1]
  <2>1. Len(w) \in Nat
    OBVIOUS
  <2> QED BY <1>1, <1>2, <1>4, <2>1 DEF IsRun
<1> QED BY <1>1, <1>4, <1>5 DEF NoFlag

\* Reading on, only what is read is lost, ...
LEMMA SureDrop ==
  ASSUME NEW x \in Seq(Byte), NEW s \in Seq(Byte), NEW G, G \subseteq Seq(NoFlag)
  PROVE  /\ Cardinality(Sure(x \o s, G)) <= Cardinality(First(x \o s, Len(x), G)) + Cardinality(Sure(s, G))
         /\ Cut(s) <= Cut(x \o s)
<1> DEFINE w == x \o s
           m == Len(x)
           S == Sure(w, G)
           A == First(w, m, G)
           B == {i \in S : i > m}
           T == Sure(s, G)
<1>1. /\ w \in Seq(Byte) /\ Len(w) = m + Len(s) /\ m \in Nat /\ Len(s) \in Nat
      /\ \A i \in 1..Len(s) : w[i + m] = s[i]
  BY ConcatIs
<1>2. \A i \in 1..Len(s) : HasRun(w, i + m, G) <=> HasRun(s, i, G)
  BY RunSuffix
<1> HIDE DEF w, m
<1>3. S \subseteq Nat /\ S = A \cup B /\ A \cap B = {}
  <2>1. S \subseteq Nat
    BY <1>1, SureFinite
  <2> QED BY <1>1, <2>1 DEF First
<1>4. IsFiniteSet(A) /\ Cardinality(A) \in Nat /\ IsFiniteSet(T) /\ Cardinality(T) \in Nat
  BY <1>1, SureFinite
<1>5. ASSUME NEW u \in B PROVE u \in Int /\ u > 0 /\ u + (-m) \in T /\ u + (-m) > 0
  <2>1. /\ u \in 1..Len(w) /\ u > m /\ w[u] = HdlcFlag /\ u \in Nat
        /\ u = 1 \/ w[u - 1] = HdlcFlag
        /\ HasRun(w, u, G)
    BY <1>3 DEF Sure, Flags
  <2> DEFINE j == u + (-m)
  <2>2. j \in 1..Len(s) /\ j + m = u /\ j > 0
    BY <1>1, <2>1
  <2>3. j # 1 => j - 1 \in 1..Len(s) /\ (j - 1) + m = u - 1 /\ u # 1
    BY <1>1, <2>1
  <2> HIDE DEF j
  <2>4. s[j] = HdlcFlag /\ HasRun(s, j, G)
    BY <1>1, <1>2, <2>1, <2>2
  <2>5. j # 1 => s[j - 1] = HdlcFlag
    BY <1>1, <2>1, <2>3
  <2>6. j \in T
    BY <2>2, <2>4, <2>5 DEF Sure, Flags
  <2> QED BY <1>1, <2>1, <2>2, <2>6 DEF j
<1>6. IsFiniteSet(B) /\ Cardinality(B) <= Cardinality(T) /\ Cardinality(B) \in Nat
  <2>1. B \subseteq Int /\ \A u \in B : ~(u <= 0)
    BY <1>5
  <2>2. -m \in Int /\ 0 \in Int
    BY <1>1
  <2> HIDE DEF B, T
  <2> QED BY <1>4, <1>5, <2>1, <2>2, Slide
<1>7. Cardinality(S) = Cardinality(A) + Cardinality(B)
  <2> HIDE DEF A, B, S
  <2>1. Cardinality(A \cap B) = 0
    BY <1>3, FS_EmptySet
  <2>2. Cardinality(A \cup B) = Cardinality(A) + Cardinality(B) - Cardinality(A \cap B)
    BY <1>4, <1>6, FS_Union
  <2> QED BY <1>3, <1>4, <1>6, <2>1, <2>2
<1>8. Cardinality(S) <= Cardinality(A) + Cardinality(T)
  <2> DEFINE a == Cardinality(A)
             b == Cardinality(B)
             t == Cardinality(T)
  <2>1. a \in Nat /\ b \in Nat /\ t \in Nat /\ b <= t /\ Cardinality(S) = a + b
    BY <1>4, <1>6, <1>7
  <2> HIDE DEF a, b, t, S
  <2>2. Cardinality(S) <= a + t
    BY <2>1
  <2> QED BY <2>2 DEF a, t
<1>9. Cut(s) <= Cut(w)
  <2>1. CASE Cut(s) = 0
    BY <2>1 DEF Cut
  <2>2. CASE Cut(s) # 0
    <3>1. s # <<>> /\ s[Len(s)] # HdlcFlag
      BY <2>2 DEF Cut
    <3>2. Len(s) \in 1..Len(s) /\ Len(s) + m = Len(w) /\ Len(w) > 0
      BY <1>1, <3>1
    <3>3. w[Len(w)] = s[Len(s)] /\ w # <<>>
      BY <1>1, <3>2
    <3> QED BY <3>1, <3>3 DEF Cut
  <2> QED BY <2>1, <2>2
<1> QED BY <1>8, <1>9 DEF w, m, S, A, T

\* ... what is sent comes whole, unless the line is cut, ...
LEMMA SureSend ==
  ASSUME NEW w \in Seq(Byte), NEW b \in Bodies, NEW G, NEW H, G \subseteq H,
         H \subseteq Seq(NoFlag), HdlcEscaped(b) \in H
  PROVE  /\ Cardinality(Sure(w, G)) + 1 <= Cardinality(Sure(w \o Frame(b), H)) + Cut(w)
         /\ Cut(w \o Frame(b)) = 0
<1> DEFINE s == Frame(b)
           v == w \o s
           l == Len(w)
           t == <<>>
           e == HdlcEscaped(b)
           A == Sure(w, G)
           B == Sure(v, H)
<1>1. e \in Seq(NoFlag) /\ s \in Seq(Byte)
  BY BodyIs
<1>2. /\ Len(s) \in Nat \ {0} /\ s[1] = HdlcFlag /\ s[Len(s)] = HdlcFlag /\ HasRun(s, 1, H)
  <2>1. <<HdlcFlag>> \o t = <<HdlcFlag>> /\ t \in Seq(Byte)
    OBVIOUS
  <2>2. s = <<HdlcFlag>> \o (e \o (<<HdlcFlag>> \o t))
    BY <2>1 DEF Frame
  <2> DEFINE h == <<HdlcFlag>> \o (e \o <<HdlcFlag>>)
  <2>0. Len(t) = 0
    OBVIOUS
  <2> HIDE DEF e, s, t
  <2>3. /\ Len(e) \in Nat /\ Len(s) = Len(h) + Len(t) /\ Len(h) = Len(e) + 2
        /\ 1 \in Flags(s) /\ IsRun(s, 1, e)
    BY <1>1, <2>1, <2>2, FirstRun
  <2> HIDE DEF h
  <2>4. Len(t) = 0 /\ Len(s) = Len(e) + 2 /\ 1 + Len(e) + 1 = Len(e) + 2 /\ 1 + Len(e) # Len(e) + 2
    BY <2>0, <2>3
  <2>5. s[Len(s)] = HdlcFlag
    BY <2>3, <2>4 DEF IsRun
  <2>6. s[1] = HdlcFlag
    BY <2>3 DEF Flags
  <2> QED BY <2>3, <2>4, <2>5, <2>6 DEF HasRun, e
<1> HIDE DEF s, e
<1>3. /\ v \in Seq(Byte) /\ Len(v) = l + Len(s) /\ l \in Nat
      /\ \A j \in 1..l : v[j] = w[j]
      /\ \A j \in 1..Len(s) : v[j + l] = s[j]
  BY <1>1, ConcatIs
<1>4. A \subseteq B
  <2> SUFFICES ASSUME NEW i \in A PROVE i \in B
    OBVIOUS
  <2>1. i \in 1..l /\ w[i] = HdlcFlag /\ (i = 1 \/ w[i - 1] = HdlcFlag) /\ HasRun(w, i, G)
    BY DEF Sure, Flags
  <2>2. G \subseteq Seq(NoFlag) /\ s # <<>>
    BY <1>2
  <2>3. HasRun(v, i, G)
    BY <1>1, <1>2, <2>1, <2>2, RunExtended
  <2>4. HasRun(v, i, H)
    BY <2>3 DEF HasRun
  <2>5. i \in 1..Len(v) /\ (i # 1 => i - 1 \in 1..l)
    BY <1>2, <1>3, <2>1
  <2> HIDE DEF v, l
  <2>6. v[i] = HdlcFlag /\ (i = 1 \/ v[i - 1] = HdlcFlag)
    BY <1>3, <2>1, <2>5
  <2> QED BY <2>4, <2>5, <2>6 DEF Sure, Flags
<1>5. ASSUME Cut(w) = 0 PROVE l + 1 \in B /\ l + 1 \notin A
  <2>1. HasRun(v, 1 + l, H)
    <3>1. 1 \in 1..Len(s)
      BY <1>2
    <3> QED BY <1>1, <1>2, <3>1, RunSuffix
  <2>2. 1 + l = l + 1 /\ l + 1 \in 1..Len(v) /\ 1 \in 1..Len(s) /\ l + 1 \notin 1..l
    BY <1>2, <1>3
  <2>3. v[l + 1] = HdlcFlag
    BY <1>2, <1>3, <2>2
  <2>4. l + 1 = 1 \/ v[(l + 1) - 1] = HdlcFlag
    <3>1. CASE w = <<>>
      <4>1. l = 0
        BY <3>1
      <4> QED BY <4>1
    <3>2. CASE w # <<>>
      <4>1. w[l] = HdlcFlag /\ l \in 1..l /\ (l + 1) - 1 = l
        BY <1>3, <1>5, <3>2 DEF Cut
      <4> QED BY <1>3, <4>1
    <3> QED BY <3>1, <3>2
  <2> HIDE DEF v, l
  <2>5. l + 1 \in B
    BY <2>1, <2>2, <2>3, <2>4 DEF Sure, Flags
  <2>6. l + 1 \notin A
    BY <2>2 DEF Sure, Flags, l
  <2> QED BY <2>5, <2>6
<1>6. IsFiniteSet(A) /\ Cardinality(A) \in Nat /\ IsFiniteSet(B) /\ Cardinality(B) \in Nat
  <2>1. v \in Seq(Byte)
    BY <1>3
  <2> HIDE DEF v
  <2> QED BY <2>1, SureFinite
<1>7. Cardinality(A) + 1 <= Cardinality(B) + Cut(w)
  <2> DEFINE k == l + 1
  <2>1. Cut(w) \in {0, 1}
    BY DEF Cut
  <2>2. A \in SUBSET B
    BY <1>4
  <2>3. Cut(w) = 0 => k \in B /\ k \notin A
    BY <1>5
  <2> HIDE DEF A, B, k
  <2>4. Cardinality(A) <= Cardinality(B)
    BY <1>6, <2>2, FS_Subset
  <2>5. CASE Cut(w) = 1
    BY <1>6, <2>4, <2>5
  <2>6. CASE Cut(w) = 0
    <3> DEFINE C == B \ {k}
    <3>1. IsFiniteSet(C) /\ Cardinality(C) = Cardinality(B) - 1
      BY <1>6, <2>3, <2>6, FS_RemoveElement
    <3>2. A \in SUBSET C
      BY <2>2, <2>3, <2>6
    <3> HIDE DEF C
    <3>3. Cardinality(A) <= Cardinality(C)
      BY <3>1, <3>2, FS_Subset
    <3> QED BY <1>6, <2>6, <3>1, <3>3
  <2> QED BY <2>1, <2>5, <2>6
<1>8. Cut(v) = 0
  <2>1. Len(s) \in 1..Len(s) /\ Len(s) + l = Len(v)
    BY <1>2, <1>3
  <2>2. v[Len(v)] = HdlcFlag
    BY <1>2, <1>3, <2>1
  <2> HIDE DEF v
  <2> QED BY <2>2 DEF Cut
<1> QED BY <1>7, <1>8 DEF s

\* ... and a byte that is lost costs one sure frame, or cuts the line.  The
\* place of the loss is d; a sure flag u that is none afterwards opened the
\* frame the byte was in (Around), or was the byte itself, or lost the flag
\* before it.
Around(w, d, u) ==
  /\ u < d /\ \A k \in (u + 1)..(d - 1) : w[k] # HdlcFlag
  /\ w[d] = HdlcFlag =>
       u + 1 <= d - 1 /\ d + 1 <= Len(w) /\ w[d + 1] # HdlcFlag

Taken(w, d, u) ==
  u = d /\ (d = 1 \/ w[d - 1] = HdlcFlag) /\ d + 1 <= Len(w) /\ w[d + 1] # HdlcFlag

Bared(w, d, u) ==
  u = d + 1 /\ w[d] = HdlcFlag /\ d > 1 /\ w[d - 1] # HdlcFlag /\ d + 1 <= Len(w)

LEMMA KeptBefore ==
  ASSUME NEW x \in Seq(Byte), NEW b \in Byte, NEW y \in Seq(Byte),
         NEW G, G \subseteq Seq(NoFlag), <<>> \notin G,
         NEW u \in Sure(x \o (<<b>> \o y), G), u <= Len(x),
         u \notin Sure(x \o y, G)
  PROVE  Around(x \o (<<b>> \o y), Len(x) + 1, u)
<1> DEFINE w == x \o (<<b>> \o y)
           v == x \o y
           m == Len(x)
           d == m + 1
<1>1. /\ w \in Seq(Byte) /\ v \in Seq(Byte) /\ m \in Nat /\ Len(y) \in Nat
      /\ Len(v) = m + Len(y) /\ Len(w) = Len(v) + 1
      /\ \A i \in 1..m : w[i] = v[i] /\ w[i] = x[i]
      /\ \A i \in (m + 1)..Len(v) : w[i + 1] = v[i]
  BY LossIs
<1> HIDE DEF w, v, m
<1>2. /\ u \in 1..Len(w) /\ w[u] = HdlcFlag /\ (u = 1 \/ w[u - 1] = HdlcFlag)
      /\ HasRun(w, u, G) /\ u \in Nat /\ u >= 1 /\ u <= m
  <2>1. u \in Sure(w, G) /\ u <= m
    BY DEF w, m
  <2>2. /\ u \in 1..Len(w) /\ w[u] = HdlcFlag /\ (u = 1 \/ w[u - 1] = HdlcFlag)
        /\ HasRun(w, u, G)
    BY <1>1, <2>1, SureOpens
  <2> QED BY <2>1, <2>2
<1>3. PICK r \in G : IsRun(w, u, r)
  BY <1>2 DEF HasRun
<1>4. r \in Seq(NoFlag) /\ Len(r) \in Nat /\ Len(r) >= 1
  BY <1>3
<1>5. u \in 1..Len(v) /\ v[u] = HdlcFlag /\ (u = 1 \/ v[u - 1] = HdlcFlag)
  <2>1. u \in 1..m /\ u \in 1..Len(v) /\ (u # 1 => u - 1 \in 1..m)
    BY <1>1, <1>2
  <2> QED BY <1>1, <1>2, <2>1
<1>6. ~HasRun(v, u, G)
  BY <1>5 DEF Sure, Flags, v
<1> DEFINE t == u + Len(r) + 1
<1>7. t \in Nat /\ t > u + 1 /\ t <= Len(w) + 1 /\ (t = Len(w) + 1 \/ w[t] = HdlcFlag)
  BY <1>1, <1>2, <1>3, <1>4 DEF IsRun
<1>8. \A k \in (u + 1)..(t - 1) : k \in 1..Len(w) /\ w[k] # HdlcFlag
  <2> SUFFICES ASSUME NEW k \in (u + 1)..(t - 1) PROVE k \in 1..Len(w) /\ w[k] # HdlcFlag
    OBVIOUS
  <2> DEFINE j == k - u
  <2>1. j \in 1..Len(r) /\ u + j = k /\ k \in 1..Len(w)
    BY <1>1, <1>2, <1>4, <1>7
  <2> HIDE DEF j, t
  <2>2. w[k] = r[j] /\ r[j] \in NoFlag
    BY <1>3, <1>4, <2>1 DEF IsRun
  <2> QED BY <2>1, <2>2 DEF NoFlag
<1>9. t >= d
  <2> SUFFICES ASSUME t < d PROVE FALSE
    BY <1>1, <1>7
  <2>1. t \in (u + 1)..Len(w) /\ t <= Len(v) /\ w[t] = HdlcFlag /\ \A j \in 1..t : j \in 1..m
    BY <1>1, <1>2, <1>7
  <2> HIDE DEF t
  <2>2. \A j \in 1..t : v[j] = w[j]
    BY <1>1, <2>1
  <2>3. HasRun(w, u, G) => HasRun(v, u, G)
    BY <1>1, <1>2, <2>1, <2>2, RunClosed
  <2> QED BY <1>2, <1>6, <2>3
<1>10. ASSUME w[d] = HdlcFlag PROVE t = d /\ u + 1 <= d - 1 /\ d + 1 <= Len(w) /\ w[d + 1] # HdlcFlag
  <2>1. t = d
    <3>1. ~(d < t)
      <4> SUFFICES ASSUME d < t PROVE FALSE
        OBVIOUS
      <4>1. d \in (u + 1)..(t - 1)
        BY <1>1, <1>2, <1>7
      <4> QED BY <1>8, <1>10, <4>1
    <3> QED BY <1>1, <1>7, <1>9, <3>1
  <2>2. u + Len(r) = m /\ u + Len(r) + 1 = m + 1
    <3> DEFINE a == u + Len(r)
    <3>1. a \in Int /\ a + 1 = m + 1 /\ m \in Int
      BY <1>1, <1>2, <1>4, <2>1
    <3> HIDE DEF a
    <3>2. a = m
      BY <3>1
    <3> QED BY <3>1, <3>2 DEF a
  <2>3. \A k \in 1..Len(r) : u + k \in 1..m /\ u + k \in 1..Len(w)
    BY <1>1, <1>2, <1>4, <2>2
  <2>4. \A k \in 1..Len(r) : v[u + k] = r[k]
    BY <1>1, <1>3, <2>3 DEF IsRun
  <2>5. ASSUME m = Len(v) \/ v[m + 1] = HdlcFlag PROVE FALSE
    <3>1. IsRun(v, u, r)
      BY <1>1, <2>2, <2>4, <2>5 DEF IsRun
    <3> QED BY <1>6, <3>1 DEF HasRun
  <2>6. d + 1 <= Len(w) /\ d \in (m + 1)..Len(v) /\ d + 1 = (m + 1) + 1
    BY <1>1, <2>5
  <2>7. w[d + 1] = v[d] /\ v[d] # HdlcFlag
    BY <1>1, <2>5, <2>6
  <2> QED BY <1>1, <1>2, <1>7, <2>1, <2>6, <2>7
<1>11. u < d /\ \A k \in (u + 1)..(d - 1) : w[k] # HdlcFlag
  <2>1. \A k \in (u + 1)..(d - 1) : k \in (u + 1)..(t - 1)
    BY <1>1, <1>2, <1>7, <1>9
  <2>2. u < d
    BY <1>1, <1>2
  <2> QED BY <1>8, <2>1, <2>2
<1> QED BY <1>10, <1>11 DEF Around, w, d, m

LEMMA KeptBehind ==
  ASSUME NEW x \in Seq(Byte), NEW b \in Byte, NEW y \in Seq(Byte),
         NEW G, G \subseteq Seq(NoFlag), <<>> \notin G,
         NEW u \in Sure(x \o (<<b>> \o y), G), u > Len(x) + 1,
         u - 1 \notin Sure(x \o y, G)
  PROVE  Bared(x \o (<<b>> \o y), Len(x) + 1, u)
<1> DEFINE w == x \o (<<b>> \o y)
           v == x \o y
           m == Len(x)
           z == x \o <<b>>
           e == u - 1
           j == u - (m + 1)
<1>1. /\ w \in Seq(Byte) /\ v \in Seq(Byte) /\ m \in Nat /\ Len(y) \in Nat
      /\ Len(v) = m + Len(y) /\ Len(w) = Len(v) + 1
      /\ \A i \in 1..m : w[i] = v[i] /\ w[i] = x[i]
      /\ \A i \in (m + 1)..Len(v) : w[i + 1] = v[i]
  BY LossIs
<1>2. z \in Seq(Byte) /\ Len(z) = m + 1 /\ w = z \o y
  <2> DEFINE g == <<b>>
  <2>1. g \in Seq(Byte) /\ Len(g) = 1
    OBVIOUS
  <2> HIDE DEF g
  <2>2. (x \o g) \o y = x \o (g \o y)
    BY <2>1, Joined, Zenon
  <2>3. x \o g \in Seq(Byte) /\ Len(x \o g) = Len(x) + Len(g)
    BY <2>1, ConcatIs
  <2> QED BY <2>1, <2>2, <2>3 DEF g
<1> HIDE DEF w, v, m, z
<1>3. /\ u \in 1..Len(w) /\ w[u] = HdlcFlag /\ (u = 1 \/ w[u - 1] = HdlcFlag)
      /\ HasRun(w, u, G) /\ u \in Nat /\ u > m + 1
  <2>1. u \in Sure(w, G) /\ u > m + 1
    BY DEF w, m
  <2>2. /\ u \in 1..Len(w) /\ w[u] = HdlcFlag /\ (u = 1 \/ w[u - 1] = HdlcFlag)
        /\ HasRun(w, u, G)
    BY <1>1, <2>1, SureOpens
  <2> QED BY <2>1, <2>2
<1>4. j \in 1..Len(y) /\ j + m = e /\ j + (m + 1) = u /\ e \in (m + 1)..Len(v) /\ e \in 1..Len(v) /\ e + 1 = u
  BY <1>1, <1>3
<1> HIDE DEF e, j
<1>5. HasRun(v, e, G)
  <2>1. HasRun(z \o y, j + Len(z), G) <=> HasRun(y, j, G)
    BY <1>2, <1>4, RunSuffix
  <2>2. HasRun(v, j + m, G) <=> HasRun(y, j, G)
    BY <1>4, RunSuffix DEF v, m
  <2> QED BY <1>2, <1>3, <1>4, <2>1, <2>2
<1>6. v[e] = HdlcFlag
  BY <1>1, <1>3, <1>4
<1>7. e # 1 /\ v[e - 1] # HdlcFlag
  <2>1. e \notin Sure(v, G)
    BY DEF e, v
  <2> QED BY <1>4, <1>5, <1>6, <2>1 DEF Sure, Flags
<1>8. w[e] = HdlcFlag
  <2>1. u # 1 /\ u - 1 = e
    BY <1>1, <1>3 DEF e
  <2> QED BY <1>3, <2>1
<1>9. e = m + 1
  <2> SUFFICES ASSUME e # m + 1 PROVE FALSE
    OBVIOUS
  <2>1. e - 1 \in (m + 1)..Len(v) /\ (e - 1) + 1 = e
    BY <1>1, <1>4
  <2> QED BY <1>1, <1>7, <1>8, <2>1
<1>10. w[m] # HdlcFlag /\ m + 1 > 1
  <2>1. e - 1 = m /\ m \in 1..m /\ m + 1 > 1
    BY <1>1, <1>7, <1>9
  <2> QED BY <1>1, <1>7, <2>1
<1>11. u = (m + 1) + 1 /\ (m + 1) + 1 <= Len(w) /\ (m + 1) - 1 = m
  BY <1>1, <1>3, <1>4, <1>9
<1> QED BY <1>8, <1>9, <1>10, <1>11 DEF Bared, w, m

\* No two flags can be hurt by one loss.
LEMMA OneHurt ==
  ASSUME NEW w \in Seq(Byte), NEW d \in 1..Len(w), NEW u \in 1..Len(w), NEW t \in 1..Len(w),
         w[u] = HdlcFlag, w[t] = HdlcFlag,
         Around(w, d, u) \/ Taken(w, d, u) \/ Bared(w, d, u),
         Around(w, d, t) \/ Taken(w, d, t) \/ Bared(w, d, t)
  PROVE  u = t
<1>1. Len(w) \in Nat /\ u \in Nat /\ t \in Nat /\ d \in Nat /\ d >= 1
  OBVIOUS
<1>2. ASSUME NEW a \in 1..Len(w), NEW c \in 1..Len(w), w[a] = HdlcFlag, w[c] = HdlcFlag,
             Around(w, d, a), Around(w, d, c), a < c
      PROVE  FALSE
  <2>1. c \in (a + 1)..(d - 1)
    BY <1>1, <1>2 DEF Around
  <2> QED BY <1>2, <2>1 DEF Around
<1>3. ASSUME NEW a \in 1..Len(w), NEW c \in 1..Len(w), w[a] = HdlcFlag, w[c] = HdlcFlag,
             Around(w, d, a), Taken(w, d, c)
      PROVE  FALSE
  <2>1. w[d] = HdlcFlag
    BY <1>3 DEF Taken
  <2>2. a + 1 <= d - 1
    BY <1>3, <2>1 DEF Around
  <2>3. d # 1 /\ d - 1 \in (a + 1)..(d - 1)
    BY <1>1, <2>2
  <2>4. w[d - 1] # HdlcFlag
    BY <1>3, <2>3 DEF Around
  <2> QED BY <1>3, <2>3, <2>4 DEF Taken
<1>4. ASSUME NEW a \in 1..Len(w), NEW c \in 1..Len(w), w[a] = HdlcFlag, w[c] = HdlcFlag,
             Around(w, d, a), Bared(w, d, c)
      PROVE  FALSE
  <2>1. w[d] = HdlcFlag /\ c = d + 1
    BY <1>4 DEF Bared
  <2>2. w[d + 1] # HdlcFlag
    BY <1>4, <2>1 DEF Around
  <2> QED BY <1>4, <2>1, <2>2
<1>5. ASSUME NEW a \in 1..Len(w), NEW c \in 1..Len(w), w[a] = HdlcFlag, w[c] = HdlcFlag,
             Taken(w, d, a), Bared(w, d, c)
      PROVE  FALSE
  <2>1. w[d + 1] # HdlcFlag /\ c = d + 1
    BY <1>5 DEF Taken, Bared
  <2> QED BY <1>5, <2>1
<1>6. CASE Around(w, d, u) /\ Around(w, d, t)
  BY <1>1, <1>2, <1>6
<1>7. CASE ~(Around(w, d, u) /\ Around(w, d, t))
  <2>1. (Taken(w, d, u) /\ Taken(w, d, t)) \/ (Bared(w, d, u) /\ Bared(w, d, t))
    BY <1>3, <1>4, <1>5, <1>7
  <2> QED BY <2>1 DEF Taken, Bared
<1> QED BY <1>6, <1>7

LEMMA SureLoss ==
  ASSUME NEW x \in Seq(Byte), NEW b \in Byte, NEW y \in Seq(Byte),
         NEW G, G \subseteq Seq(NoFlag), <<>> \notin G
  PROVE  Cardinality(Sure(x \o (<<b>> \o y), G)) + Cut(x \o y)
           <= Cardinality(Sure(x \o y, G)) + 1 + Cut(x \o (<<b>> \o y))
<1> DEFINE w == x \o (<<b>> \o y)
           v == x \o y
           m == Len(x)
           d == m + 1
           S == Sure(w, G)
           T == Sure(v, G)
           K == {u \in S : IF u <= m THEN u \in T ELSE u + (-1) \in T /\ u + (-1) > m}
           O == S \ K
<1>1. /\ w \in Seq(Byte) /\ v \in Seq(Byte) /\ m \in Nat /\ Len(y) \in Nat
      /\ Len(v) = m + Len(y) /\ Len(w) = Len(v) + 1
      /\ \A i \in 1..m : w[i] = v[i] /\ w[i] = x[i]
      /\ \A i \in (m + 1)..Len(v) : w[i + 1] = v[i]
  BY LossIs
<1>2. \A u \in S : u <= m => u \in T \/ Around(w, d, u)
  BY KeptBefore
<1>3. \A u \in S : u > d => u - 1 \in T \/ Bared(w, d, u)
  BY KeptBehind
<1> HIDE DEF w, v, m
<1>4. ASSUME NEW u \in S
      PROVE  /\ u \in 1..Len(w) /\ w[u] = HdlcFlag /\ (u = 1 \/ w[u - 1] = HdlcFlag)
             /\ u + 1 \in 1..Len(w) /\ w[u + 1] # HdlcFlag
  BY <1>1, SureOpens
<1>5. ASSUME NEW u \in O
      PROVE  /\ u \in 1..Len(w) /\ w[u] = HdlcFlag /\ u + 1 \in 1..Len(w) /\ w[u + 1] # HdlcFlag
             /\ Around(w, d, u) \/ Taken(w, d, u) \/ Bared(w, d, u)
  <2>1. u \in S /\ ~(IF u <= m THEN u \in T ELSE u + (-1) \in T /\ u + (-1) > m)
    OBVIOUS
  <2>2. /\ u \in 1..Len(w) /\ w[u] = HdlcFlag /\ (u = 1 \/ w[u - 1] = HdlcFlag)
        /\ u + 1 \in 1..Len(w) /\ w[u + 1] # HdlcFlag
    BY <1>4, <2>1
  <2> HIDE DEF S, T, O, K
  <2>3. CASE u <= m
    BY <1>2, <2>1, <2>2, <2>3
  <2>4. CASE u = d
    <3>1. d + 1 <= Len(w) /\ w[d + 1] # HdlcFlag
      BY <1>1, <2>2, <2>4
    <3> QED BY <2>2, <2>4, <3>1 DEF Taken
  <2>5. CASE u > d
    <3>1. ~(u <= m) /\ u + (-1) > m /\ u + (-1) = u - 1
      BY <1>1, <2>2, <2>5
    <3>2. u - 1 \notin T
      BY <2>1, <3>1
    <3> QED BY <1>3, <2>1, <2>2, <2>5, <3>2
  <2>6. u <= m \/ u = d \/ u > d
    BY <1>1, <2>2
  <2> QED BY <2>3, <2>4, <2>5, <2>6
<1>6. d \in 1..Len(w)
  BY <1>1
<1>7. \A u, t \in O : u = t
  <2> HIDE DEF O, d
  <2> SUFFICES ASSUME NEW u \in O, NEW t \in O PROVE u = t
    OBVIOUS
  <2> QED BY <1>1, <1>5, <1>6, OneHurt
<1>8. ASSUME Cut(v) = 1, Cut(w) = 0 PROVE O = {}
  <2>1. w # <<>> /\ w[Len(w)] = HdlcFlag
    BY <1>1, <1>8 DEF Cut
  <2>2. v # <<>> /\ v[Len(v)] # HdlcFlag
    BY <1>8 DEF Cut
  <2>3. d = Len(w)
    <3> SUFFICES ASSUME d # Len(w) PROVE FALSE
      OBVIOUS
    <3>1. Len(v) \in (m + 1)..Len(v) /\ Len(v) + 1 = Len(w)
      BY <1>1
    <3> QED BY <1>1, <2>1, <2>2, <3>1
  <2> SUFFICES ASSUME NEW u \in O PROVE FALSE
    OBVIOUS
  <2> HIDE DEF O, d
  <2>4. /\ u \in 1..Len(w) /\ u + 1 \in 1..Len(w)
        /\ Around(w, d, u) \/ Taken(w, d, u) \/ Bared(w, d, u)
    BY <1>5
  <2>5. ~(d + 1 <= Len(w)) /\ w[d] = HdlcFlag
    BY <1>1, <2>1, <2>3
  <2> QED BY <2>4, <2>5 DEF Around, Taken, Bared
<1>9. IsFiniteSet(S) /\ Cardinality(S) \in Nat /\ IsFiniteSet(T) /\ Cardinality(T) \in Nat /\ S \subseteq Nat
  BY <1>1, SureFinite
<1>10. Cardinality(K) <= Cardinality(T) /\ IsFiniteSet(K) /\ Cardinality(K) \in Nat
  <2>1. K \subseteq Int /\ -1 \in Int /\ m \in Int
    BY <1>1, <1>9
  <2>2. \A u \in K : IF u <= m THEN u \in T ELSE u + (-1) \in T /\ u + (-1) > m
    OBVIOUS
  <2> HIDE DEF K, T
  <2> QED BY <1>9, <2>1, <2>2, Slide
<1>11. Cardinality(S) <= Cardinality(K) + (IF O = {} THEN 0 ELSE 1)
  <2>1. CASE O = {}
    <3>1. S = K
      BY <2>1
    <3> HIDE DEF S, K, O
    <3> QED BY <1>10, <2>1, <3>1
  <2>2. CASE O # {}
    <3>1. PICK t : t \in O
      BY <2>2
    <3>2. O = {t}
      <4> HIDE DEF O
      <4> QED BY <1>7, <3>1
    <3>3. S = K \cup {t}
      BY <3>2
    <3> HIDE DEF S, K, O
    <3>4. Cardinality(K \cup {t}) = IF t \in K THEN Cardinality(K) ELSE Cardinality(K) + 1
      BY <1>10, FS_AddElement
    <3> QED BY <1>10, <2>2, <3>3, <3>4
  <2> QED BY <2>1, <2>2
<1>12. Cardinality(S) + Cut(v) <= Cardinality(T) + 1 + Cut(w)
  <2>1. Cut(v) \in {0, 1} /\ Cut(w) \in {0, 1}
    BY DEF Cut
  <2> DEFINE s == Cardinality(S)
             t == Cardinality(T)
             k == Cardinality(K)
             o == IF O = {} THEN 0 ELSE 1
  <2>2. s \in Nat /\ t \in Nat /\ k \in Nat /\ o \in {0, 1} /\ s <= k + o /\ k <= t
        /\ (Cut(v) = 1 /\ Cut(w) = 0 => o = 0)
    BY <1>8, <1>9, <1>10, <1>11
  <2> HIDE DEF s, t, k, o
  <2>3. s + Cut(v) <= t + 1 + Cut(w)
    BY <2>1, <2>2
  <2> QED BY <2>3 DEF s, t
<1> QED BY <1>12 DEF S, T, w, v

(***************************************************************************)
(* Each fault costs one frame.                                             *)
(***************************************************************************)

MissInv ==
  reader # "closed" =>
    Len(sent) + Cut(Line) + Cardinality(Damaged)
      <= Len(got) + Cardinality(Sure(Line, Own)) + lost + deadlines + dropped

LEMMA Counts ==
  ASSUME TypeInv
  PROVE  /\ Len(sent) \in Nat /\ Len(got) \in Nat /\ lost \in Nat /\ deadlines \in Nat /\ dropped \in Nat
         /\ Line \in Seq(Byte) /\ Cut(Line) \in {0, 1}
         /\ IsFiniteSet(Damaged) /\ Cardinality(Damaged) \in Nat
         /\ Cardinality(Sure(Line, Own)) \in Nat
<1>1. Line \in Seq(Byte)
  BY LineType
<1>2. Cut(Line) \in {0, 1}
  BY DEF Cut
<1>3. Cardinality(Sure(Line, Own)) \in Nat
  BY <1>1, SureFinite
<1> QED BY <1>1, <1>2, <1>3, DamagedFinite DEF TypeInv, TypeOK

LEMMA MissInit == Init => MissInv
<1> SUFFICES ASSUME Init PROVE MissInv
  OBVIOUS
<1>1. Line = <<>> /\ got = <<>> /\ sent = <<>> /\ lost = 0 /\ deadlines = 0 /\ dropped = 0
  BY DEF Init, Line
<1>2. Damaged = {} /\ Sure(Line, Own) = {} /\ Cut(Line) = 0
  BY <1>1 DEF Damaged, Sure, Flags, Cut
<1>3. Cardinality({}) = 0
  BY FS_EmptySet, Zenon
<1>4. Cardinality(Damaged) = 0 /\ Cardinality(Sure(Line, Own)) = 0 /\ Len(sent) = 0 /\ Len(got) = 0
  BY <1>1, <1>2, <1>3
<1>5. 0 + 0 + 0 <= 0 + 0 + 0 + 0 + 0
  OBVIOUS
<1> QED BY <1>1, <1>2, <1>4, <1>5 DEF MissInv

LEMMA MissSend ==
  ASSUME TypeInv, TypeInv', MissInv, DevSend
  PROVE  MissInv'
<1>1. PICK b \in Bodies : Line' = Line \o Frame(b) /\ sent' = Append(sent, b)
  BY SendLine
<1>2. got' = got /\ reader' = reader /\ lost' = lost /\ deadlines' = deadlines /\ dropped' = dropped
  BY DEF DevSend
<1>3. Range(sent') = Range(sent) \cup {b} /\ Range(sent) \subseteq Bodies /\ Len(sent') = Len(sent) + 1
  <2>1. sent \in Seq(Bodies) /\ Len(sent) \in Nat
    BY DEF TypeInv, TypeOK
  <2>2. DOMAIN sent' = DOMAIN sent \cup {Len(sent) + 1} /\ sent'[Len(sent) + 1] = b
        /\ Len(sent') = Len(sent) + 1
        /\ \A n \in DOMAIN sent : sent'[n] = sent[n]
    BY <1>1, <2>1
  <2>3. \A n \in DOMAIN sent : sent[n] \in Bodies
    BY <2>1
  <2> QED BY <2>2, <2>3 DEF Range
<1> DEFINE G == Own
           H == Own'
<1>4. G \subseteq H /\ HdlcEscaped(b) \in H /\ H \subseteq Seq(NoFlag)
  <2>1. \A c \in Bodies : HdlcEscaped(c) \in Seq(NoFlag)
    BY BodyIs
  <2> QED BY <1>3, <2>1 DEF Own
<1>5. /\ Cardinality(Sure(Line, G)) + 1 <= Cardinality(Sure(Line', H)) + Cut(Line)
      /\ Cut(Line') = 0
  <2>1. Line \in Seq(Byte)
    BY LineType
  <2> HIDE DEF G, H
  <2>2. /\ Cardinality(Sure(Line, G)) + 1 <= Cardinality(Sure(Line \o Frame(b), H)) + Cut(Line)
        /\ Cut(Line \o Frame(b)) = 0
    BY <1>4, <2>1, SureSend
  <2> QED BY <1>1, <2>2
<1>6. Cardinality(Damaged') <= Cardinality(Damaged)
  <2>1. Damaged' \in SUBSET Damaged
    BY <1>2, <1>3 DEF Damaged
  <2> QED BY <2>1, DamagedFinite, FS_Subset
<1>7. /\ Len(sent) \in Nat /\ Len(got) \in Nat /\ lost \in Nat /\ deadlines \in Nat /\ dropped \in Nat
      /\ Cut(Line) \in {0, 1} /\ Cardinality(Damaged) \in Nat /\ Cardinality(Sure(Line, Own)) \in Nat
  BY Counts
<1>8. Cardinality(Damaged') \in Nat /\ Cardinality(Sure(Line', H)) \in Nat
  <2>1. IsFiniteSet(Damaged')
    <3>1. Damaged' \in SUBSET Damaged
      BY <1>2, <1>3 DEF Damaged
    <3> QED BY <3>1, DamagedFinite, FS_Subset
  <2>2. Line' \in Seq(Byte)
    <3>1. Line \in Seq(Byte) /\ Frame(b) \in Seq(Byte)
      BY LineType, BodyIs
    <3> QED BY <1>1, <3>1, Joined
  <2> HIDE DEF H
  <2> QED BY <2>1, <2>2, FS_CardinalityType, SureFinite
<1> DEFINE s == Len(sent)
           a == Cardinality(Damaged)
           c == Cardinality(Damaged')
           e == Cardinality(Sure(Line, G))
           f == Cardinality(Sure(Line', H))
           g == Len(got)
           k == Cut(Line)
<1>9. ASSUME reader # "closed" PROVE (s + 1) + 0 + c <= g + f + lost + deadlines + dropped
  <2>1. s + k + a <= g + e + lost + deadlines + dropped
    BY <1>9 DEF MissInv
  <2>2. /\ s \in Nat /\ a \in Nat /\ c \in Nat /\ e \in Nat /\ f \in Nat /\ g \in Nat /\ k \in Nat
        /\ c <= a /\ e + 1 <= f + k
    BY <1>5, <1>6, <1>7, <1>8
  <2> HIDE DEF s, a, c, e, f, g, k
  <2> QED BY <1>7, <2>1, <2>2
<1> QED BY <1>1, <1>2, <1>3, <1>5, <1>9 DEF MissInv

LEMMA MissLoss ==
  ASSUME TypeInv, MissInv, LoseByte
  PROVE  MissInv'
<1>1. PICK x \in Seq(Byte), b \in Byte, y \in Seq(Byte) : Line = x \o (<<b>> \o y) /\ Line' = x \o y
  BY LossLine
<1>2. /\ got' = got /\ reader' = reader /\ sent' = sent /\ lost' = lost + 1
      /\ deadlines' = deadlines /\ dropped' = dropped
  BY DEF LoseByte
<1>3. Own \subseteq Seq(NoFlag) /\ <<>> \notin Own /\ Own' = Own /\ Damaged' = Damaged
  BY <1>2, OwnIs DEF Own, Damaged
<1> DEFINE G == Own
           v == x \o y
<1>4. v \in Seq(Byte) /\ Cut(v) \in {0, 1} /\ Cardinality(Sure(v, G)) \in Nat
  <2>1. v \in Seq(Byte)
    BY Joined
  <2> HIDE DEF v
  <2> QED BY <2>1, SureFinite DEF Cut
<1>5. Cardinality(Sure(Line, G)) + Cut(v) <= Cardinality(Sure(v, G)) + 1 + Cut(Line)
  <2>1. G \subseteq Seq(NoFlag) /\ <<>> \notin G
    BY <1>3
  <2> HIDE DEF G
  <2>2. Cardinality(Sure(x \o (<<b>> \o y), G)) + Cut(x \o y)
           <= Cardinality(Sure(x \o y, G)) + 1 + Cut(x \o (<<b>> \o y))
    BY <2>1, SureLoss
  <2> QED BY <1>1, <2>2
<1>6. /\ Len(sent) \in Nat /\ Len(got) \in Nat /\ lost \in Nat /\ deadlines \in Nat /\ dropped \in Nat
      /\ Cut(Line) \in {0, 1} /\ Cardinality(Damaged) \in Nat /\ Cardinality(Sure(Line, Own)) \in Nat
  BY Counts
<1> DEFINE s == Len(sent)
           a == Cardinality(Damaged)
           e == Cardinality(Sure(Line, G))
           f == Cardinality(Sure(v, G))
           g == Len(got)
           k == Cut(Line)
           j == Cut(v)
<1>7. ASSUME reader # "closed" PROVE s + j + a <= g + f + (lost + 1) + deadlines + dropped
  <2>1. s + k + a <= g + e + lost + deadlines + dropped
    BY <1>7 DEF MissInv
  <2>2. /\ s \in Nat /\ a \in Nat /\ e \in Nat /\ f \in Nat /\ g \in Nat /\ k \in Nat /\ j \in Nat
        /\ e + j <= f + 1 + k
    BY <1>4, <1>5, <1>6
  <2> HIDE DEF s, a, e, f, g, k, j
  <2> QED BY <1>6, <2>1, <2>2
<1> QED BY <1>1, <1>2, <1>3, <1>7 DEF MissInv

\* Reading drops the first bytes x, and the sure flags among them must be
\* accounted for.
LEMMA MissRead ==
  ASSUME TypeInv, TypeInv', MissInv, reader # "closed",
         NEW x \in Seq(Byte), Line = x \o Line', sent' = sent, lost' = lost,
         Cardinality(First(Line, Len(x), Own)) + Cardinality(Damaged') + Len(got) + deadlines + dropped
           <= Cardinality(Damaged) + Len(got') + deadlines' + dropped',
         Len(got') \in Nat, Cardinality(Damaged') \in Nat, Line' \in Seq(Byte)
  PROVE  MissInv'
<1>1. Own \subseteq Seq(NoFlag) /\ Own' = Own
  BY OwnIs DEF Own
<1> DEFINE G == Own
           v == Line'
<1>2. v \in Seq(Byte) /\ Cut(v) \in {0, 1} /\ Cardinality(Sure(v, G)) \in Nat
  <2> HIDE DEF G
  <2>1. v \in Seq(Byte)
    OBVIOUS
  <2> HIDE DEF v
  <2> QED BY <2>1, SureFinite DEF Cut
<1>3. /\ Cardinality(Sure(Line, G)) <= Cardinality(First(Line, Len(x), G)) + Cardinality(Sure(v, G))
      /\ Cut(v) <= Cut(Line) /\ Cardinality(First(Line, Len(x), G)) \in Nat
  <2>1. G \subseteq Seq(NoFlag) /\ Line = x \o v /\ Line \in Seq(Byte)
    BY <1>1, LineType
  <2> HIDE DEF G, v
  <2>2. /\ Cardinality(Sure(x \o v, G)) <= Cardinality(First(x \o v, Len(x), G)) + Cardinality(Sure(v, G))
        /\ Cut(v) <= Cut(x \o v)
    BY <1>2, <2>1, SureDrop
  <2> QED BY <2>1, <2>2, SureFinite
<1>4. /\ Len(sent) \in Nat /\ Len(got) \in Nat /\ lost \in Nat /\ deadlines \in Nat /\ dropped \in Nat
      /\ Cut(Line) \in {0, 1} /\ Cardinality(Damaged) \in Nat /\ Cardinality(Sure(Line, Own)) \in Nat
  BY Counts
<1>5. deadlines' \in Nat /\ dropped' \in Nat
  BY DEF TypeInv, TypeOK
<1> DEFINE s == Len(sent)
           a == Cardinality(Damaged)
           c == Cardinality(Damaged')
           e == Cardinality(Sure(Line, G))
           f == Cardinality(Sure(v, G))
           h == Cardinality(First(Line, Len(x), G))
           g == Len(got)
           i == Len(got')
           k == Cut(Line)
           j == Cut(v)
           p == deadlines
           q == deadlines'
           r == dropped
           t == dropped'
<1>6. s + j + c <= i + f + lost + q + t
  <2>1. s + k + a <= g + e + lost + p + r
    BY DEF MissInv
  <2>2. /\ s \in Nat /\ a \in Nat /\ e \in Nat /\ g \in Nat /\ k \in Nat /\ p \in Nat /\ r \in Nat
        /\ lost \in Nat
    BY <1>4
  <2>4. j \in Nat /\ f \in Nat /\ h \in Nat
    BY <1>2, <1>3
  <2>5. q \in Nat /\ t \in Nat
    BY <1>5
  <2>6. i \in Nat /\ c \in Nat
    OBVIOUS
  <2>3. e <= h + f /\ j <= k /\ h + c + g + p + r <= a + i + q + t
    BY <1>3
  <2> HIDE DEF s, a, c, e, f, g, k, j, h, i, p, q, r, t
  <2> QED BY <2>1, <2>2, <2>3, <2>4, <2>5, <2>6
<1> QED BY <1>1, <1>6 DEF MissInv

\* Of the flags in the buffer of exec_and_get_ver, besides the first one p,
\* no more than half are sure: each has a flag of its own before it.
LEMMA VerSpare ==
  ASSUME NEW w \in Seq(Byte), NEW n \in 1..Len(w), NEW p \in 1..n, NEW y \in Seq(NoFlag), y # <<>>,
         IsRun(w, p, y), w[p] = HdlcFlag, ~Earlier(w, p),
         NEW G, G \subseteq Seq(NoFlag), <<>> \notin G
  PROVE  LET c == Cardinality({i \in 1..n : w[i] = HdlcFlag})
         IN  /\ Cardinality(First(w, n, G) \ {p}) <= (c - 1) \div 2
             /\ (c - 1) \div 2 \in Nat
<1> DEFINE C == {i \in 1..n : w[i] = HdlcFlag}
           D == C \ {p}
           A == First(w, n, G) \ {p}
           B == {k \in 1..n : k + 1 \in A}
<1>1. n \in Nat /\ p \in Nat /\ p >= 1 /\ n <= Len(w) /\ Len(w) \in Nat /\ p <= n
  OBVIOUS
<1>2. w[p + 1] # HdlcFlag
  <2>1. 1 \in 1..Len(y) /\ y[1] \in NoFlag
    OBVIOUS
  <2>2. w[p + 1] = y[1]
    BY <2>1 DEF IsRun
  <2> QED BY <2>1, <2>2 DEF NoFlag
<1>3. ASSUME NEW u \in A
      PROVE  /\ u \in 1..n /\ u \in Nat /\ u > 1 /\ w[u] = HdlcFlag /\ w[u + 1] # HdlcFlag /\ u # p
             /\ u - 1 \in 1..n /\ w[u - 1] = HdlcFlag /\ u - 1 # p
  <2>1. u \in Sure(w, G) /\ u <= n /\ u # p
    BY DEF First
  <2>2. /\ u \in 1..Len(w) /\ w[u] = HdlcFlag /\ (u = 1 \/ w[u - 1] = HdlcFlag)
        /\ w[u + 1] # HdlcFlag
    BY <2>1, SureOpens
  <2>3. u # 1
    <3> SUFFICES ASSUME u = 1 PROVE FALSE
      OBVIOUS
    <3>1. 1 \in 1..(p - 1) /\ w[1] = HdlcFlag
      BY <1>1, <2>1, <2>2
    <3> QED BY <3>1 DEF Earlier
  <2>4. u - 1 # p
    <3> SUFFICES ASSUME u - 1 = p PROVE FALSE
      OBVIOUS
    <3>1. p + 1 = u
      BY <1>1, <2>2
    <3> QED BY <1>2, <2>2, <3>1
  <2> HIDE DEF A
  <2>5. u \in 1..n /\ u \in Nat /\ u > 1 /\ u - 1 \in 1..n
    BY <1>1, <2>1, <2>2, <2>3
  <2> QED BY <2>1, <2>2, <2>3, <2>4, <2>5
<1>4. IsFiniteSet(C) /\ p \in C /\ C \subseteq 1..n
  <2>1. IsFiniteSet(1..n)
    BY <1>1, FS_Interval
  <2>2. C \in SUBSET (1..n)
    OBVIOUS
  <2>3. p \in C
    BY <1>1
  <2> HIDE DEF C
  <2> QED BY <2>1, <2>2, <2>3, FS_Subset
<1>5. IsFiniteSet(D) /\ Cardinality(D) = Cardinality(C) - 1 /\ Cardinality(C) \in Nat /\ Cardinality(D) \in Nat
  <2> HIDE DEF C
  <2> QED BY <1>4, FS_RemoveElement, FS_CardinalityType
<1>6. A \cup B \subseteq D /\ A \cap B = {}
  <2>1. ASSUME NEW u \in A PROVE u \in D
    BY <1>3
  <2>2. ASSUME NEW k \in B PROVE k \in D /\ k \notin A
    <3>1. k \in Nat /\ k + 1 \in A /\ (k + 1) - 1 = k
      BY <1>1
    <3>2. w[k + 1] = HdlcFlag /\ k \in 1..n /\ w[k] = HdlcFlag /\ k # p
      BY <1>3, <3>1
    <3> QED BY <1>3, <3>2
  <2> HIDE DEF A, B, D
  <2> QED BY <2>1, <2>2
<1>7. IsFiniteSet(B) /\ IsFiniteSet(A)
  <2>1. A \in SUBSET D /\ B \in SUBSET D
    BY <1>6
  <2> HIDE DEF A, B, D
  <2> QED BY <1>5, <2>1, FS_Subset
<1>8. Cardinality(A) <= Cardinality(B) /\ Cardinality(A) \in Nat
  <2>1. ASSUME NEW u \in A PROVE u \in Int /\ ~(u <= 0) /\ u + (-1) \in B /\ u + (-1) > 0
    <3>1. (u - 1) + 1 = u /\ u - 1 = u + (-1) /\ u + (-1) > 0 /\ u \in Int /\ ~(u <= 0)
      BY <1>3
    <3>2. u - 1 \in B
      BY <1>3, <3>1
    <3> QED BY <3>1, <3>2
  <2> HIDE DEF A, B
  <2>2. -1 \in Int /\ 0 \in Int /\ A \subseteq Int
    BY <2>1
  <2> QED BY <1>7, <2>1, <2>2, Slide
<1>9. Cardinality(A) + Cardinality(B) <= Cardinality(D) /\ Cardinality(B) \in Nat
  <2> HIDE DEF A, B, D
  <2>1. A \cup B \in SUBSET D
    BY <1>6
  <2>2. Cardinality(A \cup B) <= Cardinality(D)
    BY <1>5, <2>1, FS_Subset
  <2>3. Cardinality(A \cap B) = 0
    BY <1>6, FS_EmptySet
  <2>4. Cardinality(A \cup B) = Cardinality(A) + Cardinality(B) - Cardinality(A \cap B)
    BY <1>7, FS_Union
  <2>5. Cardinality(B) \in Nat
    BY <1>7, FS_CardinalityType
  <2> QED BY <1>8, <2>2, <2>3, <2>4, <2>5
<1>10. Cardinality(A) <= (Cardinality(C) - 1) \div 2 /\ (Cardinality(C) - 1) \div 2 \in Nat
  <2> DEFINE a == Cardinality(A)
             b == Cardinality(B)
             c == Cardinality(C)
  <2>1. a \in Nat /\ b \in Nat /\ c \in Nat /\ a <= b /\ a + b <= c - 1
    BY <1>5, <1>8, <1>9
  <2> HIDE DEF a, b, c
  <2>2. a <= (c - 1) \div 2 /\ (c - 1) \div 2 \in Nat
    BY <2>1
  <2> QED BY <2>2 DEF a, c
<1> QED BY <1>10

LEMMA MissVer ==
  ASSUME TypeInv, TypeInv', MissInv, GetVer
  PROVE  MissInv'
<1>1. reader = "ver" /\ Line = wire /\ got = <<>> /\ dropped = 0
  BY VerLine
<1> DEFINE c(n) == Cardinality({i \in 1..n : wire[i] = HdlcFlag})
<1>2. PICK n \in 1..Len(wire) : \E p \in 1..n : \E y \in Seq(NoFlag) :
              /\ IsRun(wire, p, y) /\ got' = <<HdlcUnescaped(y)>>
              /\ wire[p] = HdlcFlag /\ ~Earlier(wire, p)
              /\ Line' = From(wire, n) /\ (reader' = "closed" \/ y # <<>>)
              /\ dropped' = (c(n) - 1) \div 2
  BY VerLine
<1>3. PICK p \in 1..n : \E y \in Seq(NoFlag) :
              /\ IsRun(wire, p, y) /\ got' = <<HdlcUnescaped(y)>>
              /\ wire[p] = HdlcFlag /\ ~Earlier(wire, p)
              /\ Line' = From(wire, n) /\ (reader' = "closed" \/ y # <<>>)
              /\ dropped' = (c(n) - 1) \div 2
  BY <1>2
<1>4. PICK y \in Seq(NoFlag) :
              /\ IsRun(wire, p, y) /\ got' = <<HdlcUnescaped(y)>>
              /\ wire[p] = HdlcFlag /\ ~Earlier(wire, p)
              /\ Line' = From(wire, n) /\ (reader' = "closed" \/ y # <<>>)
              /\ dropped' = (c(n) - 1) \div 2
  BY <1>3
<1> SUFFICES ASSUME reader' # "closed" PROVE MissInv'
  BY DEF MissInv
<1>5. y # <<>>
  BY <1>4
<1> DEFINE x == SubSeq(wire, 1, n)
           u == HdlcUnescaped(y)
           G == Own
           N == First(wire, n, G)
           A == N \ {p}
<1>6. wire \in Seq(Byte) /\ n \in 0..Len(wire)
  BY LineType
<1>7. x \in Seq(Byte) /\ Len(x) = n /\ From(wire, n) \in Seq(Byte) /\ x \o From(wire, n) = wire
  BY <1>6, CutIs
<1> HIDE DEF x
<1>8. Line = x \o Line' /\ Line' \in Seq(Byte)
  BY <1>1, <1>4, <1>7
<1>9. got' = Append(got, u) /\ sent' = sent /\ lost' = lost /\ deadlines' = deadlines /\ Len(got') = 1 /\ Len(got) = 0
  BY <1>1, <1>4 DEF GetVer
<1>10. /\ u \in Range(sent) => Damaged' = Damaged
       /\ Cardinality(Damaged') <= Cardinality(Damaged) + 1
       /\ Cardinality(Damaged') \in Nat /\ Cardinality(Damaged) \in Nat
  BY <1>9, DamagedReturn, DamagedFinite
<1>11. Cardinality(A) <= dropped' /\ dropped' \in Nat
  <2>1. G \subseteq Seq(NoFlag) /\ <<>> \notin G
    BY OwnIs
  <2> HIDE DEF G
  <2>2. Cardinality(First(wire, n, G) \ {p}) <= (c(n) - 1) \div 2 /\ (c(n) - 1) \div 2 \in Nat
    BY <1>4, <1>5, <1>6, <2>1, VerSpare
  <2> QED BY <1>4, <2>2
<1>12. IsFiniteSet(N) /\ Cardinality(N) \in Nat
  <2> HIDE DEF G
  <2> QED BY <1>6, SureFinite
<1>13. Cardinality(A) = IF p \in N THEN Cardinality(N) - 1 ELSE Cardinality(N)
  <2> HIDE DEF N
  <2> QED BY <1>12, FS_RemoveElement
<1>14. ASSUME p \in N PROVE u \in Range(sent)
  <2>1. p \in Sure(wire, G)
    BY <1>14 DEF First
  <2>2. PICK r \in G : IsRun(wire, p, r)
    BY <2>1 DEF Sure, HasRun
  <2>3. r \in Seq(NoFlag) /\ HdlcUnescaped(r) \in Range(sent)
    BY <2>2, OwnIs
  <2>4. p \in 1..Len(wire)
    BY <1>6
  <2>5. r = y
    BY <1>4, <1>6, <2>2, <2>3, <2>4, RunUnique
  <2> QED BY <2>3, <2>5
<1>15. Cardinality(N) + Cardinality(Damaged') + Len(got) + deadlines + dropped
           <= Cardinality(Damaged) + Len(got') + deadlines' + dropped'
  <2>1. deadlines \in Nat
    BY Counts
  <2> DEFINE a == Cardinality(A)
             k == Cardinality(N)
             d == Cardinality(Damaged)
             e == Cardinality(Damaged')
             f == dropped'
  <2>2. k + e <= d + 1 + f
    <3>1. k \in Nat /\ d \in Nat /\ e \in Nat /\ f \in Nat /\ a <= f /\ e <= d + 1
      BY <1>10, <1>11, <1>12
    <3>2. CASE p \in N
      <4>1. a = k - 1 /\ e = d
        BY <1>10, <1>13, <1>14, <3>2
      <4> HIDE DEF a, k, d, e, f, N
      <4> QED BY <3>1, <4>1
    <3>3. CASE p \notin N
      <4>1. a = k
        BY <1>13, <3>3
      <4> HIDE DEF a, k, d, e, f, N
      <4> QED BY <3>1, <4>1
    <3> QED BY <3>2, <3>3
  <2>3. /\ k \in Nat /\ d \in Nat /\ e \in Nat /\ f \in Nat
        /\ Len(got) = 0 /\ dropped = 0 /\ Len(got') = 1 /\ deadlines' = deadlines
    BY <1>1, <1>9, <1>10, <1>11, <1>12
  <2> HIDE DEF a, k, d, e, N
  <2>4. k + e + Len(got) + deadlines + dropped <= d + Len(got') + deadlines' + f
    <3> HIDE DEF f
    <3> QED BY <2>1, <2>2, <2>3
  <2> QED BY <2>4 DEF k, d, e
<1>16. reader # "closed" /\ Len(got') \in Nat
  BY <1>1, <1>9
<1>17. First(Line, Len(x), Own) = N
  BY <1>1, <1>7
<1> HIDE DEF N, u
<1> QED BY <1>7, <1>8, <1>9, <1>10, <1>15, <1>16, <1>17, MissRead

\* When only the first place can be sure.
LEMMA FirstOnly ==
  ASSUME NEW w \in Seq(Byte), NEW n, NEW G, First(w, n, G) \subseteq {1}
  PROVE  /\ 1 \notin Sure(w, G) => Cardinality(First(w, n, G)) = 0
         /\ Cardinality(First(w, n, G)) \in {0, 1}
<1> DEFINE A == First(w, n, G)
<1>1. A = {} \/ A = {1}
  OBVIOUS
<1>2. 1 \notin Sure(w, G) => A = {}
  BY DEF First
<1> HIDE DEF A
<1>3. Cardinality({}) = 0 /\ Cardinality({1}) = 1
  BY FS_EmptySet, FS_Singleton, Zenon
<1>4. (1 \notin Sure(w, G) => Cardinality(A) = 0) /\ Cardinality(A) \in {0, 1}
  BY <1>1, <1>2, <1>3
<1> QED BY <1>4 DEF A

LEMMA MissSkip ==
  ASSUME TypeInv, TypeInv', MissInv, Skip \/ OpenAgain
  PROVE  MissInv'
<1>1. /\ reader # "closed" /\ sent' = sent /\ lost' = lost /\ got' = got
      /\ deadlines' = deadlines /\ dropped' = dropped
  BY DEF Skip, OpenAgain, NextByte
<1>2. Damaged' = Damaged /\ Own' = Own
  BY <1>1 DEF Damaged, Own
<1>3. CASE Line' = Line
  BY <1>1, <1>2, <1>3 DEF MissInv
<1>4. CASE /\ Line # <<>> /\ Line' = Tail(Line)
           /\ Line[1] # HdlcFlag \/ (Len(Line) > 1 /\ Line[2] = HdlcFlag)
  <2> DEFINE h == <<Head(Line)>>
  <2>1. Line \in Seq(Byte)
    BY LineType
  <2>2. h \in Seq(Byte) /\ Line' \in Seq(Byte) /\ Line = h \o Line' /\ Len(h) = 1
    <3>1. Head(Line) \in Byte /\ Tail(Line) \in Seq(Byte) /\ Line = h \o Tail(Line)
      BY <1>4, <2>1, HeadAndTail
    <3> QED BY <1>4, <3>1
  <2>3. 1 \notin Sure(Line, Own)
    <3> SUFFICES ASSUME 1 \in Sure(Line, Own) PROVE FALSE
      OBVIOUS
    <3>1. Own \subseteq Seq(NoFlag) /\ <<>> \notin Own
      BY OwnIs
    <3>2. Line[1] = HdlcFlag /\ Line[1 + 1] # HdlcFlag
      BY <2>1, <3>1, SureOpens
    <3> QED BY <1>4, <3>2
  <2> HIDE DEF h
  <2>4. First(Line, Len(h), Own) \subseteq {1}
    BY <2>1, <2>2, SureFinite DEF First, Sure, Flags
  <2>5. Cardinality(First(Line, Len(h), Own)) = 0
    BY <2>1, <2>3, <2>4, FirstOnly
  <2>6. /\ Len(got) \in Nat /\ Cardinality(Damaged) \in Nat /\ deadlines \in Nat /\ dropped \in Nat
    BY Counts
  <2>7. Cardinality(First(Line, Len(h), Own)) + Cardinality(Damaged') + Len(got) + deadlines + dropped
           <= Cardinality(Damaged) + Len(got') + deadlines' + dropped'
    BY <1>1, <1>2, <2>5, <2>6
  <2>8. Len(got') \in Nat /\ Cardinality(Damaged') \in Nat
    BY <1>1, <1>2, <2>6
  <2> QED BY <1>1, <2>2, <2>7, <2>8, MissRead
<1> QED BY <1>3, <1>4, SkipLine

LEMMA MissReturn ==
  ASSUME TypeInv, TypeInv', MissInv, Return
  PROVE  MissInv'
<1> DEFINE h == <<HdlcFlag>> \o (body \o <<HdlcFlag>>)
           t == Line'
           u == HdlcUnescaped(body)
<1>1. /\ body # <<>> /\ t \in Seq(Byte) /\ got' = Append(got, u)
      /\ Line = <<HdlcFlag>> \o (body \o (<<HdlcFlag>> \o t))
  BY ReturnLine
<1>2. body \in Seq(NoFlag) /\ Line \in Seq(Byte)
  BY LineType
<1> HIDE DEF t
<1>3. /\ h \in Seq(Byte) /\ Line = h \o t /\ Len(h) = Len(body) + 2 /\ Len(body) \in Nat
      /\ IsRun(Line, 1, body) /\ 1 \in Flags(Line)
      /\ \A i \in 1..Len(body) : Line[i + 1] # HdlcFlag
  <2> HIDE DEF u
  <2>1. /\ h \in Seq(Byte) /\ Line = h \o t /\ Len(h) = Len(body) + 2 /\ Len(body) \in Nat
        /\ 1 \in Flags(Line) /\ IsRun(Line, 1, body)
    BY <1>1, <1>2, FirstRun
  <2>2. ASSUME NEW i \in 1..Len(body) PROVE Line[i + 1] # HdlcFlag
    <3>1. body[i] \in NoFlag /\ 1 + i = i + 1
      BY <1>2
    <3>2. Line[1 + i] = body[i]
      BY <2>1 DEF IsRun
    <3> QED BY <3>1, <3>2 DEF NoFlag
  <2> QED BY <2>1, <2>2
<1>4. /\ reader # "closed" /\ sent' = sent /\ lost' = lost
      /\ deadlines' = deadlines /\ dropped' = dropped
  BY DEF Return, NextByte
<1> HIDE DEF h, u
<1>5. First(Line, Len(h), Own) \subseteq {1}
  <2> SUFFICES ASSUME NEW i \in Sure(Line, Own), i <= Len(h), i # 1 PROVE FALSE
    BY DEF First
  <2>1. Own \subseteq Seq(NoFlag) /\ <<>> \notin Own
    BY OwnIs
  <2>2. i \in 1..Len(Line) /\ Line[i] = HdlcFlag /\ Line[i - 1] = HdlcFlag
    BY <1>2, <2>1, SureOpens
  <2> DEFINE j == i - 1
             k == i - 2
  <2>3. j \in 1..Len(body) \/ (j = Len(body) + 1 /\ k \in 1..Len(body))
    <3>1. Len(body) > 0 /\ i \in Nat
      BY <1>1, <1>2, <2>2
    <3> QED BY <1>3, <2>2, <3>1
  <2>4. j + 1 = i /\ k + 1 = i - 1
    BY <2>2
  <2> HIDE DEF j, k
  <2> QED BY <1>3, <2>2, <2>3, <2>4
<1>6. 1 \in Sure(Line, Own) => u \in Range(sent)
  <2> SUFFICES ASSUME 1 \in Sure(Line, Own) PROVE u \in Range(sent)
    OBVIOUS
  <2>1. PICK r \in Own : IsRun(Line, 1, r)
    BY DEF Sure, HasRun
  <2>2. r \in Seq(NoFlag) /\ HdlcUnescaped(r) \in Range(sent)
    BY <2>1, OwnIs
  <2>3. 1 \in 1..Len(Line)
    BY <1>3 DEF Flags
  <2>4. r = body
    BY <1>2, <1>3, <2>1, <2>2, <2>3, RunUnique
  <2> QED BY <2>2, <2>4 DEF u
<1>7. /\ u \in Range(sent) => Damaged' = Damaged
      /\ Cardinality(Damaged') <= Cardinality(Damaged) + 1
      /\ Cardinality(Damaged') \in Nat
  BY <1>1, <1>4, DamagedReturn
<1>8. /\ Len(got) \in Nat /\ Cardinality(Damaged) \in Nat /\ deadlines \in Nat /\ dropped \in Nat
  BY Counts
<1>9. Len(got') = Len(got) + 1
  <2>1. got \in Seq(Seq(Byte))
    BY DEF TypeInv, TypeOK
  <2> QED BY <1>1, <2>1
<1>10. Cardinality(First(Line, Len(h), Own)) + Cardinality(Damaged') + Len(got) + deadlines + dropped
           <= Cardinality(Damaged) + Len(got') + deadlines' + dropped'
  <2> DEFINE k == Cardinality(First(Line, Len(h), Own))
             a == Cardinality(Damaged)
             c == Cardinality(Damaged')
  <2>1. k \in {0, 1} /\ (1 \notin Sure(Line, Own) => k = 0)
    BY <1>2, <1>5, FirstOnly
  <2>2. k + c <= a + 1
    <3>1. a \in Nat /\ c \in Nat /\ c <= a + 1
      BY <1>7, <1>8
    <3>2. CASE u \in Range(sent)
      <4>1. c = a
        BY <1>7, <3>2
      <4> HIDE DEF k, a, c
      <4> QED BY <2>1, <3>1, <4>1
    <3>3. CASE u \notin Range(sent)
      <4>1. k = 0
        BY <1>6, <2>1, <3>3
      <4> HIDE DEF k, a, c
      <4> QED BY <3>1, <4>1
    <3> QED BY <3>2, <3>3
  <2>3. a \in Nat /\ c \in Nat /\ k \in Nat
    BY <1>7, <1>8, <2>1
  <2> HIDE DEF k, a, c
  <2>4. k + c + Len(got) + deadlines + dropped <= a + Len(got') + deadlines' + dropped'
    BY <1>4, <1>8, <1>9, <2>2, <2>3
  <2> QED BY <2>4 DEF k, a, c
<1>11. Len(got') \in Nat
  BY <1>8, <1>9
<1>12. Line = h \o Line' /\ Line' \in Seq(Byte)
  <2>1. Line = h \o t /\ t \in Seq(Byte)
    BY <1>1, <1>3
  <2> QED BY <2>1, Zenon DEF t
<1> QED BY <1>3, <1>4, <1>7, <1>10, <1>11, <1>12, MissRead

LEMMA MissDeadline ==
  ASSUME TypeInv, TypeInv', MissInv, Deadline
  PROVE  MissInv'
<1>1. /\ reader # "closed" /\ sent' = sent /\ lost' = lost /\ got' = got
      /\ deadlines' = deadlines + 1 /\ dropped' = dropped
  BY DEF Deadline
<1>2. Damaged' = Damaged /\ Own' = Own
  BY <1>1 DEF Damaged, Own
<1>3. /\ Len(sent) \in Nat /\ Len(got) \in Nat /\ lost \in Nat /\ deadlines \in Nat /\ dropped \in Nat
      /\ Cut(Line) \in {0, 1} /\ Cardinality(Damaged) \in Nat /\ Cardinality(Sure(Line, Own)) \in Nat
      /\ Line \in Seq(Byte)
  BY Counts
<1>4. CASE Line' = Line
  <2>1. Len(sent) + Cut(Line) + Cardinality(Damaged)
          <= Len(got) + Cardinality(Sure(Line, Own)) + lost + deadlines + dropped
    BY <1>1 DEF MissInv
  <2>2. Len(sent) + Cut(Line) + Cardinality(Damaged)
          <= Len(got) + Cardinality(Sure(Line, Own)) + lost + (deadlines + 1) + dropped
    <3> DEFINE a == Cardinality(Damaged)
               e == Cardinality(Sure(Line, Own))
               k == Cut(Line)
    <3>1. a \in Nat /\ e \in Nat /\ k \in Nat /\ Len(sent) + k + a <= Len(got) + e + lost + deadlines + dropped
      BY <1>3, <2>1
    <3> HIDE DEF a, e, k
    <3>2. Len(sent) + k + a <= Len(got) + e + lost + (deadlines + 1) + dropped
      BY <1>3, <3>1
    <3> QED BY <3>2 DEF a, e, k
  <2> QED BY <1>1, <1>2, <1>4, <2>2 DEF MissInv
<1>5. CASE Line = <<HdlcFlag>> \o (body \o Line')
  <2> DEFINE f == <<HdlcFlag>>
             t == Line'
             h == f \o body
  <2>1. /\ f \in Seq(Byte) /\ body \in Seq(Byte) /\ t \in Seq(Byte) /\ body \in Seq(NoFlag)
        /\ Len(f) = 1
    BY DeadlineLine, LineType, NoFlagSeq
  <2>2. h \in Seq(Byte) /\ Line = h \o t
    <3>1. Line = f \o (body \o t)
      BY <1>5
    <3> HIDE DEF f, t
    <3>2. (f \o body) \o t = f \o (body \o t)
      BY <2>1, Joined, Zenon
    <3>3. f \o body \in Seq(Byte)
      BY <2>1, Joined
    <3> QED BY <3>1, <3>2, <3>3
  <2> HIDE DEF f, t
  <2>3. /\ Len(h) = Len(f) + Len(body) /\ Len(body) \in Nat
        /\ \A i \in 1..Len(body) : h[i + Len(f)] = body[i]
    <3>1. f \in Seq(Byte) /\ body \in Seq(Byte)
      BY <2>1
    <3>2. /\ Len(f \o body) = Len(f) + Len(body) /\ Len(body) \in Nat
          /\ \A i \in 1..Len(body) : (f \o body)[i + Len(f)] = body[i]
      <4> HIDE DEF h
      <4> QED BY <3>1, ConcatIs
    <3> QED BY <3>2, Zenon
  <2> HIDE DEF h
  <2>4. /\ Len(Line) = Len(h) + Len(t) /\ \A i \in 1..Len(h) : Line[i] = h[i]
    BY <2>1, <2>2, ConcatIs
  <2>5. First(Line, Len(h), Own) \subseteq {1}
    <3> SUFFICES ASSUME NEW i \in Sure(Line, Own), i <= Len(h), i # 1 PROVE FALSE
      BY DEF First
    <3>1. i \in 1..Len(Line) /\ Line[i] = HdlcFlag
      BY DEF Sure, Flags
    <3> DEFINE j == i - 1
    <3>2. j \in 1..Len(body) /\ j + 1 = i /\ i \in 1..Len(h)
      BY <2>1, <2>3, <3>1
    <3> HIDE DEF j
    <3>3. Line[i] = body[j] /\ body[j] \in NoFlag
      BY <2>1, <2>3, <2>4, <3>2
    <3> QED BY <3>1, <3>3 DEF NoFlag
  <2>6. Cardinality(First(Line, Len(h), Own)) \in {0, 1}
    BY <1>3, <2>5, FirstOnly
  <2>7. Cardinality(First(Line, Len(h), Own)) + Cardinality(Damaged') + Len(got) + deadlines + dropped
           <= Cardinality(Damaged) + Len(got') + deadlines' + dropped'
    BY <1>1, <1>2, <1>3, <2>6
  <2>8. Len(got') \in Nat /\ Cardinality(Damaged') \in Nat /\ Line = h \o Line' /\ Line' \in Seq(Byte)
    BY <1>1, <1>2, <1>3, <2>1, <2>2 DEF t
  <2> QED BY <1>1, <2>2, <2>7, <2>8, MissRead
<1> QED BY <1>4, <1>5, DeadlineLine

LEMMA MissStep == TypeInv /\ TypeInv' /\ MissInv /\ [Next]_vars => MissInv'
<1> SUFFICES ASSUME TypeInv, TypeInv', MissInv, [Next]_vars PROVE MissInv'
  OBVIOUS
<1>1. ASSUME ReadFrame \/ Collect PROVE MissInv'
  <2>1. /\ Line' = Line /\ sent' = sent /\ lost' = lost /\ got' = got
        /\ deadlines' = deadlines /\ dropped' = dropped /\ reader # "closed"
    BY <1>1, KeepLine DEF ReadFrame, Collect, NextByte
  <2> QED BY <2>1 DEF MissInv, Damaged, Own
<1>2. ASSUME UNCHANGED vars PROVE MissInv'
  BY <1>2 DEF MissInv, Damaged, Own, Line
<1> QED BY <1>1, <1>2, MissSend, MissLoss, MissVer, MissSkip, MissReturn, MissDeadline
        DEF Next, Reading

\* When everything sent has been read, each lost byte and each call that
\* timed out has cost at most one frame, besides those that went with the
\* buffer behind the VER: a reader that starts in mid-frame finds the next
\* opening flag.  protocol.py:198-222, pdl.py:137-150
THEOREM OneMissed == Spec => []OneMissedPerFault
<1>1. TypeInv /\ MissInv => OneMissedPerFault
  <2> SUFFICES ASSUME TypeInv, MissInv, wire = <<>>, body = <<>>, reader # "closed"
               PROVE  Len(sent) - (Len(got) - Cardinality(Damaged)) <= lost + deadlines + dropped
    BY DEF OneMissedPerFault
  <2>1. Line = <<>> \/ Line = <<HdlcFlag>>
    BY DEF Line
  <2>2. Sure(Line, Own) = {}
    <3> SUFFICES ASSUME NEW i \in Sure(Line, Own) PROVE FALSE
      OBVIOUS
    <3>1. Line \in Seq(Byte) /\ Own \subseteq Seq(NoFlag) /\ <<>> \notin Own
      BY LineType, OwnIs
    <3>2. i \in 1..Len(Line) /\ i + 1 \in 1..Len(Line)
      BY <3>1, SureOpens
    <3>3. Len(Line) = 0 \/ Len(Line) = 1
      BY <2>1
    <3> DEFINE l == Len(Line)
    <3>4. (l = 0 \/ l = 1) /\ i \in 1..l /\ i + 1 \in 1..l
      BY <3>2, <3>3
    <3> HIDE DEF l
    <3> QED BY <3>4
  <2>3. Cardinality(Sure(Line, Own)) = 0 /\ Cut(Line) \in {0, 1}
    BY <2>2, FS_EmptySet DEF Cut
  <2>4. Len(sent) + Cut(Line) + Cardinality(Damaged)
          <= Len(got) + Cardinality(Sure(Line, Own)) + lost + deadlines + dropped
    BY DEF MissInv
  <2>5. /\ Len(sent) \in Nat /\ Len(got) \in Nat /\ lost \in Nat /\ deadlines \in Nat /\ dropped \in Nat
        /\ Cardinality(Damaged) \in Nat
    BY Counts
  <2> DEFINE a == Cardinality(Damaged)
             k == Cut(Line)
             g == Len(got)
             s == Len(sent)
  <2>6. s + k + a <= g + 0 + lost + deadlines + dropped /\ k \in Nat /\ a \in Nat /\ g \in Nat /\ s \in Nat
    BY <2>3, <2>4, <2>5
  <2> HIDE DEF a, k, g, s
  <2>7. s - (g - a) <= lost + deadlines + dropped
    BY <2>5, <2>6
  <2> QED BY <2>7 DEF a, g, s
<1> QED BY <1>1, MissInit, MissStep, TypesAlways, PTL DEF Spec
=============================================================================
