----------------------------- MODULE PdlLinkProofs -----------------------------
(***************************************************************************)
(* Proofs about PdlLink: its types, that in a session that starts on a     *)
(* clean line recv() gives each command its own answer and swallows none,  *)
(* and that it implements FrameFifo over all sessions, whatever the        *)
(* answers hold and however the reads cut them.                            *)
(*                                                                         *)
(* The argument: a clean session has one answer to come at a time.  Before *)
(* it lie only bytes that are not the magic, so the first magic recv()     *)
(* finds is where that answer starts, and with its length the buffer ends  *)
(* where the line does.                                                    *)
(*                                                                         *)
(* Over all sessions the line is one Run of the agent's answers that loses *)
(* bytes at its front only.  Until it is fouled it is Clear: the first     *)
(* magic is where the first pending answer starts (TakeFirst).             *)
(***************************************************************************)
EXTENDS PdlLink, SequenceTheorems, WellFoundedInduction, TLAPS

Byte == [v : Nat, of : DOMAIN Payloads, at : Nat]

(***************************************************************************)
(* The inductive invariants.                                               *)
(***************************************************************************)

CallInv ==
  /\ pc = "recv" => sent > 0
  /\ pc # "recv" => buf = <<>>

TypeInv == TypeOK /\ CallInv

\* The answer f lies on the line behind bytes that are not the magic.
Behind(w, f) ==
  \E j \in 0..Len(w) :
    (\A i \in 1..j : w[i].v # Magic) /\ From(w, j + 1) = f

\* The answer f has been read in part: k bytes of it are in the buffer.
Split(b, w, f) ==
  \E k \in 1..(Len(f) - 1) : b = SubSeq(f, 1, k) /\ w = From(f, k + 1)

\* The answer f has been read in part or in whole.
ReadOf(b, w, f) ==
  \E k \in 1..Len(f) : b = SubSeq(f, 1, k) /\ w = From(f, k + 1)

SessionInv ==
  clean =>
    /\ pc = "idle" => owed = <<>> /\ MagicAt(wire) = {}
    /\ pc = "recv" =>
         \/ owed = <<sent>> /\ buf = <<>> /\ MagicAt(wire) = {}
         \/ owed = <<>> /\ buf = <<>> /\ Behind(wire, Frame(sent))
         \/ owed = <<>> /\ Split(buf, wire, Frame(sent))

PdlInv == TypeInv /\ SessionInv /\ InStep

USE DEF vars

(***************************************************************************)
(* Sequences of bytes.                                                     *)
(***************************************************************************)

\* What is left of a sequence from its n-th place on.
LEMMA FromIs ==
  ASSUME NEW S, NEW s \in Seq(S), NEW n \in 1..(Len(s) + 1)
  PROVE  /\ From(s, n) \in Seq(S) /\ Len(From(s, n)) = Len(s) - n + 1
         /\ \A i \in 1..(Len(s) - n + 1) : From(s, n)[i] = s[n + i - 1]
<1>1. Len(s) \in Nat /\ \A i \in n..Len(s) : s[i] \in S
  OBVIOUS
<1>2. n \in Int /\ Len(s) \in Int
  BY <1>1
<1>3. /\ SubSeq(s, n, Len(s)) \in Seq(S)
      /\ Len(SubSeq(s, n, Len(s))) = IF n <= Len(s) THEN Len(s) - n + 1 ELSE 0
      /\ \A i \in 1..(Len(s) - n + 1) : SubSeq(s, n, Len(s))[i] = s[n + i - 1]
  BY <1>1, <1>2, SubSeqProperties
<1> QED BY <1>1, <1>3 DEF From

\* The first n of a sequence.
LEMMA FirstIs ==
  ASSUME NEW S, NEW s \in Seq(S), NEW n \in 0..Len(s)
  PROVE  /\ SubSeq(s, 1, n) \in Seq(S) /\ Len(SubSeq(s, 1, n)) = n
         /\ \A i \in 1..n : SubSeq(s, 1, n)[i] = s[i]
<1>1. Len(s) \in Nat /\ \A i \in 1..n : s[i] \in S
  OBVIOUS
<1>2. n \in Int /\ 1 \in Int
  BY <1>1
<1>3. /\ SubSeq(s, 1, n) \in Seq(S)
      /\ Len(SubSeq(s, 1, n)) = IF 1 <= n THEN n - 1 + 1 ELSE 0
      /\ \A i \in 1..(n - 1 + 1) : SubSeq(s, 1, n)[i] = s[1 + i - 1]
  BY <1>1, <1>2, SubSeqProperties
<1>4. n - 1 + 1 = n /\ \A i \in 1..n : 1 + i - 1 = i
  BY <1>1
<1> QED BY <1>1, <1>3, <1>4

\* A buffer without the magic is dropped; one with it begins with the first.
LEMMA ResyncIs ==
  ASSUME NEW r \in Seq(Byte)
  PROVE  /\ (\A i \in 1..Len(r) : r[i].v # Magic) => Resync(r) = <<>>
         /\ \A p \in 1..Len(r) :
              r[p].v = Magic /\ (\A i \in 1..(p - 1) : r[i].v # Magic)
                => Resync(r) = From(r, p)
<1>1. DOMAIN r = 1..Len(r) /\ Len(r) \in Nat
  OBVIOUS
<1>2. ASSUME \A i \in 1..Len(r) : r[i].v # Magic PROVE Resync(r) = <<>>
  BY <1>1, <1>2 DEF Resync, MagicAt
<1>3. ASSUME NEW p \in 1..Len(r), r[p].v = Magic, \A i \in 1..(p - 1) : r[i].v # Magic
      PROVE  Resync(r) = From(r, p)
  <2>1. p \in MagicAt(r) /\ \A y \in MagicAt(r) : p <= y
    BY <1>1, <1>3 DEF MagicAt
  <2>2. MagicAt(r) \subseteq Nat
    BY <1>1 DEF MagicAt
  <2>3. \A x \in MagicAt(r) : (\A y \in MagicAt(r) : x <= y) => x = p
    BY <2>1, <2>2
  <2>4. Min(MagicAt(r)) = p
    BY <2>1, <2>3 DEF Min
  <2> QED BY <2>1, <2>4 DEF Resync
<1> QED BY <1>2, <1>3

\* What recv() keeps are bytes it read, from a magic on.
LEMMA ResyncType ==
  ASSUME NEW r \in Seq(Byte)
  PROVE  /\ Resync(r) \in Seq(Byte)
         /\ Resync(r) # <<>> => Resync(r)[1].v = Magic
<1>1. DOMAIN r = 1..Len(r) /\ Len(r) \in Nat
  OBVIOUS
<1>2. CASE MagicAt(r) = {}
  BY <1>2 DEF Resync
<1>3. CASE MagicAt(r) # {}
  <2>1. MagicAt(r) \subseteq Nat
    BY <1>1 DEF MagicAt
  <2>2. PICK p \in MagicAt(r) : \A y \in MagicAt(r) : ~(<<y, p>> \in OpToRel(<, Nat))
    BY <1>3, <2>1, NatLessThanWellFounded, WFMin
  <2>3. \A y \in MagicAt(r) : ~(y < p)
    <3> SUFFICES ASSUME NEW y \in MagicAt(r), y < p PROVE FALSE
      OBVIOUS
    <3> QED BY <2>1, <2>2 DEF OpToRel
  <2>4. p \in 1..Len(r) /\ r[p].v = Magic /\ \A i \in 1..(p - 1) : r[i].v # Magic
    <3>1. p \in 1..Len(r) /\ r[p].v = Magic
      BY <1>1 DEF MagicAt
    <3>2. ASSUME NEW i \in 1..(p - 1), r[i].v = Magic PROVE FALSE
      <4>1. i \in 1..Len(r) /\ i < p
        BY <1>1, <3>1
      <4> QED BY <1>1, <2>3, <3>2, <4>1 DEF MagicAt
    <3> QED BY <3>1, <3>2
  <2>5. Resync(r) = From(r, p)
    BY <2>4, ResyncIs
  <2>6. From(r, p) \in Seq(Byte) /\ From(r, p)[1] = r[p]
    <3>1. p \in 1..(Len(r) + 1) /\ 1 \in 1..(Len(r) - p + 1) /\ p + 1 - 1 = p
      BY <1>1, <2>4
    <3> QED BY <3>1, FromIs
  <2> QED BY <2>4, <2>5, <2>6
<1> QED BY <1>2, <1>3

\* The answer to c: the magic, the length, the payload.
LEMMA FrameIs ==
  ASSUME NEW c \in DOMAIN Payloads
  PROVE  /\ Frame(c) \in Seq(Byte) /\ Len(Frame(c)) = 2 + Len(Payloads[c])
         /\ Payloads[c] \in Seq(Nat) /\ Len(Payloads[c]) \in Nat \ {0}
         /\ Frame(c)[1].v = Magic /\ Frame(c)[2].v = Len(Payloads[c])
         /\ \A i \in 1..Len(Payloads[c]) : Frame(c)[2 + i].v = Payloads[c][i]
<1> DEFINE p == Payloads[c]
           bytes == <<Magic, Len(p)>> \o p
<1>1. p \in Seq(Nat) /\ p # <<>>
  BY PdlAssumption
<1>2. Len(p) \in Nat \ {0} /\ Magic \in Nat
  BY <1>1, PdlAssumption, EmptySeq
<1>3. <<Magic, Len(p)>> \in Seq(Nat) /\ Len(<<Magic, Len(p)>>) = 2
  BY <1>2
<1>4. /\ bytes \in Seq(Nat) /\ Len(bytes) = 2 + Len(p)
      /\ bytes[1] = Magic /\ bytes[2] = Len(p) /\ \A i \in 1..Len(p) : bytes[2 + i] = p[i]
  <2> HIDE DEF p
  <2> QED BY <1>1, <1>2, <1>3
<1>5. Frame(c) = [i \in 1..Len(bytes) |-> [v |-> bytes[i], of |-> c, at |-> i]]
  BY DEF Frame
<1> HIDE DEF bytes, p
<1>6. \A i \in 1..Len(bytes) : [v |-> bytes[i], of |-> c, at |-> i] \in Byte
  BY <1>4 DEF Byte
<1>7. Frame(c) \in Seq(Byte) /\ Len(Frame(c)) = Len(bytes)
  BY <1>2, <1>4, <1>5, <1>6
<1>8. \A i \in 1..Len(bytes) : Frame(c)[i].v = bytes[i]
  BY <1>5
<1>9. 1 \in 1..Len(bytes) /\ 2 \in 1..Len(bytes)
      /\ \A i \in 1..Len(p) : 2 + i \in 1..Len(bytes)
  BY <1>2, <1>4
<1> QED BY <1>1, <1>2, <1>4, <1>7, <1>8, <1>9 DEF p

LEMMA FromFrom ==
  ASSUME NEW S, NEW s \in Seq(S), NEW m \in 1..(Len(s) + 1), NEW n \in 1..(Len(s) - m + 2)
  PROVE  From(From(s, m), n) = From(s, m + n - 1)
<1> DEFINE t == From(s, m)
           l == m + n - 1
<1>1. Len(s) \in Nat
  OBVIOUS
<1>2. /\ t \in Seq(S) /\ Len(t) = Len(s) - m + 1
      /\ \A i \in 1..(Len(s) - m + 1) : t[i] = s[m + i - 1]
  BY FromIs
<1>3. l \in 1..(Len(s) + 1) /\ n \in 1..(Len(t) + 1)
  BY <1>1, <1>2
<1> HIDE DEF t
<1>4. /\ From(t, n) \in Seq(S) /\ Len(From(t, n)) = Len(t) - n + 1
      /\ \A i \in 1..(Len(t) - n + 1) : From(t, n)[i] = t[n + i - 1]
  BY <1>2, <1>3, FromIs
<1>5. /\ From(s, l) \in Seq(S) /\ Len(From(s, l)) = Len(s) - l + 1
      /\ \A i \in 1..(Len(s) - l + 1) : From(s, l)[i] = s[l + i - 1]
  <2> HIDE DEF l
  <2> QED BY <1>3, FromIs
<1>6. Len(From(t, n)) = Len(From(s, l))
  BY <1>1, <1>2, <1>4, <1>5
<1>7. ASSUME NEW i \in 1..Len(From(t, n)) PROVE From(t, n)[i] = From(s, l)[i]
  <2>1. /\ i \in 1..(Len(t) - n + 1) /\ n + i - 1 \in 1..(Len(s) - m + 1)
        /\ i \in 1..(Len(s) - l + 1) /\ m + (n + i - 1) - 1 = l + i - 1
    BY <1>1, <1>2, <1>4
  <2>2. From(t, n)[i] = t[n + i - 1] /\ From(s, l)[i] = s[l + i - 1]
    BY <1>4, <1>5, <2>1
  <2>3. t[n + i - 1] = s[m + (n + i - 1) - 1]
    BY <1>2, <2>1
  <2> QED BY <2>1, <2>2, <2>3
<1> QED BY <1>4, <1>5, <1>6, <1>7, SeqEqual DEF t

\* A prefix of an answer is complete when it is all of it.
LEMMA CompleteIs ==
  ASSUME NEW c \in DOMAIN Payloads, NEW k \in 1..Len(Frame(c))
  PROVE  Complete(SubSeq(Frame(c), 1, k)) <=> k = Len(Frame(c))
<1>1. /\ Frame(c) \in Seq(Byte) /\ Len(Frame(c)) = 2 + Len(Payloads[c])
      /\ Len(Payloads[c]) \in Nat \ {0} /\ Frame(c)[2].v = Len(Payloads[c])
  BY FrameIs
<1> DEFINE b == SubSeq(Frame(c), 1, k)
<1>2. Len(b) = k /\ \A i \in 1..k : b[i] = Frame(c)[i]
  <2>1. k \in 0..Len(Frame(c))
    BY <1>1
  <2> QED BY <1>1, <2>1, FirstIs
<1> HIDE DEF b
<1>3. CASE k = 1
  BY <1>1, <1>2, <1>3 DEF Complete, b
<1>4. CASE k >= 2
  <2>1. b[2].v = Len(Payloads[c])
    BY <1>1, <1>2, <1>4
  <2>2. FrameLen(b) = 2 + Len(Payloads[c])
    BY <2>1 DEF FrameLen
  <2> QED BY <1>1, <1>2, <1>4, <2>2 DEF Complete, b
<1> QED BY <1>1, <1>3, <1>4

\* A read of n bytes of a line on which the answer lies behind others.
LEMMA ReadBehind ==
  ASSUME NEW c \in DOMAIN Payloads, NEW w \in Seq(Byte), NEW n \in 1..Len(w),
         Behind(w, Frame(c)), NEW r, r = Resync(SubSeq(w, 1, n))
  PROVE  \/ r = <<>> /\ Behind(From(w, n + 1), Frame(c))
         \/ ReadOf(r, From(w, n + 1), Frame(c))
<1> DEFINE f == Frame(c)
           s == SubSeq(w, 1, n)
<1>1. /\ f \in Seq(Byte) /\ Len(f) \in Nat \ {0} /\ f[1].v = Magic
  BY FrameIs
<1>2. Len(w) \in Nat /\ n \in 0..Len(w) /\ n \in 1..(Len(w) + 1) /\ n + 1 \in 1..(Len(w) + 1)
  OBVIOUS
<1>3. PICK j \in 0..Len(w) : (\A i \in 1..j : w[i].v # Magic) /\ From(w, j + 1) = f
  BY DEF Behind
<1>4. j + 1 \in 1..(Len(w) + 1)
  BY <1>2
<1>5. /\ Len(f) = Len(w) - (j + 1) + 1
      /\ \A i \in 1..(Len(w) - (j + 1) + 1) : f[i] = w[(j + 1) + i - 1]
  BY <1>3, <1>4, FromIs
<1>6. Len(f) = Len(w) - j /\ \A i \in 1..Len(f) : f[i] = w[j + i]
  <2> HIDE DEF f
  <2>1. Len(f) = Len(w) - j
    BY <1>2, <1>5
  <2>2. ASSUME NEW i \in 1..Len(f) PROVE f[i] = w[j + i]
    <3>1. i \in 1..(Len(w) - (j + 1) + 1) /\ (j + 1) + i - 1 = j + i
      BY <1>2, <2>1
    <3> QED BY <1>5, <3>1
  <2> QED BY <2>1, <2>2
<1>7. s \in Seq(Byte) /\ Len(s) = n /\ \A i \in 1..n : s[i] = w[i]
  BY <1>2, FirstIs
<1> HIDE DEF f, s
<1>8. CASE n <= j
  <2>1. Resync(s) = <<>>
    <3>1. \A i \in 1..Len(s) : s[i].v # Magic
      BY <1>2, <1>3, <1>7, <1>8
    <3> QED BY <1>7, <3>1, ResyncIs
  <2> DEFINE v == From(w, n + 1)
  <2>2. /\ Len(v) = Len(w) - (n + 1) + 1
        /\ \A i \in 1..(Len(w) - (n + 1) + 1) : v[i] = w[(n + 1) + i - 1]
    BY <1>2, FromIs
  <2>3. From(v, (j - n) + 1) = f
    <3>1. (j - n) + 1 \in 1..(Len(w) - (n + 1) + 2) /\ (n + 1) + ((j - n) + 1) - 1 = j + 1
      BY <1>2, <1>8
    <3> DEFINE i == (j - n) + 1
    <3>2. i \in 1..(Len(w) - (n + 1) + 2) /\ (n + 1) + i - 1 = j + 1
      BY <3>1
    <3> HIDE DEF i
    <3>3. From(v, i) = From(w, (n + 1) + i - 1)
      BY <1>2, <3>2, FromFrom
    <3> QED BY <1>3, <3>2, <3>3 DEF i
  <2> HIDE DEF v
  <2>4. j - n \in 0..Len(v)
    BY <1>2, <1>8, <2>2
  <2>5. ASSUME NEW i \in 1..(j - n) PROVE v[i].v # Magic
    <3>1. i \in 1..(Len(w) - (n + 1) + 1) /\ (n + 1) + i - 1 \in 1..j
      BY <1>2, <1>8
    <3> QED BY <1>3, <2>2, <3>1
  <2>6. Behind(v, f)
    BY <2>3, <2>4, <2>5 DEF Behind
  <2> QED BY <2>1, <2>6 DEF v, f, s
<1>9. CASE n > j
  <2> DEFINE k == n - j
  <2>1. k \in 1..Len(f) /\ k \in 0..Len(f) /\ j + 1 \in 1..n /\ n = j + k
        /\ k + 1 \in 1..(Len(f) + 1)
    BY <1>2, <1>6, <1>9
  <2>2. Resync(s) = From(s, j + 1)
    <3>1. s[j + 1].v = Magic
      <4>1. 1 \in 1..Len(f)
        BY <1>1
      <4>2. f[1] = w[j + 1]
        BY <1>6, <4>1
      <4> QED BY <1>1, <1>7, <2>1, <4>2
    <3>2. \A i \in 1..((j + 1) - 1) : s[i].v # Magic
      <4>1. \A i \in 1..((j + 1) - 1) : i \in 1..j /\ i \in 1..n
        BY <1>2, <1>9
      <4> QED BY <1>3, <1>7, <4>1
    <3>3. j + 1 \in 1..Len(s)
      BY <1>7, <2>1
    <3> QED BY <1>7, <3>1, <3>2, <3>3, ResyncIs
  <2>3. From(s, j + 1) = SubSeq(f, 1, k)
    <3>1. /\ From(s, j + 1) \in Seq(Byte) /\ Len(From(s, j + 1)) = Len(s) - (j + 1) + 1
          /\ \A i \in 1..(Len(s) - (j + 1) + 1) : From(s, j + 1)[i] = s[(j + 1) + i - 1]
      <4>1. j + 1 \in 1..(Len(s) + 1)
        BY <1>2, <1>7, <2>1
      <4> QED BY <1>7, <4>1, FromIs
    <3>2. /\ SubSeq(f, 1, k) \in Seq(Byte) /\ Len(SubSeq(f, 1, k)) = k
          /\ \A i \in 1..k : SubSeq(f, 1, k)[i] = f[i]
      <4> HIDE DEF k
      <4> QED BY <1>1, <2>1, FirstIs
    <3>3. Len(s) - (j + 1) + 1 = k
      BY <1>2, <1>7
    <3>4. ASSUME NEW i \in 1..k PROVE From(s, j + 1)[i] = SubSeq(f, 1, k)[i]
      <4>1. (j + 1) + i - 1 = j + i /\ j + i \in 1..n /\ i \in 1..Len(f)
        BY <1>2, <2>1
      <4> HIDE DEF k
      <4> QED BY <1>6, <1>7, <3>1, <3>2, <3>3, <4>1
    <3> HIDE DEF k
    <3> QED BY <3>1, <3>2, <3>3, <3>4, SeqEqual
  <2>4. From(w, n + 1) = From(f, k + 1)
    <3>1. k + 1 \in 1..(Len(w) - (j + 1) + 2) /\ (j + 1) + (k + 1) - 1 = n + 1
      BY <1>2, <1>6, <2>1
    <3> HIDE DEF k
    <3> QED BY <1>3, <1>4, <3>1, FromFrom
  <2> QED BY <2>1, <2>2, <2>3, <2>4 DEF f, s, ReadOf
<1> QED BY <1>2, <1>8, <1>9

\* A read of n more bytes of an answer of which the buffer has the start.
LEMMA ReadSplit ==
  ASSUME NEW c \in DOMAIN Payloads, NEW b, NEW w, Split(b, w, Frame(c)),
         NEW n \in 1..Len(w), NEW r, r = Resync(b \o SubSeq(w, 1, n))
  PROVE  ReadOf(r, From(w, n + 1), Frame(c))
<1> DEFINE f == Frame(c)
<1>1. /\ f \in Seq(Byte) /\ Len(f) \in Nat \ {0} /\ f[1].v = Magic
  BY FrameIs
<1> HIDE DEF f
<1>2. PICK k \in 1..(Len(f) - 1) : b = SubSeq(f, 1, k) /\ w = From(f, k + 1)
  BY DEF Split, f
<1>3. k \in 0..Len(f) /\ k + 1 \in 1..(Len(f) + 1)
  BY <1>1
<1>4. b \in Seq(Byte) /\ Len(b) = k /\ \A i \in 1..k : b[i] = f[i]
  BY <1>1, <1>2, <1>3, FirstIs
<1>5. /\ w \in Seq(Byte) /\ Len(w) = Len(f) - (k + 1) + 1
      /\ \A i \in 1..(Len(f) - (k + 1) + 1) : w[i] = f[(k + 1) + i - 1]
  BY <1>1, <1>2, <1>3, FromIs
<1>6. Len(w) = Len(f) - k /\ n \in 0..Len(w) /\ k + n \in 1..Len(f) /\ k + n \in 0..Len(f)
  BY <1>1, <1>5
<1> DEFINE s == SubSeq(w, 1, n)
           t == SubSeq(f, 1, k + n)
<1>7. s \in Seq(Byte) /\ Len(s) = n /\ \A i \in 1..n : s[i] = w[i]
  BY <1>5, <1>6, FirstIs
<1>8. t \in Seq(Byte) /\ Len(t) = k + n /\ \A i \in 1..(k + n) : t[i] = f[i]
  BY <1>1, <1>6, FirstIs
<1> HIDE DEF s, t
<1> DEFINE q == b \o s
<1>9. /\ q \in Seq(Byte) /\ Len(q) = k + n
      /\ \A i \in 1..(k + n) : q[i] = IF i <= k THEN b[i] ELSE s[i - k]
  BY <1>4, <1>7, ConcatProperties
<1> HIDE DEF q
<1>10. q = t
  <2>1. ASSUME NEW i \in 1..(k + n) PROVE q[i] = t[i]
    <3>1. CASE i <= k
      BY <1>4, <1>8, <1>9, <3>1
    <3>2. CASE i > k
      <4>1. i - k \in 1..n /\ i - k \in 1..(Len(f) - (k + 1) + 1)
            /\ (k + 1) + (i - k) - 1 = i
        BY <1>1, <1>6, <3>2
      <4>2. w[i - k] = f[i]
        BY <1>5, <4>1
      <4>3. q[i] = s[i - k]
        BY <1>9, <3>2
      <4>4. s[i - k] = w[i - k]
        BY <1>7, <4>1
      <4> QED BY <1>8, <4>2, <4>3, <4>4
    <3> QED BY <3>1, <3>2
  <2> QED BY <1>8, <1>9, <2>1, SeqEqual
<1>11. Resync(t) = t
  <2>1. 1 \in 1..Len(t) /\ t[1].v = Magic /\ \A i \in 1..(1 - 1) : t[i].v # Magic
    BY <1>1, <1>6, <1>8
  <2>2. Resync(t) = From(t, 1)
    BY <1>8, <2>1, ResyncIs
  <2> QED BY <1>8, <2>2, SubSeqFull DEF From
<1>12. From(w, n + 1) = From(f, (k + n) + 1)
  <2>1. n + 1 \in 1..(Len(f) - (k + 1) + 2) /\ (k + 1) + (n + 1) - 1 = (k + n) + 1
    BY <1>1, <1>5
  <2> QED BY <1>1, <1>2, <1>3, <2>1, FromFrom
<1> QED BY <1>6, <1>10, <1>11, <1>12 DEF f, q, s, t, ReadOf

(***************************************************************************)
(* The types.                                                              *)
(***************************************************************************)

LEMMA PayloadsLen == Len(Payloads) \in Nat /\ DOMAIN Payloads = 1..Len(Payloads)
BY PdlAssumption

\* What a read of n bytes leaves on the line, and in the buffer.
LEMMA ReadTypes ==
  ASSUME TypeInv, NEW n \in DOMAIN wire
  PROVE  LET b == Resync(buf \o SubSeq(wire, 1, n)) IN
         /\ From(wire, n + 1) \in Seq(Byte)
         /\ b \in Seq(Byte) /\ (b # <<>> => b[1].v = Magic)
<1> DEFINE s == SubSeq(wire, 1, n)
<1>1. wire \in Seq(Byte) /\ buf \in Seq(Byte)
  BY DEF TypeInv, TypeOK, Byte
<1>2. Len(wire) \in Nat /\ n \in 0..Len(wire) /\ n + 1 \in 1..(Len(wire) + 1)
  BY <1>1
<1>3. From(wire, n + 1) \in Seq(Byte) /\ s \in Seq(Byte)
  BY <1>1, <1>2, FirstIs, FromIs
<1> HIDE DEF s
<1> DEFINE r == buf \o s
<1>4. r \in Seq(Byte)
  BY <1>1, <1>3, ConcatProperties
<1> HIDE DEF r
<1> QED BY <1>3, <1>4, ResyncType DEF r, s

LEMMA NextTypes == TypeInv /\ [Next]_vars => TypeInv'
<1> SUFFICES ASSUME TypeInv, [Next]_vars PROVE TypeInv'
  OBVIOUS
<1> USE DEF TypeInv, CallInv
<1>1. wire \in Seq(Byte) /\ buf \in Seq(Byte) /\ TypeOK
  BY DEF TypeOK, Byte
<1>2. Len(wire) \in Nat /\ DOMAIN wire = 1..Len(wire)
  BY <1>1
<1>3. CASE UNCHANGED vars
  BY <1>3 DEF TypeOK
<1>4. CASE Command
  <2>1. sent' \in 1..Len(Payloads) /\ 1..sent \subseteq 1..sent' /\ sent' > 0
    BY <1>4, PayloadsLen DEF Command, TypeOK
  <2>2. owed' \in Seq(1..sent')
    <3>1. owed \in Seq(1..sent')
      BY <2>1, SeqMonotonic DEF TypeOK
    <3>2. sent' \in 1..sent'
      BY <2>1
    <3> QED BY <1>4, <3>1, <3>2 DEF Command
  <2>3. got' \in Seq([cmd : 1..sent', clean : BOOLEAN, payload : Seq(Nat)])
    <3> DEFINE Given(n) == [cmd : 1..n, clean : BOOLEAN, payload : Seq(Nat)]
    <3>1. Given(sent) \subseteq Given(sent')
      BY <2>1
    <3>2. got \in Seq(Given(sent)) /\ got' = got
      BY <1>4 DEF Command, TypeOK
    <3> SUFFICES got' \in Seq(Given(sent'))
      OBVIOUS
    <3> HIDE DEF Given
    <3> QED BY <3>1, <3>2, SeqMonotonic
  <2>4. buf' = <<>> /\ pc' = "recv"
    BY <1>4 DEF Command
  <2> QED BY <1>4, <2>1, <2>2, <2>3, <2>4 DEF Command, TypeOK
<1>5. CASE DevAnswer
  <2> DEFINE c == Head(owed)
  <2>1. c \in DOMAIN Payloads /\ Tail(owed) \in Seq(1..sent)
    <3>1. c \in 1..sent /\ Tail(owed) \in Seq(1..sent)
      BY <1>5 DEF DevAnswer, TypeOK
    <3> QED BY <3>1, PayloadsLen DEF TypeOK
  <2> HIDE DEF c
  <2>2. wire \o Frame(c) \in Seq(Byte)
    BY <1>1, <2>1, FrameIs, ConcatProperties
  <2> QED BY <1>5, <2>1, <2>2 DEF DevAnswer, TypeOK, Byte, c
<1>6. CASE ReadMore
  <2>1. PICK n \in DOMAIN wire : LET b == Resync(buf \o SubSeq(wire, 1, n)) IN
          Chunk(n) /\ buf' = b /\ UNCHANGED <<pc, got, fouled>>
    BY <1>6 DEF ReadMore
  <2>2. /\ wire' \in Seq(Byte) /\ buf' \in Seq(Byte)
        /\ buf' # <<>> => buf'[1].v = Magic
    BY <2>1, ReadTypes DEF Chunk
  <2> QED BY <2>1, <2>2 DEF Chunk, TypeOK, Byte
<1>7. CASE ReadAnswer
  <2>1. PICK n \in DOMAIN wire : LET b == Resync(buf \o SubSeq(wire, 1, n)) IN
          /\ Chunk(n) /\ Complete(b) /\ pc' = "idle" /\ buf' = <<>>
          /\ got' = Append(got, [cmd |-> sent, clean |-> clean,
                       payload |-> [i \in 1..(FrameLen(b) - 2) |-> b[2 + i].v]])
          /\ fouled' = (fouled \/ Foul(wire'))
    BY <1>7 DEF ReadAnswer
  <2> DEFINE b == Resync(buf \o SubSeq(wire, 1, n))
             p == [i \in 1..(FrameLen(b) - 2) |-> b[2 + i].v]
  <2>2. wire' \in Seq(Byte) /\ b \in Seq(Byte)
    BY <2>1, ReadTypes DEF Chunk
  <2>3. Complete(b)
    BY <2>1
  <2>4. sent \in 1..sent
    BY <2>1 DEF Chunk, TypeOK
  <2>5. p \in Seq(Nat)
    <3> HIDE DEF b
    <3>1. Len(b) \in Nat /\ 2 \in 1..Len(b) /\ b[2] \in Byte
      BY <2>2, <2>3 DEF Complete
    <3>2. b[2].v \in Nat /\ FrameLen(b) = 2 + b[2].v /\ FrameLen(b) <= Len(b)
      BY <2>3, <3>1 DEF Byte, FrameLen, Complete
    <3>3. \A i \in 1..(FrameLen(b) - 2) : b[2 + i].v \in Nat
      <4>1. \A i \in 1..(FrameLen(b) - 2) : b[2 + i] \in Byte
        BY <2>2, <3>1, <3>2
      <4> QED BY <4>1 DEF Byte
    <3>4. FrameLen(b) - 2 \in Nat
      BY <3>2
    <3> QED BY <3>3, <3>4
  <2> HIDE DEF p, b
  <2>6. got' \in Seq([cmd : 1..sent, clean : BOOLEAN, payload : Seq(Nat)])
    <3>1. [cmd |-> sent, clean |-> clean, payload |-> p]
            \in [cmd : 1..sent, clean : BOOLEAN, payload : Seq(Nat)]
      BY <2>4, <2>5 DEF TypeOK
    <3>2. got' = Append(got, [cmd |-> sent, clean |-> clean, payload |-> p])
      BY <2>1 DEF p, b
    <3> QED BY <3>1, <3>2 DEF TypeOK
  <2>7. fouled' \in BOOLEAN /\ pc' = "idle" /\ buf' = <<>>
    BY <2>1 DEF Foul, TypeOK
  <2>8. UNCHANGED <<sent, owed, opens, clean>>
    BY <2>1 DEF Chunk
  <2> QED BY <2>2, <2>6, <2>7, <2>8 DEF TypeOK, Byte
<1>8. CASE Deadline
  BY <1>8 DEF Deadline, TypeOK
<1>9. CASE Open
  <2>1. PICK n \in 0..Len(wire) : wire' = From(wire, n + 1)
    BY <1>9 DEF Open
  <2>2. wire' \in Seq(Byte)
    <3>1. n + 1 \in 1..(Len(wire) + 1)
      BY <1>2
    <3> QED BY <1>1, <2>1, <3>1, FromIs
  <2>3. opens' \in 0..MaxOpens
    BY <1>9, PdlAssumption DEF Open, TypeOK
  <2>4. clean' \in BOOLEAN /\ fouled' \in BOOLEAN /\ pc' = "idle" /\ buf = <<>>
    BY <1>9 DEF Open, Foul, TypeOK
  <2>5. UNCHANGED <<sent, owed, buf, got>>
    BY <1>9 DEF Open
  <2> QED BY <2>2, <2>3, <2>4, <2>5 DEF TypeOK, Byte
<1> QED BY <1>3, <1>4, <1>5, <1>6, <1>7, <1>8, <1>9 DEF Next

(***************************************************************************)
(* The clean session.                                                      *)
(***************************************************************************)

\* Of an answer that has been read, recv() takes it whole or waits for more.
LEMMA ReadOfIs ==
  ASSUME NEW c \in DOMAIN Payloads, NEW b, NEW w, ReadOf(b, w, Frame(c))
  PROVE  /\ Complete(b) => b = Frame(c) /\ w = <<>>
         /\ ~Complete(b) => Split(b, w, Frame(c))
<1> DEFINE f == Frame(c)
<1>1. f \in Seq(Byte) /\ Len(f) \in Nat \ {0}
  BY FrameIs
<1>2. PICK k \in 1..Len(f) : b = SubSeq(f, 1, k) /\ w = From(f, k + 1)
  BY DEF ReadOf
<1>3. Complete(b) <=> k = Len(f)
  BY <1>2, CompleteIs
<1> HIDE DEF f
<1>4. CASE k = Len(f)
  <2>1. Len(f) + 1 \in 1..(Len(f) + 1)
    BY <1>1
  <2>2. w \in Seq(Byte) /\ Len(w) = Len(f) - (Len(f) + 1) + 1
    BY <1>1, <1>2, <1>4, <2>1, FromIs
  <2>3. w = <<>>
    <3>1. Len(w) = 0
      BY <1>1, <2>2
    <3> QED BY <2>2, <3>1, EmptySeq
  <2> QED BY <1>1, <1>2, <1>3, <1>4, <2>3, SubSeqFull DEF f
<1>5. CASE k # Len(f)
  <2>1. k \in 1..(Len(f) - 1)
    BY <1>1, <1>5
  <2> QED BY <1>2, <1>3, <1>5, <2>1 DEF Split, f
<1> QED BY <1>4, <1>5

\* An answer that arrives on a line without the magic lies behind its bytes.
LEMMA ArriveBehind ==
  ASSUME NEW c \in DOMAIN Payloads, NEW w \in Seq(Byte), MagicAt(w) = {}
  PROVE  Behind(w \o Frame(c), Frame(c))
<1> DEFINE f == Frame(c)
<1>1. f \in Seq(Byte) /\ Len(f) \in Nat /\ Len(w) \in Nat /\ DOMAIN w = 1..Len(w)
  BY FrameIs
<1> HIDE DEF f
<1> DEFINE t == w \o f
<1>2. /\ t \in Seq(Byte) /\ Len(t) = Len(w) + Len(f)
      /\ \A i \in 1..(Len(w) + Len(f)) : t[i] = IF i <= Len(w) THEN w[i] ELSE f[i - Len(w)]
  BY <1>1, ConcatProperties
<1> HIDE DEF t
<1>3. Len(w) \in 0..Len(t) /\ Len(w) + 1 \in 1..(Len(t) + 1)
  BY <1>1, <1>2
<1>4. ASSUME NEW i \in 1..Len(w) PROVE t[i].v # Magic
  <2>1. t[i] = w[i]
    BY <1>1, <1>2
  <2> QED BY <1>1, <2>1 DEF MagicAt
<1>5. From(t, Len(w) + 1) = f
  <2>1. /\ From(t, Len(w) + 1) \in Seq(Byte)
        /\ Len(From(t, Len(w) + 1)) = Len(t) - (Len(w) + 1) + 1
        /\ \A i \in 1..(Len(t) - (Len(w) + 1) + 1) :
             From(t, Len(w) + 1)[i] = t[(Len(w) + 1) + i - 1]
    BY <1>2, <1>3, FromIs
  <2>2. Len(t) - (Len(w) + 1) + 1 = Len(f)
    BY <1>1, <1>2
  <2>3. ASSUME NEW i \in 1..Len(f) PROVE From(t, Len(w) + 1)[i] = f[i]
    <3>1. /\ (Len(w) + 1) + i - 1 = Len(w) + i /\ Len(w) + i \in 1..(Len(w) + Len(f))
          /\ ~(Len(w) + i <= Len(w)) /\ (Len(w) + i) - Len(w) = i
      BY <1>1
    <3>2. t[Len(w) + i] = f[i]
      BY <1>2, <3>1
    <3> QED BY <2>1, <2>2, <3>1, <3>2
  <2> QED BY <1>1, <2>1, <2>2, <2>3, SeqEqual
<1> QED BY <1>3, <1>4, <1>5 DEF Behind, f, t

\* A read in a clean session: all so far was discarded, or is of the answer.
LEMMA ReadClean ==
  ASSUME TypeInv, SessionInv, clean, pc = "recv", NEW n \in DOMAIN wire,
         NEW b, b = Resync(buf \o SubSeq(wire, 1, n)),
         NEW w, w = From(wire, n + 1)
  PROVE  \/ owed = <<sent>> /\ b = <<>> /\ MagicAt(w) = {}
         \/ owed = <<>> /\ b = <<>> /\ Behind(w, Frame(sent))
         \/ owed = <<>> /\ ReadOf(b, w, Frame(sent))
<1> DEFINE s == SubSeq(wire, 1, n)
<1>1. /\ wire \in Seq(Byte) /\ Len(wire) \in Nat /\ DOMAIN wire = 1..Len(wire)
      /\ sent \in DOMAIN Payloads
  BY PayloadsLen DEF TypeInv, CallInv, TypeOK, Byte
<1>2. n \in 1..Len(wire) /\ n \in 0..Len(wire) /\ n + 1 \in 1..(Len(wire) + 1)
  BY <1>1
<1>3. s \in Seq(Byte) /\ Len(s) = n /\ \A i \in 1..n : s[i] = wire[i]
  BY <1>1, <1>2, FirstIs
<1> HIDE DEF s
<1>4. buf = <<>> => buf \o s = s
  BY <1>3, ConcatEmptySeq
<1>5. CASE owed = <<sent>> /\ buf = <<>> /\ MagicAt(wire) = {}
  <2>1. \A i \in 1..Len(wire) : wire[i].v # Magic
    BY <1>1, <1>5 DEF MagicAt
  <2>2. b = <<>>
    <3>1. \A i \in 1..Len(s) : s[i].v # Magic
      BY <1>1, <1>2, <1>3, <2>1
    <3> QED BY <1>3, <1>4, <1>5, <3>1, ResyncIs DEF s
  <2>3. MagicAt(w) = {}
    <3>1. /\ w \in Seq(Byte) /\ Len(w) = Len(wire) - (n + 1) + 1
          /\ \A i \in 1..(Len(wire) - (n + 1) + 1) : w[i] = wire[(n + 1) + i - 1]
      BY <1>1, <1>2, FromIs
    <3>2. ASSUME NEW i \in DOMAIN w PROVE w[i].v # Magic
      <4>1. i \in 1..(Len(wire) - (n + 1) + 1) /\ (n + 1) + i - 1 \in 1..Len(wire)
        BY <1>1, <1>2, <3>1
      <4> QED BY <2>1, <3>1, <4>1
    <3> QED BY <3>2 DEF MagicAt
  <2> QED BY <1>5, <2>2, <2>3
<1>6. CASE owed = <<>> /\ buf = <<>> /\ Behind(wire, Frame(sent))
  BY <1>1, <1>2, <1>4, <1>6, ReadBehind DEF s
<1>7. CASE owed = <<>> /\ Split(buf, wire, Frame(sent))
  BY <1>1, <1>2, <1>7, ReadSplit
<1> QED BY <1>5, <1>6, <1>7 DEF SessionInv

LEMMA EmptyLine == MagicAt(<<>>) = {} /\ ~Complete(<<>>)
BY DEF MagicAt, Complete

LEMMA NextSession == TypeInv /\ SessionInv /\ [Next]_vars => SessionInv'
<1> SUFFICES ASSUME TypeInv, SessionInv, [Next]_vars, clean' PROVE SessionInv'
  BY DEF SessionInv
<1>1. wire \in Seq(Byte) /\ (pc = "recv" => sent \in DOMAIN Payloads)
  BY PayloadsLen DEF TypeInv, CallInv, TypeOK, Byte
<1>2. CASE UNCHANGED vars
  BY <1>2 DEF SessionInv, MagicAt
<1>3. CASE Command
  <2>1. owed = <<>> /\ MagicAt(wire) = {}
    BY <1>3 DEF Command, SessionInv
  <2>2. owed' = <<sent'>> /\ buf' = <<>> /\ MagicAt(wire') = {} /\ pc' = "recv"
    BY <1>3, <2>1 DEF Command, MagicAt
  <2> QED BY <2>2 DEF SessionInv
<1>4. CASE DevAnswer
  <2>1. pc \in {"idle", "recv", "closed"}
    BY DEF TypeInv, TypeOK
  <2>2. CASE pc = "closed"
    BY <1>4, <2>2 DEF DevAnswer, SessionInv
  <2>3. pc # "idle"
    BY <1>4 DEF DevAnswer, SessionInv
  <2>4. CASE pc = "recv"
    <3>1. owed = <<sent>> /\ buf = <<>> /\ MagicAt(wire) = {}
      BY <1>4, <2>4 DEF DevAnswer, SessionInv
    <3>2. wire' = wire \o Frame(sent) /\ owed' = <<>>
      BY <1>4, <3>1 DEF DevAnswer
    <3>3. Behind(wire', Frame(sent))
      BY <1>1, <2>4, <3>1, <3>2, ArriveBehind
    <3>4. sent' = sent /\ pc' = "recv" /\ buf' = <<>>
      BY <1>4, <2>4, <3>1 DEF DevAnswer
    <3>5. Behind(wire', Frame(sent)')
      BY <3>3, <3>4 DEF Frame
    <3> QED BY <3>2, <3>4, <3>5 DEF SessionInv
  <2> QED BY <2>1, <2>2, <2>3, <2>4
<1>5. CASE ReadMore
  <2>1. PICK n \in DOMAIN wire : LET b == Resync(buf \o SubSeq(wire, 1, n)) IN
          Chunk(n) /\ ~Complete(b) /\ buf' = b /\ UNCHANGED <<pc, got, fouled>>
    BY <1>5 DEF ReadMore
  <2>2. /\ ~Complete(buf') /\ wire' = From(wire, n + 1) /\ pc = "recv" /\ pc' = "recv"
        /\ owed' = owed /\ sent' = sent /\ clean
    BY <2>1 DEF Chunk
  <2>3. \/ owed = <<sent>> /\ buf' = <<>> /\ MagicAt(wire') = {}
        \/ owed = <<>> /\ buf' = <<>> /\ Behind(wire', Frame(sent))
        \/ owed = <<>> /\ ReadOf(buf', wire', Frame(sent))
    BY <2>1, <2>2, ReadClean
  <2>4. ReadOf(buf', wire', Frame(sent)) => Split(buf', wire', Frame(sent))
    BY <1>1, <2>2, ReadOfIs
  <2>5. Frame(sent)' = Frame(sent)
    BY <2>2 DEF Frame
  <2> QED BY <2>2, <2>3, <2>4, <2>5 DEF SessionInv
<1>6. CASE ReadAnswer
  <2>1. PICK n \in DOMAIN wire : LET b == Resync(buf \o SubSeq(wire, 1, n)) IN
          Chunk(n) /\ Complete(b) /\ pc' = "idle"
    BY <1>6 DEF ReadAnswer
  <2> DEFINE b == Resync(buf \o SubSeq(wire, 1, n))
  <2>2. /\ Complete(b) /\ wire' = From(wire, n + 1) /\ pc = "recv" /\ pc' = "idle"
        /\ owed' = owed /\ clean
    BY <2>1 DEF Chunk
  <2>3. \/ owed = <<sent>> /\ b = <<>> /\ MagicAt(wire') = {}
        \/ owed = <<>> /\ b = <<>> /\ Behind(wire', Frame(sent))
        \/ owed = <<>> /\ ReadOf(b, wire', Frame(sent))
    BY <2>2, ReadClean
  <2> HIDE DEF b
  <2>4. owed = <<>> /\ ReadOf(b, wire', Frame(sent))
    BY <2>2, <2>3, EmptyLine
  <2>5. wire' = <<>>
    BY <1>1, <2>2, <2>4, ReadOfIs
  <2> QED BY <2>2, <2>4, <2>5, EmptyLine DEF SessionInv, MagicAt
<1>7. CASE Deadline
  BY <1>7 DEF Deadline, SessionInv
<1>8. CASE Open
  BY <1>8 DEF Open, SessionInv, MagicAt
<1> QED BY <1>2, <1>3, <1>4, <1>5, <1>6, <1>7, <1>8 DEF Next

\* What recv() gives the caller when its buffer is the answer.
LEMMA PayloadIs ==
  ASSUME NEW c \in DOMAIN Payloads, NEW b, b = Frame(c)
  PROVE  [i \in 1..(FrameLen(b) - 2) |-> b[2 + i].v] = Payloads[c]
<1>1. /\ Payloads[c] \in Seq(Nat) /\ Len(Payloads[c]) \in Nat
      /\ b[2].v = Len(Payloads[c])
      /\ \A i \in 1..Len(Payloads[c]) : b[2 + i].v = Payloads[c][i]
  BY FrameIs
<1>2. FrameLen(b) - 2 = Len(Payloads[c])
  BY <1>1 DEF FrameLen
<1>3. Payloads[c] = [i \in 1..Len(Payloads[c]) |-> Payloads[c][i]]
  BY <1>1
<1> QED BY <1>1, <1>2, <1>3

LEMMA NextInStep == PdlInv /\ [Next]_vars => InStep'
<1> SUFFICES ASSUME PdlInv, [Next]_vars PROVE InStep'
  OBVIOUS
<1>1. TypeInv /\ SessionInv /\ InStep
  BY DEF PdlInv
<1>2. CASE ReadAnswer
  <2>1. PICK n \in DOMAIN wire : LET b == Resync(buf \o SubSeq(wire, 1, n)) IN
          /\ Chunk(n) /\ Complete(b)
          /\ got' = Append(got, [cmd |-> sent, clean |-> clean,
                       payload |-> [i \in 1..(FrameLen(b) - 2) |-> b[2 + i].v]])
    BY <1>2 DEF ReadAnswer
  <2> DEFINE b == Resync(buf \o SubSeq(wire, 1, n))
             w == From(wire, n + 1)
             p == [i \in 1..(FrameLen(b) - 2) |-> b[2 + i].v]
  <2>2. Complete(b) /\ pc = "recv" /\ got' = Append(got, [cmd |-> sent, clean |-> clean, payload |-> p])
    BY <2>1 DEF Chunk
  <2>3. sent \in DOMAIN Payloads
    BY <1>1, <2>2, PayloadsLen DEF TypeInv, CallInv, TypeOK
  <2>4. ASSUME clean PROVE p = Payloads[sent]
    <3>1. \/ owed = <<sent>> /\ b = <<>> /\ MagicAt(w) = {}
          \/ owed = <<>> /\ b = <<>> /\ Behind(w, Frame(sent))
          \/ owed = <<>> /\ ReadOf(b, w, Frame(sent))
      BY <1>1, <2>2, <2>4, ReadClean
    <3> HIDE DEF b, w
    <3>2. ReadOf(b, w, Frame(sent))
      BY <2>2, <3>1, EmptyLine
    <3>3. b = Frame(sent)
      BY <2>2, <2>3, <3>2, ReadOfIs
    <3> QED BY <2>3, <3>3, PayloadIs
  <2> HIDE DEF p, b
  <2> DEFINE S == [cmd : 1..sent, clean : BOOLEAN, payload : Seq(Nat)]
  <2>5. got \in Seq(S)
    BY <1>1 DEF TypeInv, TypeOK
  <2> HIDE DEF S
  <2>6. ASSUME NEW m \in DOMAIN got'
        PROVE  \/ m \in DOMAIN got /\ got'[m] = got[m]
               \/ got'[m] = [cmd |-> sent, clean |-> clean, payload |-> p]
    BY <2>2, <2>5
  <2> QED BY <1>1, <2>4, <2>6 DEF InStep
<1>3. CASE got' = got
  BY <1>1, <1>3 DEF InStep
<1>4. CASE ~ReadAnswer
  BY <1>3, <1>4 DEF Next, Command, DevAnswer, ReadMore, Chunk, Deadline, Open
<1> QED BY <1>2, <1>4

(***************************************************************************)
(* The theorems.                                                           *)
(***************************************************************************)

LEMMA InitInv == Init => PdlInv
<1> SUFFICES ASSUME Init PROVE PdlInv
  OBVIOUS
<1>1. TypeOK /\ CallInv
  <2>1. sent \in 0..Len(Payloads) /\ opens \in 0..MaxOpens
    BY PdlAssumption, PayloadsLen DEF Init
  <2>2. /\ owed \in Seq(1..sent) /\ wire = <<>> /\ buf = <<>>
        /\ got \in Seq([cmd : 1..sent, clean : BOOLEAN, payload : Seq(Nat)])
    BY DEF Init
  <2>3. <<>> \in Seq([v : Nat, of : DOMAIN Payloads, at : Nat])
    OBVIOUS
  <2> QED BY <2>1, <2>2, <2>3 DEF Init, TypeOK, CallInv
<1>2. SessionInv /\ InStep
  BY EmptyLine DEF Init, SessionInv, InStep
<1> QED BY <1>1, <1>2 DEF PdlInv, TypeInv

LEMMA NextInv == PdlInv /\ [Next]_vars => PdlInv'
BY NextTypes, NextSession, NextInStep DEF PdlInv

LEMMA AlwaysInv == Spec => []PdlInv
BY InitInv, NextInv, PTL DEF Spec

\* Every variable keeps its type; in particular the buffer of recv() is empty
\* or starts with the magic, whatever is on the line and however read() cuts
\* it.  pdl.py:70-100
THEOREM TypeCorrect == Spec => []TypeOK
<1>1. PdlInv => TypeOK
  BY DEF PdlInv, TypeInv
<1> QED BY <1>1, AlwaysInv, PTL

\* In a session that starts on a clean line each call is given the answer to
\* its own command, also when answers hold the magic's value.  pdl.py:70-100
THEOREM AnswersOwn == Spec => []InStep
<1>1. PdlInv => InStep
  BY DEF PdlInv
<1> QED BY <1>1, AlwaysInv, PTL

\* In such a session recv() never waits with all of the answer read: some of it
\* is still to be sent, or still on the line.  pdl.py:70-92
THEOREM SwallowsNone == Spec => []NothingSwallowed
<1>1. PdlInv => NothingSwallowed
  <2> SUFFICES ASSUME PdlInv, pc = "recv", clean, owed = <<>> PROVE wire # <<>>
    BY DEF NothingSwallowed
  <2>1. sent \in DOMAIN Payloads
    BY PayloadsLen DEF PdlInv, TypeInv, CallInv, TypeOK
  <2> DEFINE f == Frame(sent)
  <2>2. f \in Seq(Byte) /\ Len(f) \in Nat \ {0}
    BY <2>1, FrameIs
  <2>3. Behind(wire, f) \/ Split(buf, wire, f)
    <3>1. owed # <<sent>>
      OBVIOUS
    <3> QED BY <3>1 DEF PdlInv, SessionInv
  <2> HIDE DEF f
  <2>4. CASE Behind(wire, f)
    <3>1. From(<<>>, 0 + 1) = <<>> /\ f # <<>>
      BY <2>2 DEF From
    <3> QED BY <2>4, <3>1 DEF Behind
  <2>5. CASE Split(buf, wire, f)
    <3>1. PICK k \in 1..(Len(f) - 1) : wire = From(f, k + 1)
      BY <2>5 DEF Split
    <3>2. k + 1 \in 1..(Len(f) + 1)
      BY <2>2
    <3>3. Len(wire) = Len(f) - (k + 1) + 1
      BY <2>2, <3>1, <3>2, FromIs
    <3> QED BY <2>2, <3>3
  <2> QED BY <2>3, <2>4, <2>5
<1> QED BY <1>1, AlwaysInv, PTL

(***************************************************************************)
(* The line as a FIFO of answers.  It is one run of bytes: each byte is    *)
(* followed by the next of its answer or by the first of the next answer,  *)
(* and the run ends where the agent's last answer does.  A read, a call    *)
(* that is given up and a new session take bytes from its front only.      *)
(***************************************************************************)

Run(w, a) ==
  /\ \A i \in 1..Len(w) :
       /\ w[i].of \in 1..a /\ w[i].at \in 1..Len(Frame(w[i].of))
       /\ w[i] = Frame(w[i].of)[w[i].at]
  /\ \A i \in 1..(Len(w) - 1) :
       IF w[i].at < Len(Frame(w[i].of))
       THEN w[i + 1].of = w[i].of /\ w[i + 1].at = w[i].at + 1
       ELSE w[i + 1].of = w[i].of + 1 /\ w[i + 1].at = 1
  /\ w # <<>> => w[Len(w)].of = a /\ w[Len(w)].at = Len(Frame(a))

\* No byte has the magic's value before the first answer starts.
Clear(w) == \A i \in MagicAt(w) : \E j \in 1..i : w[j].at = 1

Answered == sent - Len(owed)

FormInv ==
  /\ \A i \in DOMAIN owed : owed[i] = Answered + i
  /\ Run(Line, Answered)
  /\ ~fouled /\ pc # "closed" => Clear(Line)

LEMMA LeastIs ==
  ASSUME NEW T, T \subseteq Nat, T # {}
  PROVE  \E k \in T : \A y \in T : k <= y
<1>1. PICK k \in T : \A y \in T : ~(<<y, k>> \in OpToRel(<, Nat))
  BY NatLessThanWellFounded, WFMin
<1>2. \A y \in T : ~(y < k)
  BY <1>1 DEF OpToRel
<1> QED BY <1>2

LEMMA GreatestIs ==
  ASSUME NEW T, T \subseteq Nat, T # {}, NEW m \in Nat, \A t \in T : t <= m
  PROVE  \E p \in T : \A t \in T : t <= p
<1> DEFINE D == {k \in Nat : m - k \in T}
<1>1. D \subseteq Nat /\ D # {}
  <2>1. PICK t \in T : TRUE
    OBVIOUS
  <2>2. m - t \in Nat /\ m - (m - t) = t
    BY <2>1
  <2> QED BY <2>1, <2>2
<1>2. PICK k \in D : \A y \in D : k <= y
  <2> HIDE DEF D
  <2> QED BY <1>1, LeastIs
<1>3. ASSUME NEW t \in T PROVE t <= m - k
  <2>1. m - t \in Nat /\ m - (m - t) = t
    OBVIOUS
  <2>2. k <= m - t /\ k \in Nat
    BY <1>2, <2>1
  <2> QED BY <2>1, <2>2
<1> QED BY <1>2, <1>3

\* What is left of a sequence without its first m.
LEMMA CutIs ==
  ASSUME NEW S, NEW s \in Seq(S), NEW m \in 0..Len(s)
  PROVE  /\ From(s, m + 1) \in Seq(S) /\ Len(From(s, m + 1)) = Len(s) - m
         /\ \A i \in 1..(Len(s) - m) : From(s, m + 1)[i] = s[m + i]
<1>1. Len(s) \in Nat
  OBVIOUS
<1> DEFINE n == m + 1
<1>2. n \in 1..(Len(s) + 1) /\ Len(s) - n + 1 = Len(s) - m
  BY <1>1
<1>3. \A i \in 1..(Len(s) - m) : n + i - 1 = m + i
  BY <1>1
<1> HIDE DEF n
<1>4. /\ From(s, n) \in Seq(S) /\ Len(From(s, n)) = Len(s) - n + 1
      /\ \A i \in 1..(Len(s) - n + 1) : From(s, n)[i] = s[n + i - 1]
  BY <1>2, FromIs
<1>5. \A i \in 1..(Len(s) - m) : From(s, n)[i] = s[m + i]
  BY <1>2, <1>3, <1>4
<1> QED BY <1>2, <1>4, <1>5 DEF n

\* The bytes of x \o s, by their places in x and s.
LEMMA ConcatIs ==
  ASSUME NEW S, NEW x \in Seq(S), NEW s \in Seq(S)
  PROVE  /\ x \o s \in Seq(S) /\ Len(x \o s) = Len(x) + Len(s)
         /\ Len(x) \in Nat /\ Len(s) \in Nat
         /\ \A i \in 1..Len(x) : (x \o s)[i] = x[i]
         /\ \A i \in 1..Len(s) : (x \o s)[Len(x) + i] = s[i]
<1> DEFINE w == x \o s
<1>1. /\ w \in Seq(S) /\ Len(w) = Len(x) + Len(s)
      /\ \A i \in 1..Len(x) + Len(s) : w[i] = IF i <= Len(x) THEN x[i] ELSE s[i - Len(x)]
  BY ConcatProperties
<1>2. Len(x) \in Nat /\ Len(s) \in Nat
  OBVIOUS
<1> HIDE DEF w
<1>3. ASSUME NEW i \in 1..Len(s) PROVE w[Len(x) + i] = s[i]
  <2>1. Len(x) + i \in 1..Len(x) + Len(s) /\ ~(Len(x) + i <= Len(x)) /\ (Len(x) + i) - Len(x) = i
    BY <1>2
  <2> QED BY <1>1, <2>1
<1>4. ASSUME NEW i \in 1..Len(x) PROVE w[i] = x[i]
  <2>1. i \in 1..Len(x) + Len(s) /\ i <= Len(x)
    BY <1>2
  <2> QED BY <1>1, <2>1
<1> QED BY <1>1, <1>2, <1>3, <1>4 DEF w

\* What a read takes from the wire is what the buffer and the wire begin with.
LEMMA ReadLine ==
  ASSUME NEW b \in Seq(Byte), NEW w \in Seq(Byte), NEW n \in 0..Len(w)
  PROVE  /\ Len(b) + n \in 0..Len(b \o w)
         /\ b \o SubSeq(w, 1, n) = SubSeq(b \o w, 1, Len(b) + n)
         /\ From(w, n + 1) = From(b \o w, (Len(b) + n) + 1)
<1> DEFINE L == b \o w
           m == Len(b) + n
           s == SubSeq(w, 1, n)
           r == b \o s
           t == SubSeq(L, 1, m)
           v == From(w, n + 1)
           z == From(L, m + 1)
<1>1. /\ L \in Seq(Byte) /\ Len(L) = Len(b) + Len(w) /\ Len(b) \in Nat /\ Len(w) \in Nat
      /\ \A i \in 1..Len(b) : L[i] = b[i]
      /\ \A i \in 1..Len(w) : L[Len(b) + i] = w[i]
  BY ConcatIs
<1> HIDE DEF L
<1>2. m \in 0..Len(L) /\ m \in Nat /\ Len(L) - m = Len(w) - n
  BY <1>1
<1>3. s \in Seq(Byte) /\ Len(s) = n /\ \A i \in 1..n : s[i] = w[i]
  BY FirstIs
<1>4. /\ v \in Seq(Byte) /\ Len(v) = Len(w) - n
      /\ \A i \in 1..(Len(w) - n) : v[i] = w[n + i]
  BY CutIs
<1> HIDE DEF s, v
<1>m. m = Len(b) + n
  OBVIOUS
<1> HIDE DEF m
<1>5. t \in Seq(Byte) /\ Len(t) = m /\ \A i \in 1..m : t[i] = L[i]
  BY <1>1, <1>2, FirstIs
<1>6. /\ z \in Seq(Byte) /\ Len(z) = Len(L) - m
      /\ \A i \in 1..(Len(L) - m) : z[i] = L[m + i]
  BY <1>1, <1>2, CutIs
<1>7. /\ r \in Seq(Byte) /\ Len(r) = Len(b) + n
      /\ \A i \in 1..Len(b) : r[i] = b[i]
      /\ \A i \in 1..Len(s) : r[Len(b) + i] = s[i]
  <2>1. /\ b \o s \in Seq(Byte) /\ Len(b \o s) = Len(b) + Len(s)
        /\ \A i \in 1..Len(b) : (b \o s)[i] = b[i]
        /\ \A i \in 1..Len(s) : (b \o s)[Len(b) + i] = s[i]
    <3>1. b \in Seq(Byte) /\ s \in Seq(Byte)
      BY <1>3
    <3> QED BY <3>1, ConcatIs
  <2> QED BY <1>3, <2>1
<1> HIDE DEF r, t, z
<1>8. r = t
  <2>1. ASSUME NEW i \in 1..m PROVE r[i] = t[i]
    <3>1. CASE i <= Len(b)
      <4>1. i \in 1..Len(b)
        BY <1>1, <3>1
      <4> QED BY <1>1, <1>5, <1>7, <4>1
    <3>2. CASE i > Len(b)
      <4> DEFINE j == i - Len(b)
      <4>1. j \in 1..n /\ Len(b) + j = i /\ j \in 1..Len(w)
        BY <1>1, <1>m, <3>2
      <4> HIDE DEF j
      <4>2. r[Len(b) + j] = w[j] /\ L[Len(b) + j] = w[j]
        BY <1>1, <1>3, <1>7, <4>1
      <4> QED BY <1>5, <4>1, <4>2
    <3> QED BY <1>1, <1>2, <3>1, <3>2
  <2> QED BY <1>5, <1>7, <1>m, <2>1, SeqEqual
<1>9. v = z
  <2>1. ASSUME NEW i \in 1..(Len(w) - n) PROVE v[i] = z[i]
    <3> DEFINE j == n + i
    <3>1. j \in 1..Len(w) /\ Len(b) + j = m + i
      BY <1>1, <1>m
    <3>2. v[i] = w[j]
      BY <1>4
    <3> HIDE DEF j
    <3>3. L[Len(b) + j] = w[j]
      BY <1>1, <3>1
    <3>4. z[i] = L[m + i]
      BY <1>2, <1>6
    <3> QED BY <3>1, <3>2, <3>3, <3>4
  <2> QED BY <1>2, <1>4, <1>6, <2>1, SeqEqual
<1> QED BY <1>2, <1>8, <1>9 DEF L, m, s, r, t, v, z

\* What the buffer keeps of the bytes read and what is still on the wire are
\* what is left of the line.
LEMMA KeptLine ==
  ASSUME NEW w \in Seq(Byte), NEW m \in 0..Len(w), NEW k \in 0..m
  PROVE  From(SubSeq(w, 1, m), k + 1) \o From(w, m + 1) = From(w, k + 1)
<1> DEFINE s == SubSeq(w, 1, m)
           x == From(s, k + 1)
           y == From(w, m + 1)
           z == From(w, k + 1)
<1>0. Len(w) \in Nat /\ k \in 0..Len(w)
  OBVIOUS
<1>1. s \in Seq(Byte) /\ Len(s) = m /\ \A i \in 1..m : s[i] = w[i]
  BY FirstIs
<1> HIDE DEF s
<1>2. x \in Seq(Byte) /\ Len(x) = m - k /\ \A i \in 1..(m - k) : x[i] = s[k + i]
  BY <1>1, CutIs
<1>3. y \in Seq(Byte) /\ Len(y) = Len(w) - m /\ \A i \in 1..(Len(w) - m) : y[i] = w[m + i]
  BY CutIs
<1>4. z \in Seq(Byte) /\ Len(z) = Len(w) - k /\ \A i \in 1..(Len(w) - k) : z[i] = w[k + i]
  BY <1>0, CutIs
<1> HIDE DEF x, y, z
<1> DEFINE q == x \o y
<1>5. /\ q \in Seq(Byte) /\ Len(q) = Len(x) + Len(y)
      /\ \A i \in 1..Len(x) : q[i] = x[i]
      /\ \A i \in 1..Len(y) : q[Len(x) + i] = y[i]
  <2>1. /\ x \o y \in Seq(Byte) /\ Len(x \o y) = Len(x) + Len(y)
        /\ \A i \in 1..Len(x) : (x \o y)[i] = x[i]
        /\ \A i \in 1..Len(y) : (x \o y)[Len(x) + i] = y[i]
    <3>1. x \in Seq(Byte) /\ y \in Seq(Byte)
      BY <1>2, <1>3
    <3> QED BY <3>1, ConcatIs
  <2> QED BY <2>1
<1> HIDE DEF q
<1>6. Len(q) = Len(z)
  BY <1>0, <1>2, <1>3, <1>4, <1>5
<1>7. ASSUME NEW i \in 1..Len(q) PROVE q[i] = z[i]
  <2>1. CASE i <= m - k
    <3>1. i \in 1..Len(x) /\ k + i \in 1..m /\ i \in 1..(Len(w) - k) /\ i \in 1..(m - k)
      BY <1>0, <1>2, <2>1
    <3> QED BY <1>1, <1>2, <1>4, <1>5, <3>1
  <2>2. CASE i > m - k
    <3> DEFINE j == i - (m - k)
    <3>1. j \in 1..Len(y) /\ j \in 1..(Len(w) - m) /\ Len(x) + j = i /\ m + j = k + i /\ i \in 1..(Len(w) - k)
      BY <1>0, <1>2, <1>3, <1>5, <2>2
    <3> HIDE DEF j
    <3>2. q[Len(x) + j] = y[j] /\ y[j] = w[m + j] /\ z[i] = w[k + i]
      BY <1>3, <1>4, <1>5, <3>1
    <3> QED BY <3>1, <3>2
  <2> QED BY <1>0, <1>2, <1>5, <2>1, <2>2
<1> QED BY <1>4, <1>5, <1>6, <1>7, SeqEqual DEF q, x, y, z, s

(***************************************************************************)
(* Runs of bytes.                                                          *)
(***************************************************************************)

LEMMA Induction ==
  ASSUME NEW S, 0 \in S, \A n \in Nat : n \in S => n + 1 \in S
  PROVE  \A n \in Nat : n \in S
<1> SUFFICES ASSUME NEW m \in Nat, m \notin S PROVE FALSE
  OBVIOUS
<1> DEFINE T == {n \in Nat : n \notin S}
<1>1. PICK k \in T : \A y \in T : ~(<<y, k>> \in OpToRel(<, Nat))
  BY NatLessThanWellFounded, WFMin
<1>2. \A y \in T : ~(y < k)
  BY <1>1 DEF OpToRel
<1>3. k \in Nat /\ k \notin S /\ k # 0
  BY <1>1
<1>4. k - 1 \in Nat /\ k - 1 < k /\ (k - 1) + 1 = k
  BY <1>3
<1> QED BY <1>2, <1>3, <1>4

\* On a run the commands do not decrease.
LEMMA RunRises ==
  ASSUME NEW w \in Seq(Byte), NEW a \in Nat, Run(w, a),
         NEW i \in 1..Len(w), NEW j \in i..Len(w)
  PROVE  w[i].of <= w[j].of
<1> DEFINE T == {k \in i..Len(w) : w[k].of < w[i].of}
<1>1. Len(w) \in Nat /\ \A k \in 1..Len(w) : w[k].of \in 1..a
  BY DEF Run
<1>2. SUFFICES ASSUME T # {} PROVE FALSE
  BY <1>1, <1>2
<1>3. T \subseteq Nat
  BY <1>1
<1>4. PICK k \in T : \A y \in T : k <= y
  <2> HIDE DEF T
  <2> QED BY <1>2, <1>3, LeastIs
<1>5. k # i /\ k \in i..Len(w) /\ w[k].of < w[i].of
  BY <1>1, <1>4
<1> DEFINE l == k - 1
<1>6. l \in i..Len(w) /\ l \in 1..(Len(w) - 1) /\ l < k /\ l + 1 = k
  BY <1>1, <1>5
<1> HIDE DEF l
<1>7. ~(w[l].of < w[i].of)
  BY <1>1, <1>4, <1>6
<1>8. w[l + 1].of = w[l].of \/ w[l + 1].of = w[l].of + 1
  BY <1>6 DEF Run
<1>9. w[l].of \in 1..a /\ w[i].of \in 1..a /\ l \in 1..Len(w)
  BY <1>1, <1>6
<1> QED BY <1>5, <1>6, <1>7, <1>8, <1>9

\* The start of an answer is followed by all of it.
LEMMA RunHolds ==
  ASSUME NEW w \in Seq(Byte), NEW a \in Nat, a <= Len(Payloads), Run(w, a),
         NEW p \in 1..Len(w), w[p].at = 1
  PROVE  LET f == Frame(w[p].of) IN
         /\ w[p].of \in 1..a /\ w[p].of \in DOMAIN Payloads
         /\ \A k \in 0..(Len(f) - 1) : p + k \in 1..Len(w) /\ w[p + k] = f[k + 1]
                                       /\ w[p + k].of = w[p].of /\ w[p + k].at = k + 1
<1> DEFINE c == w[p].of
           f == Frame(c)
           S == {k \in Nat : k <= Len(f) - 1 =>
                   p + k \in 1..Len(w) /\ w[p + k].of = c /\ w[p + k].at = k + 1}
<1>1. Len(w) \in Nat /\ c \in 1..a /\ c \in DOMAIN Payloads
  BY PayloadsLen DEF Run
<1>2. f \in Seq(Byte) /\ Len(f) \in Nat \ {0}
  BY <1>1, FrameIs
<1>3. 0 \in S
  <2>1. p + 0 = p /\ 0 + 1 = 1
    OBVIOUS
  <2> QED BY <2>1
<1>4. ASSUME NEW k \in Nat, k \in S PROVE k + 1 \in S
  <2> SUFFICES ASSUME k + 1 <= Len(f) - 1
               PROVE  /\ p + (k + 1) \in 1..Len(w)
                      /\ w[p + (k + 1)].of = c /\ w[p + (k + 1)].at = (k + 1) + 1
    OBVIOUS
  <2> DEFINE q == p + k
  <2>1. q \in 1..Len(w) /\ w[q].of = c /\ w[q].at = k + 1 /\ p + (k + 1) = q + 1
    BY <1>2, <1>4
  <2> HIDE DEF q, f, c
  <2>2. w[q].at < Len(f)
    BY <1>2, <2>1
  <2>3. q # Len(w)
    <3>1. q = Len(w) => c = a /\ w[q].at = Len(Frame(a)) /\ w # <<>>
      BY <1>1, <2>1 DEF Run
    <3> QED BY <1>2, <2>2, <3>1 DEF f
  <2>4. q \in 1..(Len(w) - 1)
    BY <1>1, <2>1, <2>3
  <2>5. w[q + 1].of = w[q].of /\ w[q + 1].at = w[q].at + 1
    BY <2>1, <2>2, <2>4 DEF Run, f
  <2>6. q + 1 \in 1..Len(w)
    BY <1>1, <2>4
  <2> QED BY <2>1, <2>5, <2>6
<1>5. \A k \in Nat : k \in S
  <2> HIDE DEF S
  <2> QED BY <1>3, <1>4, Induction
<1>6. ASSUME NEW k \in 0..(Len(f) - 1)
      PROVE  p + k \in 1..Len(w) /\ w[p + k] = f[k + 1] /\ w[p + k].of = c /\ w[p + k].at = k + 1
  <2>1. k \in Nat /\ k <= Len(f) - 1
    BY <1>2
  <2>2. p + k \in 1..Len(w) /\ w[p + k].of = c /\ w[p + k].at = k + 1
    BY <1>5, <2>1
  <2>3. w[p + k] = Frame(w[p + k].of)[w[p + k].at]
    BY <2>2 DEF Run
  <2> QED BY <2>2, <2>3
<1> QED BY <1>1, <1>6

\* With an answer all later ones start on a run.
LEMMA BegunUp ==
  ASSUME NEW w \in Seq(Byte), NEW a \in Nat, Run(w, a), NEW c \in Begun(w), NEW d \in c..a
  PROVE  c \in 1..a /\ d \in Begun(w)
<1>1. Len(w) \in Nat /\ \A k \in 1..Len(w) : w[k].of \in 1..a
  BY DEF Run
<1>2. PICK i \in 1..Len(w) : w[i].at = 1 /\ w[i].of = c
  BY DEF Begun
<1>3. c \in 1..a
  BY <1>1, <1>2
<1>4. CASE d = c
  BY <1>3, <1>4
<1>5. CASE d # c
  <2>1. c < d /\ d \in 1..a
    BY <1>3, <1>5
  <2> DEFINE T == {k \in 1..Len(w) : w[k].of < d}
  <2>2. T \subseteq Nat /\ i \in T /\ \A t \in T : t <= Len(w)
    BY <1>1, <1>2, <2>1
  <2>3. PICK k \in T : \A t \in T : t <= k
    <3> HIDE DEF T
    <3> QED BY <1>1, <2>2, GreatestIs
  <2>4. k \in 1..Len(w) /\ w[k].of < d
    BY <2>3
  <2>5. k # Len(w)
    <3>1. k = Len(w) => w[k].of = a
      BY <1>1, <2>4 DEF Run
    <3> QED BY <2>1, <2>4, <3>1
  <2>6. k \in 1..(Len(w) - 1) /\ k + 1 \in 1..Len(w) /\ ~(k + 1 <= k)
    BY <1>1, <2>4, <2>5
  <2>7. ~(w[k + 1].of < d)
    BY <2>3, <2>6
  <2>8. \/ w[k + 1].of = w[k].of
        \/ w[k + 1].of = w[k].of + 1 /\ w[k + 1].at = 1
    BY <2>6 DEF Run
  <2>9. w[k].of \in 1..a /\ w[k + 1].of \in 1..a
    BY <1>1, <2>4, <2>6
  <2>10. w[k + 1].of = d /\ w[k + 1].at = 1
    BY <2>1, <2>4, <2>7, <2>8, <2>9
  <2>11. k + 1 \in DOMAIN w
    BY <2>6
  <2> QED BY <1>3, <2>10, <2>11 DEF Begun
<1> QED BY <1>4, <1>5

\* The answers pending on a run.
Pend(w) == IF Begun(w) = {} THEN <<>> ELSE SubSeq(Payloads, Min(Begun(w)), Max(Begun(w)))

LEMMA PendIs ==
  ASSUME NEW w \in Seq(Byte), NEW a \in Nat, a <= Len(Payloads), Run(w, a)
  PROVE  \E f \in 1..(a + 1) : Begun(w) = f..a /\ Pend(w) = SubSeq(Payloads, f, a)
<1>1. CASE Begun(w) = {}
  <2>1. a + 1 \in 1..(a + 1) /\ (a + 1)..a = {}
    OBVIOUS
  <2>2. SubSeq(Payloads, a + 1, a) = <<>>
    BY SubSeqEmpty
  <2> QED BY <1>1, <2>1, <2>2 DEF Pend
<1>2. CASE Begun(w) # {}
  <2>1. Begun(w) \subseteq 1..a
    BY DEF Run, Begun
  <2>2. PICK f \in Begun(w) : \A y \in Begun(w) : f <= y
    <3>1. Begun(w) \subseteq Nat
      BY <2>1
    <3> QED BY <1>2, <3>1, LeastIs
  <2>3. Begun(w) = f..a
    <3>1. ASSUME NEW d \in Begun(w) PROVE d \in f..a
      BY <2>1, <2>2
    <3>2. ASSUME NEW d \in f..a PROVE d \in Begun(w)
      BY BegunUp
    <3> QED BY <3>1, <3>2
  <2>4. f \in 1..a
    BY <2>1
  <2>5. Min(Begun(w)) = f
    <3>1. \A x \in f..a : (\A y \in f..a : x <= y) => x = f
      BY <2>4
    <3>2. f \in f..a /\ \A y \in f..a : f <= y
      BY <2>4
    <3> QED BY <2>3, <3>1, <3>2 DEF Min
  <2>6. Max(Begun(w)) = a
    <3>1. \A x \in f..a : (\A y \in f..a : x >= y) => x = a
      BY <2>4
    <3>2. a \in f..a /\ \A y \in f..a : a >= y
      BY <2>4
    <3> QED BY <2>3, <3>1, <3>2 DEF Max
  <2>7. f \in 1..(a + 1)
    BY <2>4
  <2> QED BY <1>2, <2>3, <2>5, <2>6, <2>7 DEF Pend
<1> QED BY <1>1, <1>2

\* What is left of a run is a run, on which no other answers start.
LEMMA RunCut ==
  ASSUME NEW w \in Seq(Byte), NEW a \in Nat, Run(w, a), NEW m \in 0..Len(w)
  PROVE  Run(From(w, m + 1), a) /\ Begun(From(w, m + 1)) \subseteq Begun(w)
<1> DEFINE v == From(w, m + 1)
<1>1. /\ v \in Seq(Byte) /\ Len(v) = Len(w) - m /\ Len(w) \in Nat
      /\ \A i \in 1..(Len(w) - m) : v[i] = w[m + i]
  <2>1. /\ From(w, m + 1) \in Seq(Byte) /\ Len(From(w, m + 1)) = Len(w) - m
        /\ \A i \in 1..(Len(w) - m) : From(w, m + 1)[i] = w[m + i]
    BY CutIs
  <2>2. Len(w) \in Nat
    OBVIOUS
  <2> QED BY <2>1, <2>2
<1> HIDE DEF v
<1>2. ASSUME NEW i \in 1..Len(v)
      PROVE  m + i \in 1..Len(w) /\ v[i] = w[m + i]
  BY <1>1
<1>3. ASSUME NEW i \in 1..Len(v)
      PROVE  /\ v[i].of \in 1..a /\ v[i].at \in 1..Len(Frame(v[i].of))
             /\ v[i] = Frame(v[i].of)[v[i].at]
  <2> DEFINE k == m + i
  <2>1. k \in 1..Len(w) /\ v[i] = w[k]
    BY <1>2
  <2> HIDE DEF k
  <2>2. /\ w[k].of \in 1..a /\ w[k].at \in 1..Len(Frame(w[k].of))
        /\ w[k] = Frame(w[k].of)[w[k].at]
    BY <2>1 DEF Run
  <2> QED BY <2>1, <2>2
<1>4. ASSUME NEW i \in 1..(Len(v) - 1)
      PROVE  IF v[i].at < Len(Frame(v[i].of))
             THEN v[i + 1].of = v[i].of /\ v[i + 1].at = v[i].at + 1
             ELSE v[i + 1].of = v[i].of + 1 /\ v[i + 1].at = 1
  <2> DEFINE k == m + i
  <2>1. i \in 1..Len(v) /\ i + 1 \in 1..Len(v) /\ m + (i + 1) = k + 1
    BY <1>1
  <2>2. k \in 1..(Len(w) - 1) /\ v[i] = w[k] /\ v[i + 1] = w[m + (i + 1)]
    BY <1>1, <1>2, <2>1
  <2> HIDE DEF k
  <2>3. IF w[k].at < Len(Frame(w[k].of))
        THEN w[k + 1].of = w[k].of /\ w[k + 1].at = w[k].at + 1
        ELSE w[k + 1].of = w[k].of + 1 /\ w[k + 1].at = 1
    BY <2>2 DEF Run
  <2> QED BY <2>1, <2>2, <2>3
<1>5. ASSUME v # <<>> PROVE v[Len(v)].of = a /\ v[Len(v)].at = Len(Frame(a))
  <2>1. Len(v) \in 1..Len(v) /\ m + Len(v) = Len(w) /\ w # <<>>
    BY <1>1, <1>5
  <2>2. v[Len(v)] = w[Len(w)]
    BY <1>2, <2>1
  <2> QED BY <2>1, <2>2 DEF Run
<1>6. Run(v, a)
  BY <1>3, <1>4, <1>5 DEF Run
<1>7. Begun(v) \subseteq Begun(w)
  <2> SUFFICES ASSUME NEW i \in DOMAIN v, v[i].at = 1 PROVE v[i].of \in Begun(w)
    BY DEF Begun
  <2>1. m + i \in 1..Len(w) /\ v[i] = w[m + i]
    BY <1>1, <1>2
  <2> QED BY <2>1 DEF Begun
<1> QED BY <1>6, <1>7 DEF v

\* The agent's next answer goes on with the run, and one more answer starts.
LEMMA RunAppend ==
  ASSUME NEW w \in Seq(Byte), NEW a \in Nat, Run(w, a), a + 1 \in DOMAIN Payloads
  PROVE  Run(w \o Frame(a + 1), a + 1) /\ Begun(w \o Frame(a + 1)) = Begun(w) \cup {a + 1}
<1> DEFINE c == a + 1
           f == Frame(c)
           v == w \o f
<1>1. f \in Seq(Byte) /\ Len(f) \in Nat \ {0} /\ c \in DOMAIN Payloads
  BY FrameIs
<1>2. ASSUME NEW k \in 1..Len(f)
      PROVE  f[k].of = c /\ f[k].at = k /\ f[k] = Frame(f[k].of)[f[k].at]
  <2>1. f[k].of = c /\ f[k].at = k
    BY DEF Frame
  <2> QED BY <2>1
<1>c. c = a + 1
  OBVIOUS
<1> HIDE DEF f, c
<1>3. /\ v \in Seq(Byte) /\ Len(v) = Len(w) + Len(f) /\ Len(w) \in Nat
      /\ \A i \in 1..Len(w) : v[i] = w[i]
      /\ \A i \in 1..Len(f) : v[Len(w) + i] = f[i]
  <2>1. /\ w \o f \in Seq(Byte) /\ Len(w \o f) = Len(w) + Len(f) /\ Len(w) \in Nat
        /\ \A i \in 1..Len(w) : (w \o f)[i] = w[i]
        /\ \A i \in 1..Len(f) : (w \o f)[Len(w) + i] = f[i]
    BY <1>1, ConcatIs
  <2> QED BY <2>1
<1> HIDE DEF v
<1>4. ASSUME NEW i \in 1..Len(v)
      PROVE  i \in 1..Len(w) \/ \E k \in 1..Len(f) : i = Len(w) + k
  <2> DEFINE k == i - Len(w)
  <2>1. i \in 1..Len(w) \/ (k \in 1..Len(f) /\ i = Len(w) + k)
    BY <1>1, <1>3
  <2> HIDE DEF k
  <2> QED BY <2>1
<1>5. ASSUME NEW i \in 1..Len(v)
      PROVE  /\ v[i].of \in 1..c /\ v[i].at \in 1..Len(Frame(v[i].of))
             /\ v[i] = Frame(v[i].of)[v[i].at]
  <2>1. CASE i \in 1..Len(w)
    <3>1. /\ w[i].of \in 1..a /\ w[i].at \in 1..Len(Frame(w[i].of))
          /\ w[i] = Frame(w[i].of)[w[i].at]
      BY <2>1 DEF Run
    <3>2. w[i].of \in 1..c
      BY <1>c, <3>1
    <3> QED BY <1>3, <2>1, <3>1, <3>2
  <2>2. CASE \E k \in 1..Len(f) : i = Len(w) + k
    <3>1. PICK k \in 1..Len(f) : i = Len(w) + k
      BY <2>2
    <3>2. v[i] = f[k]
      BY <1>3, <3>1
    <3>3. c \in 1..c
      BY <1>c
    <3>4. f[k].of = c /\ f[k].at = k /\ f[k] = Frame(f[k].of)[f[k].at]
      BY <1>2
    <3> QED BY <3>2, <3>3, <3>4 DEF f
  <2> QED BY <1>4, <2>1, <2>2
<1>6. ASSUME NEW i \in 1..(Len(v) - 1)
      PROVE  IF v[i].at < Len(Frame(v[i].of))
             THEN v[i + 1].of = v[i].of /\ v[i + 1].at = v[i].at + 1
             ELSE v[i + 1].of = v[i].of + 1 /\ v[i + 1].at = 1
  <2>0. i \in 1..Len(v)
    BY <1>1, <1>3
  <2>1. CASE i \in 1..(Len(w) - 1)
    <3>1. i \in 1..Len(w) /\ i + 1 \in 1..Len(w)
      BY <1>3, <2>1
    <3>2. v[i] = w[i] /\ v[i + 1] = w[i + 1]
      BY <1>3, <3>1
    <3> QED BY <2>1, <3>2 DEF Run
  <2>2. CASE i = Len(w)
    <3>1. 1 \in 1..Len(f) /\ i \in 1..Len(w) /\ w # <<>>
      BY <1>1, <1>3, <2>2
    <3>2. v[i] = w[i] /\ v[i + 1] = f[1] /\ f[1].of = c /\ f[1].at = 1
      BY <1>2, <1>3, <2>2, <3>1
    <3>3. w[i].of = a /\ w[i].at = Len(Frame(a))
      BY <2>2, <3>1 DEF Run
    <3>4. ~(Len(Frame(a)) < Len(Frame(a)))
      <4>1. w[i].at \in 1..Len(Frame(w[i].of)) /\ w[i] \in Byte
        BY <3>1 DEF Run
      <4>2. Len(Frame(a)) \in Nat
        BY <3>3, <4>1 DEF Byte
      <4> QED BY <4>2
    <3> QED BY <1>c, <3>2, <3>3, <3>4
  <2>3. CASE i > Len(w)
    <3> DEFINE k == i - Len(w)
    <3>1. k \in 1..Len(f) /\ k + 1 \in 1..Len(f) /\ i = Len(w) + k /\ i + 1 = Len(w) + (k + 1) /\ k < Len(f)
      BY <1>1, <1>3, <2>3
    <3> HIDE DEF k
    <3>2. v[i] = f[k] /\ v[i + 1] = f[k + 1]
      BY <1>3, <3>1
    <3>3. f[k].of = c /\ f[k].at = k /\ f[k + 1].of = c /\ f[k + 1].at = k + 1
      BY <1>2, <3>1
    <3> QED BY <3>1, <3>2, <3>3 DEF f
  <2> QED BY <1>3, <2>0, <2>1, <2>2, <2>3
<1>7. v[Len(v)].of = c /\ v[Len(v)].at = Len(Frame(c))
  <2>1. Len(f) \in 1..Len(f)
    BY <1>1
  <2>2. v[Len(v)] = f[Len(f)]
    BY <1>3, <2>1
  <2> QED BY <1>2, <2>1, <2>2 DEF f
<1>8. Run(v, c)
  BY <1>5, <1>6, <1>7 DEF Run
<1>9. Begun(v) = Begun(w) \cup {c}
  <2>1. ASSUME NEW i \in 1..Len(v), v[i].at = 1 PROVE v[i].of \in Begun(w) \cup {c}
    <3>1. CASE i \in 1..Len(w)
      BY <1>3, <2>1, <3>1 DEF Begun
    <3>2. CASE \E k \in 1..Len(f) : i = Len(w) + k
      BY <1>2, <1>3, <3>2
    <3> QED BY <1>4, <3>1, <3>2
  <2>2. ASSUME NEW i \in 1..Len(w), w[i].at = 1 PROVE w[i].of \in Begun(v)
    <3>1. i \in DOMAIN v /\ v[i] = w[i]
      BY <1>1, <1>3
    <3> QED BY <2>2, <3>1 DEF Begun
  <2>3. c \in Begun(v)
    <3>1. 1 \in 1..Len(f) /\ Len(w) + 1 \in DOMAIN v
      BY <1>1, <1>3
    <3>2. v[Len(w) + 1].at = 1 /\ v[Len(w) + 1].of = c
      BY <1>2, <1>3, <3>1
    <3> QED BY <3>1, <3>2 DEF Begun
  <2>4. DOMAIN w = 1..Len(w) /\ DOMAIN v = 1..Len(v)
    BY <1>3
  <2>5. Begun(v) \subseteq Begun(w) \cup {c}
    <3> SUFFICES ASSUME NEW x \in Begun(v) PROVE x \in Begun(w) \cup {c}
      OBVIOUS
    <3>1. PICK i \in DOMAIN v : v[i].at = 1 /\ v[i].of = x
      BY DEF Begun
    <3> QED BY <2>1, <2>4, <3>1
  <2>6. Begun(w) \subseteq Begun(v)
    <3> SUFFICES ASSUME NEW x \in Begun(w) PROVE x \in Begun(v)
      OBVIOUS
    <3>1. PICK i \in DOMAIN w : w[i].at = 1 /\ w[i].of = x
      BY DEF Begun
    <3> QED BY <2>2, <2>4, <3>1
  <2> QED BY <2>3, <2>5, <2>6
<1> QED BY <1>8, <1>9, <1>c DEF v, f, c

\* A line that does not begin with a foul tail is clear.
LEMMA ClearUnlessFoul ==
  ASSUME NEW w \in Seq(Byte), NEW a \in Nat, Run(w, a), ~Foul(w)
  PROVE  Clear(w)
<1> SUFFICES ASSUME NEW i \in MagicAt(w), \A j \in 1..i : w[j].at # 1 PROVE FALSE
  BY DEF Clear
<1>1. i \in 1..Len(w) /\ Len(w) \in Nat /\ DOMAIN w = 1..Len(w) /\ w # <<>>
  BY DEF MagicAt
<1> DEFINE T == {k \in 1..i : w[k].of # w[1].of}
<1>2. T = {}
  <2> SUFFICES ASSUME T # {} PROVE FALSE
    OBVIOUS
  <2>1. T \subseteq Nat
    OBVIOUS
  <2>2. PICK k \in T : \A y \in T : k <= y
    <3> HIDE DEF T
    <3> QED BY <2>1, LeastIs
  <2>3. k \in 1..i /\ w[k].of # w[1].of
    BY <2>2
  <2> DEFINE l == k - 1
  <2>4. l \in 1..i /\ l \in 1..(Len(w) - 1) /\ l + 1 = k /\ ~(k <= l)
    BY <1>1, <2>3
  <2> HIDE DEF l
  <2>5. w[l].of = w[1].of
    BY <2>2, <2>4
  <2>6. w[l + 1].of = w[l].of \/ w[l + 1].at = 1
    BY <2>4 DEF Run
  <2> QED BY <2>3, <2>4, <2>5, <2>6
<1>3. w[i].of = w[1].of
  BY <1>1, <1>2
<1>4. w[1].at > 1
  <2>1. 1 \in 1..i /\ 1 \in 1..Len(w)
    BY <1>1
  <2>2. w[1].at # 1 /\ w[1] \in Byte /\ w[1].at \in 1..Len(Frame(w[1].of))
    BY <2>1 DEF Run
  <2>3. w[1].at \in Nat /\ w[1].at >= 1
    BY <2>2 DEF Byte
  <2> QED BY <2>2, <2>3
<1> QED BY <1>1, <1>3, <1>4 DEF Foul

\* What recv() discards of a clear line is no start of an answer.
LEMMA ClearCut ==
  ASSUME NEW w \in Seq(Byte), NEW a \in Nat, a <= Len(Payloads), Run(w, a), Clear(w),
         NEW m \in 0..Len(w), \A i \in 1..m : w[i].v # Magic
  PROVE  Clear(From(w, m + 1)) /\ Begun(From(w, m + 1)) = Begun(w)
<1> DEFINE v == From(w, m + 1)
<1>1. /\ v \in Seq(Byte) /\ Len(v) = Len(w) - m /\ Len(w) \in Nat
      /\ \A i \in 1..(Len(w) - m) : v[i] = w[m + i]
  <2>1. /\ From(w, m + 1) \in Seq(Byte) /\ Len(From(w, m + 1)) = Len(w) - m
        /\ \A i \in 1..(Len(w) - m) : From(w, m + 1)[i] = w[m + i]
    BY CutIs
  <2>2. Len(w) \in Nat
    OBVIOUS
  <2> QED BY <2>1, <2>2
<1>2. Begun(v) \subseteq Begun(w)
  BY RunCut
<1> HIDE DEF v
<1>3. ASSUME NEW j \in 1..Len(w), w[j].at = 1
      PROVE  j > m /\ j - m \in 1..Len(v) /\ v[j - m] = w[j]
  <2>1. w[j].of \in DOMAIN Payloads /\ w[j] = Frame(w[j].of)[1]
    BY <1>3, PayloadsLen DEF Run
  <2>2. w[j].v = Magic
    BY <2>1, FrameIs
  <2>3. j > m
    BY <1>1, <2>2
  <2> DEFINE k == j - m
  <2>4. k \in 1..(Len(w) - m) /\ m + k = j
    BY <1>1, <2>3
  <2> HIDE DEF k
  <2>5. v[k] = w[j] /\ k \in 1..Len(v)
    BY <1>1, <2>4
  <2> QED BY <2>3, <2>5 DEF k
<1>4. Begun(w) \subseteq Begun(v)
  <2> SUFFICES ASSUME NEW j \in DOMAIN w, w[j].at = 1 PROVE w[j].of \in Begun(v)
    BY DEF Begun
  <2>1. j - m \in DOMAIN v /\ v[j - m] = w[j]
    BY <1>1, <1>3
  <2> QED BY <2>1 DEF Begun
<1>5. Clear(v)
  <2> SUFFICES ASSUME NEW i \in MagicAt(v) PROVE \E j \in 1..i : v[j].at = 1
    BY DEF Clear
  <2>1. i \in 1..(Len(w) - m) /\ v[i].v = Magic /\ v[i] = w[m + i]
    BY <1>1 DEF MagicAt
  <2>2. m + i \in MagicAt(w)
    BY <1>1, <2>1 DEF MagicAt
  <2>3. PICK j \in 1..(m + i) : w[j].at = 1
    BY <2>2 DEF Clear
  <2>4. j \in 1..Len(w)
    BY <1>1, <2>1
  <2>5. j > m /\ j - m \in 1..Len(v) /\ v[j - m] = w[j]
    BY <1>3, <2>3, <2>4
  <2>6. j - m \in 1..i
    BY <1>1, <2>1, <2>5
  <2> QED BY <2>3, <2>5, <2>6
<1> QED BY <1>2, <1>4, <1>5 DEF v

\* On a clear line the first magic is where the first answer starts.
LEMMA FirstStart ==
  ASSUME NEW w \in Seq(Byte), NEW a \in Nat, a <= Len(Payloads), Run(w, a), Clear(w),
         NEW p \in 1..Len(w), w[p].v = Magic, \A i \in 1..(p - 1) : w[i].v # Magic
  PROVE  w[p].at = 1
<1>1. p \in MagicAt(w)
  BY DEF MagicAt
<1>2. PICK j \in 1..p : w[j].at = 1
  BY <1>1 DEF Clear
<1>3. j \in 1..Len(w)
  OBVIOUS
<1>4. w[j].of \in DOMAIN Payloads /\ w[j] = Frame(w[j].of)[1]
  BY <1>2, <1>3, PayloadsLen DEF Run
<1>5. w[j].v = Magic
  BY <1>4, FrameIs
<1>6. j = p
  BY <1>5
<1> QED BY <1>2, <1>6

(***************************************************************************)
(* What a read and what a call leave of the line.                          *)
(***************************************************************************)

LEMMA ResyncKeeps ==
  ASSUME NEW r \in Seq(Byte)
  PROVE  \E q \in 0..Len(r) :
           /\ \A i \in 1..q : r[i].v # Magic
           /\ Resync(r) = From(r, q + 1)
           /\ q < Len(r) => r[q + 1].v = Magic
<1>1. DOMAIN r = 1..Len(r) /\ Len(r) \in Nat
  OBVIOUS
<1>2. CASE MagicAt(r) = {}
  <2>1. \A i \in 1..Len(r) : r[i].v # Magic
    BY <1>1, <1>2 DEF MagicAt
  <2>2. Resync(r) = <<>>
    BY <2>1, ResyncIs
  <2>3. Len(r) \in 0..Len(r) /\ ~(Len(r) < Len(r))
    BY <1>1
  <2>4. From(r, Len(r) + 1) \in Seq(Byte) /\ Len(From(r, Len(r) + 1)) = Len(r) - Len(r)
    BY <2>3, CutIs
  <2>5. From(r, Len(r) + 1) = <<>>
    <3>1. Len(From(r, Len(r) + 1)) = 0
      BY <1>1, <2>4
    <3> QED BY <2>4, <3>1, EmptySeq
  <2> QED BY <2>1, <2>2, <2>3, <2>5
<1>3. CASE MagicAt(r) # {}
  <2>1. MagicAt(r) \subseteq Nat
    BY <1>1 DEF MagicAt
  <2>2. PICK p \in MagicAt(r) : \A y \in MagicAt(r) : p <= y
    BY <1>3, <2>1, LeastIs
  <2>3. p \in 1..Len(r) /\ r[p].v = Magic
    BY <1>1 DEF MagicAt
  <2>4. ASSUME NEW i \in 1..(p - 1) PROVE r[i].v # Magic
    <3>1. i \in 1..Len(r) /\ ~(p <= i)
      BY <1>1, <2>3
    <3> QED BY <1>1, <2>2, <3>1 DEF MagicAt
  <2>5. Resync(r) = From(r, p)
    BY <2>3, <2>4, ResyncIs
  <2> DEFINE q == p - 1
  <2>6. q \in 0..Len(r) /\ q + 1 = p
    BY <1>1, <2>3
  <2> HIDE DEF q
  <2>7. \A i \in 1..q : r[i].v # Magic
    BY <2>4 DEF q
  <2> QED BY <2>3, <2>5, <2>6, <2>7
<1> QED BY <1>2, <1>3

LEMMA LineType == TypeInv => Line \in Seq(Byte)
<1> SUFFICES ASSUME TypeInv PROVE buf \o wire \in Seq(Byte)
  BY DEF Line
<1>1. wire \in Seq(Byte) /\ buf \in Seq(Byte)
  BY DEF TypeInv, TypeOK, Byte
<1> QED BY <1>1, ConcatProperties

\* A read discards the first q bytes of the line, none of which is the magic;
\* the buffer b then starts with the magic, and ends where the wire w begins.
Left(b, w, m, q) ==
  /\ \A i \in 1..q : Line[i].v # Magic
  /\ b \o w = From(Line, q + 1) /\ w = From(Line, m + 1)
  /\ Len(b) = m - q /\ \A i \in 1..(m - q) : b[i] = Line[q + i]
  /\ q < m => Line[q + 1].v = Magic

LEMMA ReadLeft ==
  ASSUME TypeInv, NEW n \in DOMAIN wire
  PROVE  \E m \in 0..Len(Line) : \E q \in 0..m :
           Left(Resync(buf \o SubSeq(wire, 1, n)), From(wire, n + 1), m, q)
<1> DEFINE b == Resync(buf \o SubSeq(wire, 1, n))
           w == From(wire, n + 1)
<1>1. wire \in Seq(Byte) /\ buf \in Seq(Byte) /\ Line \in Seq(Byte)
  BY LineType DEF TypeInv, TypeOK, Byte
<1>2. n \in 0..Len(wire)
  BY <1>1
<1> DEFINE m == Len(buf) + n
           r == SubSeq(Line, 1, m)
<1>3. m \in 0..Len(Line) /\ b = Resync(r) /\ w = From(Line, m + 1)
  BY <1>1, <1>2, ReadLine DEF Line
<1> HIDE DEF m, b, w
<1>4. r \in Seq(Byte) /\ Len(r) = m /\ \A i \in 1..m : r[i] = Line[i]
  BY <1>1, <1>3, FirstIs
<1> HIDE DEF r
<1>5. PICK q \in 0..m :
        /\ \A i \in 1..q : r[i].v # Magic
        /\ Resync(r) = From(r, q + 1)
        /\ q < m => r[q + 1].v = Magic
  BY <1>4, ResyncKeeps
<1>6. m \in Nat
  BY <1>1, <1>3
<1>7. /\ From(r, q + 1) \in Seq(Byte) /\ Len(From(r, q + 1)) = m - q
      /\ \A i \in 1..(m - q) : From(r, q + 1)[i] = r[q + i]
  BY <1>4, CutIs
<1>8. ASSUME NEW i \in 1..(m - q) PROVE b[i] = Line[q + i]
  <2>1. q + i \in 1..m
    BY <1>6
  <2> QED BY <1>3, <1>4, <1>5, <1>7, <2>1
<1>9. b \o w = From(Line, q + 1)
  BY <1>1, <1>3, <1>5, KeptLine DEF r
<1>10. (\A i \in 1..q : Line[i].v # Magic) /\ (q < m => Line[q + 1].v = Magic)
  <2>1. \A i \in 1..q : i \in 1..m
    BY <1>6
  <2>2. q < m => q + 1 \in 1..m
    BY <1>6
  <2> QED BY <1>4, <1>5, <2>1, <2>2
<1>11. Left(b, w, m, q)
  BY <1>3, <1>5, <1>7, <1>8, <1>9, <1>10 DEF Left
<1> QED BY <1>3, <1>11 DEF b, w

\* The answers from one on are a suffix of those from an earlier one on.
LEMMA PendCut ==
  ASSUME NEW a \in 0..Len(Payloads), NEW f \in 1..(a + 1), NEW g \in f..(a + 1)
  PROVE  LET P == SubSeq(Payloads, f, a) IN
         /\ P \in Seq(Range(Payloads)) /\ Len(P) = a - f + 1
         /\ f <= a => Head(P) = Payloads[f]
         /\ SubSeq(Payloads, g, a) = From(P, (g - f) + 1)
<1> DEFINE S == Range(Payloads)
           P == SubSeq(Payloads, f, a)
           Q == SubSeq(Payloads, g, a)
           d == g - f
<1>1. Len(Payloads) \in Nat /\ \A i \in 1..a : Payloads[i] \in S
  BY PayloadsLen DEF Range
<1>2. a \in Nat /\ f \in Nat /\ g \in Nat /\ f >= 1 /\ f <= g /\ g <= a + 1
  BY <1>1
<1> HIDE DEF S
<1>3. /\ P \in Seq(S) /\ Len(P) = a - f + 1
      /\ \A i \in 1..(a - f + 1) : P[i] = Payloads[f + i - 1]
  <2>1. \A i \in f..a : Payloads[i] \in S
    BY <1>1, <1>2
  <2>2. /\ SubSeq(Payloads, f, a) \in Seq(S)
        /\ Len(SubSeq(Payloads, f, a)) = IF f <= a THEN a - f + 1 ELSE 0
        /\ \A i \in 1..(a - f + 1) : SubSeq(Payloads, f, a)[i] = Payloads[f + i - 1]
    BY <1>2, <2>1, SubSeqProperties
  <2>3. ~(f <= a) => a - f + 1 = 0
    BY <1>2
  <2> QED BY <2>2, <2>3
<1>4. /\ Q \in Seq(S) /\ Len(Q) = a - g + 1
      /\ \A i \in 1..(a - g + 1) : Q[i] = Payloads[g + i - 1]
  <2>1. \A i \in g..a : Payloads[i] \in S
    BY <1>1, <1>2
  <2>2. /\ SubSeq(Payloads, g, a) \in Seq(S)
        /\ Len(SubSeq(Payloads, g, a)) = IF g <= a THEN a - g + 1 ELSE 0
        /\ \A i \in 1..(a - g + 1) : SubSeq(Payloads, g, a)[i] = Payloads[g + i - 1]
    BY <1>2, <2>1, SubSeqProperties
  <2>3. ~(g <= a) => a - g + 1 = 0
    BY <1>2
  <2> QED BY <2>2, <2>3
<1>d. d = g - f
  OBVIOUS
<1> HIDE DEF P, Q, d
<1>5. d \in 0..Len(P)
  BY <1>2, <1>3, <1>d
<1>6. /\ From(P, d + 1) \in Seq(S) /\ Len(From(P, d + 1)) = Len(P) - d
      /\ \A i \in 1..(Len(P) - d) : From(P, d + 1)[i] = P[d + i]
  <2>1. P \in Seq(S)
    BY <1>3
  <2> QED BY <1>5, <2>1, CutIs
<1>7. Len(Q) = Len(From(P, d + 1))
  BY <1>2, <1>3, <1>4, <1>6, <1>d
<1>8. ASSUME NEW i \in 1..Len(Q) PROVE Q[i] = From(P, d + 1)[i]
  <2>1. /\ i \in 1..(a - g + 1) /\ i \in 1..(Len(P) - d) /\ d + i \in 1..(a - f + 1)
        /\ f + (d + i) - 1 = g + i - 1
    BY <1>2, <1>3, <1>4, <1>d
  <2> DEFINE k == d + i
  <2>2. Q[i] = Payloads[g + i - 1] /\ From(P, d + 1)[i] = P[k]
    BY <1>4, <1>6, <2>1
  <2>3. k \in 1..(a - f + 1) /\ f + k - 1 = g + i - 1
    BY <2>1
  <2> HIDE DEF k
  <2>4. P[k] = Payloads[f + k - 1]
    BY <1>3, <2>3
  <2> QED BY <2>2, <2>3, <2>4
<1>9. Q = From(P, d + 1)
  BY <1>4, <1>6, <1>7, <1>8, SeqEqual
<1>10. f <= a => Head(P) = Payloads[f]
  <2>1. f <= a => 1 \in 1..(a - f + 1) /\ f + 1 - 1 = f /\ P # <<>>
    BY <1>2, <1>3
  <2>2. f <= a => P[1] = Payloads[f]
    BY <1>3, <2>1
  <2> QED BY <1>3, <2>1, <2>2
<1> QED BY <1>3, <1>9, <1>10 DEF P, Q, d, S

(***************************************************************************)
(* The steps on the FIFO.                                                  *)
(***************************************************************************)

\* FrameFifo's actions on the answers pending.
Given == [n \in 1..Len(got) |-> got[n].payload]

Moved ==
  \/ Pending' = Pending /\ Given' = Given
  \/ \E b \in Range(Payloads) : Pending' = Append(Pending, b) /\ Given' = Given
  \/ \E n \in 1..Len(Pending) :
       /\ Pending' = From(Pending, n + 1)
       /\ Given' = Given \/ Given' = Append(Given, Head(Pending))

\* The answers pending are the agent's last ones.
LEMMA LastSent ==
  ASSUME TypeInv, FormInv
  PROVE  /\ Line \in Seq(Byte) /\ Answered \in 0..Len(Payloads) /\ Pending = Pend(Line)
         /\ Run(Line, Answered)
<1>1. sent \in 0..Len(Payloads) /\ owed \in Seq(1..sent) /\ Len(Payloads) \in Nat
  BY PayloadsLen DEF TypeInv, TypeOK
<1>2. Answered \in 0..Len(Payloads)
  <2>1. CASE owed = <<>>
    BY <1>1, <2>1 DEF Answered
  <2>2. CASE owed # <<>>
    <3>1. 1 \in DOMAIN owed /\ owed[1] \in 1..sent /\ Len(owed) \in Nat
      BY <1>1, <2>2
    <3>2. owed[1] = Answered + 1
      BY <3>1 DEF FormInv
    <3> QED BY <1>1, <3>1, <3>2 DEF Answered
  <2> QED BY <2>1, <2>2
<1> QED BY <1>2, LineType DEF FormInv, Pending, Pend

\* When the line loses bytes at its front the FIFO keeps its answers or loses
\* the first ones of them.
LEMMA CutMoves ==
  ASSUME TypeInv, FormInv, NEW m \in 0..Len(Line),
         Line' = From(Line, m + 1), Answered' = Answered
  PROVE  /\ Run(Line', Answered')
         /\ \/ Pending' = Pending
            \/ \E n \in 1..Len(Pending) : Pending' = From(Pending, n + 1)
<1> DEFINE a == Answered
           v == From(Line, m + 1)
<1>1. Line \in Seq(Byte) /\ a \in 0..Len(Payloads) /\ Pending = Pend(Line) /\ Run(Line, a)
  BY LastSent
<1>2. a \in Nat /\ a <= Len(Payloads)
  BY <1>1, PayloadsLen
<1> HIDE DEF a
<1>3. v \in Seq(Byte) /\ Run(v, a) /\ Begun(v) \subseteq Begun(Line)
  BY <1>1, <1>2, RunCut, CutIs
<1>4. Pending' = Pend(v)
  BY DEF Pending, Pend
<1> HIDE DEF v
<1>5. PICK f \in 1..(a + 1) : Begun(Line) = f..a /\ Pend(Line) = SubSeq(Payloads, f, a)
  BY <1>1, <1>2, PendIs
<1>6. PICK g \in 1..(a + 1) : Begun(v) = g..a /\ Pend(v) = SubSeq(Payloads, g, a)
  BY <1>2, <1>3, PendIs
<1>7. g <= a => g \in f..a
  <2>1. g <= a => g \in g..a
    BY <1>2
  <2> QED BY <1>3, <1>5, <1>6, <2>1
<1>8. g \in f..(a + 1)
  BY <1>2, <1>7
<1>9. /\ Len(Pending) = a - f + 1
      /\ Pending' = From(Pending, (g - f) + 1)
  BY <1>1, <1>4, <1>5, <1>6, <1>8, PendCut
<1>10. CASE g = f
  BY <1>1, <1>3, <1>4, <1>5, <1>6, <1>10 DEF v, a
<1>11. CASE g # f
  <2>1. g - f \in 1..Len(Pending)
    BY <1>2, <1>8, <1>9, <1>11
  <2> QED BY <1>3, <1>9, <2>1 DEF v, a
<1> QED BY <1>10, <1>11

\* A call to which nothing happens, or that is given up, takes no more.
LEMMA CutStep ==
  ASSUME TypeInv, FormInv, NEW m \in 0..Len(Line), Line' = From(Line, m + 1),
         owed' = owed, sent' = sent, got' = got,
         ~fouled' /\ pc' # "closed" => Clear(Line')
  PROVE  FormInv' /\ Moved
<1>1. Answered' = Answered /\ Given' = Given
  BY DEF Answered, Given
<1>2. /\ Run(Line', Answered')
      /\ \/ Pending' = Pending
         \/ \E n \in 1..Len(Pending) : Pending' = From(Pending, n + 1)
  BY <1>1, CutMoves
<1>3. \A i \in DOMAIN owed' : owed'[i] = Answered' + i
  BY <1>1 DEF FormInv
<1> QED BY <1>1, <1>2, <1>3 DEF FormInv, Moved

LEMMA SameLine ==
  ASSUME TypeInv, Line' = Line
  PROVE  0 \in 0..Len(Line) /\ Line' = From(Line, 0 + 1)
<1>1. Line \in Seq(Byte)
  BY LineType
<1>2. From(Line, 1) = Line
  BY <1>1, SubSeqFull DEF From
<1> QED BY <1>1, <1>2

LEMMA CommandForm == TypeInv /\ FormInv /\ Command => FormInv' /\ Moved
<1> SUFFICES ASSUME TypeInv, FormInv, Command PROVE FormInv' /\ Moved
  OBVIOUS
<1>1. /\ pc = "idle" /\ pc' = "recv" /\ buf = <<>> /\ buf' = <<>> /\ wire' = wire
      /\ sent' = sent + 1 /\ owed' = Append(owed, sent + 1) /\ got' = got /\ fouled' = fouled
  BY DEF Command, TypeInv, CallInv
<1>2. Line' = Line
  BY <1>1 DEF Line
<1>3. Given' = Given /\ Pending' = Pending
  BY <1>1, <1>2 DEF Given, Pending
<1>4. sent \in Nat /\ owed \in Seq(1..sent)
  BY PayloadsLen DEF TypeInv, TypeOK
<1>5. /\ Len(owed') = Len(owed) + 1 /\ Len(owed) \in Nat /\ DOMAIN owed' = 1..Len(owed')
      /\ \A i \in 1..Len(owed') : owed'[i] = IF i = Len(owed') THEN sent + 1 ELSE owed[i]
      /\ \A i \in 1..Len(owed') : i # Len(owed') => i \in DOMAIN owed
  BY <1>1, <1>4
<1>6. Answered' = Answered
  BY <1>1, <1>4, <1>5 DEF Answered
<1>7. ASSUME NEW i \in DOMAIN owed' PROVE owed'[i] = Answered' + i
  <2>1. CASE i = Len(owed')
    BY <1>1, <1>4, <1>5, <2>1 DEF Answered
  <2>2. CASE i # Len(owed')
    BY <1>5, <1>6, <2>2 DEF FormInv
  <2> QED BY <2>1, <2>2
<1> QED BY <1>1, <1>2, <1>3, <1>6, <1>7 DEF FormInv, Moved

LEMMA AnswerForm == TypeInv /\ FormInv /\ DevAnswer => FormInv' /\ Moved
<1> SUFFICES ASSUME TypeInv, FormInv, DevAnswer PROVE FormInv' /\ Moved
  OBVIOUS
<1> DEFINE a == Answered
           c == a + 1
<1>1. Line \in Seq(Byte) /\ a \in 0..Len(Payloads) /\ Pending = Pend(Line) /\ Run(Line, a)
  BY LastSent
<1>2. /\ owed # <<>> /\ wire' = wire \o Frame(Head(owed)) /\ owed' = Tail(owed)
      /\ UNCHANGED <<sent, pc, buf, got, fouled>>
  BY DEF DevAnswer
<1>3. sent \in 0..Len(Payloads) /\ owed \in Seq(1..sent) /\ Len(Payloads) \in Nat
  BY PayloadsLen DEF TypeInv, TypeOK
<1>4. /\ Len(owed) \in Nat /\ Len(owed') = Len(owed) - 1 /\ DOMAIN owed' = 1..(Len(owed) - 1)
      /\ \A i \in 1..(Len(owed) - 1) : owed'[i] = owed[i + 1] /\ i + 1 \in DOMAIN owed
      /\ 1 \in DOMAIN owed /\ owed[1] = Head(owed) /\ owed[1] \in 1..sent
  BY <1>2, <1>3
<1>5. Answered' = c
  BY <1>2, <1>3, <1>4 DEF Answered
<1>6. Head(owed) = c /\ c \in DOMAIN Payloads
  <2>1. owed[1] = Answered + 1
    BY <1>4 DEF FormInv
  <2>2. owed[1] \in DOMAIN Payloads
    BY <1>3, <1>4, PayloadsLen
  <2> QED BY <1>4, <2>1, <2>2
<1>7. \A i \in DOMAIN owed' : owed'[i] = Answered' + i
  <2>1. ASSUME NEW i \in 1..(Len(owed) - 1) PROVE owed'[i] = c + i
    <3>1. owed[i + 1] = Answered + (i + 1)
      BY <1>4 DEF FormInv
    <3> QED BY <1>1, <1>4, <3>1
  <2> QED BY <1>4, <1>5, <2>1
<1>a. a \in Nat /\ a <= Len(Payloads) /\ c = a + 1 /\ c <= Len(Payloads) /\ c \in Nat
  BY <1>1, <1>3, <1>6, PayloadsLen
<1>8. Line' = Line \o Frame(c)
  <2>1. buf \in Seq(Byte) /\ wire \in Seq(Byte) /\ Frame(c) \in Seq(Byte)
    BY <1>6, FrameIs DEF TypeInv, TypeOK, Byte
  <2>2. Line' = buf \o (wire \o Frame(c))
    BY <1>2, <1>6 DEF Line
  <2> HIDE DEF c
  <2>3. buf \o (wire \o Frame(c)) = (buf \o wire) \o Frame(c)
    BY <2>1, ConcatAssociative
  <2> QED BY <2>2, <2>3 DEF Line
<1> HIDE DEF a
<1>9. Run(Line', c) /\ Begun(Line') = Begun(Line) \cup {c}
  BY <1>1, <1>6, <1>8, <1>a, RunAppend
<1>10. Line' \in Seq(Byte) /\ Pending' = Pend(Line')
  <2>1. Frame(c) \in Seq(Byte)
    BY <1>6, FrameIs
  <2> HIDE DEF c
  <2> QED BY <1>1, <1>8, <2>1, ConcatProperties DEF Pending, Pend
<1>11. PICK f \in 1..(a + 1) : Begun(Line) = f..a /\ Pend(Line) = SubSeq(Payloads, f, a)
  BY <1>1, <1>a, PendIs
<1>12. PICK g \in 1..(c + 1) : Begun(Line') = g..c /\ Pend(Line') = SubSeq(Payloads, g, c)
  <2> HIDE DEF c
  <2> QED BY <1>9, <1>10, <1>a, PendIs
<1>13. f..a \cup {c} = f..c
  BY <1>a
<1>14. g = f
  <2>1. f \in f..c
    BY <1>a
  <2>2. g..c = f..c
    BY <1>9, <1>11, <1>12, <1>13
  <2>3. f \in g..c
    BY <2>1, <2>2
  <2>4. g \in g..c
    BY <1>a, <2>3
  <2>5. g \in f..c
    BY <2>2, <2>4
  <2> QED BY <1>a, <2>3, <2>5
<1>15. Pending' = Append(Pending, Payloads[c])
  <2> DEFINE P == SubSeq(Payloads, f, a)
             Q == SubSeq(Payloads, f, c)
             T == Range(Payloads)
  <2>1. Payloads[c] \in T /\ \A i \in f..c : Payloads[i] \in T
    <3>1. \A i \in f..c : i \in DOMAIN Payloads
      BY <1>a, PayloadsLen
    <3> QED BY <1>6, <3>1 DEF Range
  <2> HIDE DEF T
  <2>2. /\ P \in Seq(T) /\ Len(P) = a - f + 1
        /\ \A i \in 1..(a - f + 1) : P[i] = Payloads[f + i - 1]
    <3>1. \A i \in f..a : Payloads[i] \in T
      BY <1>a, <2>1
    <3>2. /\ SubSeq(Payloads, f, a) \in Seq(T)
          /\ Len(SubSeq(Payloads, f, a)) = IF f <= a THEN a - f + 1 ELSE 0
          /\ \A i \in 1..(a - f + 1) : SubSeq(Payloads, f, a)[i] = Payloads[f + i - 1]
      BY <1>a, <3>1, SubSeqProperties
    <3>3. ~(f <= a) => a - f + 1 = 0
      BY <1>a
    <3> QED BY <3>2, <3>3
  <2>3. /\ Q \in Seq(T) /\ Len(Q) = c - f + 1
        /\ \A i \in 1..(c - f + 1) : Q[i] = Payloads[f + i - 1]
    <3> HIDE DEF c
    <3>1. f \in Int /\ c \in Int /\ f <= c
      BY <1>a
    <3>2. /\ SubSeq(Payloads, f, c) \in Seq(T)
          /\ Len(SubSeq(Payloads, f, c)) = IF f <= c THEN c - f + 1 ELSE 0
          /\ \A i \in 1..(c - f + 1) : SubSeq(Payloads, f, c)[i] = Payloads[f + i - 1]
      BY <2>1, <3>1, SubSeqProperties
    <3> QED BY <3>1, <3>2
  <2> HIDE DEF P, Q, c
  <2>4. /\ Append(P, Payloads[c]) \in Seq(T) /\ Len(Append(P, Payloads[c])) = Len(P) + 1
        /\ \A i \in 1..(Len(P) + 1) :
             Append(P, Payloads[c])[i] = IF i = Len(P) + 1 THEN Payloads[c] ELSE P[i]
    BY <2>1, <2>2
  <2>5. Q = Append(P, Payloads[c])
    <3>1. Len(Q) = Len(P) + 1 /\ Len(P) + 1 = c - f + 1 /\ Len(P) \in Nat
      BY <1>a, <2>2, <2>3
    <3>2. ASSUME NEW i \in 1..Len(Q) PROVE Q[i] = Append(P, Payloads[c])[i]
      <4>1. CASE i = Len(P) + 1
        <5>1. f + i - 1 = c /\ i \in 1..(c - f + 1)
          BY <1>a, <2>2, <2>3, <4>1
        <5>2. Q[i] = Payloads[c]
          BY <2>3, <5>1
        <5> QED BY <2>4, <3>1, <4>1, <5>2
      <4>2. CASE i # Len(P) + 1
        <5>1. i \in 1..(a - f + 1) /\ i \in 1..(c - f + 1) /\ i \in 1..(Len(P) + 1)
          BY <1>a, <2>2, <3>1, <4>2
        <5> QED BY <2>2, <2>3, <2>4, <4>2, <5>1
      <4> QED BY <4>1, <4>2
    <3> QED BY <2>3, <2>4, <3>1, <3>2, SeqEqual
  <2> QED BY <1>1, <1>10, <1>11, <1>12, <1>14, <2>5 DEF P, Q
<1>16. ~fouled' /\ pc' # "closed" => Clear(Line')
  <2> SUFFICES ASSUME ~fouled, pc # "closed", NEW i \in MagicAt(Line')
               PROVE  \E j \in 1..i : Line'[j].at = 1
    BY <1>2 DEF Clear
  <2>1. Clear(Line)
    BY DEF FormInv
  <2> DEFINE L == Line
             F == Frame(c)
             v == L \o F
  <2>2. F \in Seq(Byte) /\ Len(F) \in Nat \ {0} /\ F[1].at = 1
    <3>1. Frame(c) \in Seq(Byte) /\ Len(Frame(c)) \in Nat \ {0}
      BY <1>6, FrameIs
    <3>2. Frame(c)[1].at = 1
      <4>1. 1 \in DOMAIN Frame(c)
        BY <3>1
      <4> QED BY <4>1 DEF Frame
    <3> QED BY <3>1, <3>2
  <2>3. i \in DOMAIN v /\ v[i].v = Magic
    BY <1>8 DEF MagicAt
  <2> HIDE DEF F, c
  <2>4. /\ v \in Seq(Byte) /\ Len(v) = Len(L) + Len(F) /\ Len(L) \in Nat
        /\ \A k \in 1..Len(L) : v[k] = L[k]
        /\ \A k \in 1..Len(F) : v[Len(L) + k] = F[k]
    <3>1. L \in Seq(Byte) /\ F \in Seq(Byte)
      BY <1>1, <2>2
    <3> QED BY <3>1, ConcatIs
  <2>5. v = Line'
    BY <1>8 DEF F
  <2> HIDE DEF v, L
  <2>6. i \in 1..(Len(L) + Len(F))
    BY <2>3, <2>4
  <2>7. CASE i <= Len(L)
    <3>1. i \in 1..Len(L) /\ DOMAIN L = 1..Len(L)
      BY <1>1, <2>4, <2>6, <2>7 DEF L
    <3>2. i \in MagicAt(L)
      BY <2>3, <2>4, <3>1 DEF MagicAt
    <3>3. PICK j \in 1..i : L[j].at = 1
      BY <2>1, <3>2 DEF Clear, L
    <3>4. j \in 1..Len(L)
      BY <2>4, <3>1
    <3> QED BY <2>4, <2>5, <3>3, <3>4
  <2>8. CASE i > Len(L)
    <3>1. Len(L) + 1 \in 1..i /\ 1 \in 1..Len(F)
      BY <2>2, <2>4, <2>6, <2>8
    <3>2. v[Len(L) + 1].at = 1
      BY <2>2, <2>4, <3>1
    <3> QED BY <2>5, <3>1, <3>2
  <2> QED BY <2>4, <2>6, <2>7, <2>8
<1>17. Given' = Given /\ Payloads[c] \in Range(Payloads)
  BY <1>2, <1>6 DEF Given, Range
<1>18. Run(Line', Answered')
  BY <1>5, <1>9
<1> QED BY <1>7, <1>15, <1>16, <1>17, <1>18 DEF FormInv, Moved

LEMMA ReadMoreForm == TypeInv /\ FormInv /\ ReadMore => FormInv' /\ Moved
<1> SUFFICES ASSUME TypeInv, FormInv, ReadMore PROVE FormInv' /\ Moved
  OBVIOUS
<1>1. PICK n \in DOMAIN wire : LET b == Resync(buf \o SubSeq(wire, 1, n)) IN
        Chunk(n) /\ ~Complete(b) /\ buf' = b /\ UNCHANGED <<pc, got, fouled>>
  BY DEF ReadMore
<1>2. /\ wire' = From(wire, n + 1) /\ buf' = Resync(buf \o SubSeq(wire, 1, n))
      /\ pc = "recv" /\ UNCHANGED <<pc, got, fouled, sent, owed>>
  BY <1>1 DEF Chunk
<1>3. PICK m \in 0..Len(Line) : \E q \in 0..m :
        Left(Resync(buf \o SubSeq(wire, 1, n)), From(wire, n + 1), m, q)
  BY ReadLeft
<1>4. PICK q \in 0..m :
        /\ \A i \in 1..q : Line[i].v # Magic
        /\ buf' \o wire' = From(Line, q + 1)
  BY <1>2, <1>3 DEF Left
<1>5. Line \in Seq(Byte) /\ Answered \in 0..Len(Payloads) /\ Run(Line, Answered)
  BY LastSent
<1>6. q \in 0..Len(Line) /\ Line' = From(Line, q + 1)
  BY <1>4, <1>5 DEF Line
<1>7. ~fouled' /\ pc' # "closed" => Clear(Line')
  <2> SUFFICES ASSUME ~fouled PROVE Clear(Line')
    BY <1>2
  <2>1. Clear(Line)
    BY <1>2 DEF FormInv
  <2>2. Answered \in Nat /\ Answered <= Len(Payloads)
    BY <1>5, PayloadsLen
  <2>3. Clear(From(Line, q + 1))
    BY <1>4, <1>5, <1>6, <2>1, <2>2, ClearCut
  <2> QED BY <1>6, <2>3
<1> QED BY <1>2, <1>6, <1>7, CutStep

LEMMA GiveUpForm == TypeInv /\ FormInv /\ Deadline => FormInv' /\ Moved
<1> SUFFICES ASSUME TypeInv, FormInv, Deadline PROVE FormInv' /\ Moved
  OBVIOUS
<1>1. pc' = "closed" /\ buf' = <<>> /\ UNCHANGED <<sent, owed, wire, got, fouled>>
  BY DEF Deadline
<1>2. wire \in Seq(Byte) /\ buf \in Seq(Byte) /\ 0 \in 0..Len(wire)
  BY DEF TypeInv, TypeOK, Byte
<1> DEFINE m == Len(buf) + 0
<1>3. m \in 0..Len(Line) /\ From(wire, 0 + 1) = From(Line, m + 1)
  BY <1>2, ReadLine DEF Line
<1> HIDE DEF m
<1>4. From(wire, 0 + 1) = wire /\ Line' = wire
  <2>1. From(wire, 1) = wire
    BY <1>2, SubSeqFull DEF From
  <2>2. buf' \o wire' = wire
    BY <1>1, <1>2, ConcatEmptySeq
  <2> QED BY <2>1, <2>2 DEF Line
<1> QED BY <1>1, <1>3, <1>4, CutStep

LEMMA OpenForm == TypeInv /\ FormInv /\ Open => FormInv' /\ Moved
<1> SUFFICES ASSUME TypeInv, FormInv, Open PROVE FormInv' /\ Moved
  OBVIOUS
<1>1. PICK m \in 0..Len(wire) : wire' = From(wire, m + 1)
  BY DEF Open
<1>2. /\ buf = <<>> /\ buf' = <<>> /\ pc' = "idle" /\ UNCHANGED <<sent, owed, got>>
      /\ fouled' = (fouled \/ Foul(wire'))
  BY DEF Open, TypeInv, CallInv
<1>3. wire \in Seq(Byte) /\ wire' \in Seq(Byte)
  <2>1. wire \in Seq(Byte)
    BY DEF TypeInv, TypeOK, Byte
  <2> QED BY <1>1, <2>1, CutIs
<1>4. Line = wire /\ Line' = wire'
  BY <1>2, <1>3, ConcatEmptySeq DEF Line
<1>5. Answered \in 0..Len(Payloads) /\ Run(Line, Answered)
  BY LastSent
<1>6. ~fouled' => Clear(Line')
  <2>1. Answered \in Nat
    BY <1>5, PayloadsLen
  <2>2. Run(wire', Answered)
    BY <1>1, <1>3, <1>4, <1>5, <2>1, RunCut
  <2> QED BY <1>2, <1>3, <1>4, <2>1, <2>2, ClearUnlessFoul
<1>7. m \in 0..Len(Line) /\ Line' = From(Line, m + 1)
  BY <1>1, <1>4
<1> QED BY <1>2, <1>6, <1>7, CutStep

\* A complete buffer on a clear line: its answer is the first that is pending,
\* and the line behind the buffer has it no more.
LEMMA TakeFirst ==
  ASSUME Line \in Seq(Byte), NEW a \in 0..Len(Payloads), Run(Line, a), Clear(Line),
         NEW m \in 0..Len(Line), NEW q \in 0..m,
         NEW b, NEW w, Left(b, w, m, q), Complete(b)
  PROVE  /\ Pend(Line) # <<>> /\ Pend(Line) \in Seq(Range(Payloads))
         /\ [i \in 1..(FrameLen(b) - 2) |-> b[2 + i].v] = Head(Pend(Line))
         /\ \E n \in 1..Len(Pend(Line)) :
              Pend(From(Line, m + 1)) = From(Pend(Line), n + 1)
<1> DEFINE L == Line
<1>0. /\ L \in Seq(Byte) /\ Run(L, a) /\ Clear(L) /\ m \in 0..Len(L)
      /\ \A i \in 1..q : L[i].v # Magic
      /\ q < m => L[q + 1].v = Magic
      /\ Len(b) = m - q /\ \A i \in 1..(m - q) : b[i] = L[q + i]
  BY DEF Left
<1> HIDE DEF L
<1> DEFINE p == q + 1
           c == L[p].of
           f == Frame(c)
           v == From(L, m + 1)
<1>1. Len(L) \in Nat /\ a \in Nat /\ a <= Len(Payloads) /\ DOMAIN L = 1..Len(L)
  BY PayloadsLen
<1>p. p = q + 1
  OBVIOUS
<1> HIDE DEF p
<1>2. Len(b) >= 2 /\ Len(b) >= FrameLen(b)
  BY DEF Complete
<1>3. p \in 1..Len(L) /\ q < m /\ 2 \in 1..(m - q) /\ \A i \in 1..(p - 1) : L[i].v # Magic
  BY <1>0, <1>1, <1>2, <1>p
<1>4. L[p].v = Magic
  BY <1>0, <1>3, <1>p
<1>5. L[p].at = 1
  BY <1>0, <1>1, <1>3, <1>4, FirstStart
<1>6. /\ c \in 1..a /\ c \in DOMAIN Payloads
      /\ \A k \in 0..(Len(f) - 1) : p + k \in 1..Len(L) /\ L[p + k] = f[k + 1]
                                    /\ L[p + k].of = c /\ L[p + k].at = k + 1
  BY <1>0, <1>1, <1>3, <1>5, RunHolds
<1> HIDE DEF c
<1>7. /\ f \in Seq(Byte) /\ Len(f) = 2 + Len(Payloads[c])
      /\ Payloads[c] \in Seq(Nat) /\ Len(Payloads[c]) \in Nat \ {0}
      /\ f[2].v = Len(Payloads[c])
      /\ \A i \in 1..Len(Payloads[c]) : f[2 + i].v = Payloads[c][i]
  BY <1>0, <1>6, FrameIs
<1> HIDE DEF f
<1>8. ASSUME NEW i \in 1..Len(f), i \in 1..(m - q) PROVE b[i] = f[i]
  <2> DEFINE k == i - 1
  <2>1. k \in 0..(Len(f) - 1) /\ p + k = q + i /\ k + 1 = i
    BY <1>0, <1>1, <1>7, <1>p
  <2> HIDE DEF k
  <2>2. L[p + k] = f[k + 1]
    BY <1>0, <1>6, <2>1
  <2> QED BY <1>0, <1>8, <2>1, <2>2
<1>9. FrameLen(b) = Len(f)
  <2>1. 2 \in 1..Len(f)
    BY <1>0, <1>7
  <2>2. b[2] = f[2]
    BY <1>0, <1>3, <1>8, <2>1
  <2> QED BY <1>0, <1>7, <2>2 DEF FrameLen
<1>10. [i \in 1..(FrameLen(b) - 2) |-> b[2 + i].v] = Payloads[c]
  <2> DEFINE l == Len(Payloads[c])
  <2>1. FrameLen(b) - 2 = l /\ l \in Nat
    BY <1>0, <1>7, <1>9
  <2>2. ASSUME NEW i \in 1..l PROVE b[2 + i].v = Payloads[c][i]
    <3>1. 2 + i \in 1..Len(f) /\ 2 + i \in 1..(m - q)
      <4> DEFINE lf == Len(f)
                 lb == Len(b)
      <4>1. lf = 2 + l /\ lb = m - q /\ lb >= lf /\ l \in Nat
        BY <1>0, <1>2, <1>7, <1>9, <2>1
      <4> HIDE DEF lf, lb, l
      <4>2. 2 + i \in 1..lf /\ 2 + i \in 1..lb
        BY <4>1
      <4> QED BY <4>1, <4>2 DEF lf
    <3>2. b[2 + i] = f[2 + i]
      BY <1>0, <1>8, <3>1
    <3> QED BY <1>0, <1>7, <3>2
  <2>3. Payloads[c] = [i \in 1..l |-> Payloads[c][i]]
    BY <1>0, <1>7
  <2> HIDE DEF l
  <2>4. [i \in 1..l |-> b[2 + i].v] = [i \in 1..l |-> Payloads[c][i]]
    BY <1>0, <2>2
  <2> QED BY <1>0, <2>1, <2>3, <2>4
<1>11. p + Len(f) <= m + 1
  <2> DEFINE lf == Len(f)
             lb == Len(b)
  <2>1. lf \in Nat /\ lb = m - q /\ lb >= lf /\ q \in Nat /\ m \in Nat
    BY <1>0, <1>1, <1>2, <1>7, <1>9
  <2> HIDE DEF lf, lb
  <2>2. p + lf <= m + 1
    BY <2>1, <1>p
  <2> QED BY <2>2 DEF lf
<1>12. c \in Begun(L)
  BY <1>0, <1>1, <1>3, <1>5 DEF Begun, c
<1>13. ASSUME NEW j \in 1..Len(L), L[j].at = 1 PROVE c <= L[j].of
  <2>0. L[j].of \in 1..a /\ L[j] = Frame(L[j].of)[L[j].at]
    BY <1>0 DEF Run
  <2>1. L[j].of \in DOMAIN Payloads /\ L[j] = Frame(L[j].of)[1]
    BY <1>1, <1>13, <2>0, PayloadsLen
  <2>2. L[j].v = Magic
    BY <1>0, <2>1, FrameIs
  <2>3. j \in p..Len(L)
    BY <1>0, <1>1, <1>3, <1>p, <2>2
  <2> QED BY <1>0, <1>1, <1>3, <2>3, RunRises DEF c
<1>14. ASSUME NEW j \in (m + 1)..Len(L) PROVE c < L[j].of
  <2> DEFINE l == p + (Len(f) - 1)
  <2>1. Len(f) - 1 \in 0..(Len(f) - 1) /\ (Len(f) - 1) + 1 = Len(f)
    BY <1>0, <1>7
  <2>2. L[l].of = c /\ L[l].at = Len(f) /\ l \in 1..Len(L)
    BY <1>0, <1>6, <2>1
  <2>3. l \in 1..(Len(L) - 1) /\ l + 1 \in 1..Len(L) /\ j \in l + 1..Len(L)
    <3> DEFINE lf == Len(f)
               ll == Len(L)
    <3>1. lf \in Nat /\ ll \in Nat /\ p \in Nat /\ p + lf <= m + 1 /\ j \in (m + 1)..ll /\ m \in Nat
      BY <1>1, <1>3, <1>7, <1>11
    <3>2. l = p + (lf - 1) /\ l \in 1..ll
      BY <2>2
    <3> HIDE DEF lf, ll, l
    <3>3. l \in 1..(ll - 1) /\ l + 1 \in 1..ll /\ j \in l + 1..ll
      BY <3>1, <3>2
    <3> QED BY <3>3 DEF ll
  <2> HIDE DEF l
  <2>4. ~(Len(f) < Len(f))
    BY <1>0, <1>7
  <2>5. L[l + 1].of = c + 1
    BY <1>0, <2>2, <2>3, <2>4 DEF Run, f
  <2>6. L[l + 1].of <= L[j].of
    BY <1>0, <1>1, <2>3, RunRises
  <2>7. L[j].of \in 1..a
    BY <1>0, <1>1, <2>3 DEF Run
  <2> QED BY <1>0, <1>6, <2>5, <2>6, <2>7
<1>15. PICK g \in 1..(a + 1) : Begun(L) = g..a /\ Pend(L) = SubSeq(Payloads, g, a)
  BY <1>0, <1>1, PendIs
<1>16. g = c
  <2>1. g \in g..a
    <3>1. c \in g..a
      BY <1>0, <1>12, <1>15
    <3> QED BY <1>0, <1>1, <1>15, <3>1
  <2>2. PICK j \in DOMAIN L : L[j].at = 1 /\ L[j].of = g
    <3>1. g \in Begun(L)
      BY <1>15, <2>1
    <3> QED BY <3>1 DEF Begun
  <2>3. c <= g
    BY <1>1, <1>13, <2>2
  <2>4. c \in g..a
    BY <1>0, <1>12, <1>15
  <2> QED BY <1>0, <2>3, <2>4
<1>17. /\ v \in Seq(Byte) /\ Len(v) = Len(L) - m
       /\ \A i \in 1..(Len(L) - m) : v[i] = L[m + i]
  <2>1. /\ From(L, m + 1) \in Seq(Byte) /\ Len(From(L, m + 1)) = Len(L) - m
        /\ \A i \in 1..(Len(L) - m) : From(L, m + 1)[i] = L[m + i]
    BY <1>0, CutIs
  <2> QED BY <1>0, <2>1
<1>18. Run(v, a) /\ Begun(v) \subseteq Begun(L)
  BY <1>0, <1>1, RunCut
<1> HIDE DEF v
<1>19. c \notin Begun(v)
  <2> SUFFICES ASSUME NEW j \in DOMAIN v, v[j].of = c PROVE FALSE
    BY DEF Begun
  <2>1. j \in 1..(Len(L) - m)
    BY <1>0, <1>17
  <2>2. m + j \in (m + 1)..Len(L) /\ v[j] = L[m + j]
    BY <1>0, <1>1, <1>17, <2>1
  <2>3. c < L[m + j].of
    BY <1>0, <1>14, <2>2
  <2> QED BY <1>0, <1>6, <2>2, <2>3
<1>20. PICK h \in 1..(a + 1) : Begun(v) = h..a /\ Pend(v) = SubSeq(Payloads, h, a)
  BY <1>0, <1>1, <1>17, <1>18, PendIs
<1>21. h \in c..(a + 1) /\ h # c
  <2>1. CASE h <= a
    <3>1. h \in h..a
      BY <1>0, <2>1
    <3>2. h \in c..a
      BY <1>0, <1>15, <1>16, <1>18, <1>20, <3>1
    <3>3. h # c
      BY <1>0, <1>19, <1>20, <3>1
    <3> QED BY <1>0, <1>1, <3>2, <3>3
  <2>2. CASE ~(h <= a)
    BY <1>0, <1>1, <1>6, <2>2
  <2> QED BY <1>0, <2>1, <2>2
<1>22. c \in 1..(a + 1)
  BY <1>0, <1>1, <1>6
<1>23. /\ Pend(L) \in Seq(Range(Payloads)) /\ Len(Pend(L)) = a - c + 1
       /\ Head(Pend(L)) = Payloads[c]
       /\ Pend(v) = From(Pend(L), (h - c) + 1)
  <2>1. c <= a
    BY <1>0, <1>6
  <2> QED BY <1>0, <1>15, <1>16, <1>20, <1>21, <1>22, <2>1, PendCut
<1>24. h - c \in 1..Len(Pend(L)) /\ Pend(L) # <<>>
  BY <1>0, <1>1, <1>6, <1>21, <1>23
<1> QED BY <1>10, <1>23, <1>24 DEF v, L

LEMMA TakeForm ==
  ASSUME TypeInv, FormInv, ReadAnswer
  PROVE  FormInv' /\ (~fouled => Moved)
<1>1. PICK n \in DOMAIN wire : LET b == Resync(buf \o SubSeq(wire, 1, n)) IN
        /\ Chunk(n) /\ Complete(b) /\ pc' = "idle" /\ buf' = <<>>
        /\ got' = Append(got, [cmd |-> sent, clean |-> clean,
                     payload |-> [i \in 1..(FrameLen(b) - 2) |-> b[2 + i].v]])
        /\ fouled' = (fouled \/ Foul(wire'))
  BY DEF ReadAnswer
<1> DEFINE b == Resync(buf \o SubSeq(wire, 1, n))
           e == [i \in 1..(FrameLen(b) - 2) |-> b[2 + i].v]
<1>2. /\ wire' = From(wire, n + 1) /\ pc = "recv" /\ Complete(b) /\ buf' = <<>>
      /\ got' = Append(got, [cmd |-> sent, clean |-> clean, payload |-> e])
      /\ UNCHANGED <<sent, owed>> /\ fouled' = (fouled \/ Foul(wire'))
  BY <1>1 DEF Chunk
<1>3. PICK m \in 0..Len(Line) : \E q \in 0..m : Left(b, wire', m, q)
  BY <1>2, ReadLeft
<1> HIDE DEF b
<1>4. PICK q \in 0..m : Left(b, wire', m, q)
  BY <1>3
<1>w. wire' = From(Line, m + 1)
  BY <1>4 DEF Left
<1>5. /\ Line \in Seq(Byte) /\ Answered \in 0..Len(Payloads) /\ Pending = Pend(Line)
      /\ Run(Line, Answered)
  BY LastSent
<1>6. wire' \in Seq(Byte)
  BY <1>w, <1>5, CutIs
<1>7. Line' = wire'
  <2>1. buf' \o wire' = wire'
    BY <1>2, <1>6, ConcatEmptySeq
  <2> QED BY <2>1 DEF Line
<1>8. Answered' = Answered
  BY <1>2 DEF Answered
<1>9. Run(Line', Answered')
  BY <1>w, <1>7, <1>8, CutMoves
<1>10. ~fouled' => Clear(Line')
  <2>1. Answered' \in Nat
    BY <1>5, <1>8, PayloadsLen
  <2> QED BY <1>2, <1>6, <1>7, <1>9, <2>1, ClearUnlessFoul
<1>11. \A i \in DOMAIN owed' : owed'[i] = Answered' + i
  BY <1>2, <1>8 DEF FormInv
<1>12. FormInv'
  BY <1>9, <1>10, <1>11 DEF FormInv
<1>13. ASSUME ~fouled PROVE Moved
  <2>1. Clear(Line)
    BY <1>2, <1>13 DEF FormInv
  <2>2. /\ e = Head(Pend(Line))
        /\ \E l \in 1..Len(Pend(Line)) : Pend(From(Line, m + 1)) = From(Pend(Line), l + 1)
    BY <1>2, <1>4, <1>5, <2>1, TakeFirst
  <2>3. Pending' = Pend(From(Line, m + 1))
    BY <1>w, <1>7 DEF Pending, Pend
  <2>4. Given' = Append(Given, e)
    <3> DEFINE x == [cmd |-> sent, clean |-> clean, payload |-> e]
               S == [cmd : 1..sent, clean : BOOLEAN, payload : Seq(Nat)]
    <3>1. got \in Seq(S) /\ got' = Append(got, x) /\ x.payload = e
      BY <1>2 DEF TypeInv, TypeOK
    <3> HIDE DEF x, S, e
    <3>2. /\ Len(got') = Len(got) + 1 /\ Len(got) \in Nat
          /\ \A k \in 1..Len(got) : got'[k] = got[k] /\ got'[Len(got) + 1] = x
      BY <3>1
    <3>3. got'[Len(got) + 1] = x
      BY <3>1
    <3>4. Given = [k \in 1..Len(got) |-> got[k].payload]
          /\ Given' = [k \in 1..(Len(got) + 1) |-> got'[k].payload]
      BY <3>2 DEF Given
    <3>5. Given' = [k \in 1..(Len(got) + 1) |-> IF k = Len(got) + 1 THEN e ELSE got[k].payload]
      <4>1. \A k \in 1..(Len(got) + 1) :
              got'[k].payload = IF k = Len(got) + 1 THEN e ELSE got[k].payload
        <5>1. \A k \in 1..(Len(got) + 1) : k # Len(got) + 1 => k \in 1..Len(got)
          BY <3>2
        <5> QED BY <3>1, <3>2, <3>3, <5>1
      <4> QED BY <3>4, <4>1
    <3> DEFINE T == {got[k].payload : k \in 1..Len(got)} \cup {e}
    <3>6. Given \in Seq(T) /\ Len(Given) = Len(got) /\ e \in T
      BY <3>2, <3>4
    <3>7. \A k \in 1..Len(got) : Given[k] = got[k].payload
      BY <3>4
    <3> HIDE DEF T
    <3>8. /\ Append(Given, e) \in Seq(T) /\ Len(Append(Given, e)) = Len(Given) + 1
          /\ \A k \in 1..(Len(Given) + 1) :
               Append(Given, e)[k] = IF k = Len(Given) + 1 THEN e ELSE Given[k]
      BY <3>6
    <3> DEFINE A == Append(Given, e)
    <3>9. A = [k \in 1..(Len(got) + 1) |-> A[k]]
      <4>1. A \in Seq(T) /\ Len(A) = Len(got) + 1
        BY <3>6, <3>8
      <4> HIDE DEF A
      <4> QED BY <4>1
    <3>10. ASSUME NEW k \in 1..(Len(got) + 1)
           PROVE  A[k] = IF k = Len(got) + 1 THEN e ELSE got[k].payload
      <4>1. k # Len(got) + 1 => k \in 1..Len(got)
        BY <3>2
      <4> QED BY <3>6, <3>7, <3>8, <4>1
    <3> HIDE DEF A
    <3> QED BY <3>5, <3>9, <3>10 DEF A
  <2> HIDE DEF e
  <2> QED BY <1>5, <2>2, <2>3, <2>4 DEF Moved
<1> QED BY <1>12, <1>13

LEMMA FormInit == Init => FormInv
<1> SUFFICES ASSUME Init PROVE FormInv
  OBVIOUS
<1>1. owed = <<>> /\ Line = <<>> /\ sent = 0
  BY DEF Init, Line
<1>2. Run(<<>>, Answered) /\ Clear(<<>>)
  BY DEF Run, Clear, MagicAt
<1> QED BY <1>1, <1>2 DEF FormInv

LEMMA FormStep ==
  ASSUME TypeInv, FormInv, [Next]_vars
  PROVE  FormInv' /\ (~fouled /\ ~fouled' => Moved)
<1>1. ASSUME UNCHANGED vars PROVE FormInv' /\ Moved
  <2>1. /\ Line' = Line /\ Pending' = Pending /\ Given' = Given /\ Answered' = Answered
    BY <1>1 DEF Line, Pending, Given, Answered
  <2> QED BY <1>1, <2>1 DEF FormInv, Moved
<1> QED BY <1>1, CommandForm, AnswerForm, ReadMoreForm, TakeForm, GiveUpForm, OpenForm DEF Next

\* Whatever read() returns at once and wherever a session cuts the line, each
\* call is given one whole answer, in the order they were sent, none twice,
\* until a tail that holds the magic's value is left on the line.
\* pdl.py:70-92
THEOREM ImplementsFifo == Spec => LinkIsFifo
<1>1. Init => Fifo!Init
  <2> SUFFICES ASSUME Init PROVE Fifo!Init
    OBVIOUS
  <2>1. Line = <<>> /\ got = <<>> /\ ~fouled
    BY DEF Init, Line
  <2>2. Pending = <<>> /\ Given = <<>>
    BY <2>1 DEF Pending, Begun, Given
  <2> QED BY <2>1, <2>2 DEF Fifo!Init, Given
<1>2. TypeInv /\ FormInv /\ [Next]_vars => FormInv' /\ [Fifo!Next]_(Fifo!vars)
  <2> SUFFICES ASSUME TypeInv, FormInv, [Next]_vars PROVE FormInv' /\ [Fifo!Next]_(Fifo!vars)
    OBVIOUS
  <2>1. FormInv' /\ (~fouled /\ ~fouled' => Moved)
    BY FormStep
  <2>2. fouled => fouled'
    BY DEF Next, Command, DevAnswer, ReadMore, ReadAnswer, Chunk, Deadline, Open
  <2>t. fouled \in BOOLEAN /\ fouled' \in BOOLEAN
    BY NextTypes DEF TypeInv, TypeOK
  <2>3. CASE fouled
    BY <2>1, <2>2, <2>3, <2>t DEF Fifo!vars
  <2>4. CASE ~fouled /\ fouled'
    BY <2>1, <2>4, <2>t DEF Fifo!Next, Fifo!Break
  <2>5. CASE ~fouled /\ ~fouled'
    <3>1. Moved
      BY <2>1, <2>5
    <3>2. CASE Pending' = Pending /\ Given' = Given
      BY <2>1, <2>5, <2>t, <3>2 DEF Fifo!vars, Given
    <3>3. CASE \E b \in Range(Payloads) : Pending' = Append(Pending, b) /\ Given' = Given
      BY <2>1, <2>5, <2>t, <3>3 DEF Fifo!Next, Fifo!Put, Given
    <3>4. CASE \E n \in 1..Len(Pending) :
                 /\ Pending' = From(Pending, n + 1)
                 /\ Given' = Given \/ Given' = Append(Given, Head(Pending))
      <4>1. PICK n \in 1..Len(Pending) :
              /\ Pending' = From(Pending, n + 1)
              /\ Given' = Given \/ Given' = Append(Given, Head(Pending))
        BY <3>4
      <4>2. CASE Given' = Given
        BY <2>1, <2>5, <2>t, <4>1, <4>2 DEF Fifo!Next, Fifo!GiveUp, Fifo!Leave, From, Given
      <4>3. CASE Given' = Append(Given, Head(Pending))
        BY <2>1, <2>5, <2>t, <4>1, <4>3 DEF Fifo!Next, Fifo!Take, Fifo!Leave, From, Given
      <4> QED BY <4>1, <4>2, <4>3
    <3> QED BY <3>1, <3>2, <3>3, <3>4 DEF Moved
  <2> QED BY <2>2, <2>3, <2>4, <2>5
<1>3. PdlInv => TypeInv
  BY DEF PdlInv
<1> QED BY <1>1, <1>2, <1>3, FormInit, AlwaysInv, PTL DEF Spec, LinkIsFifo, Fifo!Spec
=============================================================================
