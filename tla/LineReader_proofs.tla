---------------------------- MODULE LineReader_proofs ----------------------------
(***************************************************************************)
(* Proofs of the safety properties of LineReader, for any streams, packets *)
(* of any size, and both modes.                                            *)
(*                                                                         *)
(* What a stream stands for is a recursive function of its length.  That   *)
(* it has its equation, and what follows from it for every length, is      *)
(* proved by induction: the set of the lengths for which it is wrong has   *)
(* no least element.                                                       *)
(***************************************************************************)
EXTENDS LineStream, SequenceTheorems, WellFoundedInduction, TLAPS

(* The inductive invariant. *)

Byte == {"x", "y", "TAB", "CR", "LF", "BS", "INT", "EOT"}

TypeOK ==
    /\ input \in Seq(Byte) /\ wire \in Seq(Byte)
    /\ buf \in Seq(Byte) /\ data \in Seq(Byte)
    /\ line \in Seq(Byte) /\ screen \in Seq(Byte)
    /\ lines \in Seq(Seq(Byte))
    /\ echoOn \in BOOLEAN /\ skipLf \in BOOLEAN /\ asUser \in BOOLEAN
    /\ apart \in BOOLEAN /\ unseen \in BOOLEAN /\ over \in BOOLEAN

\* The mode never changes, or all that was received is used up when it does.
Steady  == NoSwitch
AtOnce  == apart /\ NoKeys

\* The number of bytes read_line has gone through.
Gone == Len(input) - Len(wire) - Len(buf) - Len(data)

\* What was sent and not received, and what was received and not gone through, are the next bytes
\* of the stream.
ArrivedInv ==
    /\ Len(wire) <= Len(input)
    /\ \A i \in 1..Len(wire) : wire[i] = input[Len(input) - Len(wire) + i]
    /\ Steady \/ AtOnce =>
         /\ echoOn => buf = <<>>
         /\ ~echoOn => data = <<>> /\ line = <<>>
         /\ Gone \in Nat
         /\ \A i \in 1..Len(buf) : buf[i] = input[Gone + i]
         /\ \A i \in 1..Len(data) : data[i] = input[Gone + i]

\* No LF is owed that is there, and a line end is the last byte that was received.
EndsInv ==
    /\ skipLf /\ buf # <<>> => buf[1] # "LF"
    /\ apart => /\ \A i \in 1..(Len(buf) - 1) : buf[i] \notin Eol
                /\ \A i \in 1..(Len(data) - 1) : data[i] \notin Eol \cup {"INT"}
    /\ Steady => echoOn = asUser

\* Nothing is left to go through.
Through == wire = <<>> /\ buf = <<>> /\ data = <<>> /\ line = <<>>

\* The lines so far are those of the stream up to here, and line what has been typed of the next
\* one; at the end of the channel they are those of the whole stream.
Batched  == ~asUser /\ Steady
Unpaired == Batched /\ NoPairs
AtLine ==
    LET s == After(input, FALSE)[Gone]
    IN  /\ ~over /\ s.cur = line /\ Commands(lines) = Commands(s.done)
        /\ Unpaired => lines = s.done
AtEnd ==
    /\ Through /\ Commands(lines) = Commands(BatchLines(input))
    /\ Unpaired => lines = BatchLines(input)
LinesInv == Batched \/ AtOnce => AtLine \/ AtEnd

\* The same for a user who types.
Typist == asUser /\ Steady /\ apart
Typing ==
    LET s == After(input, TRUE)[Gone]
    IN  ~over /\ ~s.out /\ s.cur = line /\ lines = s.done
Typed    == (over \/ Through) /\ lines = TypedLines(input)
TypedInv == Typist => Typing \/ Typed

\* The inductive invariant of all three properties.
IInv == TypeOK /\ ArrivedInv /\ EndsInv /\ LinesInv /\ TypedInv /\ ScreenShowsLine

--------------------------------------------------------------------------------
(* Induction over the natural numbers. *)

\* A set of numbers that is not empty has a least element.
LEMMA LeastNatural ==
    ASSUME NEW T, T \subseteq Nat, T # {}
    PROVE  \E x \in T : \A y \in T : x <= y
<1> DEFINE R == OpToRel(<, Nat)
<1>1. IsWellFoundedOn(R, Nat)
  BY NatLessThanWellFounded
<1>2. \A x, y \in Nat : <<y, x>> \in R <=> y < x
  BY DEF OpToRel
<1> HIDE DEF R
<1>3. PICK x \in T : \A y \in T : ~(<<y, x>> \in R)
  BY <1>1, WFMin
<1>4. \A y \in T : x \in Nat /\ y \in Nat /\ ~(y < x)
  BY <1>2, <1>3
<1>5. QED BY <1>4

\* A set that has a and with each number the next one, up to b, has all from a to b.
LEMMA Induction ==
    ASSUME NEW S, NEW a \in Nat, NEW b \in Nat, a \in S,
           \A n \in a..(b - 1) : n \in S => n + 1 \in S
    PROVE  \A n \in a..b : n \in S
<1> DEFINE T == (a..b) \ S
<1> SUFFICES ASSUME T # {} PROVE FALSE
  OBVIOUS
<1>1. PICK x \in T : \A y \in T : x <= y
  <2>1. T \subseteq Nat
    OBVIOUS
  <2> HIDE DEF T
  <2>2. QED BY <2>1, LeastNatural
<1>2. x # a /\ x - 1 \in a..(b - 1) /\ x - 1 \notin T
  BY <1>1
<1>3. x - 1 \in S /\ (x - 1) + 1 = x
  BY <1>2
<1>4. QED BY <1>2, <1>3

--------------------------------------------------------------------------------
(* What a stream stands for. *)

States == [done : Seq(Seq(Byte)), cur : Seq(Byte), cr : BOOLEAN, out : BOOLEAN]

\* One byte more.
Turn(s, b, typing) == IF typing THEN Edit(s, b) ELSE Split(s, b)

\* The equation of After.
LEMMA AfterEquation ==
    ASSUME NEW bytes, NEW typing, Len(bytes) \in Nat
    PROVE  /\ After(bytes, typing)[0] = Start
           /\ \A n \in 1..Len(bytes) :
                After(bytes, typing)[n] = Turn(After(bytes, typing)[n - 1], bytes[n], typing)
<1> DEFINE Eq(g, m) == g = [n \in 0..m |-> IF n = 0 THEN Start ELSE Turn(g[n - 1], bytes[n], typing)]
           S == {m \in Nat : \E g : Eq(g, m)}
<1>1. 0 \in S
  <2> DEFINE g == [n \in 0..0 |-> Start]
  <2>1. Eq(g, 0)
    OBVIOUS
  <2>2. QED BY <2>1
<1>2. ASSUME NEW m \in 0..(Len(bytes) - 1), m \in S PROVE m + 1 \in S
  <2>1. PICK g : Eq(g, m)
    BY <1>2
  <2> DEFINE h == [n \in 0..(m + 1) |-> IF n = m + 1 THEN Turn(g[m], bytes[m + 1], typing) ELSE g[n]]
  <2>2. ASSUME NEW n \in 0..(m + 1)
        PROVE  h[n] = IF n = 0 THEN Start ELSE Turn(h[n - 1], bytes[n], typing)
    <3>1. CASE n = m + 1
      BY <3>1
    <3>2. CASE n # m + 1
      <4>1. n \in 0..m /\ h[n] = g[n]
        BY <3>2
      <4>2. g[n] = IF n = 0 THEN Start ELSE Turn(g[n - 1], bytes[n], typing)
        BY <2>1, <4>1
      <4>3. n # 0 => n - 1 \in 0..(m + 1) /\ n - 1 # m + 1 /\ h[n - 1] = g[n - 1]
        BY <4>1
      <4>4. QED BY <4>1, <4>2, <4>3
    <3>3. QED BY <3>1, <3>2
  <2>3. Eq(h, m + 1)
    BY <2>2
  <2>4. m + 1 \in Nat
    OBVIOUS
  <2> HIDE DEF h, Eq
  <2>5. QED BY <2>3, <2>4
<1>3. Len(bytes) \in S
  <2> HIDE DEF S
  <2>1. \A n \in 0..Len(bytes) : n \in S
    BY <1>1, <1>2, Induction
  <2>2. QED BY <2>1
<1>4. Eq(After(bytes, typing), Len(bytes))
  <2>1. After(bytes, typing) = CHOOSE g : Eq(g, Len(bytes))
    BY DEF After, Turn
  <2>2. \E g : Eq(g, Len(bytes))
    BY <1>3
  <2> HIDE DEF Eq
  <2>3. QED BY <2>1, <2>2
<1>5. QED BY <1>4

\* A byte more leaves a state of a stream.
LEMMA TurnType ==
    ASSUME NEW s \in States, NEW b \in Byte, NEW typing
    PROVE  Turn(s, b, typing) \in States
<1>1. /\ s.done \in Seq(Seq(Byte)) /\ s.cur \in Seq(Byte) /\ s.cr \in BOOLEAN /\ s.out \in BOOLEAN
      /\ s = [done |-> s.done, cur |-> s.cur, cr |-> s.cr, out |-> s.out]
  BY DEF States
<1>2. /\ Append(s.done, s.cur) \in Seq(Seq(Byte)) /\ Append(s.done, <<>>) \in Seq(Seq(Byte))
      /\ Append(s.cur, b) \in Seq(Byte) /\ <<>> \in Seq(Byte)
  BY <1>1
<1>3. s.cur # <<>> => Front(s.cur) \in Seq(Byte)
  BY <1>1 DEF Front
<1>4. Split(s, b) \in States
  BY <1>1, <1>2 DEF Split, States, Eol
<1>5. Edit(s, b) \in States
  <2>1. CASE s.out
    BY <2>1 DEF Edit
  <2>2. CASE ~s.out /\ b \in Eol
    BY <1>1, <1>2, <2>2 DEF Edit, States, Eol, Text
  <2>3. CASE ~s.out /\ b = "INT"
    BY <1>1, <1>2, <2>3 DEF Edit, States, Eol, Text
  <2>4. CASE ~s.out /\ b = "BS"
    BY <1>1, <1>3, <2>4 DEF Edit, States, Eol, Text
  <2>5. CASE ~s.out /\ b = "EOT"
    BY <1>1, <2>5 DEF Edit, States, Eol, Text
  <2>6. CASE ~s.out /\ b \in Text
    BY <1>1, <1>2, <2>6 DEF Edit, States, Eol, Text
  <2>7. QED BY <2>1, <2>2, <2>3, <2>4, <2>5, <2>6 DEF Byte, Eol, Text
<1>6. QED BY <1>4, <1>5 DEF Turn

\* So does any number of them.
LEMMA AfterType ==
    ASSUME NEW bytes \in Seq(Byte), NEW typing
    PROVE  \A n \in 0..Len(bytes) : After(bytes, typing)[n] \in States
<1> DEFINE S == {n \in Nat : After(bytes, typing)[n] \in States}
<1>1. Len(bytes) \in Nat /\ \A n \in 1..Len(bytes) : bytes[n] \in Byte
  OBVIOUS
<1>2. 0 \in S
  <2>1. After(bytes, typing)[0] = Start
    BY <1>1, AfterEquation
  <2>2. Start \in States
    <3>1. <<>> \in Seq(Byte) /\ <<>> \in Seq(Seq(Byte))
      OBVIOUS
    <3>2. QED BY <3>1 DEF Start, States
  <2>3. QED BY <2>1, <2>2
<1>3. ASSUME NEW n \in 0..(Len(bytes) - 1), n \in S PROVE n + 1 \in S
  <2>1. n + 1 \in 1..Len(bytes) /\ (n + 1) - 1 = n /\ n + 1 \in Nat
    BY <1>1
  <2>2. After(bytes, typing)[n + 1] = Turn(After(bytes, typing)[n], bytes[n + 1], typing)
    BY <1>1, <2>1, AfterEquation
  <2>3. QED BY <1>1, <1>3, <2>1, <2>2, TurnType
<1> HIDE DEF S
<1>4. \A n \in 0..Len(bytes) : n \in S
  BY <1>1, <1>2, <1>3, Induction
<1>5. QED BY <1>4 DEF S

\* Appending to the second of two joined sequences.
LEMMA AppendConcat ==
    ASSUME NEW s \in Seq(Byte), NEW t \in Seq(Byte), NEW e \in Byte
    PROVE  Append(s \o t, e) = s \o Append(t, e)
<1>1. /\ Append(s \o t, e) \in Seq(Byte) /\ Len(Append(s \o t, e)) = Len(s) + Len(t) + 1
      /\ s \o Append(t, e) \in Seq(Byte) /\ Len(s \o Append(t, e)) = Len(s) + (Len(t) + 1)
      /\ Len(s) \in Nat /\ Len(t) \in Nat
  OBVIOUS
<1>2. ASSUME NEW i \in 1..(Len(s) + Len(t) + 1) PROVE Append(s \o t, e)[i] = (s \o Append(t, e))[i]
  <2>1. Len(s \o t) = Len(s) + Len(t)
    OBVIOUS
  <2>2. CASE i <= Len(s)
    BY <1>1, <2>1, <2>2
  <2>3. CASE i > Len(s) /\ i <= Len(s) + Len(t)
    BY <1>1, <2>1, <2>3
  <2>4. CASE i = Len(s) + Len(t) + 1
    BY <1>1, <2>1, <2>4
  <2>5. QED BY <1>1, <2>2, <2>3, <2>4
<1>3. QED BY <1>1, <1>2, SeqEqual

\* IsPrefix, element by element.
LEMMA PrefixElements ==
    ASSUME NEW E, NEW s \in Seq(E), NEW t \in Seq(E)
    PROVE  IsPrefix(s, t) <=> Len(s) <= Len(t) /\ \A i \in 1..Len(s) : s[i] = t[i]
<1>1. SubSeq(s, 1, Len(s)) = s
  BY SubSeqFull
<1>2. ASSUME Len(s) <= Len(t)
      PROVE  /\ SubSeq(t, 1, Len(s)) \in Seq(E) /\ Len(SubSeq(t, 1, Len(s))) = Len(s)
             /\ \A i \in 1..Len(s) : SubSeq(t, 1, Len(s))[i] = t[i]
  BY <1>2
<1>3. Len(s) <= Len(t) => (SubSeq(s, 1, Len(s)) = SubSeq(t, 1, Len(s)) <=> \A i \in 1..Len(s) : s[i] = t[i])
  BY <1>1, <1>2, SeqEqual
<1>4. QED BY <1>3 DEF IsPrefix

\* IsPrefix is an order, and a sequence is a prefix of itself with one more element.
LEMMA PrefixFacts ==
    ASSUME NEW E, NEW s \in Seq(E), NEW t \in Seq(E), NEW u \in Seq(E)
    PROVE  /\ IsPrefix(s, s)
           /\ \A e \in E : IsPrefix(s, Append(s, e))
           /\ IsPrefix(s, t) /\ IsPrefix(t, u) => IsPrefix(s, u)
<1> DEFINE Same(x, y) == Len(x) <= Len(y) /\ \A i \in 1..Len(x) : x[i] = y[i]
<1>1. ASSUME NEW x \in Seq(E), NEW y \in Seq(E)
      PROVE  IsPrefix(x, y) <=> Same(x, y)
  BY PrefixElements
<1>2. /\ Same(s, s)
      /\ \A e \in E : Same(s, Append(s, e)) /\ Append(s, e) \in Seq(E)
      /\ Same(s, t) /\ Same(t, u) => Same(s, u)
  OBVIOUS
<1> HIDE DEF Same
<1>3. QED BY <1>1, <1>2

\* A line that is ended stays.
LEMMA LinesStay ==
    ASSUME NEW bytes \in Seq(Byte), NEW typing,
           NEW m \in 0..Len(bytes), NEW n \in m..Len(bytes)
    PROVE  IsPrefix(After(bytes, typing)[m].done, After(bytes, typing)[n].done)
<1> DEFINE A == After(bytes, typing)
           S == {k \in Nat : IsPrefix(A[m].done, A[k].done)}
<1>1. /\ Len(bytes) \in Nat /\ \A k \in 1..Len(bytes) : bytes[k] \in Byte
      /\ \A k \in 0..Len(bytes) : A[k] \in States /\ A[k].done \in Seq(Seq(Byte))
  BY AfterType DEF States
<1>2. m \in S
  BY <1>1, PrefixFacts
<1>3. ASSUME NEW k \in m..(Len(bytes) - 1), k \in S PROVE k + 1 \in S
  <2>1. k + 1 \in 1..Len(bytes) /\ (k + 1) - 1 = k /\ k + 1 \in Nat /\ k \in 0..Len(bytes) /\ k + 1 \in 0..Len(bytes)
    BY <1>1
  <2>2. A[k + 1] = Turn(A[k], bytes[k + 1], typing)
    BY <1>1, <2>1, AfterEquation
  <2>3. A[k + 1].done \in {A[k].done, Append(A[k].done, A[k].cur), Append(A[k].done, <<>>)}
    <3> DEFINE s == A[k]
               b == bytes[k + 1]
    <3>1. s \in States /\ b \in Byte
      BY <1>1, <2>1
    <3>2. Turn(s, b, typing).done \in {s.done, Append(s.done, s.cur), Append(s.done, <<>>)}
      <4> HIDE DEF s, b
      <4>1. Split(s, b).done \in {s.done, Append(s.done, s.cur)}
        BY <3>1 DEF Split, States
      <4>2. Edit(s, b).done \in {s.done, Append(s.done, s.cur), Append(s.done, <<>>)}
        BY <3>1 DEF Edit, States, Byte, Eol, Text
      <4>3. QED BY <4>1, <4>2 DEF Turn
    <3>3. QED BY <2>2, <3>2
  <2>4. A[k].cur \in Seq(Byte) /\ <<>> \in Seq(Byte)
    BY <1>1, <2>1 DEF States
  <2>5. IsPrefix(A[k].done, A[k + 1].done)
    <3>1. A[k].done \in Seq(Seq(Byte))
      BY <1>1, <2>1
    <3>2. A[k + 1].done \in Seq(Seq(Byte))
      BY <1>1, <2>1
    <3> HIDE DEF A
    <3>3. CASE A[k + 1].done = A[k].done
      BY <3>1, <3>3, PrefixFacts
    <3>4. CASE A[k + 1].done # A[k].done
      <4>1. PICK e \in Seq(Byte) : A[k + 1].done = Append(A[k].done, e)
        BY <2>3, <2>4, <3>4
      <4>2. QED BY <3>1, <4>1, PrefixFacts
    <3>5. QED BY <3>3, <3>4
  <2>6. IsPrefix(A[m].done, A[k].done)
    BY <1>3
  <2>7. IsPrefix(A[m].done, A[k + 1].done)
    BY <1>1, <2>1, <2>5, <2>6, PrefixFacts
  <2>8. QED BY <2>1, <2>7
<1>4. m \in Nat /\ Len(bytes) \in Nat
  BY <1>1
<1> HIDE DEF S
<1>5. \A k \in m..Len(bytes) : k \in S
  BY <1>2, <1>3, <1>4, Induction
<1>6. n \in S
  BY <1>5
<1>7. QED BY <1>6 DEF S

\* The bytes before a line end are copied.
LEMMA Copies ==
    ASSUME NEW bytes \in Seq(Byte), NEW p \in 0..Len(bytes), NEW q \in p..Len(bytes),
           \A i \in (p + 1)..q : bytes[i] \notin Eol
    PROVE  LET A == After(bytes, FALSE)
           IN  /\ A[q].done = A[p].done /\ A[q].cur = A[p].cur \o SubSeq(bytes, p + 1, q)
               /\ q > p => ~A[q].cr
<1> DEFINE A == After(bytes, FALSE)
           S == {k \in Nat : /\ A[k].done = A[p].done /\ A[k].cur = A[p].cur \o SubSeq(bytes, p + 1, k)
                             /\ k > p => ~A[k].cr}
<1>1. /\ Len(bytes) \in Nat /\ p \in Nat /\ q \in Nat
      /\ \A k \in 1..Len(bytes) : bytes[k] \in Byte
      /\ \A k \in 0..Len(bytes) : A[k] \in States /\ A[k].cur \in Seq(Byte)
  <2>1. \A k \in 0..Len(bytes) : A[k] \in States
    BY AfterType
  <2> HIDE DEF A
  <2>2. \A k \in 0..Len(bytes) : A[k].cur \in Seq(Byte)
    BY <2>1 DEF States
  <2>3. QED BY <2>1, <2>2
<1>2. p \in S
  <2>1. A[p].cur \in Seq(Byte)
    BY <1>1
  <2>2. SubSeq(bytes, p + 1, p) = <<>>
    BY <1>1, SubSeqEmpty
  <2> HIDE DEF A
  <2>3. A[p].cur \o <<>> = A[p].cur
    BY <2>1, ConcatEmptySeq
  <2>4. p \in Nat /\ ~(p > p)
    BY <1>1
  <2>5. QED BY <2>2, <2>3, <2>4
<1>3. ASSUME NEW k \in p..(q - 1), k \in S PROVE k + 1 \in S
  <2>1. k + 1 \in 1..Len(bytes) /\ (k + 1) - 1 = k /\ k \in 0..Len(bytes) /\ k + 1 \in (p + 1)..q
    BY <1>1
  <2>2. A[k + 1] = Split(A[k], bytes[k + 1])
    BY <1>1, <2>1, AfterEquation DEF Turn
  <2>3. A[k] \in States /\ bytes[k + 1] \notin Eol
    BY <1>1, <2>1
  <2>4. A[k + 1].done = A[k].done /\ A[k + 1].cur = Append(A[k].cur, bytes[k + 1]) /\ ~A[k + 1].cr
    <3> DEFINE s == A[k]
               b == bytes[k + 1]
    <3>1. s \in States /\ b \notin Eol
      BY <2>3
    <3>2. Split(s, b).done = s.done /\ Split(s, b).cur = Append(s.cur, b) /\ ~Split(s, b).cr
      <4> HIDE DEF s, b
      <4>1. QED BY <3>1 DEF Split, States, Eol
    <3>3. QED BY <2>2, <3>2
  <2>5. A[k + 1].cur = A[p].cur \o SubSeq(bytes, p + 1, k + 1)
    <3>1. A[k].cur = A[p].cur \o SubSeq(bytes, p + 1, k) /\ A[p].cur \in Seq(Byte)
      BY <1>1, <1>3
    <3>2. /\ SubSeq(bytes, p + 1, k) \in Seq(Byte) /\ bytes[k + 1] \in Byte
          /\ SubSeq(bytes, p + 1, k + 1) = Append(SubSeq(bytes, p + 1, k), bytes[k + 1])
      BY <1>1, <2>1
    <3> HIDE DEF A
    <3>3. Append(A[p].cur \o SubSeq(bytes, p + 1, k), bytes[k + 1])
          = A[p].cur \o Append(SubSeq(bytes, p + 1, k), bytes[k + 1])
      <4> DEFINE u == A[p].cur
                 v == SubSeq(bytes, p + 1, k)
                 b == bytes[k + 1]
      <4>1. u \in Seq(Byte) /\ v \in Seq(Byte) /\ b \in Byte
        BY <3>1, <3>2
      <4> HIDE DEF u, v, b
      <4>2. Append(u \o v, b) = u \o Append(v, b)
        BY <4>1, AppendConcat
      <4>3. QED BY <4>2 DEF u, v, b
    <3>4. QED BY <2>4, <3>1, <3>2, <3>3
  <2>6. A[k + 1].done = A[p].done
    BY <1>3, <2>4
  <2>7. k + 1 \in Nat
    BY <2>1
  <2> HIDE DEF A
  <2>8. QED BY <2>4, <2>5, <2>6, <2>7
<1> HIDE DEF S
<1>4. \A k \in p..q : k \in S
  BY <1>1, <1>2, <1>3, Induction
<1>5. q \in S
  BY <1>1, <1>4
<1>6. QED BY <1>5 DEF S

\* After a CR nothing has been typed of the next line.
LEMMA CarriageReturn ==
    ASSUME NEW bytes \in Seq(Byte), NEW n \in 0..Len(bytes), After(bytes, FALSE)[n].cr
    PROVE  n > 0 /\ bytes[n] = "CR" /\ After(bytes, FALSE)[n].cur = <<>>
<1> DEFINE s == After(bytes, FALSE)[n - 1]
           t == After(bytes, FALSE)[n]
           b == bytes[n]
<1>1. Len(bytes) \in Nat /\ n \in Nat
  OBVIOUS
<1>2. CASE n = 0
  <2>1. After(bytes, FALSE)[0] = Start /\ Start.cr = FALSE
    BY <1>1, AfterEquation DEF Start
  <2>2. QED BY <1>2, <2>1
<1>3. CASE n # 0
  <2>1. n \in 1..Len(bytes) /\ n - 1 \in 0..Len(bytes)
    BY <1>1, <1>3
  <2>2. s \in States
    BY <2>1, AfterType
  <2>3. t = Split(s, b)
    BY <1>1, <2>1, AfterEquation DEF Turn
  <2>4. t.cr
    OBVIOUS
  <2> HIDE DEF s, t, b
  <2>5. b = "CR" /\ t.cur = <<>>
    BY <2>2, <2>3, <2>4 DEF Split, States, Eol
  <2>6. n > 0
    BY <2>1
  <2>7. QED BY <2>5, <2>6 DEF t, b
<1>4. QED BY <1>2, <1>3

\* A line end ends the line, but for an LF after a CR, which is part of it.
LEMMA EndsLine ==
    ASSUME NEW bytes \in Seq(Byte), NEW n \in 1..Len(bytes), bytes[n] \in Eol
    PROVE  LET s == After(bytes, FALSE)[n - 1]
               t == After(bytes, FALSE)[n]
           IN  /\ t.cur = <<>> /\ (t.cr <=> bytes[n] = "CR")
               /\ IF bytes[n] = "LF" /\ s.cr THEN t.done = s.done ELSE t.done = Append(s.done, s.cur)
<1> DEFINE s == After(bytes, FALSE)[n - 1]
           t == After(bytes, FALSE)[n]
           b == bytes[n]
<1>1. Len(bytes) \in Nat /\ n - 1 \in 0..Len(bytes) /\ b \in Eol
  OBVIOUS
<1>2. s \in States /\ (s.cr => s.cur = <<>>)
  BY <1>1, AfterType, CarriageReturn
<1>3. t = Split(s, b)
  BY <1>1, AfterEquation DEF Turn
<1> HIDE DEF s, t, b
<1>4. /\ t.cur = <<>> /\ (t.cr <=> b = "CR")
      /\ IF b = "LF" /\ s.cr THEN t.done = s.done ELSE t.done = Append(s.done, s.cur)
  BY <1>1, <1>2, <1>3 DEF Split, States, Eol
<1>5. QED BY <1>4 DEF s, t, b

\* Nothing is typed after the logout.
LEMMA StaysOut ==
    ASSUME NEW bytes \in Seq(Byte), NEW p \in 0..Len(bytes), NEW q \in p..Len(bytes),
           After(bytes, TRUE)[p].out
    PROVE  After(bytes, TRUE)[q] = After(bytes, TRUE)[p]
<1> DEFINE A == After(bytes, TRUE)
           S == {k \in Nat : A[k] = A[p]}
<1>1. Len(bytes) \in Nat /\ p \in Nat /\ q \in Nat
  OBVIOUS
<1>2. p \in S
  BY <1>1
<1>3. ASSUME NEW k \in p..(q - 1), k \in S PROVE k + 1 \in S
  <2>1. k + 1 \in 1..Len(bytes) /\ (k + 1) - 1 = k /\ k + 1 \in Nat
    BY <1>1
  <2>2. A[k + 1] = Edit(A[k], bytes[k + 1])
    BY <1>1, <2>1, AfterEquation DEF Turn
  <2>3. A[k] = A[p] /\ A[p].out
    BY <1>3
  <2> HIDE DEF A
  <2>4. Edit(A[k], bytes[k + 1]) = A[k]
    BY <2>3 DEF Edit
  <2>5. QED BY <2>1, <2>2, <2>3, <2>4
<1> HIDE DEF S
<1>4. \A k \in p..q : k \in S
  BY <1>1, <1>2, <1>3, Induction
<1>5. q \in S
  BY <1>1, <1>4
<1>6. QED BY <1>5 DEF S

--------------------------------------------------------------------------------
(* The commands among some lines. *)

\* The equation of CommandsAmong.
LEMMA CommandsEquation ==
    ASSUME NEW s, Len(s) \in Nat
    PROVE  /\ CommandsAmong(s)[0] = <<>>
           /\ \A n \in 1..Len(s) :
                CommandsAmong(s)[n] = IF s[n] = <<>> THEN CommandsAmong(s)[n - 1]
                                      ELSE Append(CommandsAmong(s)[n - 1], s[n])
<1> DEFINE Step(c, n) == IF s[n] = <<>> THEN c ELSE Append(c, s[n])
           Eq(g, m) == g = [n \in 0..m |-> IF n = 0 THEN <<>>
                                           ELSE IF s[n] = <<>> THEN g[n - 1] ELSE Append(g[n - 1], s[n])]
           S == {m \in Nat : \E g : Eq(g, m)}
<1>1. 0 \in S
  <2> DEFINE g == [n \in 0..0 |-> <<>>]
  <2>1. Eq(g, 0)
    OBVIOUS
  <2>2. QED BY <2>1
<1>2. ASSUME NEW m \in 0..(Len(s) - 1), m \in S PROVE m + 1 \in S
  <2>1. PICK g : Eq(g, m)
    BY <1>2
  <2> DEFINE h == [n \in 0..(m + 1) |-> IF n = m + 1 THEN Step(g[m], m + 1) ELSE g[n]]
  <2>2. ASSUME NEW n \in 0..(m + 1)
        PROVE  h[n] = IF n = 0 THEN <<>> ELSE Step(h[n - 1], n)
    <3>1. CASE n = m + 1
      BY <3>1
    <3>2. CASE n # m + 1
      <4>1. n \in 0..m /\ h[n] = g[n]
        BY <3>2
      <4>2. g[n] = IF n = 0 THEN <<>> ELSE Step(g[n - 1], n)
        BY <2>1, <4>1
      <4>3. n # 0 => n - 1 \in 0..(m + 1) /\ n - 1 # m + 1 /\ h[n - 1] = g[n - 1]
        BY <4>1
      <4>4. QED BY <4>1, <4>2, <4>3
    <3>3. QED BY <3>1, <3>2
  <2>3. Eq(h, m + 1)
    BY <2>2
  <2>4. m + 1 \in Nat
    OBVIOUS
  <2> HIDE DEF h, Eq
  <2>5. QED BY <2>3, <2>4
<1>3. Len(s) \in S
  <2> HIDE DEF S
  <2>1. \A n \in 0..Len(s) : n \in S
    BY <1>1, <1>2, Induction
  <2>2. QED BY <2>1
<1>4. Eq(CommandsAmong(s), Len(s))
  <2>1. CommandsAmong(s) = CHOOSE g : Eq(g, Len(s))
    BY DEF CommandsAmong
  <2>2. \E g : Eq(g, Len(s))
    BY <1>3
  <2> HIDE DEF Eq
  <2>3. QED BY <2>1, <2>2
<1> DEFINE C == CommandsAmong(s)
<1>5. C = [n \in 0..Len(s) |-> IF n = 0 THEN <<>>
                               ELSE IF s[n] = <<>> THEN C[n - 1] ELSE Append(C[n - 1], s[n])]
  BY <1>4
<1> HIDE DEF C
<1>6. C[0] = <<>>
  BY <1>5
<1>7. ASSUME NEW n \in 1..Len(s) PROVE C[n] = IF s[n] = <<>> THEN C[n - 1] ELSE Append(C[n - 1], s[n])
  <2>1. n \in 0..Len(s) /\ n # 0
    OBVIOUS
  <2>2. QED BY <1>5, <2>1
<1>8. QED BY <1>6, <1>7 DEF C

Line  == Seq(Byte)
Lines == Seq(Line)

\* The commands among some lines are lines.
LEMMA CommandsType ==
    ASSUME NEW s \in Lines
    PROVE  \A n \in 0..Len(s) : CommandsAmong(s)[n] \in Lines
<1> DEFINE C == CommandsAmong(s)
           S == {k \in Nat : C[k] \in Lines}
<1>1. Len(s) \in Nat /\ \A k \in 1..Len(s) : s[k] \in Line
  BY DEF Lines
<1>2. 0 \in S
  <2>1. C[0] = <<>> /\ <<>> \in Lines
    BY <1>1, CommandsEquation DEF Lines
  <2>2. QED BY <2>1
<1>3. ASSUME NEW k \in 0..(Len(s) - 1), k \in S PROVE k + 1 \in S
  <2>1. k + 1 \in 1..Len(s) /\ (k + 1) - 1 = k /\ k + 1 \in Nat
    BY <1>1
  <2>2. C[k + 1] = IF s[k + 1] = <<>> THEN C[k] ELSE Append(C[k], s[k + 1])
    BY <1>1, <2>1, CommandsEquation
  <2>3. C[k] \in Lines /\ s[k + 1] \in Line
    BY <1>1, <1>3, <2>1
  <2> HIDE DEF C
  <2>4. C[k + 1] \in Lines
    BY <2>2, <2>3 DEF Lines
  <2>5. QED BY <2>1, <2>4
<1> HIDE DEF S
<1>4. \A k \in 0..Len(s) : k \in S
  BY <1>1, <1>2, <1>3, Induction
<1>5. QED BY <1>4 DEF S

\* They depend on the lines up to there only.
LEMMA CommandsLocal ==
    ASSUME NEW s \in Lines, NEW t \in Lines, IsPrefix(s, t)
    PROVE  \A n \in 0..Len(s) : CommandsAmong(t)[n] = CommandsAmong(s)[n]
<1> DEFINE S == {k \in Nat : CommandsAmong(t)[k] = CommandsAmong(s)[k]}
<1>1. /\ Len(s) \in Nat /\ Len(t) \in Nat /\ Len(s) <= Len(t)
      /\ \A k \in 1..Len(s) : s[k] = t[k]
  BY PrefixElements DEF Lines
<1>2. 0 \in S
  BY <1>1, CommandsEquation
<1>3. ASSUME NEW k \in 0..(Len(s) - 1), k \in S PROVE k + 1 \in S
  <2>1. k + 1 \in 1..Len(s) /\ k + 1 \in 1..Len(t) /\ (k + 1) - 1 = k /\ k + 1 \in Nat
    BY <1>1
  <2>2. /\ CommandsAmong(s)[k + 1] = IF s[k + 1] = <<>> THEN CommandsAmong(s)[k]
                                     ELSE Append(CommandsAmong(s)[k], s[k + 1])
        /\ CommandsAmong(t)[k + 1] = IF t[k + 1] = <<>> THEN CommandsAmong(t)[k]
                                     ELSE Append(CommandsAmong(t)[k], t[k + 1])
    BY <1>1, <2>1, CommandsEquation
  <2>3. QED BY <1>1, <1>3, <2>1, <2>2
<1> HIDE DEF S
<1>4. \A k \in 0..Len(s) : k \in S
  BY <1>1, <1>2, <1>3, Induction
<1>5. QED BY <1>4 DEF S

\* One line more, and the commands among the first lines.
LEMMA CommandsFacts ==
    ASSUME NEW s \in Lines
    PROVE  /\ Commands(s) \in Lines
           /\ \A l \in Line :
                Commands(Append(s, l)) = IF l = <<>> THEN Commands(s) ELSE Append(Commands(s), l)
           /\ \A t \in Lines : IsPrefix(s, t) => IsPrefix(Commands(s), Commands(t))
<1>1. Len(s) \in Nat /\ Len(s) \in 0..Len(s)
  BY DEF Lines
<1>2. Commands(s) \in Lines
  BY <1>1, CommandsType DEF Commands
<1>3. ASSUME NEW l \in Line
      PROVE  Commands(Append(s, l)) = IF l = <<>> THEN Commands(s) ELSE Append(Commands(s), l)
  <2> DEFINE t == Append(s, l)
  <2>1. t \in Lines /\ Len(t) = Len(s) + 1 /\ t[Len(t)] = l /\ IsPrefix(s, t)
    BY PrefixFacts DEF Lines
  <2>2. CommandsAmong(t)[Len(s)] = Commands(s)
    BY <1>1, <2>1, CommandsLocal DEF Commands
  <2>3. Len(t) \in 1..Len(t) /\ Len(t) \in Nat /\ Len(t) - 1 = Len(s)
    BY <1>1, <2>1
  <2> HIDE DEF t
  <2>4. Commands(t) = IF t[Len(t)] = <<>> THEN CommandsAmong(t)[Len(s)]
                      ELSE Append(CommandsAmong(t)[Len(s)], t[Len(t)])
    BY <2>3, CommandsEquation DEF Commands
  <2>5. QED BY <2>1, <2>2, <2>4 DEF t
<1>4. ASSUME NEW t \in Lines, IsPrefix(s, t) PROVE IsPrefix(Commands(s), Commands(t))
  <2> DEFINE C == CommandsAmong(t)
             S == {k \in Nat : IsPrefix(Commands(s), C[k])}
  <2>1. /\ Len(t) \in Nat /\ Len(s) <= Len(t) /\ C[Len(s)] = Commands(s)
        /\ \A k \in 1..Len(t) : t[k] \in Line
        /\ \A k \in 0..Len(t) : C[k] \in Lines
    <3>1. Len(t) \in Nat /\ Len(s) <= Len(t)
      BY <1>4, PrefixElements DEF Lines
    <3>2. C[Len(s)] = Commands(s)
      BY <1>1, <1>4, CommandsLocal DEF Commands
    <3>3. \A k \in 1..Len(t) : t[k] \in Line
      BY DEF Lines
    <3>4. \A k \in 0..Len(t) : C[k] \in Lines
      BY CommandsType
    <3>5. QED BY <3>1, <3>2, <3>3, <3>4
  <2>2. Len(s) \in S
    BY <1>1, <1>2, <2>1, PrefixFacts DEF Lines
  <2>3. ASSUME NEW k \in Len(s)..(Len(t) - 1), k \in S PROVE k + 1 \in S
    <3>1. k + 1 \in 1..Len(t) /\ (k + 1) - 1 = k /\ k + 1 \in Nat /\ k \in 0..Len(t)
      BY <1>1, <2>1
    <3>2. C[k + 1] = IF t[k + 1] = <<>> THEN C[k] ELSE Append(C[k], t[k + 1])
      BY <2>1, <3>1, CommandsEquation
    <3>3. C[k] \in Lines /\ t[k + 1] \in Line /\ IsPrefix(Commands(s), C[k])
      BY <2>1, <2>3, <3>1
    <3> HIDE DEF C
    <3>4. C[k + 1] \in Lines /\ IsPrefix(C[k], C[k + 1])
      BY <3>2, <3>3, PrefixFacts DEF Lines
    <3>5. IsPrefix(Commands(s), C[k + 1])
      BY <1>2, <3>3, <3>4, PrefixFacts DEF Lines
    <3>6. QED BY <3>1, <3>5
  <2> HIDE DEF S
  <2>4. \A k \in Len(s)..Len(t) : k \in S
    BY <1>1, <2>1, <2>2, <2>3, Induction
  <2>5. Len(t) \in S
    BY <1>1, <2>1, <2>4
  <2>6. QED BY <2>5 DEF S, Commands
<1>5. QED BY <1>2, <1>3, <1>4

--------------------------------------------------------------------------------
(* What the steps do, in the terms of the invariant. *)

\* A submitted line comes after the others, and what the mode was stays known.
LEMMA Submitted ==
    ASSUME TypeOK, NEW l \in Seq(Byte), Submit(l)
    PROVE  /\ lines' = Append(lines, l) /\ lines' \in Seq(Seq(Byte)) /\ echoOn' \in BOOLEAN
           /\ Steady' => Steady /\ echoOn' = echoOn
<1>1. lines \in Seq(Seq(Byte)) /\ echoOn \in BOOLEAN /\ lines' = Append(lines, l)
  BY DEF TypeOK, Submit
<1>2. /\ lines' \in Seq(Seq(Byte)) /\ Len(lines') = Len(lines) + 1 /\ lines'[Len(lines')] = l
      /\ \A i \in 1..Len(lines) : lines'[i] = lines[i]
      /\ DOMAIN lines = 1..Len(lines) /\ DOMAIN lines' = 1..Len(lines') /\ Len(lines) \in Nat
  BY <1>1
<1>3. echoOn' \in BOOLEAN /\ (l \notin {EchoCommand, NoEchoCommand} => echoOn' = echoOn)
  BY <1>1 DEF Submit
<1>4. ASSUME Steady' PROVE Steady /\ l \notin {EchoCommand, NoEchoCommand}
  <2>1. \A i \in 1..Len(lines') : lines'[i] \notin {EchoCommand, NoEchoCommand}
    BY <1>2, <1>4 DEF Steady, NoSwitch, EchoCommand, NoEchoCommand
  <2>2. Len(lines') \in 1..Len(lines') /\ \A i \in 1..Len(lines) : i \in 1..Len(lines')
    BY <1>2
  <2>3. l \notin {EchoCommand, NoEchoCommand}
    BY <1>2, <2>1, <2>2
  <2>4. \A i \in 1..Len(lines) : lines[i] \notin {EchoCommand, NoEchoCommand}
    BY <1>2, <2>1, <2>2
  <2>5. QED BY <1>2, <2>3, <2>4 DEF Steady, NoSwitch
<1>5. QED BY <1>1, <1>2, <1>3, <1>4

\* A packet is the next bytes of the stream.
LEMMA Received ==
    ASSUME TypeOK, ArrivedInv, NEW k \in 1..MaxPacket, Packet(k), input' = input
    PROVE  /\ k \in Nat \ {0} /\ k <= Len(wire) /\ Len(wire) \in Nat /\ Len(input) \in Nat
           /\ wire' \in Seq(Byte) /\ Len(wire') = Len(wire) - k
           /\ Len(wire') <= Len(input')
           /\ \A i \in 1..Len(wire') : wire'[i] = input'[Len(input') - Len(wire') + i]
           /\ SubSeq(wire, 1, k) \in Seq(Byte) /\ Len(SubSeq(wire, 1, k)) = k
           /\ \A i \in 1..k : SubSeq(wire, 1, k)[i] = input[Len(input) - Len(wire) + i]
           /\ apart' \in BOOLEAN /\ (apart' => apart)
           /\ apart' => \A i \in 1..(k - 1) : SubSeq(wire, 1, k)[i] \notin Eol \cup {"INT"}
<1>1. /\ wire \in Seq(Byte) /\ input \in Seq(Byte) /\ apart \in BOOLEAN
      /\ Len(wire) <= Len(input) /\ Len(wire) \in Nat /\ Len(input) \in Nat
      /\ \A i \in 1..Len(wire) : wire[i] = input[Len(input) - Len(wire) + i]
  BY DEF TypeOK, ArrivedInv
<1>2. /\ k \in Nat \ {0} /\ k <= Len(wire) /\ wire' = SubSeq(wire, k + 1, Len(wire))
      /\ apart' = (apart /\ \A i \in 1..(k - 1) : wire[i] \notin Eol \cup {"INT"})
  BY MaxPacketAssumption DEF Packet
<1>3. /\ wire' \in Seq(Byte) /\ Len(wire') = Len(wire) - k
      /\ \A i \in 1..Len(wire') : wire'[i] = wire[k + i]
  BY <1>1, <1>2
<1>4. /\ SubSeq(wire, 1, k) \in Seq(Byte) /\ Len(SubSeq(wire, 1, k)) = k
      /\ \A i \in 1..k : SubSeq(wire, 1, k)[i] = wire[i]
  BY <1>1, <1>2
<1>5. ASSUME NEW i \in 1..Len(wire') PROVE wire'[i] = input[Len(input) - Len(wire') + i]
  <2>1. k + i \in 1..Len(wire) /\ i \in Nat
    BY <1>1, <1>2, <1>3
  <2>2. Len(input) - Len(wire) + (k + i) = Len(input) - Len(wire') + i
    <3>1. Len(wire') = Len(wire) - k /\ Len(wire) \in Int /\ Len(input) \in Int /\ k \in Int /\ i \in Int
      BY <1>1, <1>2, <1>3, <2>1
    <3>2. QED BY <3>1
  <2>3. wire'[i] = wire[k + i]
    BY <1>3
  <2>4. QED BY <1>1, <2>1, <2>2, <2>3
<1>6. \A i \in 1..k : i \in 1..Len(wire) /\ SubSeq(wire, 1, k)[i] = input[Len(input) - Len(wire) + i]
  BY <1>1, <1>2, <1>4
<1>7. Len(wire') <= Len(input) /\ apart' \in BOOLEAN /\ (apart' => apart)
  BY <1>1, <1>2, <1>3
<1>8. apart' => \A i \in 1..(k - 1) : SubSeq(wire, 1, k)[i] \notin Eol \cup {"INT"}
  <2>1. \A i \in 1..(k - 1) : i \in 1..k
    BY <1>2
  <2>2. QED BY <1>2, <1>4, <2>1
<1>9. input' = input
  OBVIOUS
<1>10. QED BY <1>1, <1>2, <1>3, <1>4, <1>5, <1>6, <1>7, <1>8, <1>9

\* Nothing is dropped from the buffer.
LEMMA Trim ==
    ASSUME TypeOK, EndsInv
    PROVE  Trimmed = buf /\ buf \in Seq(Byte) /\ Eols = {i \in 1..Len(buf) : buf[i] \in Eol}
<1>1. buf \in Seq(Byte) /\ DOMAIN buf = 1..Len(buf)
  BY DEF TypeOK
<1>2. Trimmed = buf
  <2>1. buf # <<>> => Head(buf) = buf[1]
    BY <1>1
  <2>2. QED BY <2>1 DEF EndsInv, Trimmed
<1>3. QED BY <1>1, <1>2 DEF Eols

\* BatchLine: the first n bytes of the buffer are the line before the line end at i, and the line
\* end, with a paired LF.
TakesLine(i, n) ==
    /\ i \in 1..Len(buf) /\ buf[i] \in Eol /\ \A j \in 1..(i - 1) : buf[j] \notin Eol
    /\ n \in 1..Len(buf)
    /\ \/ n = i
       \/ n = i + 1 /\ buf[i] = "CR" /\ buf[n] = "LF"
    /\ skipLf' \in BOOLEAN /\ (skipLf' => n = Len(buf) \/ buf[n + 1] # "LF")
    /\ buf' = SubSeq(buf, n + 1, Len(buf))
    /\ Submit(SubSeq(buf, 1, i - 1))
    /\ UNCHANGED <<wire, apart, data, line, screen, unseen, over>>

\* BatchLine is such a step.
LEMMA LineTaken ==
    ASSUME TypeOK, EndsInv, NEW i \in Eols, BatchLine(i)
    PROVE  \E n \in 1..Len(buf) : TakesLine(i, n)
<1> DEFINE rest == SubSeq(buf, i + 1, Len(buf))
           paired == buf[i] = "CR" /\ rest # <<>> /\ Head(rest) = "LF"
<1>1. Trimmed = buf /\ buf \in Seq(Byte) /\ i \in 1..Len(buf) /\ buf[i] \in Eol /\ Len(buf) \in Nat
  BY Trim
<1>2. \A j \in 1..(i - 1) : buf[j] \notin Eol
  BY <1>1, Trim DEF BatchLine
<1>3. /\ rest \in Seq(Byte) /\ Len(rest) = Len(buf) - i
      /\ \A j \in 1..Len(rest) : rest[j] = buf[i + j]
  BY <1>1
<1>4. /\ buf' = (IF paired THEN Tail(rest) ELSE rest)
      /\ skipLf' = (buf[i] = "CR" /\ ~paired)
      /\ Submit(SubSeq(buf, 1, i - 1))
      /\ UNCHANGED <<wire, apart, data, line, screen, unseen, over>>
  BY <1>1 DEF BatchLine
<1>5. rest # <<>> => Head(rest) = buf[i + 1] /\ i + 1 \in 1..Len(buf)
  BY <1>1, <1>3
<1>6. CASE paired
  <2>1. Tail(rest) = SubSeq(buf, (i + 1) + 1, Len(buf))
    <3>1. /\ Tail(rest) \in Seq(Byte) /\ Len(Tail(rest)) = Len(rest) - 1
          /\ \A j \in 1..(Len(rest) - 1) : Tail(rest)[j] = rest[j + 1]
      BY <1>3, <1>6, HeadTailProperties
    <3>2. /\ SubSeq(buf, i + 2, Len(buf)) \in Seq(Byte) /\ Len(SubSeq(buf, i + 2, Len(buf))) = Len(rest) - 1
          /\ \A j \in 1..(Len(rest) - 1) : SubSeq(buf, i + 2, Len(buf))[j] = buf[i + 1 + j]
      BY <1>1, <1>3, <1>5, <1>6
    <3>3. \A j \in 1..(Len(rest) - 1) : j + 1 \in 1..Len(rest) /\ rest[j + 1] = buf[i + 1 + j]
      BY <1>1, <1>3
    <3> HIDE DEF rest
    <3>4. Tail(rest) = SubSeq(buf, i + 2, Len(buf))
      BY <3>1, <3>2, <3>3, SeqEqual
    <3>5. i + 2 = (i + 1) + 1
      BY <1>1
    <3>6. QED BY <3>4, <3>5
  <2>2. skipLf' = FALSE /\ buf' = SubSeq(buf, (i + 1) + 1, Len(buf))
    BY <1>4, <1>6, <2>1
  <2>3. i + 1 \in 1..Len(buf) /\ buf[i] = "CR" /\ buf[i + 1] = "LF"
    BY <1>5, <1>6
  <2>4. TakesLine(i, i + 1)
    BY <1>1, <1>2, <1>4, <2>2, <2>3 DEF TakesLine
  <2>5. QED BY <2>3, <2>4
<1>7. CASE ~paired
  <2>1. buf' = SubSeq(buf, i + 1, Len(buf)) /\ skipLf' = (buf[i] = "CR")
    BY <1>4, <1>7
  <2>2. skipLf' => i = Len(buf) \/ buf[i + 1] # "LF"
    <3>1. ASSUME i # Len(buf), skipLf' PROVE buf[i + 1] # "LF"
      <4>1. Len(rest) # 0 /\ Len(<<>>) = 0
        BY <1>1, <1>3, <3>1
      <4>2. Head(rest) = buf[i + 1] /\ Head(rest) # "LF"
        <5>1. rest # <<>>
          BY <4>1
        <5>2. QED BY <1>4, <1>5, <3>1, <5>1
      <4>3. QED BY <4>2
    <3>2. QED BY <3>1
  <2>3. TakesLine(i, i)
    BY <1>1, <1>2, <1>4, <2>1, <2>2 DEF TakesLine
  <2>4. QED BY <1>1, <2>3
<1>8. QED BY <1>6, <1>7

\* The other steps of the batched mode, with nothing dropped.
Receives(k) ==
    /\ \A j \in 1..Len(buf) : buf[j] \notin Eol
    /\ Packet(k) /\ buf' = buf \o SubSeq(wire, 1, k) /\ skipLf' = FALSE
    /\ UNCHANGED <<echoOn, data, line, screen, unseen, lines, over>>
Ends ==
    /\ \A j \in 1..Len(buf) : buf[j] \notin Eol
    /\ wire = <<>> /\ buf' = <<>> /\ skipLf' = FALSE
    /\ \/ buf = <<>> /\ over' = TRUE /\ UNCHANGED <<lines, echoOn>>
       \/ buf # <<>> /\ Submit(buf) /\ UNCHANGED over
    /\ UNCHANGED <<wire, apart, data, line, screen, unseen>>
TimesOut ==
    /\ wire # <<>> /\ buf' = buf /\ skipLf' = FALSE
    /\ UNCHANGED <<wire, apart, echoOn, data, line, screen, unseen, lines, over>>

\* A step of the batched mode is one of four.
LEMMA BatchCases ==
    ASSUME TypeOK, EndsInv, BatchStep
    PROVE  /\ input' = input /\ asUser' = asUser /\ ~echoOn /\ ~over
           /\ \/ \E i, n \in 1..Len(buf) : TakesLine(i, n)
              \/ \E k \in 1..MaxPacket : Receives(k)
              \/ Ends
              \/ TimesOut
<1>1. Trimmed = buf /\ Eols = {i \in 1..Len(buf) : buf[i] \in Eol}
  BY Trim
<1>2. input' = input /\ asUser' = asUser /\ ~echoOn /\ ~over
  BY DEF BatchStep
<1>3. ASSUME NEW i \in Eols, BatchLine(i) PROVE \E m, n \in 1..Len(buf) : TakesLine(m, n)
  BY <1>1, <1>3, LineTaken
<1>4. ASSUME NEW k \in 1..MaxPacket, BatchReceive(k) PROVE Receives(k)
  BY <1>1, <1>4 DEF BatchReceive, Receives
<1>5. BatchEnd => Ends
  BY <1>1 DEF BatchEnd, Ends
<1>6. BatchTimeout => TimesOut
  BY <1>1 DEF BatchTimeout, TimesOut
<1>7. QED BY <1>2, <1>3, <1>4, <1>5, <1>6 DEF BatchStep

--------------------------------------------------------------------------------
(* Types, and the conditions of the invariant, which only ever become false. *)

\* A step of the batched mode keeps the types.
LEMMA BatchTypes ==
    ASSUME TypeOK, ArrivedInv, EndsInv, BatchStep
    PROVE  TypeOK' /\ (Steady' => Steady /\ echoOn' = echoOn) /\ (apart' => apart)
<1>1. input' = input /\ asUser' = asUser /\ buf \in Seq(Byte) /\ Len(buf) \in Nat
  BY BatchCases DEF TypeOK
<1>2. ASSUME NEW i \in 1..Len(buf), NEW n \in 1..Len(buf), TakesLine(i, n)
      PROVE  TypeOK' /\ (Steady' => Steady /\ echoOn' = echoOn) /\ apart' = apart
  <2>1. SubSeq(buf, n + 1, Len(buf)) \in Seq(Byte) /\ SubSeq(buf, 1, i - 1) \in Seq(Byte)
    BY <1>1
  <2>2. Submit(SubSeq(buf, 1, i - 1))
    BY <1>2 DEF TakesLine
  <2>3. lines' \in Seq(Seq(Byte)) /\ echoOn' \in BOOLEAN /\ (Steady' => Steady /\ echoOn' = echoOn)
    BY <2>1, <2>2, Submitted
  <2>4. QED BY <1>1, <1>2, <2>1, <2>3 DEF TypeOK, TakesLine
<1>3. ASSUME NEW k \in 1..MaxPacket, Receives(k)
      PROVE  TypeOK' /\ (Steady' => Steady /\ echoOn' = echoOn) /\ (apart' => apart)
  <2>1. Packet(k)
    BY <1>3 DEF Receives
  <2>2. wire' \in Seq(Byte) /\ SubSeq(wire, 1, k) \in Seq(Byte) /\ apart' \in BOOLEAN /\ (apart' => apart)
    BY <1>1, <2>1, Received
  <2>3. buf \o SubSeq(wire, 1, k) \in Seq(Byte)
    BY <1>1, <2>2
  <2>4. QED BY <1>1, <1>3, <2>2, <2>3 DEF TypeOK, Receives, Steady, NoSwitch
<1>4. ASSUME Ends PROVE TypeOK' /\ (Steady' => Steady /\ echoOn' = echoOn) /\ apart' = apart
  <2>1. <<>> \in Seq(Byte) /\ wire' = wire
    BY <1>4 DEF Ends
  <2>2. CASE buf # <<>>
    <3>1. Submit(buf)
      BY <1>4, <2>2 DEF Ends
    <3>2. lines' \in Seq(Seq(Byte)) /\ echoOn' \in BOOLEAN /\ (Steady' => Steady /\ echoOn' = echoOn)
      BY <1>1, <3>1, Submitted
    <3>3. QED BY <1>1, <1>4, <2>1, <2>2, <3>2 DEF TypeOK, Ends
  <2>3. CASE buf = <<>>
    BY <1>1, <1>4, <2>1, <2>3 DEF TypeOK, Ends, Steady, NoSwitch
  <2>4. QED BY <2>2, <2>3
<1>5. ASSUME TimesOut PROVE TypeOK' /\ (Steady' => Steady /\ echoOn' = echoOn) /\ apart' = apart
  BY <1>1, <1>5 DEF TypeOK, TimesOut, Steady, NoSwitch
<1>6. QED BY <1>2, <1>3, <1>4, <1>5, BatchCases

\* What EchoByte reads.
LEMMA EchoCases ==
    ASSUME EchoStep, TypeOK
    PROVE  /\ input' = input /\ asUser' = asUser /\ buf' = buf /\ skipLf' = skipLf /\ echoOn /\ ~over
           /\ \/ /\ data # <<>> /\ EchoByte(data[1]) /\ wire' = wire /\ apart' = apart
                 /\ data[1] \in Byte /\ Len(data) \in Nat \ {0}
                 /\ Tail(data) \in Seq(Byte) /\ Len(Tail(data)) = Len(data) - 1
                 /\ \A i \in 1..(Len(data) - 1) : Tail(data)[i] = data[i + 1]
              \/ \E k \in 1..MaxPacket : EchoReceive(k)
              \/ EchoEnd
<1>1. data \in Seq(Byte)
  BY DEF TypeOK
<1>2. data # <<>> => /\ Head(data) = data[1] /\ data[1] \in Byte /\ Len(data) \in Nat \ {0}
                     /\ Tail(data) \in Seq(Byte) /\ Len(Tail(data)) = Len(data) - 1
                     /\ \A i \in 1..(Len(data) - 1) : Tail(data)[i] = data[i + 1]
  BY <1>1, HeadTailProperties
<1>3. QED BY <1>2 DEF EchoStep

\* A step of the echo mode keeps the types.
LEMMA EchoTypes ==
    ASSUME TypeOK, ArrivedInv, EndsInv, EchoStep
    PROVE  TypeOK' /\ (Steady' => Steady /\ echoOn' = echoOn) /\ (apart' => apart)
<1>1. /\ input' = input /\ asUser' = asUser /\ line \in Seq(Byte) /\ <<>> \in Seq(Byte)
      /\ buf' = buf /\ skipLf' = skipLf
  BY EchoCases DEF TypeOK
<1>2. ASSUME data # <<>>, EchoByte(data[1]), wire' = wire, apart' = apart, data[1] \in Byte, Tail(data) \in Seq(Byte)
      PROVE  TypeOK' /\ (Steady' => Steady /\ echoOn' = echoOn)
  <2> DEFINE b == data[1]
  <2>1. ASSUME NEW l \in Seq(Byte), EchoReturns(l)
        PROVE  TypeOK' /\ (Steady' => Steady /\ echoOn' = echoOn)
    <3>1. lines' \in Seq(Seq(Byte)) /\ echoOn' \in BOOLEAN /\ (Steady' => Steady /\ echoOn' = echoOn)
      BY <2>1, Submitted DEF EchoReturns
    <3>2. QED BY <1>1, <1>2, <2>1, <3>1 DEF TypeOK, EchoReturns
  <2>2. CASE b \in Eol /\ EchoReturns(line)
    BY <1>1, <2>1, <2>2
  <2>3. CASE b = "INT" /\ Interrupt
    BY <1>1, <2>1, <2>3 DEF Interrupt
  <2>4. CASE b = "BS" /\ Erase
    <3>1. ASSUME line # <<>> PROVE Front(line) \in Seq(Byte)
      BY <1>1, <3>1 DEF Front
    <3>2. ASSUME screen # <<>> PROVE Front(screen) \in Seq(Byte)
      BY <3>2 DEF Front, TypeOK
    <3>3. screen \in Seq(Byte)
      BY DEF TypeOK
    <3>4. /\ data' = Tail(data) /\ line' \in Seq(Byte) /\ screen' \in Seq(Byte)
          /\ UNCHANGED <<echoOn, lines, over, unseen>>
      BY <1>1, <2>4, <3>1, <3>2, <3>3 DEF Erase
    <3>5. QED BY <1>1, <1>2, <3>4 DEF TypeOK, Steady, NoSwitch
  <2>5. CASE /\ b = "EOT" /\ UNCHANGED <<echoOn, lines, line, screen, unseen>>
             /\ IF line = <<>> THEN data' = <<>> /\ over' = TRUE ELSE data' = Tail(data) /\ UNCHANGED over
    BY <1>1, <1>2, <2>5 DEF TypeOK, Steady, NoSwitch
  <2>6. CASE /\ b \in Text /\ data' = Tail(data) /\ UNCHANGED <<echoOn, lines, over>>
             /\ line' = Append(line, b) /\ screen' = IF b = "TAB" THEN screen ELSE Append(screen, b)
             /\ unseen' = (unseen \/ b = "TAB")
    <3>1. line' \in Seq(Byte) /\ screen' \in Seq(Byte)
      BY <1>1, <1>2, <2>6 DEF TypeOK
    <3>2. QED BY <1>1, <1>2, <2>6, <3>1 DEF TypeOK, Steady, NoSwitch
  <2>7. QED BY <1>2, <2>2, <2>3, <2>4, <2>5, <2>6 DEF EchoByte
<1>3. ASSUME NEW k \in 1..MaxPacket, EchoReceive(k)
      PROVE  TypeOK' /\ (Steady' => Steady /\ echoOn' = echoOn) /\ (apart' => apart)
  <2>1. Packet(k)
    BY <1>3 DEF EchoReceive
  <2>2. wire' \in Seq(Byte) /\ SubSeq(wire, 1, k) \in Seq(Byte) /\ apart' \in BOOLEAN /\ (apart' => apart)
    BY <1>1, <2>1, Received
  <2>3. QED BY <1>1, <1>3, <2>2 DEF TypeOK, EchoReceive, Steady, NoSwitch
<1>4. ASSUME EchoEnd
      PROVE  TypeOK' /\ (Steady' => Steady /\ echoOn' = echoOn) /\ apart' = apart
  <2>1. CASE line = <<>>
    BY <1>1, <1>4, <2>1 DEF TypeOK, EchoEnd, Steady, NoSwitch
  <2>2. CASE line # <<>>
    <3>1. Submit(line)
      BY <1>4, <2>2 DEF EchoEnd
    <3>2. lines' \in Seq(Seq(Byte)) /\ echoOn' \in BOOLEAN /\ (Steady' => Steady /\ echoOn' = echoOn)
      BY <1>1, <3>1, Submitted
    <3>3. QED BY <1>1, <1>4, <2>2, <3>2 DEF TypeOK, EchoEnd
  <2>3. QED BY <2>1, <2>2
<1>5. \/ /\ data # <<>> /\ EchoByte(data[1]) /\ wire' = wire /\ apart' = apart
         /\ data[1] \in Byte /\ Tail(data) \in Seq(Byte)
      \/ \E k \in 1..MaxPacket : EchoReceive(k)
      \/ EchoEnd
  BY EchoCases
<1>6. QED BY <1>2, <1>3, <1>4, <1>5

\* The conditions under which the invariant says something.
LEMMA Conditions ==
    ASSUME TypeOK, ArrivedInv, EndsInv, Next
    PROVE  /\ input' = input /\ asUser' = asUser
           /\ TypeOK' /\ (Steady' => Steady /\ echoOn' = echoOn) /\ (apart' => apart)
           /\ AtOnce' => AtOnce
<1>1. TypeOK' /\ (Steady' => Steady /\ echoOn' = echoOn) /\ (apart' => apart)
  <2>1. CASE over /\ UNCHANGED vars
    BY <2>1 DEF vars, TypeOK, Steady, NoSwitch
  <2>2. QED BY <2>1, BatchTypes, EchoTypes DEF Next
<1>2. input' = input /\ asUser' = asUser
  BY DEF Next, vars, BatchStep, EchoStep
<1>3. AtOnce' => AtOnce
  BY <1>1, <1>2 DEF AtOnce, NoKeys
<1>4. QED BY <1>1, <1>2, <1>3

--------------------------------------------------------------------------------
(* Where the reader is in the stream. *)

\* The part of ArrivedInv that is about the wire, and the rest.
Sent ==
    /\ Len(wire) <= Len(input)
    /\ \A i \in 1..Len(wire) : wire[i] = input[Len(input) - Len(wire) + i]
Placed ==
    /\ echoOn => buf = <<>>
    /\ ~echoOn => data = <<>> /\ line = <<>>
    /\ Gone \in Nat
    /\ \A i \in 1..Len(buf) : buf[i] = input[Gone + i]
    /\ \A i \in 1..Len(data) : data[i] = input[Gone + i]

\* The bytes sent are those gone through, those received and those on their way.
LEMMA Lengths ==
    ASSUME TypeOK, ArrivedInv
    PROVE  /\ Len(input) \in Nat /\ Len(wire) \in Nat /\ Len(buf) \in Nat /\ Len(data) \in Nat
           /\ Len(wire) <= Len(input) /\ Gone \in Int /\ Gone <= Len(input)
           /\ Len(input) = Gone + Len(buf) + Len(data) + Len(wire)
BY DEF TypeOK, ArrivedInv, Gone

\* After TakesLine.
LEMMA TakesPlace ==
    ASSUME TypeOK, Sent, Placed, ~echoOn, NEW i \in 1..Len(buf), NEW n \in 1..Len(buf), TakesLine(i, n),
           input' = input, echoOn' => n = Len(buf)
    PROVE  Placed' /\ Gone' = Gone + n
<1>1. /\ buf \in Seq(Byte) /\ data = <<>> /\ line = <<>> /\ Gone \in Nat
      /\ Len(input) \in Nat /\ Len(wire) \in Nat /\ Len(buf) \in Nat
      /\ \A j \in 1..Len(buf) : buf[j] = input[Gone + j]
  BY DEF TypeOK, Placed
<1>2. buf' = SubSeq(buf, n + 1, Len(buf)) /\ wire' = wire /\ data' = data /\ line' = line /\ input' = input
  BY DEF TakesLine
<1>3. /\ buf' \in Seq(Byte) /\ Len(buf') = Len(buf) - n /\ Len(buf') \in Nat
      /\ \A j \in 1..Len(buf') : buf'[j] = buf[n + j]
  BY <1>1, <1>2
<1>4. Gone' = Gone + n /\ Gone' \in Nat /\ Gone + n \in Nat
  <2>1. Gone = Len(input) - Len(wire) - Len(buf) - 0 /\ Gone' = Len(input) - Len(wire) - (Len(buf) - n) - 0
    BY <1>1, <1>2, <1>3 DEF Gone
  <2>2. Len(input) \in Int /\ Len(wire) \in Int /\ Len(buf) \in Int /\ n \in Nat /\ Gone \in Nat
    BY <1>1
  <2>3. QED BY <2>1, <2>2
<1>5. ASSUME NEW j \in 1..Len(buf') PROVE buf'[j] = input'[Gone' + j]
  <2>1. n + j \in 1..Len(buf) /\ Gone + (n + j) = (Gone + n) + j
    BY <1>1, <1>3
  <2>2. buf'[j] = input[(Gone + n) + j]
    BY <1>1, <1>3, <2>1
  <2>3. QED BY <1>2, <1>4, <2>2
<1>6. echoOn' => buf' = <<>>
  BY <1>1, <1>3
<1>7. data' = <<>> /\ \A j \in 1..Len(data') : data'[j] = input'[Gone' + j]
  BY <1>1, <1>2
<1>8. QED BY <1>1, <1>2, <1>4, <1>5, <1>6, <1>7 DEF Placed

\* After a packet, in either mode.
LEMMA ReceivesPlace ==
    ASSUME TypeOK, ArrivedInv, Placed, NEW k \in 1..MaxPacket, Packet(k), input' = input,
           \/ ~echoOn /\ Receives(k)
           \/ echoOn /\ EchoReceive(k) /\ buf' = buf
    PROVE  Placed' /\ Gone' = Gone
<1> DEFINE p == SubSeq(wire, 1, k)
<1>1. /\ k \in Nat \ {0} /\ Len(wire') = Len(wire) - k /\ Len(wire) \in Nat /\ Len(input) \in Nat
      /\ p \in Seq(Byte) /\ Len(p) = k /\ input' = input
      /\ \A i \in 1..k : p[i] = input[Len(input) - Len(wire) + i]
  BY Received
<1>2. /\ buf \in Seq(Byte) /\ data \in Seq(Byte) /\ Gone \in Nat /\ Len(buf) \in Nat /\ Len(data) \in Nat
      /\ Len(input) = Gone + Len(buf) + Len(data) + Len(wire)
      /\ \A i \in 1..Len(buf) : buf[i] = input[Gone + i]
      /\ \A i \in 1..Len(data) : data[i] = input[Gone + i]
  BY Lengths DEF TypeOK, Placed
<1> HIDE DEF p
<1>3. CASE ~echoOn /\ Receives(k)
  <2>1. data = <<>> /\ line = <<>> /\ data' = data /\ line' = line /\ buf' = buf \o p /\ echoOn' = echoOn
    BY <1>3 DEF Placed, Receives, p
  <2>2. /\ Len(buf') = Len(buf) + k
        /\ \A i \in 1..(Len(buf) + k) : buf'[i] = IF i <= Len(buf) THEN buf[i] ELSE p[i - Len(buf)]
    <3>1. p \in Seq(Byte) /\ buf \in Seq(Byte) /\ Len(p) = k
      BY <1>1, <1>2
    <3>2. /\ Len(buf \o p) = Len(buf) + Len(p)
          /\ \A i \in 1..(Len(buf) + Len(p)) : (buf \o p)[i] = IF i <= Len(buf) THEN buf[i] ELSE p[i - Len(buf)]
      BY <3>1
    <3>3. QED BY <2>1, <3>1, <3>2
  <2>3. Gone' = Gone
    BY <1>1, <1>2, <2>1, <2>2 DEF Gone
  <2>4. ASSUME NEW i \in 1..Len(buf') PROVE buf'[i] = input'[Gone' + i]
    <3>1. CASE i <= Len(buf)
      BY <1>1, <1>2, <2>2, <2>3, <3>1
    <3>2. CASE i > Len(buf)
      <4>1. i - Len(buf) \in 1..k /\ Len(input) - Len(wire) + (i - Len(buf)) = Gone + i
        BY <1>1, <1>2, <2>1, <2>2, <3>2
      <4>2. i \in 1..(Len(buf) + k) /\ ~(i <= Len(buf))
        BY <1>1, <1>2, <2>2, <3>2
      <4>3. buf'[i] = p[i - Len(buf)]
        BY <2>2, <4>2
      <4>4. p[i - Len(buf)] = input[Gone + i]
        BY <1>1, <4>1
      <4>5. QED BY <1>1, <2>3, <4>3, <4>4
    <3>3. QED BY <1>2, <2>2, <3>1, <3>2
  <2>5. \A i \in 1..Len(data') : data'[i] = input'[Gone' + i]
    BY <2>1
  <2>6. QED BY <1>2, <1>3, <2>1, <2>3, <2>4, <2>5 DEF Placed
<1>4. CASE echoOn /\ EchoReceive(k) /\ buf' = buf
  <2>1. data = <<>> /\ data' = p /\ buf = <<>> /\ echoOn' = echoOn
    BY <1>4 DEF Placed, EchoReceive, p
  <2>2. Gone' = Gone
    BY <1>1, <1>2, <1>4, <2>1 DEF Gone
  <2>3. ASSUME NEW i \in 1..Len(data') PROVE data'[i] = input'[Gone' + i]
    <3>1. i \in 1..k /\ Len(input) - Len(wire) + i = Gone + i
      BY <1>1, <1>2, <2>1
    <3>2. QED BY <1>1, <2>1, <2>2, <3>1
  <2>4. \A i \in 1..Len(buf') : buf'[i] = input'[Gone' + i]
    BY <1>4, <2>1
  <2>5. QED BY <1>2, <1>4, <2>1, <2>2, <2>3, <2>4 DEF Placed
<1>5. QED BY <1>3, <1>4

\* After EchoByte, which leaves the rest of the packet behind when read_line returns.
LEMMA BytePlace ==
    ASSUME TypeOK, ArrivedInv, Placed, echoOn, data # <<>>,
           input' = input, wire' = wire, buf' = buf,
           data' = <<>> \/ (data' = Tail(data) /\ echoOn' = echoOn),
           ~echoOn' => line' = <<>>
    PROVE  Placed' /\ (data' = Tail(data) => Gone' = Gone + 1)
<1>1. /\ data \in Seq(Byte) /\ buf = <<>> /\ Gone \in Nat /\ Len(data) \in Nat \ {0}
      /\ Len(input) \in Nat /\ Len(wire) \in Nat /\ Len(wire) <= Len(input) /\ Len(buf) = 0
      /\ Len(input) = Gone + Len(data) + Len(wire)
      /\ \A i \in 1..Len(data) : data[i] = input[Gone + i]
      /\ input' = input /\ wire' = wire /\ buf' = buf
  BY Lengths DEF TypeOK, Placed
<1>2. \A i \in 1..Len(buf') : buf'[i] = input'[Gone' + i]
  BY <1>1
<1>3. /\ Len(Tail(data)) = Len(data) - 1
      /\ \A i \in 1..(Len(data) - 1) : Tail(data)[i] = data[i + 1]
  BY <1>1, HeadTailProperties
<1>4. ASSUME data' = Tail(data) PROVE Gone' = Gone + 1 /\ \A i \in 1..Len(data') : data'[i] = input'[Gone' + i]
  <2>1. Gone' = Gone + 1
    BY <1>1, <1>3, <1>4 DEF Gone
  <2>2. ASSUME NEW i \in 1..Len(data') PROVE data'[i] = input'[Gone' + i]
    <3>1. i + 1 \in 1..Len(data) /\ i \in 1..(Len(data) - 1) /\ Gone + (i + 1) = (Gone + 1) + i
      BY <1>1, <1>3, <1>4
    <3>2. QED BY <1>1, <1>3, <1>4, <2>1, <3>1
  <2>3. QED BY <2>1, <2>2
<1>5. ASSUME data' = <<>> PROVE Gone' \in Nat /\ \A i \in 1..Len(data') : data'[i] = input'[Gone' + i]
  <2>1. Len(data') = 0
    BY <1>5
  <2>2. QED BY <1>1, <2>1 DEF Gone
<1>6. data' = <<>> \/ (data' = Tail(data) /\ echoOn' = echoOn)
  OBVIOUS
<1>7. (echoOn' => buf' = <<>>) /\ (~echoOn' => data' = <<>> /\ line' = <<>>)
  BY <1>1, <1>6
<1>8. Gone' \in Nat /\ \A i \in 1..Len(data') : data'[i] = input'[Gone' + i]
  <2>1. CASE data' = <<>>
    BY <1>5, <2>1
  <2>2. CASE data' = Tail(data)
    <3>1. Gone' = Gone + 1 /\ Gone \in Nat
      BY <1>1, <1>4, <2>2
    <3>2. Gone' \in Nat
      BY <3>1
    <3>3. QED BY <1>4, <2>2, <3>2
  <2>3. QED BY <1>6, <2>1, <2>2
<1>9. QED BY <1>2, <1>4, <1>7, <1>8 DEF Placed

\* What EchoByte leaves of its packet.
LEMMA ByteEffect ==
    ASSUME echoOn \in BOOLEAN, echoOn, EchoByte(data[1])
    PROVE  /\ data' = <<>> \/ (data' = Tail(data) /\ echoOn' = echoOn)
           /\ ~echoOn' => line' = <<>>
BY DEF EchoByte, EchoReturns, Interrupt, Erase

\* When a line is taken out of the buffer and no line end but the last byte has been received, it
\* is the whole buffer.
LEMMA TakesAll ==
    ASSUME TypeOK, EndsInv, apart, NEW i \in 1..Len(buf), NEW n \in 1..Len(buf), TakesLine(i, n)
    PROVE  n = Len(buf)
<1>1. Len(buf) \in Nat /\ buf[i] \in Eol /\ \A j \in 1..(Len(buf) - 1) : buf[j] \notin Eol
  BY DEF TypeOK, EndsInv, TakesLine
<1>2. i = Len(buf) /\ (n = i \/ n = i + 1)
  BY <1>1 DEF TakesLine
<1>3. QED BY <1>1, <1>2

\* Every step goes through the next bytes of the stream.
LEMMA ArrivedNext ==
    ASSUME TypeOK, ArrivedInv, EndsInv, Next
    PROVE  ArrivedInv'
<1>1. /\ input' = input /\ TypeOK' /\ Sent
      /\ Steady' => Steady /\ echoOn' = echoOn
      /\ AtOnce' => AtOnce /\ apart
      /\ Steady \/ AtOnce => Placed
  BY Conditions DEF ArrivedInv, Sent, Placed, AtOnce
<1>2. Sent'
  <2>1. ASSUME NEW k \in 1..MaxPacket, Packet(k) PROVE Sent'
    BY <1>1, <2>1, Received DEF Sent
  <2>2. CASE wire' = wire
    BY <1>1, <2>2 DEF Sent
  <2>3. wire' = wire \/ \E k \in 1..MaxPacket : Packet(k)
    <3>1. BatchStep => wire' = wire \/ \E k \in 1..MaxPacket : Packet(k)
      BY BatchCases DEF TakesLine, Receives, Ends, TimesOut
    <3>2. EchoStep => wire' = wire \/ \E k \in 1..MaxPacket : Packet(k)
      BY EchoCases DEF EchoReceive, EchoEnd
    <3>3. QED BY <3>1, <3>2 DEF Next, vars
  <2>4. QED BY <2>1, <2>2, <2>3
<1>3. ASSUME Steady' \/ AtOnce' PROVE Placed'
  <2>1. Placed /\ (echoOn' = echoOn \/ apart) /\ echoOn \in BOOLEAN
    BY <1>1, <1>3 DEF TypeOK
  <2>2. ASSUME NEW i \in 1..Len(buf), NEW n \in 1..Len(buf), TakesLine(i, n), ~echoOn PROVE Placed'
    <3>1. echoOn' => n = Len(buf)
      BY <2>1, <2>2, TakesAll
    <3>2. QED BY <1>1, <2>1, <2>2, <3>1, TakesPlace
  <2>3. ASSUME NEW k \in 1..MaxPacket, Receives(k), ~echoOn PROVE Placed'
    <3>1. Packet(k)
      BY <2>3 DEF Receives
    <3>2. QED BY <1>1, <2>1, <2>3, <3>1, ReceivesPlace
  <2>4. ASSUME Ends, ~echoOn PROVE Placed'
    <3>1. /\ data = <<>> /\ line = <<>> /\ buf' = <<>> /\ data' = data /\ line' = line /\ wire' = wire
          /\ Len(input) \in Nat /\ Len(wire) \in Nat /\ Len(wire) <= Len(input) /\ input' = input
      BY <1>1, <2>1, <2>4, Lengths DEF Placed, Ends
    <3>2. Len(buf') = 0 /\ Len(data') = 0
      BY <3>1
    <3>3. Gone' \in Nat
      BY <3>1, <3>2 DEF Gone
    <3>4. QED BY <3>1, <3>2, <3>3 DEF Placed
  <2>5. ASSUME UNCHANGED <<wire, buf, data, line, echoOn>> PROVE Placed'
    BY <1>1, <2>1, <2>5 DEF Placed, Gone
  <2>6. ASSUME echoOn, data # <<>>, EchoByte(data[1]), wire' = wire, buf' = buf PROVE Placed'
    BY <1>1, <2>1, <2>6, ByteEffect, BytePlace
  <2>7. ASSUME NEW k \in 1..MaxPacket, EchoReceive(k), echoOn, buf' = buf PROVE Placed'
    <3>1. Packet(k)
      BY <2>7 DEF EchoReceive
    <3>2. QED BY <1>1, <2>1, <2>7, <3>1, ReceivesPlace
  <2>8. ASSUME EchoEnd, echoOn, buf' = buf PROVE Placed'
    <3>1. /\ data = <<>> /\ buf = <<>> /\ data' = <<>> /\ buf' = <<>> /\ wire' = wire /\ input' = input
          /\ Len(input) \in Nat /\ Len(wire) \in Nat /\ Len(wire) <= Len(input)
          /\ echoOn' = echoOn \/ line' = <<>>
      BY <1>1, <2>1, <2>8, Lengths DEF Placed, EchoEnd
    <3>2. Len(buf') = 0 /\ Len(data') = 0
      BY <3>1
    <3>3. Gone' \in Nat
      BY <3>1, <3>2 DEF Gone
    <3>4. ~echoOn' => line' = <<>>
      BY <2>8, <3>1
    <3>5. (\A i \in 1..Len(buf') : buf'[i] = input'[Gone' + i]) /\ (\A i \in 1..Len(data') : data'[i] = input'[Gone' + i])
      BY <3>2
    <3>6. QED BY <3>1, <3>3, <3>4, <3>5 DEF Placed
  <2>9. CASE BatchStep
    <3>1. CASE TimesOut
      BY <2>5, <3>1 DEF TimesOut
    <3>2. QED BY <2>2, <2>3, <2>4, <2>9, <3>1, BatchCases
  <2>10. CASE EchoStep
    <3>1. /\ buf' = buf /\ echoOn
          /\ \/ data # <<>> /\ EchoByte(data[1]) /\ wire' = wire
             \/ \E k \in 1..MaxPacket : EchoReceive(k)
             \/ EchoEnd
      BY <2>10, EchoCases
    <3>2. QED BY <2>6, <2>7, <2>8, <3>1
  <2>11. CASE UNCHANGED vars
    BY <2>5, <2>11 DEF vars
  <2>12. QED BY <2>9, <2>10, <2>11 DEF Next
<1>4. QED BY <1>2, <1>3 DEF ArrivedInv, Sent, Placed

\* Every step leaves no LF owed that is there.
LEMMA EndsNext ==
    ASSUME TypeOK, ArrivedInv, EndsInv, Next
    PROVE  EndsInv'
<1>1. /\ input' = input /\ asUser' = asUser /\ TypeOK'
      /\ (Steady' => Steady /\ echoOn' = echoOn) /\ (apart' => apart)
  BY Conditions
<1>2. Steady' => echoOn' = asUser'
  BY <1>1 DEF EndsInv
<1> DEFINE NoEnds(s, E) == \A i \in 1..(Len(s) - 1) : s[i] \notin E
           Owed == skipLf /\ buf # <<>> => buf[1] # "LF"
           Unread == apart => NoEnds(buf, Eol) /\ NoEnds(data, Eol \cup {"INT"})
<1>3. /\ buf \in Seq(Byte) /\ data \in Seq(Byte) /\ Owed /\ Unread
      /\ Len(buf) \in Nat /\ Len(data) \in Nat
  BY DEF TypeOK, EndsInv
<1>4. NoEnds(<<>>, Eol) /\ NoEnds(<<>>, Eol \cup {"INT"})
  OBVIOUS
<1>5. ASSUME NEW i \in 1..Len(buf), NEW n \in 1..Len(buf), TakesLine(i, n) PROVE Owed' /\ Unread'
  <2>1. /\ buf' = SubSeq(buf, n + 1, Len(buf)) /\ data' = data /\ apart' = apart
        /\ skipLf' => n = Len(buf) \/ buf[n + 1] # "LF"
    BY <1>5 DEF TakesLine
  <2>2. /\ Len(buf') = Len(buf) - n /\ \A j \in 1..Len(buf') : buf'[j] = buf[n + j]
        /\ buf' \in Seq(Byte)
    BY <1>3, <2>1
  <2>3. Owed'
    <3>1. buf' # <<>> => n # Len(buf) /\ buf'[1] = buf[n + 1]
      BY <1>3, <2>2
    <3>2. QED BY <2>1, <3>1
  <2>4. apart' => NoEnds(buf', Eol)
    <3> SUFFICES ASSUME apart', NEW j \in 1..(Len(buf') - 1) PROVE buf'[j] \notin Eol
      OBVIOUS
    <3>1. n + j \in 1..(Len(buf) - 1) /\ j \in 1..Len(buf')
      BY <1>3, <2>2
    <3>2. QED BY <1>3, <2>1, <2>2, <3>1
  <2>5. QED BY <1>3, <2>1, <2>3, <2>4
<1>6. ASSUME NEW k \in 1..MaxPacket, Packet(k)
      PROVE  LET p == SubSeq(wire, 1, k)
             IN  p \in Seq(Byte) /\ Len(p) = k /\ k \in Nat \ {0} /\ (apart' => NoEnds(p, Eol \cup {"INT"}))
  BY <1>1, <1>6, Received
<1>7. ASSUME NEW k \in 1..MaxPacket, Receives(k) PROVE Owed' /\ Unread'
  <2> DEFINE p == SubSeq(wire, 1, k)
  <2>1. p \in Seq(Byte) /\ Len(p) = k /\ k \in Nat \ {0} /\ (apart' => NoEnds(p, Eol \cup {"INT"}))
    BY <1>6, <1>7 DEF Receives
  <2>2. /\ buf' = buf \o p /\ data' = data /\ skipLf' = FALSE
        /\ \A j \in 1..Len(buf) : buf[j] \notin Eol
    BY <1>7 DEF Receives
  <2> HIDE DEF p
  <2>3. /\ Len(buf \o p) = Len(buf) + k
        /\ \A i \in 1..(Len(buf) + k) : (buf \o p)[i] = IF i <= Len(buf) THEN buf[i] ELSE p[i - Len(buf)]
    BY <1>3, <2>1
  <2>4. ASSUME apart', NEW j \in 1..(Len(buf \o p) - 1) PROVE (buf \o p)[j] \notin Eol
    <3>1. CASE j <= Len(buf)
      BY <1>3, <2>1, <2>2, <2>3, <3>1
    <3>2. CASE j > Len(buf)
      <4>1. j \in 1..(Len(buf) + k) /\ ~(j <= Len(buf)) /\ j - Len(buf) \in 1..(k - 1)
        BY <1>3, <2>1, <2>3, <3>2
      <4>2. (buf \o p)[j] = p[j - Len(buf)]
        BY <2>3, <4>1
      <4>3. QED BY <2>1, <2>4, <4>1, <4>2
    <3>3. QED BY <1>3, <2>1, <2>3, <3>1, <3>2
  <2>5. QED BY <1>1, <1>3, <2>2, <2>4
<1>8. ASSUME Ends PROVE Owed' /\ Unread'
  BY <1>3, <1>4, <1>8 DEF Ends
<1>9. ASSUME TimesOut PROVE Owed' /\ Unread'
  BY <1>3, <1>9 DEF TimesOut
<1>10. ASSUME data # <<>>, EchoByte(data[1]), apart' = apart, buf' = buf, skipLf' = skipLf, echoOn
       PROVE  Owed' /\ Unread'
  <2>1. data' = <<>> \/ data' = Tail(data)
    BY <1>10, ByteEffect
  <2>2. apart => NoEnds(Tail(data), Eol \cup {"INT"})
    <3>1. Len(Tail(data)) = Len(data) - 1 /\ \A j \in 1..(Len(data) - 1) : Tail(data)[j] = data[j + 1]
      BY <1>3, <1>10, HeadTailProperties
    <3>2. \A j \in 1..(Len(data) - 1 - 1) : j \in 1..(Len(data) - 1) /\ j + 1 \in 1..(Len(data) - 1)
      BY <1>3
    <3>3. QED BY <1>3, <3>1, <3>2
  <2>3. QED BY <1>3, <1>4, <1>10, <2>1, <2>2
<1>11. ASSUME NEW k \in 1..MaxPacket, EchoReceive(k), buf' = buf, skipLf' = skipLf PROVE Owed' /\ Unread'
  <2>1. data' = SubSeq(wire, 1, k) /\ (apart' => NoEnds(SubSeq(wire, 1, k), Eol \cup {"INT"}))
    BY <1>6, <1>11 DEF EchoReceive
  <2>2. QED BY <1>1, <1>3, <1>11, <2>1
<1>12. ASSUME UNCHANGED <<data, apart, buf, skipLf>> PROVE Owed' /\ Unread'
  BY <1>3, <1>12
<1>13. Owed' /\ Unread'
  <2> HIDE DEF Owed, Unread
  <2>1. CASE BatchStep
    BY <1>5, <1>7, <1>8, <1>9, <2>1, BatchCases
  <2>2. CASE EchoStep
    <3>1. /\ buf' = buf /\ skipLf' = skipLf /\ echoOn
          /\ \/ data # <<>> /\ EchoByte(data[1]) /\ apart' = apart
             \/ \E k \in 1..MaxPacket : EchoReceive(k)
             \/ EchoEnd
      BY <2>2, EchoCases
    <3>2. CASE EchoEnd
      BY <1>12, <3>1, <3>2 DEF EchoEnd
    <3>3. QED BY <1>10, <1>11, <3>1, <3>2
  <2>3. CASE UNCHANGED vars
    BY <1>12, <2>3 DEF vars
  <2>4. QED BY <2>1, <2>2, <2>3 DEF Next
<1>14. QED BY <1>2, <1>13 DEF EndsInv

--------------------------------------------------------------------------------
(* The lines of the stream. *)

\* The line that a line end at byte g + i ends, when nothing but it has been read since byte g.
LEMMA LineRead ==
    ASSUME NEW bytes \in Seq(Byte), NEW g \in Nat, NEW i \in Nat \ {0}, g + i <= Len(bytes),
           After(bytes, FALSE)[g].cur = <<>>,
           \A j \in (g + 1)..(g + (i - 1)) : bytes[j] \notin Eol, bytes[g + i] \in Eol
    PROVE  LET s == After(bytes, FALSE)[g]
               t == After(bytes, FALSE)[g + i]
               u == SubSeq(bytes, g + 1, g + (i - 1))
           IN  /\ t.cur = <<>> /\ (t.cr <=> bytes[g + i] = "CR")
               /\ \/ t.done = Append(s.done, u)
                  \/ /\ t.done = s.done /\ u = <<>> /\ i = 1
                     /\ g \in 1..(Len(bytes) - 1) /\ bytes[g] = "CR" /\ bytes[g + 1] = "LF"
<1> DEFINE A == After(bytes, FALSE)
           q == g + (i - 1)
           u == SubSeq(bytes, g + 1, q)
<1>1. /\ Len(bytes) \in Nat /\ g \in 0..Len(bytes) /\ q \in g..Len(bytes) /\ g + i \in 1..Len(bytes)
      /\ (g + i) - 1 = q /\ \A j \in (g + 1)..q : bytes[j] \notin Eol
  OBVIOUS
<1>2. bytes[g + i] \in Eol /\ A[g].cur = <<>>
  OBVIOUS
<1> HIDE DEF q
<1>3. A[q].done = A[g].done /\ A[q].cur = A[g].cur \o u /\ (q > g => ~A[q].cr)
  BY <1>1, Copies
<1>4. u \in Seq(Byte) /\ <<>> \o u = u
  BY <1>1, ConcatEmptySeq
<1>5. A[q].cur = u
  BY <1>2, <1>3, <1>4
<1>6. /\ A[g + i].cur = <<>> /\ (A[g + i].cr <=> bytes[g + i] = "CR")
      /\ IF bytes[g + i] = "LF" /\ A[q].cr THEN A[g + i].done = A[q].done
                                           ELSE A[g + i].done = Append(A[q].done, A[q].cur)
  BY <1>1, <1>2, EndsLine
<1>7. ASSUME bytes[g + i] = "LF", A[q].cr
      PROVE  u = <<>> /\ i = 1 /\ g \in 1..(Len(bytes) - 1) /\ bytes[g] = "CR" /\ bytes[g + 1] = "LF"
  <2>1. q = g /\ i = 1
    <3>1. ~(q > g)
      BY <1>3, <1>7
    <3>2. q \in Nat /\ g \in Nat /\ q >= g /\ q = g + (i - 1) /\ i \in Nat
      BY <1>1 DEF q
    <3>3. QED BY <3>1, <3>2
  <2>2. g > 0 /\ bytes[g] = "CR" /\ A[g].cur = <<>>
    BY <1>1, <1>7, <2>1, CarriageReturn
  <2>3. u = <<>>
    BY <1>5, <2>1, <2>2
  <2>4. QED BY <1>1, <1>7, <2>1, <2>2, <2>3
<1>8. A[g + i].done = Append(A[g].done, u) \/ (bytes[g + i] = "LF" /\ A[q].cr /\ A[g + i].done = A[g].done)
  BY <1>3, <1>5, <1>6
<1> HIDE DEF A
<1>9. QED BY <1>6, <1>7, <1>8 DEF A, q

\* Lines with the same commands still have the same commands with one line more on both sides, or
\* an empty one on one side.
LEMMA OneMoreLine ==
    ASSUME NEW ls \in Lines, NEW d \in Lines, NEW u \in Line, Commands(ls) = Commands(d)
    PROVE  /\ Commands(Append(ls, u)) = Commands(Append(d, u))
           /\ u = <<>> => Commands(Append(ls, u)) = Commands(d)
<1>1. /\ Commands(Append(ls, u)) = IF u = <<>> THEN Commands(ls) ELSE Append(Commands(ls), u)
      /\ Commands(Append(d, u)) = IF u = <<>> THEN Commands(d) ELSE Append(Commands(d), u)
  BY CommandsFacts
<1>2. QED BY <1>1

\* The whole stream.
LEMMA WholeStream ==
    ASSUME NEW bytes \in Seq(Byte), NEW typing
    PROVE  LET s == After(bytes, typing)[Len(bytes)]
           IN  /\ s \in States /\ Whole(s) \in Lines
               /\ s.cur = <<>> => Whole(s) = s.done
               /\ s.cur # <<>> => Whole(s) = Append(s.done, s.cur)
<1> DEFINE s == After(bytes, typing)[Len(bytes)]
<1>1. s \in States
  <2>1. Len(bytes) \in 0..Len(bytes)
    OBVIOUS
  <2>2. QED BY <2>1, AfterType
<1> HIDE DEF s
<1>2. s.done \in Lines /\ s.cur \in Line /\ Append(s.done, s.cur) \in Lines
  BY <1>1 DEF States, Line, Lines
<1>3. QED BY <1>1, <1>2 DEF Whole, s

\* At the end of the channel: what has been typed of the next line, if anything, is its last one.
LEMMA LastLine ==
    ASSUME NEW bytes \in Seq(Byte), NEW u \in Line, NEW ls \in Lines, NEW exact \in BOOLEAN,
           After(bytes, FALSE)[Len(bytes)].cur = u,
           Commands(ls) = Commands(After(bytes, FALSE)[Len(bytes)].done),
           exact => ls = After(bytes, FALSE)[Len(bytes)].done
    PROVE  LET all == IF u = <<>> THEN ls ELSE Append(ls, u)
           IN  Commands(all) = Commands(BatchLines(bytes)) /\ (exact => all = BatchLines(bytes))
<1> DEFINE s == After(bytes, FALSE)[Len(bytes)]
<1>1. /\ s \in States /\ BatchLines(bytes) \in Lines
      /\ u = <<>> => BatchLines(bytes) = s.done
      /\ u # <<>> => BatchLines(bytes) = Append(s.done, u)
  BY WholeStream DEF BatchLines
<1>2. Commands(ls) = Commands(s.done) /\ (exact => ls = s.done)
  OBVIOUS
<1> HIDE DEF s
<1>3. s.done \in Lines
  BY <1>1 DEF States, Lines, Line
<1>4. CASE u = <<>>
  BY <1>1, <1>2, <1>4
<1>5. CASE u # <<>>
  <2>1. BatchLines(bytes) = Append(s.done, u)
    BY <1>1, <1>5
  <2>2. Commands(Append(ls, u)) = Commands(BatchLines(bytes)) /\ (exact => Append(ls, u) = BatchLines(bytes))
    <3> DEFINE old == s.done
               new == BatchLines(bytes)
    <3>1. old \in Lines /\ Commands(ls) = Commands(old) /\ (exact => ls = old) /\ new = Append(old, u)
      BY <1>1, <1>2, <1>3, <2>1
    <3> HIDE DEF old, new
    <3>2. Commands(Append(ls, u)) = Commands(Append(old, u))
      BY <3>1, OneMoreLine
    <3>3. exact => Append(ls, u) = new
      BY <3>1
    <3>4. QED BY <3>1, <3>2, <3>3 DEF new
  <2>3. QED BY <1>5, <2>2
<1>6. QED BY <1>4, <1>5

\* Where the stream is at the reader's place.
LEMMA AtGone ==
    ASSUME TypeOK, ArrivedInv, Placed, NEW typing
    PROVE  /\ Gone \in 0..Len(input) /\ After(input, typing)[Gone] \in States
           /\ After(input, typing)[Gone].done \in Lines
<1>1. Gone \in 0..Len(input) /\ input \in Seq(Byte)
  BY Lengths DEF Placed, TypeOK
<1>2. After(input, typing)[Gone] \in States
  BY <1>1, AfterType
<1>3. QED BY <1>1, <1>2 DEF States, Lines, Line

\* A line taken out of the buffer is the next line of the stream.
LEMMA TakesLineLines ==
    ASSUME TypeOK, ArrivedInv, EndsInv, Sent, Placed, AtLine, ~echoOn, echoOn' => apart,
           input' = input, Unpaired' => Unpaired,
           NEW i \in 1..Len(buf), NEW n \in 1..Len(buf), TakesLine(i, n)
    PROVE  AtLine'
<1> DEFINE A == After(input, FALSE)
           g == Gone
           got == SubSeq(buf, 1, i - 1)
<1>1. /\ A[g] \in States /\ A[g].done \in Lines /\ g \in Nat /\ input \in Seq(Byte) /\ lines \in Lines
      /\ ~over /\ line = <<>> /\ A[g].cur = <<>>
      /\ Commands(lines) = Commands(A[g].done) /\ (Unpaired => lines = A[g].done)
  BY AtGone DEF AtLine, Placed, TypeOK, Lines, Line
<1>2. /\ buf \in Seq(Byte) /\ Len(buf) \in Nat /\ Len(input) \in Nat /\ g + Len(buf) <= Len(input)
      /\ \A j \in 1..Len(buf) : buf[j] = input[g + j]
  BY Lengths DEF Placed, TypeOK
<1>3. echoOn' => n = Len(buf)
  BY TakesAll
<1>4. Gone' = g + n
  BY <1>3, TakesPlace
<1>5. /\ buf[i] \in Eol /\ (\A j \in 1..(i - 1) : buf[j] \notin Eol)
      /\ n = i \/ (n = i + 1 /\ buf[i] = "CR" /\ buf[n] = "LF")
      /\ lines' = Append(lines, got) /\ over' = over /\ line' = line
  BY DEF TakesLine, Submit
<1> HIDE DEF g
<1>6. got \in Line /\ got = SubSeq(input, g + 1, g + (i - 1))
  <2>1. /\ got \in Seq(Byte) /\ Len(got) = i - 1 /\ \A j \in 1..(i - 1) : got[j] = buf[j]
    BY <1>2
  <2>2. \A j \in 1..(i - 1) : j \in 1..Len(buf) /\ buf[j] = input[g + j]
    BY <1>2
  <2>3. /\ SubSeq(input, g + 1, g + (i - 1)) \in Seq(Byte) /\ Len(SubSeq(input, g + 1, g + (i - 1))) = i - 1
        /\ \A j \in 1..(i - 1) : SubSeq(input, g + 1, g + (i - 1))[j] = input[g + j]
    BY <1>1, <1>2
  <2> HIDE DEF got
  <2>4. got = SubSeq(input, g + 1, g + (i - 1))
    BY <2>1, <2>2, <2>3, SeqEqual
  <2>5. QED BY <2>1, <2>4 DEF Line
<1>7. /\ g + i <= Len(input) /\ input[g + i] \in Eol /\ input[g + i] = buf[i] /\ i \in Nat \ {0}
      /\ \A j \in (g + 1)..(g + (i - 1)) : input[j] \notin Eol
  <2>1. ASSUME NEW j \in (g + 1)..(g + (i - 1)) PROVE input[j] \notin Eol
    <3>1. j - g \in 1..(i - 1) /\ j - g \in 1..Len(buf) /\ g + (j - g) = j
      BY <1>1, <1>2
    <3>2. QED BY <1>2, <1>5, <3>1
  <2>2. QED BY <1>1, <1>2, <1>5, <2>1
<1> DEFINE ended == A[g + i]
<1> HIDE DEF got
<1>8. /\ ended.cur = <<>> /\ (ended.cr <=> input[g + i] = "CR")
      /\ \/ ended.done = Append(A[g].done, got)
         \/ /\ ended.done = A[g].done /\ got = <<>>
            /\ g \in 1..(Len(input) - 1) /\ input[g] = "CR" /\ input[g + 1] = "LF"
  BY <1>1, <1>6, <1>7, LineRead
<1>9. A[g + n].cur = <<>> /\ A[g + n].done = ended.done
  <2>1. CASE n = i
    BY <1>8, <2>1
  <2>2. CASE n = i + 1 /\ buf[i] = "CR" /\ buf[n] = "LF"
    <3>1. g + n \in 1..Len(input) /\ (g + n) - 1 = g + i /\ input[g + n] = "LF"
      BY <1>1, <1>2, <2>2
    <3>2. ended.cr /\ input[g + n] \in Eol
      BY <1>7, <1>8, <2>2, <3>1 DEF Eol
    <3>3. A[g + n].cur = <<>> /\ A[g + n].done = A[(g + n) - 1].done
      <4>1. A[(g + n) - 1].cr
        BY <3>1, <3>2
      <4>2. QED BY <1>1, <3>1, <3>2, <4>1, EndsLine
    <3>4. QED BY <3>1, <3>3
  <2>3. QED BY <1>5, <2>1, <2>2
<1> DEFINE before == A[g]
           after == A[g + n]
<1>10. /\ before.done \in Lines /\ Commands(lines) = Commands(before.done) /\ after.cur = <<>>
       /\ after.done = Append(before.done, got) \/ (after.done = before.done /\ got = <<>>)
  BY <1>1, <1>8, <1>9
<1>11. Unpaired => after.done = Append(before.done, got) /\ lines = before.done
  BY <1>1, <1>8, <1>9 DEF Unpaired, NoPairs
<1>12. After(input, FALSE)'[Gone'] = after
  BY <1>4
<1> HIDE DEF A, before, after
<1>13. Commands(lines') = Commands(after.done)
  <2>1. lines \in Lines /\ got \in Line /\ lines' = Append(lines, got)
    BY <1>1, <1>5, <1>6
  <2>2. Commands(Append(lines, got)) = Commands(after.done)
    <3>1. /\ Commands(Append(lines, got)) = Commands(Append(before.done, got))
          /\ got = <<>> => Commands(Append(lines, got)) = Commands(before.done)
      BY <1>10, <2>1, OneMoreLine
    <3>2. CASE after.done = Append(before.done, got)
      BY <3>1, <3>2
    <3>3. CASE after.done = before.done /\ got = <<>>
      BY <3>1, <3>3
    <3>4. QED BY <1>10, <3>2, <3>3
  <2>3. QED BY <2>1, <2>2
<1>14. Unpaired' => lines' = after.done
  BY <1>5, <1>11
<1>15. QED BY <1>1, <1>5, <1>10, <1>12, <1>13, <1>14 DEF AtLine

\* At the end of the channel, in either mode: got is what there is of the last line.
LEMMA EndLines ==
    ASSUME TypeOK, NEW got \in Seq(Byte), input' = input, Unpaired' => Unpaired, Through',
           After(input, FALSE)[Len(input)].cur = got,
           Commands(lines) = Commands(After(input, FALSE)[Len(input)].done),
           Unpaired => lines = After(input, FALSE)[Len(input)].done,
           lines' = IF got = <<>> THEN lines ELSE Append(lines, got)
    PROVE  AtEnd'
<1>1. lines \in Lines /\ got \in Line /\ input \in Seq(Byte) /\ input' = input
  BY DEF TypeOK, Lines, Line
<1>2. Commands(lines') = Commands(BatchLines(input)) /\ (Unpaired => lines' = BatchLines(input))
  <2> DEFINE all == IF got = <<>> THEN lines ELSE Append(lines, got)
  <2>1. Commands(all) = Commands(BatchLines(input)) /\ (Unpaired => all = BatchLines(input))
    <3>1. CASE Unpaired
      <4>1. TRUE => lines = After(input, FALSE)[Len(input)].done
        BY <3>1
      <4>2. QED BY <1>1, <4>1, LastLine
    <3>2. CASE ~Unpaired
      <4>1. FALSE => lines = After(input, FALSE)[Len(input)].done
        OBVIOUS
      <4>2. QED BY <1>1, <3>2, <4>1, LastLine
    <3>3. QED BY <3>1, <3>2
  <2>2. lines' = all
    OBVIOUS
  <2>3. QED BY <2>1, <2>2
<1>3. QED BY <1>1, <1>2 DEF AtEnd

\* Every step leaves the lines of the stream up to its place.
LEMMA LinesNext ==
    ASSUME TypeOK, ArrivedInv, EndsInv, LinesInv, Next
    PROVE  LinesInv'
<1>1. /\ input' = input /\ TypeOK' /\ (apart' => apart) /\ (AtOnce' => AtOnce)
      /\ Batched' => Batched /\ echoOn' = echoOn /\ ~echoOn
      /\ Unpaired' => Unpaired
  BY Conditions DEF Batched, Unpaired, NoPairs, EndsInv
<1> SUFFICES ASSUME Batched' \/ AtOnce' PROVE AtLine' \/ AtEnd'
  BY DEF LinesInv
<1>2. /\ Batched \/ (AtOnce /\ apart)
      /\ echoOn' = echoOn \/ apart
      /\ Sent /\ Placed /\ (AtLine \/ AtEnd) /\ input' = input
      /\ echoOn => AtOnce /\ ~Unpaired'
  BY <1>1 DEF LinesInv, ArrivedInv, Sent, Placed, Batched, AtOnce, Unpaired
<1>3. ASSUME AtEnd PROVE AtEnd'
  <2>1. /\ wire = <<>> /\ buf = <<>> /\ data = <<>> /\ line = <<>> /\ Len(wire) = 0 /\ Len(buf) = 0
    BY <1>3 DEF AtEnd, Through
  <2>2. \A k \in 1..MaxPacket : ~Packet(k)
    BY <2>1, MaxPacketAssumption DEF Packet
  <2>3. UNCHANGED <<lines, wire, buf, data, line>>
    <3>1. CASE BatchStep
      <4>1. 1..Len(buf) = {}
        BY <2>1
      <4>2. Ends
        BY <2>1, <2>2, <3>1, <4>1, BatchCases DEF Receives, TimesOut
      <4>3. QED BY <2>1, <4>2 DEF Ends
    <3>2. CASE EchoStep
      BY <2>1, <2>2, <3>2, EchoCases DEF EchoReceive, EchoEnd
    <3>3. QED BY <3>1, <3>2 DEF Next, vars
  <2>4. QED BY <1>1, <1>3, <2>1, <2>3 DEF AtEnd, Through
<1>4. ASSUME AtLine, BatchStep PROVE AtLine' \/ AtEnd'
  <2>1. ~echoOn /\ ~over /\ data = <<>> /\ line = <<>>
    BY <1>2, <1>4 DEF BatchStep, Placed
  <2>2. ASSUME NEW i \in 1..Len(buf), NEW n \in 1..Len(buf), TakesLine(i, n) PROVE AtLine'
    <3>1. echoOn' => apart
      BY <1>2, <2>1 DEF TypeOK
    <3>2. QED BY <1>1, <1>2, <1>4, <2>1, <2>2, <3>1, TakesLineLines
  <2>3. ASSUME Gone' = Gone, UNCHANGED <<line, lines, over>> PROVE AtLine'
    BY <1>1, <1>4, <2>3 DEF AtLine
  <2>4. ASSUME NEW k \in 1..MaxPacket, Receives(k) PROVE AtLine'
    <3>1. Packet(k) /\ UNCHANGED <<line, lines, over>>
      BY <2>4 DEF Receives
    <3>2. Gone' = Gone
      BY <1>1, <1>2, <2>1, <2>4, <3>1, ReceivesPlace
    <3>3. QED BY <2>3, <3>1, <3>2
  <2>5. ASSUME Ends PROVE AtEnd'
    <3>1. /\ Len(wire) = 0 /\ Len(data) = 0 /\ buf \in Seq(Byte) /\ input \in Seq(Byte)
          /\ \A j \in 1..Len(buf) : buf[j] \notin Eol
          /\ wire = <<>> /\ wire' = wire /\ buf' = <<>> /\ data' = data /\ line' = line
          /\ lines' = IF buf = <<>> THEN lines ELSE Append(lines, buf)
      BY <2>1, <2>5 DEF TypeOK, Ends, Submit
    <3>2. /\ Gone \in 0..Len(input) /\ Len(input) \in Nat /\ Len(buf) \in Nat
          /\ Len(input) = Gone + Len(buf)
          /\ \A j \in 1..Len(buf) : buf[j] = input[Gone + j]
      BY <1>2, <3>1, Lengths, AtGone DEF Placed
    <3>3. \A j \in (Gone + 1)..Len(input) : input[j] \notin Eol
      <4> SUFFICES ASSUME NEW j \in (Gone + 1)..Len(input) PROVE input[j] \notin Eol
        OBVIOUS
      <4>1. j - Gone \in 1..Len(buf) /\ Gone + (j - Gone) = j
        BY <3>2
      <4>2. QED BY <3>1, <3>2, <4>1
    <3>4. SubSeq(input, Gone + 1, Len(input)) = buf
      <4>1. /\ SubSeq(input, Gone + 1, Len(input)) \in Seq(Byte)
            /\ Len(SubSeq(input, Gone + 1, Len(input))) = Len(buf)
            /\ \A j \in 1..Len(buf) : SubSeq(input, Gone + 1, Len(input))[j] = input[Gone + j]
        <5> DEFINE g == Gone
                   l == Len(input)
                   m == Len(buf)
        <5>1. input \in Seq(Byte) /\ g \in 0..l /\ l \in Nat /\ m \in Nat /\ l = g + m /\ l = Len(input)
          BY <3>1, <3>2
        <5> HIDE DEF g, l, m
        <5>2. /\ SubSeq(input, g + 1, l) \in Seq(Byte) /\ Len(SubSeq(input, g + 1, l)) = m
              /\ \A j \in 1..m : SubSeq(input, g + 1, l)[j] = input[g + j]
          BY <5>1
        <5>3. QED BY <5>2 DEF g, l, m
      <4>2. QED BY <3>1, <3>2, <4>1, SeqEqual
    <3>5. /\ After(input, FALSE)[Len(input)].done = After(input, FALSE)[Gone].done
          /\ After(input, FALSE)[Len(input)].cur = After(input, FALSE)[Gone].cur \o buf
      <4>1. Len(input) \in Gone..Len(input)
        BY <3>2
      <4>2. QED BY <3>1, <3>2, <3>3, <3>4, <4>1, Copies
    <3>6. After(input, FALSE)[Len(input)].cur = buf
      <4>1. After(input, FALSE)[Gone].cur = <<>> /\ <<>> \o buf = buf
        BY <1>4, <2>1, <3>1, ConcatEmptySeq DEF AtLine
      <4>2. QED BY <3>5, <4>1
    <3>7. Through'
      BY <2>1, <3>1 DEF Through
    <3>8. /\ Commands(lines) = Commands(After(input, FALSE)[Len(input)].done)
          /\ Unpaired => lines = After(input, FALSE)[Len(input)].done
      BY <1>4, <3>5 DEF AtLine
    <3>9. QED BY <1>1, <3>1, <3>6, <3>7, <3>8, EndLines
  <2>6. ASSUME TimesOut PROVE AtLine'
    BY <1>1, <1>4, <2>6 DEF TimesOut, AtLine, Gone
  <2>7. QED BY <1>4, <2>2, <2>4, <2>5, <2>6, BatchCases
<1>5. ASSUME AtLine, EchoStep PROVE AtLine' \/ AtEnd'
  <2>1. echoOn /\ ~over /\ AtOnce /\ apart /\ ~Unpaired' /\ buf = <<>> /\ buf' = buf
    BY <1>2, <1>5 DEF EchoStep, Placed, AtOnce
  <2> DEFINE before == After(input, FALSE)[Gone]
  <2>2. /\ Gone \in 0..Len(input) /\ Len(input) \in Nat /\ before \in States /\ before.done \in Lines
        /\ before.cur = line /\ Commands(lines) = Commands(before.done) /\ lines \in Lines /\ line \in Line
        /\ input \in Seq(Byte)
    <3>1. Gone \in 0..Len(input) /\ before \in States /\ before.done \in Lines
      BY <1>2, AtGone
    <3>2. before.cur = line /\ Commands(lines) = Commands(before.done)
      BY <1>5 DEF AtLine
    <3>3. lines \in Lines /\ line \in Line /\ input \in Seq(Byte)
      BY DEF TypeOK, Lines, Line
    <3> HIDE DEF before
    <3>4. QED BY <3>1, <3>2, <3>3
  <2>3. ASSUME data # <<>>, EchoByte(data[1]), wire' = wire, Len(data) \in Nat \ {0} PROVE AtLine'
    <3> DEFINE b == data[1]
               after == After(input, FALSE)[Gone + 1]
    <3>1. /\ b = input[Gone + 1] /\ b \in Text \cup Eol /\ Gone + 1 \in 1..Len(input)
          /\ (Gone + 1) - 1 = Gone
      <4>1. b = input[Gone + 1] /\ Gone + 1 \in 1..Len(input) /\ (Gone + 1) - 1 = Gone
        BY <1>2, <2>2, <2>3, Lengths DEF Placed
      <4>2. b \in Text \cup Eol
        BY <2>1, <2>2, <4>1 DEF AtOnce, NoKeys
      <4>3. QED BY <4>1, <4>2
    <3>2. after = Split(before, b)
      <4>1. after = Turn(After(input, FALSE)[(Gone + 1) - 1], input[Gone + 1], FALSE)
        BY <2>2, <3>1, AfterEquation
      <4>2. QED BY <3>1, <4>1 DEF Turn
    <3>3. ASSUME data' = Tail(data), echoOn' = echoOn \/ (data' = <<>> /\ line' = <<>>) PROVE Gone' = Gone + 1
      BY <1>1, <1>2, <2>1, <2>3, <3>3, BytePlace
    <3>4. CASE b \in Eol
      <4>1. EchoReturns(line)
        BY <2>3, <3>4 DEF EchoByte, Eol, Text
      <4>2. lines' = Append(lines, line) /\ line' = <<>> /\ over' = over /\ data' = <<>>
        BY <4>1 DEF EchoReturns, Submit
      <4>3. data' = Tail(data)
        <5>1. Len(data) = 1
          <6>1. \A i \in 1..(Len(data) - 1) : data[i] \notin Eol
            BY <2>1 DEF EndsInv
          <6>2. data[1] \in Eol
            BY <3>4
          <6>3. ~(1 \in 1..(Len(data) - 1))
            BY <6>1, <6>2
          <6>4. QED BY <2>3, <6>3
        <5>2. data \in Seq(Byte)
          BY DEF TypeOK
        <5>3. Tail(data) = <<>>
          <6>1. Tail(data) \in Seq(Byte) /\ Len(Tail(data)) = 0
            BY <2>3, <5>1, <5>2, HeadTailProperties
          <6>2. \A q \in Seq(Byte) : Len(q) = 0 => q = <<>>
            OBVIOUS
          <6>3. QED BY <6>1, <6>2
        <5>4. QED BY <4>2, <5>3
      <4>4. Gone' = Gone + 1
        BY <3>3, <4>2, <4>3
      <4>5. after.cur = <<>> /\ (after.done = Append(before.done, line) \/ (after.done = before.done /\ line = <<>>))
        <5>1. before.cr => before.cur = <<>>
          BY <2>2, CarriageReturn
        <5> HIDE DEF before, after, b
        <5>2. QED BY <2>2, <3>2, <3>4, <5>1 DEF Split, States, Eol
      <4>6. after = After(input, FALSE)'[Gone'] /\ Commands(Append(lines, line)) = Commands(after.done)
        <5>1. after = After(input, FALSE)'[Gone']
          BY <1>1, <4>4
        <5> HIDE DEF before, after
        <5>2. Commands(Append(lines, line)) = Commands(after.done)
          <6>1. /\ Commands(Append(lines, line)) = Commands(Append(before.done, line))
                /\ line = <<>> => Commands(Append(lines, line)) = Commands(before.done)
            BY <2>2, OneMoreLine
          <6>2. CASE after.done = Append(before.done, line)
            BY <6>1, <6>2
          <6>3. CASE after.done = before.done /\ line = <<>>
            BY <6>1, <6>3
          <6>4. QED BY <4>5, <6>2, <6>3
        <5>3. QED BY <5>1, <5>2
      <4> HIDE DEF after
      <4>7. QED BY <2>1, <4>2, <4>5, <4>6 DEF AtLine
    <3>5. CASE b \in Text
      <4>1. data' = Tail(data) /\ line' = Append(line, b) /\ UNCHANGED <<echoOn, lines, over>>
        BY <2>3, <3>5 DEF EchoByte, Eol, Text
      <4>2. Gone' = Gone + 1
        BY <3>3, <4>1
      <4>3. after = After(input, FALSE)'[Gone']
        BY <1>1, <4>2
      <4> HIDE DEF before, after, b
      <4>4. after.cur = Append(line, b) /\ after.done = before.done
        BY <2>2, <3>2, <3>5 DEF Split, States, Eol, Text
      <4>5. QED BY <2>1, <2>2, <4>1, <4>3, <4>4 DEF AtLine
    <3>6. QED BY <3>1, <3>4, <3>5
  <2>4. ASSUME NEW k \in 1..MaxPacket, EchoReceive(k) PROVE AtLine'
    <3>1. Packet(k) /\ UNCHANGED <<line, lines, over>>
      BY <2>4 DEF EchoReceive
    <3>2. Gone' = Gone
      BY <1>1, <1>2, <2>1, <2>4, <3>1, ReceivesPlace
    <3>3. QED BY <1>1, <1>5, <3>1, <3>2 DEF AtLine
  <2>5. ASSUME EchoEnd PROVE AtEnd'
    <3>1. /\ wire = <<>> /\ data = <<>> /\ Len(wire) = 0 /\ Len(data) = 0 /\ Len(buf) = 0
          /\ UNCHANGED <<wire, data>> /\ line' = <<>>
          /\ lines' = IF line = <<>> THEN lines ELSE Append(lines, line)
      BY <2>1, <2>5 DEF EchoEnd, Submit
    <3>2. Gone = Len(input)
      BY <2>2, <3>1, Lengths
    <3>3. Through'
      BY <2>1, <3>1 DEF Through
    <3>4. /\ After(input, FALSE)[Len(input)].cur = line
          /\ Commands(lines) = Commands(After(input, FALSE)[Len(input)].done)
          /\ Unpaired => lines = After(input, FALSE)[Len(input)].done
      BY <1>5, <3>2 DEF AtLine
    <3>5. line \in Seq(Byte)
      BY DEF TypeOK
    <3>6. QED BY <1>1, <3>1, <3>3, <3>4, <3>5, EndLines
  <2>6. \/ data # <<>> /\ EchoByte(data[1]) /\ wire' = wire /\ Len(data) \in Nat \ {0}
        \/ \E k \in 1..MaxPacket : EchoReceive(k)
        \/ EchoEnd
    BY <1>5, EchoCases
  <2>7. QED BY <2>3, <2>4, <2>5, <2>6
<1>6. ASSUME AtLine, UNCHANGED vars PROVE AtLine'
  BY <1>1, <1>6 DEF AtLine, Gone, vars
<1>7. QED BY <1>2, <1>3, <1>4, <1>5, <1>6 DEF Next

--------------------------------------------------------------------------------
(* The lines of a user who types. *)

\* One key of the user.
LEMMA KeyTyped ==
    ASSUME TypeOK, ArrivedInv, EndsInv, Placed, Typing, apart, echoOn, input' = input, wire' = wire, buf' = buf,
           data # <<>>, EchoByte(data[1])
    PROVE  Typing' \/ Typed'
<1> DEFINE A == After(input, TRUE)
           before == A[Gone]
           after == A[Gone + 1]
           b == data[1]
<1>1. /\ data \in Seq(Byte) /\ Len(data) \in Nat \ {0} /\ b \in Byte /\ input \in Seq(Byte)
      /\ line \in Line /\ lines \in Lines /\ Len(input) \in Nat /\ ~over /\ buf = <<>> /\ buf' = <<>>
  <2>1. data \in Seq(Byte) /\ Len(data) \in Nat \ {0}
    BY DEF TypeOK
  <2>2. b \in Byte
    BY <2>1
  <2>3. input \in Seq(Byte) /\ line \in Line /\ lines \in Lines /\ Len(input) \in Nat
    BY DEF TypeOK, Lines, Line
  <2>4. ~over
    BY DEF Typing
  <2>5. buf = <<>> /\ buf' = <<>>
    BY DEF Placed
  <2>6. QED BY <2>1, <2>2, <2>3, <2>4, <2>5
<1>2. /\ Gone \in 0..Len(input) /\ Gone + 1 \in 1..Len(input) /\ (Gone + 1) - 1 = Gone
      /\ b = input[Gone + 1] /\ before \in States
  <2>1. Gone \in 0..Len(input) /\ before \in States
    BY AtGone
  <2>2. Gone + 1 \in 1..Len(input) /\ b = input[Gone + 1]
    BY <1>1, <2>1, Lengths DEF Placed
  <2>3. (Gone + 1) - 1 = Gone
    BY <1>1, <2>1
  <2> HIDE DEF b, before
  <2>4. QED BY <2>1, <2>2, <2>3 DEF b, before
<1>3. after = Edit(before, b)
  <2>1. after = Turn(A[(Gone + 1) - 1], input[Gone + 1], TRUE)
    BY <1>1, <1>2, AfterEquation
  <2>2. QED BY <1>2, <2>1 DEF Turn
<1>4. ~before.out /\ before.cur = line /\ lines = before.done
  BY DEF Typing
<1>5. b \in Eol \cup {"INT"} => Tail(data) = <<>>
  <2> SUFFICES ASSUME data[1] \in Eol \cup {"INT"} PROVE Tail(data) = <<>>
    OBVIOUS
  <2>1. \A i \in 1..(Len(data) - 1) : data[i] \notin Eol \cup {"INT"}
    BY DEF EndsInv
  <2>2. ~(1 \in 1..(Len(data) - 1))
    BY <2>1
  <2>3. Len(data) = 1
    <3> DEFINE n == Len(data)
    <3>1. n \in Nat \ {0} /\ ~(1 \in 1..(n - 1))
      BY <1>1, <2>2
    <3> HIDE DEF n
    <3>2. n = 1
      BY <3>1
    <3>3. QED BY <3>2 DEF n
  <2>4. Tail(data) \in Seq(Byte) /\ Len(Tail(data)) = 0
    BY <1>1, <2>3, HeadTailProperties
  <2>5. \A q \in Seq(Byte) : Len(q) = 0 => q = <<>>
    OBVIOUS
  <2>6. QED BY <2>4, <2>5
<1>6. ASSUME data' = Tail(data), echoOn' = echoOn \/ (data' = <<>> /\ line' = <<>>)
      PROVE  After(input, TRUE)'[Gone'] = after
  <2>1. Gone' = Gone + 1
    BY <1>1, <1>6, BytePlace
  <2>2. input' = input
    OBVIOUS
  <2>3. QED BY <2>1, <2>2
<1>7. ASSUME NEW l \in Line, EchoReturns(l), b \in Eol \cup {"INT"},
             ~after.out, after.cur = <<>>, after.done = Append(before.done, l)
      PROVE  Typing'
  <2>1. lines' = Append(lines, l) /\ line' = <<>> /\ over' = over /\ data' = <<>>
    BY <1>7 DEF EchoReturns, Submit
  <2>2. After(input, TRUE)'[Gone'] = after
    BY <1>5, <1>6, <1>7, <2>1
  <2> HIDE DEF after, before
  <2>3. QED BY <1>1, <1>4, <1>7, <2>1, <2>2 DEF Typing
<1>8. ASSUME data' = Tail(data), UNCHANGED <<echoOn, lines, over>>,
             ~after.out, after.cur = line', after.done = before.done
      PROVE  Typing'
  <2>1. After(input, TRUE)'[Gone'] = after
    BY <1>6, <1>8
  <2> HIDE DEF after, before
  <2>2. QED BY <1>1, <1>4, <1>8, <2>1 DEF Typing
<1>9. CASE b \in Eol /\ EchoReturns(line)
  <2>1. ~after.out /\ after.cur = <<>> /\ after.done = Append(before.done, line)
    <3> HIDE DEF before, after, b
    <3>1. QED BY <1>2, <1>3, <1>4, <1>9 DEF Edit, States, Eol, Text
  <2>2. QED BY <1>1, <1>7, <1>9, <2>1
<1>10. CASE b = "INT" /\ Interrupt
  <2>1. ~after.out /\ after.cur = <<>> /\ after.done = Append(before.done, <<>>)
    <3> HIDE DEF before, after, b
    <3>1. QED BY <1>2, <1>3, <1>4, <1>10 DEF Edit, States, Eol, Text
  <2>2. <<>> \in Line /\ EchoReturns(<<>>)
    BY <1>10 DEF Interrupt, Line
  <2>3. QED BY <1>7, <1>10, <2>1, <2>2
<1>11. CASE b = "BS" /\ Erase
  <2>1. data' = Tail(data) /\ UNCHANGED <<echoOn, lines, over>> /\ line' = IF line = <<>> THEN <<>> ELSE Front(line)
    BY <1>11 DEF Erase
  <2>2. ~after.out /\ after.cur = line' /\ after.done = before.done
    <3> HIDE DEF before, after, b
    <3>1. QED BY <1>2, <1>3, <1>4, <1>11, <2>1 DEF Edit, States, Eol, Text
  <2>3. QED BY <1>8, <2>1, <2>2
<1>12. CASE /\ b = "EOT" /\ UNCHANGED <<echoOn, lines, line, screen, unseen>>
            /\ IF line = <<>> THEN data' = <<>> /\ over' = TRUE ELSE data' = Tail(data) /\ UNCHANGED over
  <2>1. /\ after.out = (line = <<>>) /\ after.cur = line /\ after.done = before.done
    <3> HIDE DEF before, after, b
    <3>1. QED BY <1>2, <1>3, <1>4, <1>12 DEF Edit, States, Eol, Text
  <2>2. CASE line # <<>>
    BY <1>8, <1>12, <2>1, <2>2
  <2>3. CASE line = <<>>
    <3>1. A[Len(input)] = after
      <4>1. Gone + 1 \in 0..Len(input) /\ Len(input) \in (Gone + 1)..Len(input)
        BY <1>1, <1>2
      <4>2. A[Gone + 1].out
        BY <2>1, <2>3
      <4>3. QED BY <1>1, <4>1, <4>2, StaysOut
    <3>2. TypedLines(input) = lines
      <4>1. Whole(A[Len(input)]) = A[Len(input)].done
        BY <1>1, <2>1, <2>3, <3>1, WholeStream
      <4>2. QED BY <1>4, <2>1, <3>1, <4>1 DEF TypedLines
    <3>3. QED BY <1>12, <2>3, <3>2 DEF Typed
  <2>4. QED BY <2>2, <2>3
<1>13. CASE /\ b \in Text /\ data' = Tail(data) /\ UNCHANGED <<echoOn, lines, over>>
            /\ line' = Append(line, b)
  <2>1. ~after.out /\ after.cur = line' /\ after.done = before.done
    <3> HIDE DEF before, after, b
    <3>1. QED BY <1>2, <1>3, <1>4, <1>13 DEF Edit, States, Eol, Text
  <2>2. QED BY <1>8, <1>13, <2>1
<1>14. QED BY <1>9, <1>10, <1>11, <1>12, <1>13 DEF EchoByte

\* Every step leaves the lines the user has typed.
LEMMA TypedNext ==
    ASSUME TypeOK, ArrivedInv, EndsInv, TypedInv, Next
    PROVE  TypedInv'
<1>1. /\ input' = input /\ (apart' => apart) /\ (Typist' => Typist)
      /\ Typist => echoOn /\ Steady /\ apart
  BY Conditions DEF Typist, EndsInv
<1> SUFFICES ASSUME Typist' PROVE Typing' \/ Typed'
  BY DEF TypedInv
<1>2. /\ echoOn /\ apart /\ Placed /\ (Typing \/ Typed) /\ input' = input
  <2>1. Typist /\ Steady /\ echoOn /\ apart /\ input' = input
    BY <1>1
  <2>2. Placed
    BY <2>1 DEF ArrivedInv, Placed
  <2>3. QED BY <2>1, <2>2 DEF TypedInv
<1>3. ASSUME Typed PROVE Typed'
  <2>1. (over \/ Through) /\ lines = TypedLines(input)
    BY <1>3 DEF Typed
  <2>2. CASE EchoStep
    <3>1. wire = <<>> /\ buf = <<>> /\ data = <<>> /\ line = <<>> /\ Len(wire) = 0
      BY <2>1, <2>2 DEF EchoStep, Through
    <3>2. \A k \in 1..MaxPacket : ~Packet(k)
      BY <3>1, MaxPacketAssumption DEF Packet
    <3>3. EchoEnd
      BY <2>2, <3>1, <3>2, EchoCases DEF EchoReceive
    <3>4. lines' = lines /\ over' = TRUE
      BY <3>1, <3>3 DEF EchoEnd
    <3>5. QED BY <1>2, <2>1, <3>4 DEF Typed
  <2>3. CASE over /\ UNCHANGED vars
    BY <2>1, <2>3 DEF Typed, Through, vars
  <2>4. QED BY <1>2, <2>2, <2>3 DEF Next, BatchStep
<1>4. ASSUME Typing PROVE Typing' \/ Typed'
  <2>1. ASSUME data # <<>>, EchoByte(data[1]), wire' = wire, buf' = buf PROVE Typing' \/ Typed'
    BY <1>2, <1>4, <2>1, KeyTyped
  <2>2. ASSUME NEW k \in 1..MaxPacket, EchoReceive(k), buf' = buf PROVE Typing'
    <3>1. Packet(k) /\ UNCHANGED <<line, lines, over>>
      BY <2>2 DEF EchoReceive
    <3>2. Gone' = Gone
      BY <1>2, <2>2, <3>1, ReceivesPlace
    <3>3. QED BY <1>2, <1>4, <3>1, <3>2 DEF Typing
  <2>3. ASSUME EchoEnd, buf' = buf PROVE Typed'
    <3>1. /\ wire = <<>> /\ data = <<>> /\ buf = <<>> /\ Len(wire) = 0 /\ Len(data) = 0 /\ Len(buf) = 0
          /\ wire' = <<>> /\ data' = <<>> /\ buf' = <<>> /\ line' = <<>>
          /\ lines' = IF line = <<>> THEN lines ELSE Append(lines, line)
      BY <1>2, <2>3 DEF EchoEnd, Placed, Submit
    <3>2. Gone = Len(input) /\ input \in Seq(Byte)
      BY <3>1, Lengths, AtGone, <1>2 DEF TypeOK
    <3>3. Through'
      BY <3>1 DEF Through
    <3>4. TypedLines(input) = lines'
      <4> DEFINE all == After(input, TRUE)[Len(input)]
      <4>1. all.cur = line /\ all.done = lines
        BY <1>4, <3>2 DEF Typing
      <4>2. (all.cur = <<>> => Whole(all) = all.done) /\ (all.cur # <<>> => Whole(all) = Append(all.done, all.cur))
        BY <3>2, WholeStream
      <4>3. TypedLines(input) = Whole(all)
        BY DEF TypedLines
      <4> HIDE DEF all
      <4>4. QED BY <3>1, <4>1, <4>2, <4>3
    <3>5. QED BY <1>2, <3>3, <3>4 DEF Typed
  <2>4. CASE EchoStep
    <3>1. /\ buf' = buf
          /\ \/ data # <<>> /\ EchoByte(data[1]) /\ wire' = wire
             \/ \E k \in 1..MaxPacket : EchoReceive(k)
             \/ EchoEnd
      BY <2>4, EchoCases
    <3>2. QED BY <2>1, <2>2, <2>3, <3>1
  <2>5. CASE UNCHANGED vars
    BY <1>4, <2>5 DEF Typing, Gone, vars
  <2>6. QED BY <1>2, <2>4, <2>5 DEF Next, BatchStep
<1>5. QED BY <1>2, <1>3, <1>4

--------------------------------------------------------------------------------
(* The screen. *)

\* Nothing is a part of nothing.
LEMMA NoPart == Part(<<>>, <<>>)
<1> DEFINE none == [i \in {} |-> i]
<1>1. none \in [DOMAIN <<>> -> DOMAIN <<>>] /\ DOMAIN <<>> = {}
  OBVIOUS
<1>2. QED BY <1>1 DEF Part

\* A part of a sequence stays one when both get the same last element, when the sequence gets one
\* more, and when both lose the last one.
LEMMA Parts ==
    ASSUME NEW s \in Seq(Byte), NEW t \in Seq(Byte), Part(s, t)
    PROVE  /\ Part(<<>>, <<>>)
           /\ \A e \in Byte : Part(s, Append(t, e)) /\ Part(Append(s, e), Append(t, e))
           /\ t # <<>> => Part(IF s = <<>> THEN s ELSE Front(s), Front(t))
           /\ t = <<>> => s = <<>>
<1>1. /\ Len(s) \in Nat /\ DOMAIN s = 1..Len(s) /\ Len(t) \in Nat /\ DOMAIN t = 1..Len(t)
  OBVIOUS
<1>2. PICK at \in [1..Len(s) -> 1..Len(t)] :
        \A i \in 1..Len(s) : s[i] = t[at[i]] /\ \A j \in 1..Len(s) : i < j => at[i] < at[j]
  BY <1>1 DEF Part
<1>3. Part(<<>>, <<>>)
  BY NoPart
<1>4. ASSUME NEW e \in Byte PROVE Part(s, Append(t, e)) /\ Part(Append(s, e), Append(t, e))
  <2>1. /\ DOMAIN Append(t, e) = 1..(Len(t) + 1) /\ Append(t, e)[Len(t) + 1] = e
        /\ \A i \in 1..Len(t) : Append(t, e)[i] = t[i]
        /\ DOMAIN Append(s, e) = 1..(Len(s) + 1) /\ Append(s, e)[Len(s) + 1] = e
        /\ \A i \in 1..Len(s) : Append(s, e)[i] = s[i]
    BY <1>1
  <2>2. Part(s, Append(t, e))
    <3>1. at \in [DOMAIN s -> DOMAIN Append(t, e)]
      BY <1>1, <2>1
    <3>2. \A i \in DOMAIN s : s[i] = Append(t, e)[at[i]] /\ \A j \in DOMAIN s : i < j => at[i] < at[j]
      BY <1>1, <1>2, <2>1
    <3>3. QED BY <3>1, <3>2 DEF Part
  <2>3. Part(Append(s, e), Append(t, e))
    <3> DEFINE longer == [i \in 1..(Len(s) + 1) |-> IF i = Len(s) + 1 THEN Len(t) + 1 ELSE at[i]]
    <3>1. longer \in [DOMAIN Append(s, e) -> DOMAIN Append(t, e)]
      BY <1>1, <2>1
    <3>2. /\ longer[Len(s) + 1] = Len(t) + 1
          /\ \A i \in 1..Len(s) : longer[i] = at[i] /\ at[i] \in 1..Len(t)
      BY <1>1
    <3>3. ASSUME NEW i \in 1..(Len(s) + 1)
          PROVE  /\ Append(s, e)[i] = Append(t, e)[longer[i]]
                 /\ \A j \in 1..(Len(s) + 1) : i < j => longer[i] < longer[j]
      <4> HIDE DEF longer
      <4>1. CASE i = Len(s) + 1
        BY <1>1, <2>1, <3>2, <4>1
      <4>2. CASE i \in 1..Len(s)
        <5>1. Append(s, e)[i] = Append(t, e)[longer[i]]
          BY <1>2, <2>1, <3>2, <4>2
        <5>2. ASSUME NEW j \in 1..(Len(s) + 1), i < j PROVE longer[i] < longer[j]
          <6>1. CASE j = Len(s) + 1
            BY <1>1, <3>2, <4>2, <6>1
          <6>2. CASE j \in 1..Len(s)
            BY <1>2, <3>2, <4>2, <5>2, <6>2
          <6>3. QED BY <1>1, <6>1, <6>2
        <5>3. QED BY <5>1, <5>2
      <4>3. i \in 1..Len(s) \/ i = Len(s) + 1
        BY <1>1
      <4>4. QED BY <4>1, <4>2, <4>3
    <3> HIDE DEF longer
    <3>4. QED BY <2>1, <3>1, <3>3 DEF Part
  <2>4. QED BY <2>2, <2>3
<1>5. ASSUME t # <<>> PROVE Part(IF s = <<>> THEN s ELSE Front(s), Front(t))
  <2> DEFINE u == IF s = <<>> THEN s ELSE Front(s)
             n == IF s = <<>> THEN 0 ELSE Len(s) - 1
  <2>1. /\ Len(t) # 0 /\ DOMAIN Front(t) = 1..(Len(t) - 1) /\ \A i \in 1..(Len(t) - 1) : Front(t)[i] = t[i]
    BY <1>1, <1>5 DEF Front
  <2>2. /\ n \in Nat /\ n <= Len(s) /\ (n = Len(s) => n = 0)
        /\ DOMAIN u = 1..n /\ \A i \in 1..n : u[i] = s[i]
    <3>1. CASE s = <<>>
      BY <1>1, <3>1
    <3>2. CASE s # <<>>
      <4>1. Len(s) # 0
        BY <3>2
      <4>2. DOMAIN Front(s) = 1..(Len(s) - 1) /\ \A i \in 1..(Len(s) - 1) : Front(s)[i] = s[i]
        BY <1>1, <4>1 DEF Front
      <4>3. n = Len(s) - 1 /\ u = Front(s)
        BY <3>2
      <4> HIDE DEF n, u
      <4>4. n \in Nat /\ n <= Len(s) /\ n # Len(s)
        <5>1. PICK d \in Nat : d = Len(s)
          BY <1>1
        <5>2. d # 0 /\ n = d - 1
          BY <4>1, <4>3, <5>1, Zenon
        <5>3. n \in Nat /\ n <= d /\ n # d
          BY <5>2
        <5>4. QED BY <5>1, <5>3, Zenon
      <4>5. DOMAIN u = 1..n /\ \A i \in 1..n : u[i] = s[i]
        BY <4>2, <4>3, Zenon
      <4>6. QED BY <4>4, <4>5, Zenon
    <3>3. QED BY <3>1, <3>2
  <2> HIDE DEF n, u
  <2> DEFINE shorter == [i \in 1..n |-> at[i]]
  <2>3. ASSUME NEW i \in 1..n PROVE i \in 1..Len(s) /\ at[i] \in 1..(Len(t) - 1) /\ shorter[i] = at[i]
    <3>1. i \in 1..Len(s) /\ Len(s) \in 1..Len(s) /\ i < Len(s)
      <4>1. PICK d \in Nat : d = Len(s)
        BY <1>1
      <4>2. n \in Nat /\ n <= d /\ (n = d => n = 0) /\ i \in 1..n
        BY <2>2, <4>1, Zenon
      <4>3. i \in 1..d /\ d \in 1..d /\ i < d
        BY <4>2
      <4>4. QED BY <4>1, <4>3, Zenon
    <3>2. at[i] < at[Len(s)] /\ at[i] \in 1..Len(t) /\ at[Len(s)] \in 1..Len(t)
      BY <1>2, <3>1
    <3>3. QED BY <1>1, <3>1, <3>2
  <2>4. shorter \in [DOMAIN u -> DOMAIN Front(t)]
    BY <2>1, <2>2, <2>3
  <2>5. \A i \in 1..n : u[i] = Front(t)[shorter[i]] /\ \A j \in 1..n : i < j => shorter[i] < shorter[j]
    <3> HIDE DEF shorter
    <3>1. QED BY <1>2, <2>1, <2>2, <2>3
  <2> HIDE DEF shorter
  <2>6. Part(u, Front(t))
    BY <2>2, <2>4, <2>5 DEF Part
  <2>7. QED BY <2>6 DEF u
<1>6. ASSUME t = <<>> PROVE s = <<>>
  <2>1. Len(t) = 0
    BY <1>6
  <2>2. ~(1 \in 1..Len(s))
    BY <1>1, <1>2, <2>1
  <2>3. Len(s) = 0
    BY <1>1, <2>2
  <2>4. QED BY <2>3
<1>7. QED BY <1>3, <1>4, <1>5, <1>6

\* Every step leaves on the screen what has been typed, as far as it was echoed.
LEMMA ScreenNext ==
    ASSUME TypeOK, ArrivedInv, EndsInv, ScreenShowsLine, Next
    PROVE  ScreenShowsLine'
<1> DEFINE Shown == Part(screen, line) /\ (~unseen => screen = line)
<1>1. ASSUME wire = <<>>, NEW k \in 1..MaxPacket, Packet(k) PROVE FALSE
  <2>1. Len(wire) = 0
    BY <1>1
  <2>2. QED BY <1>1, <2>1, MaxPacketAssumption DEF Packet
<1>2. Part(screen, line)' <=> Part(screen', line')
  BY DEF Part
<1>3. CASE BatchStep
  <2>1. UNCHANGED <<data, line, screen, unseen>> /\ (wire' = wire \/ \E k \in 1..MaxPacket : Packet(k))
    BY <1>3, BatchCases DEF TakesLine, Receives, Ends, TimesOut
  <2>2. Part(screen', line') <=> Part(screen, line)
    BY <2>1
  <2>3. QED BY <1>1, <1>2, <2>1, <2>2 DEF ScreenShowsLine
<1>4. CASE EchoStep
  <2>1. CASE data # <<>> /\ EchoByte(data[1])
    <3> DEFINE b == data[1]
    <3>1. /\ Shown /\ screen \in Seq(Byte) /\ line \in Seq(Byte) /\ b \in Byte
          /\ unseen \in BOOLEAN
      BY <2>1 DEF ScreenShowsLine, TypeOK
    <3>2. CASE screen' = <<>> /\ line' = <<>> /\ unseen' = FALSE
      <4>1. Part(screen', line')
        BY <3>1, <3>2, Parts
      <4>2. QED BY <1>2, <3>2, <4>1 DEF ScreenShowsLine
    <3>3. CASE Erase
      <4>1. CASE line = <<>>
        <5>1. UNCHANGED <<screen, line, unseen>>
          BY <3>3, <4>1 DEF Erase
        <5>2. Part(screen', line') <=> Part(screen, line)
          BY <5>1
        <5>3. QED BY <1>2, <3>1, <5>1, <5>2 DEF ScreenShowsLine
      <4>2. CASE line # <<>>
        <5>1. line' = Front(line) /\ screen' = (IF screen = <<>> THEN screen ELSE Front(screen)) /\ unseen' = unseen
          BY <3>3, <4>2 DEF Erase
        <5>2. Part(screen', line')
          BY <3>1, <4>2, <5>1, Parts
        <5>3. ~unseen' => screen' = line'
          BY <3>1, <4>2, <5>1
        <5>4. QED BY <1>2, <5>2, <5>3 DEF ScreenShowsLine
      <4>3. QED BY <4>1, <4>2
    <3>4. CASE UNCHANGED <<line, screen, unseen>>
      <4>1. Part(screen', line') <=> Part(screen, line)
        BY <3>4
      <4>2. QED BY <1>2, <3>1, <3>4, <4>1 DEF ScreenShowsLine
    <3>5. CASE /\ line' = Append(line, b) /\ screen' = IF b = "TAB" THEN screen ELSE Append(screen, b)
               /\ unseen' = (unseen \/ b = "TAB")
      <4>1. Part(screen', line')
        <5>1. Part(screen, Append(line, b)) /\ Part(Append(screen, b), Append(line, b))
          <6> HIDE DEF b
          <6>1. QED BY <3>1, Parts
        <5> HIDE DEF b
        <5>2. QED BY <3>5, <5>1
      <4>2. ~unseen' => screen' = line'
        <5> HIDE DEF b
        <5>1. QED BY <3>1, <3>5
      <4>3. QED BY <1>2, <4>1, <4>2 DEF ScreenShowsLine
    <3>6. QED BY <2>1, <3>2, <3>3, <3>4, <3>5 DEF EchoByte, EchoReturns, Interrupt
  <2>2. ASSUME NEW k \in 1..MaxPacket, EchoReceive(k) PROVE ScreenShowsLine'
    <3>1. Shown /\ UNCHANGED <<line, screen, unseen>>
      BY <1>1, <2>2 DEF ScreenShowsLine, EchoReceive
    <3>2. Part(screen', line') <=> Part(screen, line)
      BY <3>1
    <3>3. QED BY <1>2, <3>1, <3>2 DEF ScreenShowsLine
  <2>3. CASE EchoEnd
    BY <2>3 DEF ScreenShowsLine, EchoEnd
  <2>4. QED BY <1>4, <2>1, <2>2, <2>3, EchoCases
<1>5. CASE UNCHANGED vars
  <2>1. UNCHANGED <<wire, data, line, screen, unseen>>
    BY <1>5 DEF vars
  <2>2. Part(screen', line') <=> Part(screen, line)
    BY <2>1
  <2>3. QED BY <1>2, <2>1, <2>2 DEF ScreenShowsLine
<1>6. QED BY <1>3, <1>4, <1>5 DEF Next

--------------------------------------------------------------------------------
(* The theorems. *)

\* The initial states.
LEMMA Initially ==
    ASSUME Init
    PROVE  IInv
<1>1. /\ input \in Seq(Byte) /\ wire = input /\ asUser \in BOOLEAN /\ echoOn = asUser
      /\ apart = TRUE /\ skipLf = FALSE /\ unseen = FALSE /\ over = FALSE
      /\ buf = <<>> /\ data = <<>> /\ line = <<>> /\ screen = <<>> /\ lines = <<>>
  BY InputsAssumption, EchoAssumption DEF Init, Byte
<1>2. TypeOK
  <2>1. <<>> \in Seq(Byte) /\ <<>> \in Seq(Seq(Byte))
    OBVIOUS
  <2>2. QED BY <1>1, <2>1 DEF TypeOK
<1>3. Gone = 0 /\ Len(input) \in Nat
  <2>1. Len(buf) = 0 /\ Len(data) = 0 /\ Len(wire) = Len(input) /\ Len(input) \in Nat
    BY <1>1
  <2>2. QED BY <2>1 DEF Gone
<1>4. ArrivedInv
  BY <1>1, <1>3 DEF ArrivedInv
<1>5. EndsInv
  BY <1>1 DEF EndsInv
<1>6. /\ After(input, FALSE)[Gone] = Start /\ After(input, TRUE)[Gone] = Start
      /\ Start.done = <<>> /\ Start.cur = <<>> /\ ~Start.out
  BY <1>3, AfterEquation DEF Start
<1>7. LinesInv
  BY <1>1, <1>6 DEF LinesInv, AtLine
<1>8. TypedInv
  BY <1>1, <1>6 DEF TypedInv, Typing
<1>9. ScreenShowsLine
  <2>1. Part(screen, line)
    BY <1>1, NoPart
  <2>2. QED BY <1>1, <2>1 DEF ScreenShowsLine
<1>10. QED BY <1>2, <1>4, <1>5, <1>7, <1>8, <1>9 DEF IInv

\* The invariant holds in every state.
LEMMA Invariant == Spec => []IInv
<1>1. Init => IInv
  BY Initially
<1>2. ASSUME IInv, [Next]_vars PROVE IInv'
  <2>1. CASE Next
    BY <1>2, <2>1, Conditions, ArrivedNext, EndsNext, LinesNext, TypedNext, ScreenNext DEF IInv
  <2>2. CASE UNCHANGED vars
    <3>1. /\ UNCHANGED <<input, wire, echoOn, buf, skipLf, data, line, screen, unseen, asUser, apart, lines, over>>
          /\ IInv
      BY <1>2, <2>2 DEF vars
    <3>2. (Steady' <=> Steady) /\ (AtOnce' <=> AtOnce) /\ Gone' = Gone /\ (Through' <=> Through) /\ (Unpaired' <=> Unpaired)
      BY <3>1 DEF Steady, AtOnce, Gone, Through, Unpaired, Batched, NoSwitch, NoPairs, NoKeys
    <3>3. TypeOK' /\ ScreenShowsLine'
      BY <3>1 DEF IInv, TypeOK, ScreenShowsLine, Part
    <3>4. ArrivedInv'
      BY <3>1, <3>2 DEF IInv, ArrivedInv
    <3>5. EndsInv'
      BY <3>1, <3>2 DEF IInv, EndsInv
    <3>6. LinesInv'
      BY <3>1, <3>2 DEF IInv, LinesInv, AtLine, AtEnd, Batched
    <3>7. TypedInv'
      BY <3>1, <3>2 DEF IInv, TypedInv, Typist, Typing, Typed
    <3>8. QED BY <3>3, <3>4, <3>5, <3>6, <3>7 DEF IInv
  <2>3. QED BY <1>2, <2>1, <2>2
<1>3. QED BY <1>1, <1>2, PTL DEF Spec

\* The lines at a place of the stream are the first of its lines.
LEMMA FirstLines ==
    ASSUME NEW bytes \in Seq(Byte), NEW typing, NEW n \in 0..Len(bytes)
    PROVE  LET s == After(bytes, typing)[n]
               w == Whole(After(bytes, typing)[Len(bytes)])
           IN  s.done \in Lines /\ w \in Lines /\ IsPrefix(s.done, w)
<1> DEFINE s == After(bytes, typing)[n]
           all == After(bytes, typing)[Len(bytes)]
<1>1. Len(bytes) \in n..Len(bytes) /\ n \in 0..Len(bytes)
  OBVIOUS
<1>2. IsPrefix(s.done, all.done)
  BY <1>1, LinesStay
<1>3. s \in States /\ all \in States
  BY <1>1, AfterType, WholeStream
<1>4. Whole(all) \in Lines /\ (Whole(all) = all.done \/ Whole(all) = Append(all.done, all.cur))
  BY WholeStream
<1> HIDE DEF s, all
<1>5. s.done \in Seq(Line) /\ all.done \in Seq(Line) /\ all.cur \in Line /\ Whole(all) \in Seq(Line)
  BY <1>3, <1>4 DEF States, Lines, Line
<1>6. IsPrefix(all.done, Whole(all))
  BY <1>4, <1>5, PrefixFacts
<1>7. IsPrefix(s.done, Whole(all))
  BY <1>2, <1>5, <1>6, PrefixFacts
<1>8. QED BY <1>5, <1>7 DEF s, all, Lines

\* In batched mode the lines handle_shell gets are a function of the bytes the client sent; the
\* commands among them are in either mode, for a client that sends one line at a time.
THEOREM StreamLines == Spec => []LinesOfTheStream
<1>1. ASSUME IInv PROVE LinesOfTheStream
  <2> DEFINE sent == BatchLines(input)
  <2>1. TypeOK /\ ArrivedInv /\ LinesInv /\ input \in Seq(Byte) /\ lines \in Lines
    BY <1>1 DEF IInv, TypeOK, Lines, Line
  <2>2. sent \in Lines
    BY <2>1, WholeStream DEF BatchLines
  <2>3. IsPrefix(Commands(sent), Commands(sent)) /\ IsPrefix(sent, sent)
    BY <2>2, CommandsFacts, PrefixFacts DEF Lines
  <2>4. ASSUME Batched \/ AtOnce
        PROVE  SameLines(Commands(lines), Commands(sent)) /\ (Unpaired => SameLines(lines, sent))
    <3>1. CASE AtEnd
      BY <2>3, <3>1 DEF AtEnd, SameLines
    <3>2. CASE AtLine
      <4> DEFINE done == After(input, FALSE)[Gone].done
      <4>1. Gone \in 0..Len(input)
        BY <2>1, <2>4, AtGone DEF ArrivedInv, Placed, Batched
      <4>2. done \in Lines /\ IsPrefix(done, sent)
        BY <2>1, <4>1, FirstLines DEF BatchLines
      <4>3. IsPrefix(Commands(done), Commands(sent))
        BY <2>2, <4>2, CommandsFacts
      <4>4. ~over /\ Commands(lines) = Commands(done) /\ (Unpaired => lines = done)
        BY <3>2 DEF AtLine
      <4>5. QED BY <4>2, <4>3, <4>4 DEF SameLines
    <3>3. QED BY <2>1, <2>4, <3>1, <3>2 DEF LinesInv
  <2>5. QED BY <2>4 DEF LinesOfTheStream, Batched, Unpaired, AtOnce, Steady
<1>2. QED BY <1>1, Invariant, PTL

\* A user who types one line at a time, with the editing keys, gets just these lines.
THEOREM TypedLine == Spec => []LinesAsTyped
<1>1. ASSUME IInv PROVE LinesAsTyped
  <2>1. TypeOK /\ ArrivedInv /\ TypedInv /\ input \in Seq(Byte) /\ lines \in Lines
    BY <1>1 DEF IInv, TypeOK, Lines, Line
  <2>2. TypedLines(input) \in Lines
    BY <2>1, WholeStream DEF TypedLines
  <2>3. ASSUME Typist PROVE IsPrefix(lines, TypedLines(input)) /\ (over => lines = TypedLines(input))
    <3>1. CASE Typed
      BY <2>2, <3>1, PrefixFacts DEF Typed, Lines
    <3>2. CASE Typing
      <4>1. Gone \in 0..Len(input)
        BY <2>1, <2>3, AtGone DEF ArrivedInv, Placed, Typist
      <4>2. IsPrefix(After(input, TRUE)[Gone].done, TypedLines(input))
        BY <2>1, <4>1, FirstLines DEF TypedLines
      <4>3. QED BY <3>2, <4>2 DEF Typing
    <3>3. QED BY <2>1, <2>3, <3>1, <3>2 DEF TypedInv
  <2>4. QED BY <2>3 DEF LinesAsTyped, EveryLineAsTyped, Typist, Steady
<1>2. QED BY <1>1, Invariant, PTL

\* The screen shows the line that Enter would submit, as far as it was echoed, until the end of the
\* channel takes it away.
THEOREM Screen == Spec => []ScreenShowsLine
<1>1. IInv => ScreenShowsLine
  BY DEF IInv
<1>2. QED BY <1>1, Invariant, PTL
================================================================================
