----------------------------- MODULE LoadingProofs -----------------------------
(***************************************************************************)
(* Theorems about the .dis file: a module that is written is what is       *)
(* loaded, for every module, and a file that lost its end is refused; a    *)
(* call of a function that is imported reaches the export of its name; and *)
(* what is placed in the data is what is read there.                       *)
(*                                                                         *)
(* Each reader is set against the bytes that the writer makes of what it   *)
(* reads, in two halves: where the file has these bytes, the reader gives  *)
(* the value and stops after them; where the file ends among them, it      *)
(* refuses.  Both halves are kept by concatenation, so they climb from     *)
(* bytes to operands, words and names, then to the things of a section,    *)
(* and from there to sections and modules.                                 *)
(*                                                                         *)
(* The data is bytes, each of which says of which value it is which part:  *)
(* a value that is written makes up all the bytes that a read of it visits *)
(* and none of those that a read beside it visits.                         *)
(***************************************************************************)
EXTENDS Linking, Induction, SequenceTheorems, FiniteSetTheorems

\* A reading that went well so far.
ReadTo(f, at, v) == Reading(f, at, TRUE, v)

\* The file has these bytes there, or it has those of them for which it is long enough.
Matches(f, at, s) == at + Len(s) <= Len(f) + 1 /\ \A n \in 1 .. Len(s) : f[at + n - 1] = s[n]
CutOff(f, at, s) ==
  at + Len(s) > Len(f) + 1 /\ \A n \in 1 .. Len(s) : at + n <= Len(f) + 1 => f[at + n - 1] = s[n]
\* A file whose writing nothing refused.
Files == Seq(Int \ {OutOfRange})
Places(f) == 1 .. Len(f) + 1

-----------------------------------------------------------------------------
(* Bytes one after the other.                                                  *)

LEMMA FunctionIsSeq ==
  ASSUME NEW T, NEW n \in Nat, NEW s \in [1 .. n -> T]
  PROVE  s \in Seq(T) /\ Len(s) = n
BY SeqDef

LEMMA SameSequence ==
  ASSUME NEW S, NEW T, NEW s \in Seq(S), NEW t \in Seq(T), Len(s) = Len(t), \A n \in 1 .. Len(s) : s[n] = t[n]
  PROVE  s = t
OBVIOUS

\* Two bytes are one and one.
LEMMA OnesConcat ==
  ASSUME NEW s \in Seq(Int), NEW t \in Seq(Int), Len(s) = 1, Len(t) = 1
  PROVE  s \o t \in Seq(Int) /\ Len(s \o t) = 2 /\ (s \o t)[1] = s[1] /\ (s \o t)[2] = t[1]
<1>1. s \o t \in Seq(Int) /\ Len(s \o t) = Len(s) + Len(t)
  BY ConcatProperties
<1>2. 1 \in 1 .. Len(s) + Len(t) /\ 2 \in 1 .. Len(s) + Len(t) /\ 1 <= Len(s) /\ ~(2 <= Len(s)) /\ 2 - Len(s) = 1
  OBVIOUS
<1> QED
  BY <1>1, <1>2, ConcatProperties

LEMMA PairIs ==
  ASSUME NEW a \in Int, NEW b \in Int
  PROVE  <<a, b>> = <<a>> \o <<b>>
<1> DEFINE s == <<a>>
           t == <<b>>
           u == <<a, b>>
<1>1. s \in Seq(Int) /\ t \in Seq(Int) /\ Len(s) = 1 /\ Len(t) = 1 /\ s[1] = a /\ t[1] = b
  OBVIOUS
<1>2. u \in Seq(Int) /\ Len(u) = 2 /\ u[1] = a /\ u[2] = b
  OBVIOUS
<1> HIDE DEF s, t, u
<1>3. \A n \in 1 .. 2 : u[n] = (s \o t)[n]
  BY <1>1, <1>2, OnesConcat
<1>4. Len(u) = Len(s \o t) /\ s \o t \in Seq(Int)
  BY <1>1, <1>2, OnesConcat
<1>5. u = s \o t
  BY <1>2, <1>3, <1>4, SameSequence
<1> QED
  BY <1>5 DEF s, t, u

LEMMA ConcatRegroups ==
  \A S : \A s, t, u \in Seq(S) : (s \o t) \o u = s \o (t \o u)
BY ConcatAssociative

LEMMA BytesRegroup ==
  \A s, t, u \in Seq(Int) : (s \o t) \o u = s \o (t \o u)
BY ConcatRegroups

LEMMA HoldsConcat ==
  ASSUME NEW f \in Files, NEW p \in Places(f), NEW s \in Seq(Int), NEW t \in Seq(Int), Matches(f, p, s \o t)
  PROVE  Matches(f, p, s) /\ p + Len(s) \in Places(f) /\ Matches(f, p + Len(s), t)
<1>1. Len(s \o t) = Len(s) + Len(t) /\ Len(s) \in Nat /\ Len(t) \in Nat /\ Len(f) \in Nat
  BY DEF Files
<1>2. ASSUME NEW n \in 1 .. Len(s)
      PROVE  f[p + n - 1] = s[n]
  <2>1. n \in 1 .. Len(s \o t) /\ (s \o t)[n] = s[n]
    BY <1>1
  <2> QED
    BY <2>1 DEF Matches
<1>3. ASSUME NEW n \in 1 .. Len(t)
      PROVE  f[p + Len(s) + n - 1] = t[n]
  <2>1. f[p + (Len(s) + n) - 1] = (s \o t)[Len(s) + n]
    BY <1>1 DEF Matches
  <2>2. (s \o t)[Len(s) + n] = t[n]
    BY <1>1
  <2>3. p + (Len(s) + n) - 1 = p + Len(s) + n - 1
    BY <1>1 DEF Places
  <2> QED
    BY <2>1, <2>2, <2>3
<1> QED
  BY <1>1, <1>2, <1>3 DEF Matches, Places

LEMMA CutConcat ==
  ASSUME NEW f \in Files, NEW p \in Places(f), NEW s \in Seq(Int), NEW t \in Seq(Int), CutOff(f, p, s \o t)
  PROVE  \/ CutOff(f, p, s)
         \/ Matches(f, p, s) /\ p + Len(s) \in Places(f) /\ CutOff(f, p + Len(s), t)
<1>1. Len(s \o t) = Len(s) + Len(t) /\ Len(s) \in Nat /\ Len(t) \in Nat /\ Len(f) \in Nat
  BY DEF Files
<1>2. ASSUME NEW n \in 1 .. Len(s), p + n <= Len(f) + 1
      PROVE  f[p + n - 1] = s[n]
  BY <1>1, <1>2 DEF CutOff
<1>3. ASSUME NEW n \in 1 .. Len(t), p + Len(s) + n <= Len(f) + 1
      PROVE  f[p + Len(s) + n - 1] = t[n]
  <2>0. Len(s) + n \in 1 .. Len(s \o t) /\ p + (Len(s) + n) <= Len(f) + 1
    BY <1>1, <1>3 DEF Places
  <2>1. f[p + (Len(s) + n) - 1] = (s \o t)[Len(s) + n]
    BY <2>0 DEF CutOff
  <2>2. (s \o t)[Len(s) + n] = t[n]
    BY <1>1
  <2>3. p + (Len(s) + n) - 1 = p + Len(s) + n - 1
    BY <1>1 DEF Places
  <2> QED
    BY <2>1, <2>2, <2>3
<1>4. CASE p + Len(s) > Len(f) + 1
  BY <1>1, <1>2, <1>4 DEF CutOff
<1>5. CASE p + Len(s) <= Len(f) + 1
  <2>1. Matches(f, p, s) /\ p + Len(s) \in Places(f)
    BY <1>1, <1>2, <1>5 DEF Matches, Places
  <2>2. CutOff(f, p + Len(s), t)
    BY <1>1, <1>3 DEF CutOff, Places
  <2> QED
    BY <2>1, <2>2
<1> QED
  BY <1>1, <1>4, <1>5 DEF Places

-----------------------------------------------------------------------------
(* Flat: any number of byte sequences one after the other.                     *)

\* The first n of the sequences in one, for every n.
IsJoined(P, seqs, S) ==
  /\ P \in [0 .. Len(seqs) -> Seq(S)]
  /\ P[0] = <<>>
  /\ \A n \in 0 .. Len(seqs) - 1 : P[n + 1] = P[n] \o seqs[n + 1]

LEMMA JoinedExists ==
  ASSUME NEW S, NEW seqs \in Seq(Seq(S))
  PROVE  \E P : IsJoined(P, seqs, S)
<1> DEFINE g == [n \in 1 .. Len(seqs) |-> [b \in Seq(S) |-> b \o seqs[n]]]
<1>1. Len(seqs) \in Nat /\ <<>> \in Seq(S)
  OBVIOUS
<1>2. \A n \in 1 .. Len(seqs) : seqs[n] \in Seq(S)
  OBVIOUS
<1>3. g \in Steps(Len(seqs), Seq(S))
  BY <1>2 DEF Steps
<1>4. PICK P : IsRun(P, Len(seqs), Seq(S), <<>>, g)
  BY <1>1, <1>3, RecursionExists
<1>5. P \in [0 .. Len(seqs) -> Seq(S)] /\ P[0] = <<>> /\ \A n \in 1 .. Len(seqs) : P[n] = g[n][P[n - 1]]
  <2> HIDE DEF g
  <2> QED
    BY <1>4 DEF IsRun
<1>6. ASSUME NEW n \in 0 .. Len(seqs) - 1
      PROVE  P[n + 1] = P[n] \o seqs[n + 1]
  <2>1. n \in 0 .. Len(seqs) /\ n + 1 \in 1 .. Len(seqs) /\ (n + 1) - 1 = n
    BY <1>1
  <2>2. P[n] \in Seq(S) /\ P[n + 1] = g[n + 1][P[(n + 1) - 1]]
    <3> HIDE DEF g
    <3> QED
      BY <1>5, <2>1
  <2>3. g[n + 1][P[n]] = P[n] \o seqs[n + 1]
    BY <2>1, <2>2
  <2> QED
    BY <2>1, <2>2, <2>3
<1> QED
  BY <1>5, <1>6 DEF IsJoined

LEMMA FlattenJoins ==
  ASSUME NEW S, NEW seqs \in Seq(Seq(S)), NEW P, IsJoined(P, seqs, S)
  PROVE  FlattenSeq(seqs) = P[Len(seqs)]
<1> DEFINE N == Len(seqs)
           Is(f) == f = [i \in 1 .. N |-> IF i = 1 THEN seqs[i] ELSE f[i - 1] \o seqs[i]]
           F == [i \in 1 .. N |-> P[i]]
           flatten == CHOOSE f : Is(f)
<1>1. N \in Nat
  OBVIOUS
<1>2. CASE N = 0
  BY <1>2 DEF FlattenSeq, IsJoined
<1>3. CASE N # 0
  <2>1. P[1] = seqs[1]
    <3>0. 1 \in 1 .. Len(seqs) /\ 0 \in 0 .. Len(seqs) - 1 /\ 0 + 1 = 1
      BY <1>1, <1>3
    <3>1. seqs[1] \in Seq(S)
      BY <3>0
    <3>2. P[0] = <<>> /\ P[0 + 1] = P[0] \o seqs[0 + 1]
      BY <3>0 DEF IsJoined
    <3> QED
      BY <3>0, <3>1, <3>2
  <2>2. ASSUME NEW i \in 1 .. N
        PROVE  F[i] = IF i = 1 THEN seqs[i] ELSE F[i - 1] \o seqs[i]
    <3>1. CASE i = 1
      BY <2>1, <3>1
    <3>2. CASE i # 1
      <4>1. i - 1 \in 1 .. N /\ i - 1 \in 0 .. Len(seqs) - 1 /\ (i - 1) + 1 = i
        BY <1>1, <3>2
      <4>2. P[(i - 1) + 1] = P[i - 1] \o seqs[(i - 1) + 1]
        BY <4>1 DEF IsJoined
      <4> QED
        BY <3>2, <4>1, <4>2
    <3> QED
      BY <3>1, <3>2
  <2>3. Is(F)
    BY <2>2
  <2>4. Is(flatten)
    <3> HIDE DEF F, Is
    <3> QED
      BY <2>3
  <2>5. FlattenSeq(seqs) = flatten[N]
    BY <1>3 DEF FlattenSeq
  <2> DEFINE G == {i \in Nat : i + 1 <= N => flatten[i + 1] = P[i + 1]}
  <2>6. \A i \in 1 .. N : flatten[i] = IF i = 1 THEN seqs[i] ELSE flatten[i - 1] \o seqs[i]
    <3> HIDE DEF flatten
    <3> QED
      BY <2>4
  <2> HIDE DEF flatten, N
  <2>7. 0 \in G
    BY <1>1, <1>3, <2>1, <2>6
  <2>8. ASSUME NEW i \in Nat, i \in G
        PROVE  i + 1 \in G
    <3> SUFFICES ASSUME i + 2 <= N PROVE flatten[i + 2] = P[i + 2]
      OBVIOUS
    <3>1. /\ i + 2 \in 1 .. N /\ i + 2 # 1 /\ (i + 2) - 1 = i + 1
          /\ i + 1 \in 0 .. Len(seqs) - 1 /\ (i + 1) + 1 = i + 2
      BY <1>1 DEF N
    <3>2. flatten[i + 2] = flatten[i + 1] \o seqs[i + 2]
      BY <2>6, <3>1
    <3>3. P[i + 2] = P[i + 1] \o seqs[i + 2]
      <4>1. P[(i + 1) + 1] = P[i + 1] \o seqs[(i + 1) + 1]
        BY <3>1 DEF IsJoined
      <4> QED
        BY <3>1, <4>1
    <3>4. flatten[i + 1] = P[i + 1]
      BY <1>1, <2>8
    <3> QED
      BY <3>2, <3>3, <3>4
  <2>9. Nat \subseteq G
    <3> HIDE DEF G
    <3> QED
      BY <2>7, <2>8, SetInduction
  <2>10. N - 1 \in G
    BY <1>1, <1>3, <2>9
  <2> QED
    BY <1>1, <1>3, <2>5, <2>10 DEF N
<1> QED
  BY <1>2, <1>3

LEMMA JoinedLast ==
  ASSUME NEW S, NEW seqs \in Seq(Seq(S)), NEW P, IsJoined(P, seqs, S)
  PROVE  P[Len(seqs)] \in Seq(S)
<1>1. Len(seqs) \in Nat
  OBVIOUS
<1>2. Len(seqs) \in 0 .. Len(seqs) /\ P \in [0 .. Len(seqs) -> Seq(S)]
  BY <1>1 DEF IsJoined
<1> QED
  BY <1>2

LEMMA FlattenIsSeq ==
  ASSUME NEW S, NEW seqs \in Seq(Seq(S))
  PROVE  FlattenSeq(seqs) \in Seq(S)
BY JoinedExists, JoinedLast, FlattenJoins

\* Joining some of them from one place on gives what comes in between.
LEMMA JoinedBetween ==
  ASSUME NEW S, NEW seqs \in Seq(Seq(S)), NEW P, IsJoined(P, seqs, S),
         NEW b \in 0 .. Len(seqs), NEW a \in 0 .. b
  PROVE  P[b] = P[a] \o FlattenSeq(SubSeq(seqs, a + 1, b))
<1> DEFINE sub == SubSeq(seqs, a + 1, b)
           d == b - a
<1>0. Len(seqs) \in Nat /\ a \in Nat /\ b \in Nat /\ d \in Nat /\ a + d = b /\ b <= Len(seqs)
  OBVIOUS
<1>1. sub \in Seq(Seq(S)) /\ Len(sub) = d /\ \A i \in 1 .. d : sub[i] = seqs[a + i]
  <2>1. a + 1 \in 1 .. Len(seqs) + 1 /\ b \in a + 1 - 1 .. Len(seqs)
    OBVIOUS
  <2>2. sub \in Seq(Seq(S)) /\ Len(sub) = IF a + 1 <= b THEN b - (a + 1) + 1 ELSE 0
    OBVIOUS
  <2>3. \A i \in 1 .. b - (a + 1) + 1 : sub[i] = seqs[a + 1 + i - 1]
    OBVIOUS
  <2> HIDE DEF sub
  <2> QED
    BY <2>2, <2>3
<1> HIDE DEF sub, d
<1>2. PICK Q : IsJoined(Q, sub, S)
  BY <1>1, JoinedExists
<1> DEFINE D(i) == i <= d => P[a + i] = P[a] \o Q[i]
           G == {i \in Nat : D(i)}
<1>3. \A i \in 0 .. Len(seqs) : P[i] \in Seq(S)
  BY DEF IsJoined
<1>4. \A i \in 0 .. d : Q[i] \in Seq(S)
  BY <1>1, <1>2 DEF IsJoined
<1>5. D(0)
  <2>1. Q[0] = <<>> /\ P[a] \in Seq(S) /\ a + 0 = a
    BY <1>0, <1>2, <1>3 DEF IsJoined
  <2>2. P[a] \o Q[0] = P[a]
    BY <2>1, ConcatEmptySeq
  <2> QED
    BY <2>1, <2>2
<1>6. ASSUME NEW i \in Nat, D(i)
      PROVE  D(i + 1)
  <2> SUFFICES ASSUME i + 1 <= d PROVE P[a + (i + 1)] = P[a] \o Q[i + 1]
    OBVIOUS
  <2>1. /\ i \in 0 .. Len(sub) - 1 /\ i \in 0 .. d /\ i + 1 \in 1 .. d /\ i <= d
        /\ a + i \in 0 .. Len(seqs) - 1 /\ (a + i) + 1 = a + (i + 1) /\ a + (i + 1) \in 1 .. Len(seqs)
    BY <1>0, <1>1
  <2>2. Q[i + 1] = Q[i] \o sub[i + 1] /\ P[(a + i) + 1] = P[a + i] \o seqs[(a + i) + 1]
    <3>1. \A k \in 0 .. Len(sub) - 1 : Q[k + 1] = Q[k] \o sub[k + 1]
      BY <1>2 DEF IsJoined
    <3>2. \A k \in 0 .. Len(seqs) - 1 : P[k + 1] = P[k] \o seqs[k + 1]
      BY DEF IsJoined
    <3> QED
      BY <2>1, <3>1, <3>2
  <2>3. sub[i + 1] = seqs[a + (i + 1)]
    BY <1>1, <2>1
  <2>4. P[a + i] = P[a] \o Q[i]
    BY <1>6, <2>1
  <2>5. P[a] \in Seq(S) /\ Q[i] \in Seq(S) /\ seqs[a + (i + 1)] \in Seq(S)
    BY <1>0, <1>3, <1>4, <2>1
  <2>6. (P[a] \o Q[i]) \o seqs[a + (i + 1)] = P[a] \o (Q[i] \o seqs[a + (i + 1)])
    <3> DEFINE x == P[a]
               y == Q[i]
               z == seqs[a + (i + 1)]
    <3>1. x \in Seq(S) /\ y \in Seq(S) /\ z \in Seq(S)
      BY <2>5
    <3> HIDE DEF x, y, z
    <3>2. (x \o y) \o z = x \o (y \o z)
      BY <3>1, ConcatRegroups
    <3> QED
      BY <3>2 DEF x, y, z
  <2> QED
    BY <2>1, <2>2, <2>3, <2>4, <2>6
<1> HIDE DEF D
<1>7. Nat \subseteq G
  <2>1. 0 \in G /\ \A i \in Nat : i \in G => i + 1 \in G
    BY <1>5, <1>6
  <2> HIDE DEF G
  <2> QED
    BY <2>1, SetInduction
<1>8. D(d)
  BY <1>0, <1>7
<1>9. P[b] = P[a] \o Q[d]
  <2>1. d <= d /\ a + d = b
    BY <1>0
  <2> QED
    BY <1>8, <2>1, Zenon DEF D
<1>10. FlattenSeq(sub) = Q[d]
  BY <1>1, <1>2, FlattenJoins
<1> QED
  BY <1>9, <1>10 DEF sub

LEMMA FlatJoins ==
  ASSUME NEW S, NEW seqs \in Seq(Seq(S)), NEW P, IsJoined(P, seqs, S)
  PROVE  Flat(seqs) = P[Len(seqs)] /\ Flat(seqs) \in Seq(S)
<1> DEFINE n == Len(seqs)
           K == Parts(n)
           C(part) == FlattenSeq(SubSeq(seqs, Short * (part - 1) + 1, EndOf(part, n)))
           chunks == [part \in 1 .. K |-> C(part)]
           R == [part \in 0 .. K |-> P[EndOf(part, n)]]
<1>1. n \in Nat /\ K \in Nat
  BY DEF Parts, Short
<1>2. \A part \in 0 .. K : EndOf(part, n) \in 0 .. n
  BY <1>1 DEF EndOf, Short
<1>3. EndOf(0, n) = 0 /\ EndOf(K, n) = n
  BY <1>1 DEF EndOf, Parts, Short
<1>4. \A part \in 1 .. K : EndOf(part - 1, n) = Short * (part - 1) /\ EndOf(part - 1, n) <= EndOf(part, n)
  BY <1>1 DEF EndOf, Parts, Short
<1>5. \A part \in 0 .. K : R[part] \in Seq(S)
  BY <1>2 DEF IsJoined
<1>6. \A part \in 1 .. K : R[part] = R[part - 1] \o C(part) /\ C(part) \in Seq(S)
  <2> SUFFICES ASSUME NEW part \in 1 .. K
               PROVE  R[part] = R[part - 1] \o C(part) /\ C(part) \in Seq(S)
    OBVIOUS
  <2> DEFINE a == EndOf(part - 1, n)
             b == EndOf(part, n)
  <2>1. b \in 0 .. n /\ a \in 0 .. b /\ a = Short * (part - 1)
    BY <1>1, <1>2, <1>4
  <2>2. R[part] = P[b] /\ R[part - 1] = P[a]
    BY <1>1
  <2> HIDE DEF a, b, R
  <2>3. P[b] = P[a] \o FlattenSeq(SubSeq(seqs, a + 1, b))
    BY <2>1, JoinedBetween
  <2>4. FlattenSeq(SubSeq(seqs, a + 1, b)) \in Seq(S)
    <3>1. SubSeq(seqs, a + 1, b) \in Seq(Seq(S))
      BY <1>1, <2>1
    <3> QED
      BY <3>1, FlattenIsSeq
  <2>5. C(part) = FlattenSeq(SubSeq(seqs, a + 1, b))
    BY <2>1 DEF b
  <2> HIDE DEF C
  <2> QED
    BY <2>2, <2>3, <2>4, <2>5
<1> HIDE DEF C
<1>7. chunks \in Seq(Seq(S)) /\ Len(chunks) = K /\ \A part \in 1 .. K : chunks[part] = C(part)
  <2>1. chunks \in [1 .. K -> Seq(S)]
    BY <1>6
  <2> QED
    BY <1>1, <2>1, FunctionIsSeq
<1>8. R[0] = <<>> /\ R[K] = P[n]
  BY <1>1, <1>3 DEF IsJoined
<1>9. R \in [0 .. K -> Seq(S)]
  BY <1>5
<1> HIDE DEF R, chunks
<1>10. IsJoined(R, chunks, S)
  <2>1. ASSUME NEW k \in 0 .. K - 1
        PROVE  R[k + 1] = R[k] \o chunks[k + 1]
    <3>1. k + 1 \in 1 .. K /\ (k + 1) - 1 = k
      BY <1>1
    <3> QED
      BY <1>6, <1>7, <3>1
  <2> QED
    BY <1>7, <1>8, <1>9, <2>1 DEF IsJoined
<1>11. FlattenSeq(chunks) = R[K]
  BY <1>7, <1>10, FlattenJoins
<1>12. Flat(seqs) = FlattenSeq(chunks)
  BY DEF Flat, chunks, C
<1> QED
  BY <1>1, <1>5, <1>8, <1>11, <1>12

-----------------------------------------------------------------------------
(* What a reader gets.                                                         *)

\* What was got where the bytes s of a value x were expected.
Conveys(f, at, s, got, x) ==
  /\ Matches(f, at, s) => got = ReadTo(f, at + Len(s), x)
  /\ CutOff(f, at, s) => ~ got.ok

\* One reader after the other, for the bytes of the one and then those of the other.
LEMMA Compose ==
  ASSUME NEW f \in Files, NEW p \in Places(f), NEW s \in Seq(Int), NEW t \in Seq(Int), NEW mid, NEW y, NEW got, NEW x,
         Conveys(f, p, s, mid, y),
         \A q \in Places(f) : mid = ReadTo(f, q, y) => Conveys(f, q, t, got, x),
         ~ mid.ok => ~ got.ok
  PROVE  Conveys(f, p, s \o t, got, x)
<1>1. p + Len(s) + Len(t) = p + Len(s \o t)
  BY DEF Files, Places
<1>2. ASSUME Matches(f, p, s \o t)
      PROVE  got = ReadTo(f, p + Len(s \o t), x)
  BY <1>1, <1>2, HoldsConcat DEF Conveys
<1>3. ASSUME CutOff(f, p, s \o t)
      PROVE  ~ got.ok
  BY <1>3, CutConcat DEF Conveys
<1> QED
  BY <1>2, <1>3 DEF Conveys

\* A last step that reads nothing more.
LEMMA Afterwards ==
  ASSUME NEW f \in Files, NEW p \in Places(f), NEW s \in Seq(Int), NEW mid, NEW y, NEW got, NEW x,
         Conveys(f, p, s, mid, y),
         \A q \in Places(f) : mid = ReadTo(f, q, y) => got = ReadTo(f, q, x),
         ~ mid.ok => ~ got.ok
  PROVE  Conveys(f, p, s, got, x)
<1>1. ASSUME Matches(f, p, s)
      PROVE  got = ReadTo(f, p + Len(s), x)
  <2>1. p + Len(s) \in Places(f)
    BY <1>1 DEF Matches, Places, Files
  <2> QED
    BY <1>1, <2>1 DEF Conveys
<1> QED
  BY <1>1 DEF Conveys

LEMMA NothingConveyed ==
  ASSUME NEW f \in Files, NEW p \in Places(f), NEW x
  PROVE  Conveys(f, p, <<>>, ReadTo(f, p, x), x)
<1>1. Len(f) \in Nat /\ p \in Int /\ p <= Len(f) + 1 /\ Len(<<>>) = 0
  BY DEF Files, Places
<1>2. ~ CutOff(f, p, <<>>) /\ p + Len(<<>>) = p
  BY <1>1 DEF CutOff
<1> QED
  BY <1>2 DEF Conveys

LEMMA AtIs ==
  ASSUME NEW f, NEW q, NEW y
  PROVE  ReadTo(f, q, y).file = f /\ ReadTo(f, q, y).at = q /\ ReadTo(f, q, y).ok /\ ReadTo(f, q, y).val = y
BY DEF ReadTo, Reading

LEMMA GivenIs ==
  /\ \A f, q, y, x : Given(ReadTo(f, q, y), x) = ReadTo(f, q, x)
  /\ \A r, x : ~ r.ok => Given(r, x) = r
<1>1. ASSUME NEW f, NEW q, NEW y, NEW x
      PROVE  Given(ReadTo(f, q, y), x) = ReadTo(f, q, x)
  BY DEF Given, ReadTo, Reading
<1>2. ASSUME NEW r, NEW x, ~ r.ok
      PROVE  Given(r, x) = r
  BY <1>2 DEF Given
<1> QED
  BY <1>1, <1>2

LEMMA RefuseIs ==
  \A r : ~ Refuse(r).ok
BY DEF Refuse, Reading

LEMMA ByteConveyed ==
  ASSUME NEW f \in Files, NEW p \in Places(f), NEW v, NEW b \in Int
  PROVE  Conveys(f, p, <<b>>, ReadByte(ReadTo(f, p, v)), b)
<1>1. Len(f) \in Nat /\ p \in Int /\ Len(<<b>>) = 1
  BY DEF Files, Places
<1>2. CASE Matches(f, p, <<b>>)
  <2>1. p + 1 <= Len(f) + 1 /\ f[p] = b
    <3>1. f[p + 1 - 1] = <<b>>[1]
      BY <1>1, <1>2 DEF Matches
    <3> QED
      BY <1>1, <1>2, <3>1 DEF Matches
  <2>2. ReadByte(ReadTo(f, p, v)) = ReadTo(f, p + 1, b)
    <3>1. ReadTo(f, p, v).ok /\ Left(ReadTo(f, p, v)) > 0
      BY <1>1, <2>1, AtIs DEF Left
    <3>2. ReadByte(ReadTo(f, p, v)) = ReadTo(f, p + 1, f[p])
      BY <3>1 DEF ReadByte, ReadTo, Reading
    <3> QED
      BY <2>1, <3>2
  <2> QED
    BY <1>1, <1>2, <2>2 DEF Conveys, Matches, CutOff
<1>3. CASE CutOff(f, p, <<b>>)
  <2>1. ~ Left(ReadTo(f, p, v)) > 0
    BY <1>1, <1>3, AtIs DEF CutOff, Left
  <2>2. ReadByte(ReadTo(f, p, v)) = Refuse(ReadTo(f, p, v))
    BY <2>1 DEF ReadByte
  <2> QED
    BY <1>1, <1>3, <2>2, RefuseIs DEF Conveys, Matches, CutOff
<1> QED
  BY <1>2, <1>3 DEF Conveys

LEMMA TakeConveyed ==
  ASSUME NEW f \in Files, NEW p \in Places(f), NEW v, NEW s \in Seq(Int)
  PROVE  Conveys(f, p, s, Take(ReadTo(f, p, v), Len(s)), s)
<1>1. Len(f) \in Nat /\ p \in Int /\ Len(s) \in Nat /\ p >= 1 /\ p <= Len(f) + 1
  BY DEF Files, Places
<1>2. CASE Matches(f, p, s)
  <2>1. p + Len(s) <= Len(f) + 1
    BY <1>2 DEF Matches
  <2> DEFINE t == SubSeq(f, p, p + Len(s) - 1)
  <2>2. t \in Seq(Int) /\ Len(t) = Len(s) /\ \A n \in 1 .. Len(s) : t[n] = f[p + n - 1]
    <3>1. f \in Seq(Int) /\ p \in 1 .. Len(f) + 1 /\ p + Len(s) - 1 \in p - 1 .. Len(f)
      BY <1>1, <2>1 DEF Files
    <3>2. p + Len(s) - 1 - p + 1 = Len(s)
      BY <1>1
    <3> QED
      BY <3>1, <3>2, SubSeqProperties
  <2>3. \A n \in 1 .. Len(s) : t[n] = s[n]
    BY <1>2, <2>2 DEF Matches
  <2>4. t = s
    <3> HIDE DEF t
    <3> QED
      BY <2>2, <2>3, SameSequence
  <2>5. Take(ReadTo(f, p, v), Len(s)) = ReadTo(f, p + Len(s), t)
    BY <1>1, <2>1 DEF Take, Left, ReadTo, Reading
  <2> QED
    <3>1. Take(ReadTo(f, p, v), Len(s)) = ReadTo(f, p + Len(s), s)
      BY <2>4, <2>5
    <3> QED
      BY <1>1, <2>1, <3>1 DEF Conveys, CutOff
<1>3. CASE CutOff(f, p, s)
  <2>1. ~ Len(s) <= Left(ReadTo(f, p, v))
    BY <1>1, <1>3, AtIs DEF CutOff, Left
  <2>2. Take(ReadTo(f, p, v), Len(s)) = Refuse(ReadTo(f, p, v))
    BY <2>1 DEF Take
  <2> QED
    BY <1>1, <1>3, <2>2, RefuseIs DEF Conveys, Matches, CutOff
<1> QED
  BY <1>2, <1>3 DEF Conveys

-----------------------------------------------------------------------------
(* Operands, words and names.                                                  *)

\* A number of up to three bytes more.
LEMMA BigEndianIs ==
  ASSUME NEW v \in Int, NEW bytes \in Seq(Int)
  PROVE  /\ Len(bytes) = 1 => BigEndian(v, bytes) = 256 * v + bytes[1]
         /\ Len(bytes) = 3 => BigEndian(v, bytes) = 256 * (256 * (256 * v + bytes[1]) + bytes[2]) + bytes[3]
<1> DEFINE Is(g) == g = [n \in 0 .. Len(bytes) |-> IF n = 0 THEN v ELSE 256 * g[n - 1] + bytes[n]]
           number == CHOOSE g : Is(g)
           one == 256 * v + bytes[1]
           two == 256 * one + bytes[2]
           three == 256 * two + bytes[3]
           G == [n \in 0 .. Len(bytes) |-> IF n = 0 THEN v ELSE IF n = 1 THEN one ELSE IF n = 2 THEN two ELSE three]
<1>1. BigEndian(v, bytes) = number[Len(bytes)]
  BY DEF BigEndian
<1>0. Len(bytes) \in Nat
  OBVIOUS
<1>2. ASSUME Len(bytes) = 1 \/ Len(bytes) = 3
      PROVE  \A n \in 0 .. Len(bytes) : number[n] = IF n = 0 THEN v ELSE 256 * number[n - 1] + bytes[n]
  <2> HIDE DEF one, two, three
  <2>1. ASSUME NEW n \in 0 .. Len(bytes)
        PROVE  G[n] = IF n = 0 THEN v ELSE 256 * G[n - 1] + bytes[n]
    <3>1. n \in {0, 1, 2, 3}
      <4>1. CASE Len(bytes) = 1
        BY <4>1
      <4>2. CASE Len(bytes) = 3
        BY <4>2
      <4> QED
        BY <1>2, <4>1, <4>2
    <3>2. CASE n = 0
      BY <3>2
    <3>3. CASE n = 1
      <4>1. n - 1 \in 0 .. Len(bytes) /\ n - 1 = 0
        BY <1>2, <3>3
      <4> QED
        BY <3>3, <4>1 DEF one
    <3>4. CASE n = 2
      <4>1. n - 1 \in 0 .. Len(bytes) /\ n - 1 = 1
        BY <1>2, <3>4
      <4> QED
        BY <3>4, <4>1 DEF two
    <3>5. CASE n = 3
      <4>1. n - 1 \in 0 .. Len(bytes) /\ n - 1 = 2
        BY <1>2, <3>5
      <4> QED
        BY <3>5, <4>1 DEF three
    <3> QED
      BY <3>1, <3>2, <3>3, <3>4, <3>5
  <2>2. Is(G)
    BY <2>1
  <2>3. Is(number)
    <3> HIDE DEF G, Is
    <3> QED
      BY <2>2
  <2> HIDE DEF number
  <2> QED
    BY <2>3
<1> HIDE DEF number
<1>3. CASE Len(bytes) = 1
  <2>1. number[0] = v /\ number[1] = 256 * number[1 - 1] + bytes[1]
    BY <1>2, <1>3
  <2> QED
    BY <1>1, <1>3, <2>1
<1>4. CASE Len(bytes) = 3
  <2>1. number[0] = v /\ number[1] = 256 * number[1 - 1] + bytes[1]
    BY <1>2, <1>4
  <2>2. number[2] = 256 * number[2 - 1] + bytes[2] /\ number[3] = 256 * number[3 - 1] + bytes[3]
    BY <1>2, <1>4
  <2> QED
    BY <1>1, <1>4, <2>1, <2>2
<1> QED
  BY <1>3, <1>4

\* A number from its four bytes.
LEMMA QuotientIs ==
  ASSUME NEW v \in Int, NEW c \in Int, NEW r \in Int, 0 <= r
  PROVE  /\ r < Byte2 /\ v = Byte2 * c + r => v \div Byte2 = c
         /\ r < Byte3 /\ v = Byte3 * c + r => v \div Byte3 = c
BY SMT DEF Byte2, Byte3

LEMMA BytesOfNumber ==
  ASSUME NEW v \in Int
  PROVE  /\ 256 * (256 * (256 * (v \div Byte3) + ((v \div Byte2) % 256)) + ((v \div Byte1) % 256)) + (v % 256) = v
         /\ \E r \in Int : 0 <= r /\ r < Byte3 /\ v = Byte3 * (v \div Byte3) + r
<1> DEFINE a == v \div 256
           b == a \div 256
           c == b \div 256
           x == v % 256
           y == a % 256
           z == b % 256
           low == 256 * y + x
           most == 256 * 256 * z + low
<1>1. /\ x \in Int /\ 0 <= x /\ x < 256 /\ y \in Int /\ 0 <= y /\ y < 256 /\ z \in Int /\ 0 <= z /\ z < 256
      /\ a \in Int /\ b \in Int /\ c \in Int
  OBVIOUS
<1>2. v = 256 * a + x /\ a = 256 * b + y /\ b = 256 * c + z
  OBVIOUS
<1> HIDE DEF a, b, c, x, y, z
<1>3. low \in Int /\ most \in Int /\ 0 <= low /\ low < Byte2 /\ 0 <= most /\ most < Byte3
  BY <1>1, SMT DEF Byte2, Byte3
<1>4. v = Byte2 * b + low /\ v = Byte3 * c + most
  BY <1>1, <1>2, SMT DEF Byte2, Byte3
<1> HIDE DEF low, most
<1>5. v \div Byte2 = b /\ v \div Byte3 = c
  BY <1>1, <1>3, <1>4, QuotientIs
<1>6. v \div Byte1 = a
  BY DEF Byte1, a
<1>7. 256 * (256 * (256 * c + z) + y) + x = v
  BY <1>2
<1>8. v \div Byte3 = c /\ (v \div Byte2) % 256 = z /\ (v \div Byte1) % 256 = y /\ v % 256 = x
  BY <1>5, <1>6 DEF x, y, z
<1>9. \E r \in Int : 0 <= r /\ r < Byte3 /\ v = Byte3 * c + r
  BY <1>3, <1>4
<1> QED
  BY <1>7, <1>8, <1>9

\* What the second form can be of, and the last.
TwoBytes == -8192 .. 8191
FourBytes == -OperandLimit .. OperandLimit - 1
FirstOfTwo(v) == 128 + ((v \div Byte1) % 64)
FirstOfFour(v) == 192 + ((v \div Byte3) % 64)
ByteAt(v, unit) == (v \div unit) % 256

\* The longer forms put together again.
LEMMA FormsAreOperands ==
  ASSUME NEW v \in Int
  PROVE  /\ v \in -64 .. -1 => 64 + (v % 64) \in 64 .. 127 /\ 64 + (v % 64) - 128 = v
         /\ v \in TwoBytes =>
              /\ FirstOfTwo(v) \in 128 .. 191 /\ HighBits(FirstOfTwo(v)) \in Int
              /\ 256 * HighBits(FirstOfTwo(v)) + (v % 256) = v
         /\ v \in FourBytes =>
              /\ FirstOfFour(v) \in 192 .. 255 /\ HighBits(FirstOfFour(v)) \in Int
              /\ 256 * (256 * (256 * HighBits(FirstOfFour(v)) + ByteAt(v, Byte2)) + ByteAt(v, Byte1)) + (v % 256) = v
<1>1. ASSUME v \in -64 .. -1
      PROVE  64 + (v % 64) \in 64 .. 127 /\ 64 + (v % 64) - 128 = v
  BY <1>1
<1>2. ASSUME NEW q \in -32 .. 31
      PROVE  HighBits(128 + (q % 64)) = q /\ HighBits(192 + (q % 64)) = q /\ q % 64 \in 0 .. 63
  <2>1. q % 64 = IF q < 0 THEN q + 64 ELSE q
    OBVIOUS
  <2>2. (128 + (q % 64)) % 64 = q % 64 /\ (192 + (q % 64)) % 64 = q % 64
    BY <2>1
  <2> QED
    BY <2>1, <2>2 DEF HighBits
<1>3. ASSUME v \in TwoBytes
      PROVE  /\ 128 + ((v \div Byte1) % 64) \in 128 .. 191
             /\ HighBits(128 + ((v \div Byte1) % 64)) \in Int
             /\ 256 * HighBits(128 + ((v \div Byte1) % 64)) + (v % 256) = v
  <2>1. v \div 256 \in -32 .. 31 /\ 256 * (v \div 256) + (v % 256) = v
    <3> DEFINE q == v \div 256
               r == v % 256
    <3>1. q \in Int /\ r \in 0 .. 255 /\ v = 256 * q + r
      OBVIOUS
    <3> HIDE DEF q, r
    <3>2. -8192 <= v /\ v < 8192
      BY <1>3 DEF TwoBytes
    <3>3. -32 <= q /\ q < 32
      BY <3>1, <3>2
    <3> QED
      BY <3>1, <3>3 DEF q, r
  <2> QED
    BY <1>2, <2>1 DEF Byte1
<1>4. ASSUME v \in FourBytes
      PROVE  /\ 192 + ((v \div Byte3) % 64) \in 192 .. 255
             /\ HighBits(192 + ((v \div Byte3) % 64)) \in Int
             /\ 256 * (256 * (256 * HighBits(192 + ((v \div Byte3) % 64)) + ((v \div Byte2) % 256)) + ((v \div Byte1) % 256))
                  + (v % 256) = v
  <2>1. v \div Byte3 \in -32 .. 31
    <3> DEFINE q == v \div Byte3
    <3>1. PICK r \in Int : 0 <= r /\ r < Byte3 /\ v = Byte3 * q + r
      BY BytesOfNumber
    <3>2. q \in Int
      BY SMT DEF Byte3
    <3> HIDE DEF q
    <3>3. -32 * Byte3 <= v /\ v < 32 * Byte3
      <4>1. OperandLimit \in Int /\ -OperandLimit <= v /\ v < OperandLimit
        <5>1. OperandLimit \in Int
          BY DEF OperandLimit, Byte3
        <5> QED
          BY <1>4, <5>1 DEF FourBytes
      <4> QED
        BY <4>1, SMT DEF OperandLimit, Byte3
    <3>4. q \in -32 .. 31
      BY <3>1, <3>2, <3>3, SMT DEF Byte3
    <3> QED
      BY <3>4 DEF q
  <2>2. HighBits(192 + ((v \div Byte3) % 64)) = v \div Byte3 /\ (v \div Byte3) % 64 \in 0 .. 63
    BY <1>2, <2>1
  <2> QED
    BY <2>1, <2>2, BytesOfNumber
<1> QED
  BY <1>1, <1>3, <1>4 DEF FirstOfTwo, FirstOfFour, ByteAt

LEMMA ByteIsOperand ==
  ASSUME NEW f \in Files, NEW p \in Places(f), NEW u, NEW b \in 0 .. 127
  PROVE  Conveys(f, p, <<b>>, ReadOperand(ReadTo(f, p, u)), IF b < 64 THEN b ELSE b - 128)
<1> DEFINE first == ReadByte(ReadTo(f, p, u))
           x == IF b < 64 THEN b ELSE b - 128
<1>1. Conveys(f, p, <<b>>, first, b) /\ <<b>> \in Seq(Int)
  BY ByteConveyed
<1>2. ReadOperand(ReadTo(f, p, u)) = OperandFrom(first)
  BY DEF ReadOperand
<1> HIDE DEF first
<1>3. \A q \in Places(f) : first = ReadTo(f, q, b) => OperandFrom(first) = ReadTo(f, q, x)
  BY AtIs, GivenIs DEF OperandFrom
<1>4. ~ first.ok => ~ OperandFrom(first).ok
  BY DEF OperandFrom
<1> HIDE DEF x
<1>5. Conveys(f, p, <<b>>, OperandFrom(first), x)
  <2> DEFINE s == <<b>>
             got == OperandFrom(first)
  <2>1. s \in Seq(Int) /\ Conveys(f, p, s, first, b)
    BY <1>1
  <2>2. (\A q \in Places(f) : first = ReadTo(f, q, b) => got = ReadTo(f, q, x)) /\ (~ first.ok => ~ got.ok)
    BY <1>3, <1>4
  <2> HIDE DEF s, got
  <2>3. Conveys(f, p, s, got, x)
    BY <2>1, <2>2, Afterwards
  <2> QED
    BY <2>3 DEF s, got
<1> QED
  BY <1>2, <1>5 DEF x

LEMMA BytesAreOperand ==
  ASSUME NEW f \in Files, NEW p \in Places(f), NEW u, NEW b \in 128 .. 255, NEW t \in Seq(Int),
         Len(t) = IF b < 192 THEN 1 ELSE 3
  PROVE  Conveys(f, p, <<b>> \o t, ReadOperand(ReadTo(f, p, u)), BigEndian(HighBits(b), t))
<1> DEFINE first == ReadByte(ReadTo(f, p, u))
           x == BigEndian(HighBits(b), t)
<1>1. Conveys(f, p, <<b>>, first, b) /\ <<b>> \in Seq(Int)
  BY ByteConveyed
<1>2. ReadOperand(ReadTo(f, p, u)) = OperandFrom(first)
  BY DEF ReadOperand
<1> HIDE DEF first
<1>3. ASSUME NEW q \in Places(f), first = ReadTo(f, q, b)
      PROVE  Conveys(f, q, t, OperandFrom(first), x)
  <2> DEFINE rest == Take(ReadTo(f, q, b), Len(t))
  <2>1. Conveys(f, q, t, rest, t)
    BY TakeConveyed
  <2>2. OperandFrom(first) = LowBytes(ReadTo(f, q, b), rest)
    <3>1. first.ok /\ first.val = b
      BY <1>3, AtIs
    <3>2. OperandFrom(first) = LowBytes(first, Take(first, IF b < 192 THEN 1 ELSE 3))
      BY <3>1 DEF OperandFrom
    <3> QED
      BY <1>3, <3>2
  <2> HIDE DEF rest, x
  <2>3. \A q2 \in Places(f) : rest = ReadTo(f, q2, t) => OperandFrom(first) = ReadTo(f, q2, x)
    BY <2>2, AtIs, GivenIs DEF LowBytes, x
  <2>4. ~ rest.ok => ~ OperandFrom(first).ok
    BY <2>2, GivenIs DEF LowBytes
  <2> QED
    BY <2>1, <2>3, <2>4, Afterwards
<1>4. ~ first.ok => ~ OperandFrom(first).ok
  BY DEF OperandFrom
<1> HIDE DEF x
<1>5. Conveys(f, p, <<b>> \o t, OperandFrom(first), x)
  BY <1>1, <1>3, <1>4, Compose
<1> QED
  BY <1>2, <1>5 DEF x

LEMMA FormOfOperand ==
  ASSUME NEW v \in Int
  PROVE  /\ v \in 0 .. 63 => WriteOp(v) = <<v>>
         /\ v \in -64 .. -1 => WriteOp(v) = <<64 + (v % 64)>>
         /\ v \in TwoBytes /\ ~ v \in -64 .. 63 => WriteOp(v) = <<FirstOfTwo(v), v % 256>>
         /\ ~ v \in TwoBytes /\ ~ v \in FourBytes => WriteOp(v) = <<OutOfRange>>
         /\ ~ v \in TwoBytes /\ v \in FourBytes =>
              WriteOp(v) = <<FirstOfFour(v), ByteAt(v, Byte2), ByteAt(v, Byte1), v % 256>>
<1> DEFINE b1 == 64 + (v % 64)
           b2 == 128 + ((v \div Byte1) % 64)
           b3 == v % 256
           b4 == 192 + ((v \div Byte3) % 64)
           b5 == (v \div Byte2) % 256
           b6 == (v \div Byte1) % 256
<1>1. WriteOp(v) = CASE v \in 0 .. 63        -> <<v>>
                     [] v \in -64 .. -1      -> <<b1>>
                     [] v \in -8192 .. -65 \/ v \in 64 .. 8191 -> <<b2, b3>>
                     [] v < -OperandLimit \/ v >= OperandLimit -> <<OutOfRange>>
                     [] OTHER -> <<b4, b5, b6, b3>>
  BY DEF WriteOp
<1> HIDE DEF b1, b2, b3, b4, b5, b6
<1> DEFINE A == v \in 0 .. 63
           B == v \in -64 .. -1
           C == v \in -8192 .. -65 \/ v \in 64 .. 8191
           D == v < -OperandLimit \/ v >= OperandLimit
<1>2. OperandLimit \in Int /\ OperandLimit > 8191
  BY DEF OperandLimit, Byte3
<1>3. /\ A <=> 0 <= v /\ v <= 63
      /\ B <=> -64 <= v /\ v <= -1
      /\ v \in -64 .. 63 <=> -64 <= v /\ v <= 63
  OBVIOUS
<1>4. v \in -8192 .. -65 <=> -8192 <= v /\ v <= -65
  OBVIOUS
<1>5. v \in 64 .. 8191 <=> 64 <= v /\ v <= 8191
  OBVIOUS
<1>6. v \in TwoBytes <=> -8192 <= v /\ v <= 8191
  BY DEF TwoBytes
<1>7. v \in FourBytes <=> ~ D
  BY <1>2 DEF FourBytes
<1> HIDE DEF A, B
<1>8. C <=> (-8192 <= v /\ v <= -65) \/ (64 <= v /\ v <= 8191)
  BY <1>4, <1>5
<1> HIDE DEF C
<1>9. A => ~ B /\ ~ C /\ ~ D
  BY <1>2, <1>3, <1>8
<1>10. B => ~ A /\ ~ C /\ ~ D
  BY <1>2, <1>3, <1>8
<1>11. v \in TwoBytes /\ ~ v \in -64 .. 63 => C /\ ~ A /\ ~ B /\ ~ D
  <2>1. ASSUME -8192 <= v, v <= 8191, ~ (-64 <= v /\ v <= 63)
        PROVE  C /\ ~ A /\ ~ B /\ ~ D
    BY <1>2, <1>3, <1>8, <2>1
  <2> QED
    BY <1>3, <1>6, <2>1
<1>12. ~ v \in TwoBytes => ~ A /\ ~ B /\ ~ C
  <2>1. ASSUME ~ (-8192 <= v /\ v <= 8191)
        PROVE  ~ A /\ ~ B /\ ~ C
    BY <1>3, <1>8, <2>1
  <2> QED
    BY <1>6, <2>1
<1> HIDE DEF D
<1>13. WriteOp(v) = CASE A -> <<v>> [] B -> <<b1>> [] C -> <<b2, b3>> [] D -> <<OutOfRange>> [] OTHER -> <<b4, b5, b6, b3>>
  BY <1>1 DEF A, B, C, D
<1>14. v \in 0 .. 63 => WriteOp(v) = <<v>>
  BY <1>9, <1>13 DEF A
<1>15. v \in -64 .. -1 => WriteOp(v) = <<b1>>
  BY <1>10, <1>13 DEF B
<1>16. v \in TwoBytes /\ ~ v \in -64 .. 63 => WriteOp(v) = <<b2, b3>>
  BY <1>11, <1>13
<1>17. ~ v \in TwoBytes /\ ~ v \in FourBytes => WriteOp(v) = <<OutOfRange>>
  BY <1>7, <1>12, <1>13
<1>18. ~ v \in TwoBytes /\ v \in FourBytes => WriteOp(v) = <<b4, b5, b6, b3>>
  BY <1>7, <1>12, <1>13
<1> QED
  BY <1>14, <1>15, <1>16, <1>17, <1>18 DEF b1, b2, b3, b4, b5, b6, FirstOfTwo, FirstOfFour, ByteAt

\* An operand in any of its three forms is read as it was written, and a file that ends inside of
\* it is refused: the border of every form, and the sign, which each form keeps in another bit
\* (write_op of writer.rs, read_operand of reader.rs).
THEOREM OperandConveyed ==
  ASSUME NEW f \in Files, NEW p \in Places(f), NEW u, NEW v \in Int
  PROVE  WriteOp(v) \in Seq(Int) /\ Conveys(f, p, WriteOp(v), ReadOperand(ReadTo(f, p, u)), v)
<1> DEFINE got == ReadOperand(ReadTo(f, p, u))
<1>1. CASE v \in 0 .. 63
  <2>1. WriteOp(v) = <<v>>
    BY <1>1, FormOfOperand
  <2>2. v \in 0 .. 127 /\ (IF v < 64 THEN v ELSE v - 128) = v /\ <<v>> \in Seq(Int)
    BY <1>1
  <2>3. Conveys(f, p, <<v>>, got, v)
    BY <2>2, ByteIsOperand
  <2> QED
    BY <2>1, <2>2, <2>3
<1>2. CASE v \in -64 .. -1
  <2> DEFINE b == 64 + (v % 64)
  <2>1. WriteOp(v) = <<b>>
    BY <1>2, FormOfOperand
  <2>2. b \in 64 .. 127 /\ b - 128 = v
    BY <1>2, FormsAreOperands
  <2> HIDE DEF b
  <2>3. b \in 0 .. 127 /\ (IF b < 64 THEN b ELSE b - 128) = v /\ <<b>> \in Seq(Int)
    BY <2>2
  <2>4. Conveys(f, p, <<b>>, got, v)
    BY <2>3, ByteIsOperand
  <2> QED
    BY <2>1, <2>3, <2>4
<1>3. ASSUME v \in TwoBytes, ~ v \in -64 .. 63
      PROVE  WriteOp(v) \in Seq(Int) /\ Conveys(f, p, WriteOp(v), got, v)
  <2> DEFINE b == FirstOfTwo(v)
             t == <<v % 256>>
  <2>1. WriteOp(v) = <<b, v % 256>>
    BY <1>3, FormOfOperand, Zenon
  <2>2. b \in 128 .. 191 /\ HighBits(b) \in Int /\ 256 * HighBits(b) + (v % 256) = v
    BY <1>3, FormsAreOperands
  <2> HIDE DEF b
  <2>3. t \in Seq(Int) /\ Len(t) = 1 /\ t[1] = v % 256
    OBVIOUS
  <2>4. <<b, v % 256>> = <<b>> \o t /\ <<b, v % 256>> \in Seq(Int)
    BY <2>2
  <2> HIDE DEF t
  <2>5. BigEndian(HighBits(b), t) = v
    <3>1. BigEndian(HighBits(b), t) = 256 * HighBits(b) + t[1]
      BY <2>2, <2>3, BigEndianIs
    <3> QED
      BY <2>2, <2>3, <3>1
  <2>6. Len(t) = IF b < 192 THEN 1 ELSE 3
    BY <2>2, <2>3
  <2>7. b \in 128 .. 255
    BY <2>2
  <2>8. Conveys(f, p, <<b>> \o t, got, BigEndian(HighBits(b), t))
    BY <2>3, <2>6, <2>7, BytesAreOperand
  <2> QED
    BY <2>1, <2>4, <2>5, <2>8
<1>4. ASSUME ~ v \in TwoBytes, ~ v \in FourBytes
      PROVE  WriteOp(v) \in Seq(Int) /\ Conveys(f, p, WriteOp(v), got, v)
  <2>1. WriteOp(v) = <<OutOfRange>>
    BY <1>4, FormOfOperand, Zenon
  <2>2. ~ Matches(f, p, <<OutOfRange>>)
    <3>1. ASSUME Matches(f, p, <<OutOfRange>>)
          PROVE  FALSE
      <4>1. f[p + 1 - 1] = <<OutOfRange>>[1] /\ p + 1 <= Len(f) + 1
        BY <3>1 DEF Matches
      <4>2. p \in DOMAIN f /\ f[p] = OutOfRange
        BY <4>1 DEF Places, Files
      <4>3. f[p] \in Nat
        BY <4>2 DEF Files
      <4> QED
        BY <4>2, <4>3 DEF OutOfRange
    <3> QED
      BY <3>1
  <2>3. CutOff(f, p, <<OutOfRange>>) => ~ got.ok
    <3>1. Conveys(f, p, <<OutOfRange>>, ReadByte(ReadTo(f, p, u)), OutOfRange)
      BY ByteConveyed DEF OutOfRange
    <3> QED
      BY <3>1 DEF Conveys, ReadOperand, OperandFrom
  <2>4. <<OutOfRange>> \in Seq(Int)
    BY DEF OutOfRange
  <2> QED
    BY <2>1, <2>2, <2>3, <2>4 DEF Conveys
<1>5. ASSUME ~ v \in TwoBytes, v \in FourBytes
      PROVE  WriteOp(v) \in Seq(Int) /\ Conveys(f, p, WriteOp(v), got, v)
  <2> DEFINE b == FirstOfFour(v)
             b1 == ByteAt(v, Byte2)
             b2 == ByteAt(v, Byte1)
             b3 == v % 256
             t == <<b1, b2, b3>>
  <2>1. WriteOp(v) = <<b, b1, b2, b3>>
    BY <1>5, FormOfOperand, Zenon
  <2>2. /\ b \in 192 .. 255 /\ HighBits(b) \in Int
        /\ 256 * (256 * (256 * HighBits(b) + b1) + b2) + b3 = v
    BY <1>5, FormsAreOperands
  <2>3. b1 \in Int /\ b2 \in Int /\ b3 \in Int
    BY DEF ByteAt, Byte1, Byte2
  <2> HIDE DEF b, b1, b2, b3
  <2>4. t \in Seq(Int) /\ Len(t) = 3 /\ t[1] = b1 /\ t[2] = b2 /\ t[3] = b3
    BY <2>3
  <2>5. <<b, b1, b2, b3>> = <<b>> \o t /\ <<b, b1, b2, b3>> \in Seq(Int)
    BY <2>2, <2>3
  <2> HIDE DEF t
  <2>6. BigEndian(HighBits(b), t) = v
    BY <2>2, <2>4, BigEndianIs
  <2>7. Len(t) = IF b < 192 THEN 1 ELSE 3
    BY <2>2, <2>4
  <2>8. b \in 128 .. 255
    BY <2>2
  <2>9. Conveys(f, p, <<b>> \o t, got, BigEndian(HighBits(b), t))
    BY <2>4, <2>7, <2>8, BytesAreOperand
  <2> QED
    BY <2>1, <2>5, <2>6, <2>9
<1>6. v \in -64 .. 63 => v \in 0 .. 63 \/ v \in -64 .. -1
  OBVIOUS
<1> QED
  BY <1>1, <1>2, <1>3, <1>4, <1>5, <1>6, Zenon

LEMMA CountConveyed ==
  ASSUME NEW f \in Files, NEW p \in Places(f), NEW u, NEW v \in Nat
  PROVE  WriteOp(v) \in Seq(Int) /\ Conveys(f, p, WriteOp(v), ReadCount(ReadTo(f, p, u)), v)
<1> DEFINE mid == ReadOperand(ReadTo(f, p, u))
           s == WriteOp(v)
           got == NotNegative(mid)
<1>1. s \in Seq(Int) /\ Conveys(f, p, s, mid, v)
  BY OperandConveyed
<1>2. ReadCount(ReadTo(f, p, u)) = got
  BY DEF ReadCount
<1> HIDE DEF mid, s
<1>3. \A q \in Places(f) : mid = ReadTo(f, q, v) => got = ReadTo(f, q, v)
  BY AtIs DEF NotNegative, Require
<1>4. ~ mid.ok => ~ got.ok
  BY DEF NotNegative, Require
<1> HIDE DEF got
<1>5. Conveys(f, p, s, got, v)
  BY <1>1, <1>3, <1>4, Afterwards
<1> QED
  BY <1>1, <1>2, <1>5 DEF s

\* A word and its sign.
LEMMA WordConveyed ==
  ASSUME NEW f \in Files, NEW p \in Places(f), NEW u, NEW v \in Int32
  PROVE  WriteWord(v) \in Seq(Int) /\ Conveys(f, p, WriteWord(v), ReadWord(ReadTo(f, p, u)), v)
<1> DEFINE s == WriteWord(v)
           mid == Take(ReadTo(f, p, u), 4)
           got == WordOf(mid)
           a == v \div Byte3
           b1 == ByteAt(v, Byte2)
           b2 == ByteAt(v, Byte1)
           b3 == v % 256
<1>0. v \in Int /\ -LargestInt32 - 1 <= v /\ v <= LargestInt32
  <2>1. LargestInt32 \in Int
    BY SMT DEF LargestInt32
  <2> QED
    BY <2>1 DEF Int32
<1>1. s = <<a % 256, b1, b2, b3>>
  BY DEF WriteWord, ByteAt
<1>2. a \in -128 .. 127
  <2>1. PICK r \in Int : 0 <= r /\ r < Byte3 /\ v = Byte3 * a + r
    BY <1>0, BytesOfNumber
  <2>2. a \in Int
    BY <1>0, SMT DEF Byte3
  <2> HIDE DEF a
  <2>3. -128 * Byte3 <= v /\ v < 128 * Byte3
    BY <1>0, SMT DEF LargestInt32, Byte3
  <2> QED
    BY <2>1, <2>2, <2>3, SMT DEF Byte3
<1>3. 256 * (256 * (256 * a + b1) + b2) + b3 = v
  BY <1>0, BytesOfNumber DEF ByteAt
<1>4. b1 \in Int /\ b2 \in Int /\ b3 \in Int
  BY <1>0 DEF ByteAt, Byte1, Byte2
<1> HIDE DEF a, b1, b2, b3
<1> DEFINE b == a % 256
           t == <<b1, b2, b3>>
<1>5. b \in 0 .. 255 /\ (IF b < 128 THEN b ELSE b - 256) = a
  BY <1>2
<1> HIDE DEF b
<1>6. s = <<b, b1, b2, b3>>
  BY <1>1 DEF b
<1>7. s \in Seq(Int) /\ Len(s) = 4 /\ s[1] = b /\ Tail(s) = t
  BY <1>4, <1>5, <1>6
<1>8. t \in Seq(Int) /\ Len(t) = 3 /\ t[1] = b1 /\ t[2] = b2 /\ t[3] = b3
  BY <1>4
<1> HIDE DEF s, t
<1>9. BigEndian(IF b < 128 THEN b ELSE b - 256, t) = v
  <2>1. a \in Int
    BY <1>2
  <2>2. BigEndian(a, t) = v
    BY <1>3, <1>8, <2>1, BigEndianIs
  <2> QED
    BY <1>5, <2>2
<1>10. Conveys(f, p, s, mid, s)
  BY <1>7, TakeConveyed
<1> HIDE DEF mid
<1>11. \A q \in Places(f) : mid = ReadTo(f, q, s) => got = ReadTo(f, q, v)
  <2> SUFFICES ASSUME NEW q \in Places(f), mid = ReadTo(f, q, s) PROVE got = ReadTo(f, q, v)
    OBVIOUS
  <2>1. mid.val = s
    BY AtIs
  <2>2. got = Given(mid, BigEndian(IF b < 128 THEN b ELSE b - 256, t))
    BY <1>7, <2>1 DEF WordOf
  <2> QED
    BY <1>9, <2>2, GivenIs
<1>12. ~ mid.ok => ~ got.ok
  BY GivenIs DEF WordOf
<1> HIDE DEF got
<1>13. Conveys(f, p, s, got, v)
  BY <1>7, <1>10, <1>11, <1>12, Afterwards
<1> QED
  BY <1>7, <1>13 DEF s, got, mid, ReadWord

\* A name ends where its null byte is.
LEMMA NameConveyed ==
  ASSUME NEW f \in Files, NEW p \in Places(f), NEW u, NEW name \in NameSet
  PROVE  WriteName(name) \in Seq(Int) /\ Conveys(f, p, WriteName(name), ReadName(ReadTo(f, p, u)), name)
<1> DEFINE s == WriteName(name)
           ends == {n \in p .. Len(f) : f[n] = 0}
           r == ReadTo(f, p, u)
<1>1. name \in Seq(Int) /\ Len(name) \in Nat /\ \A n \in 1 .. Len(name) : name[n] # 0
  BY DEF NameSet
<1>2. <<0>> \in Seq(Int) /\ Len(<<0>>) = 1 /\ <<0>>[1] = 0
  OBVIOUS
<1>3. s \in Seq(Int) /\ Len(s) = Len(name) + 1
  BY <1>1, <1>2 DEF WriteName
<1>4. s[Len(name) + 1] = 0 /\ \A n \in 1 .. Len(name) : s[n] = name[n]
  BY <1>1, <1>2 DEF WriteName
<1>5. Len(f) \in Nat /\ p \in Int /\ p >= 1 /\ p <= Len(f) + 1
  BY DEF Files, Places
<1> HIDE DEF s
<1>6. ASSUME Matches(f, p, s)
      PROVE  ReadName(r) = ReadTo(f, p + Len(s), name)
  <2> DEFINE e == p + Len(name)
  <2>1. e <= Len(f) /\ f[e] = 0 /\ \A n \in 1 .. Len(name) : f[p + n - 1] = name[n]
    <3>1. Len(name) + 1 \in 1 .. Len(s) /\ p + (Len(name) + 1) - 1 = e
      BY <1>1, <1>3, <1>5
    <3>2. f[p + (Len(name) + 1) - 1] = s[Len(name) + 1]
      BY <1>6, <3>1 DEF Matches
    <3>3. ASSUME NEW n \in 1 .. Len(name)
          PROVE  f[p + n - 1] = name[n]
      <4>1. n \in 1 .. Len(s)
        BY <1>1, <1>3
      <4> QED
        BY <1>4, <1>6, <4>1 DEF Matches
    <3>4. e <= Len(f)
      BY <1>1, <1>3, <1>5, <1>6 DEF Matches
    <3> QED
      BY <1>4, <3>1, <3>2, <3>3, <3>4
  <2>2. e \in ends
    BY <1>1, <1>5, <2>1
  <2>3. ASSUME NEW n \in ends
        PROVE  e <= n
    <3>1. CASE n < e
      <4>1. n - p + 1 \in 1 .. Len(name) /\ p + (n - p + 1) - 1 = n
        BY <1>1, <1>5, <3>1
      <4>2. f[p + (n - p + 1) - 1] = name[n - p + 1]
        BY <2>1, <4>1
      <4> QED
        BY <1>1, <4>1, <4>2
    <3> QED
      BY <1>1, <1>5, <3>1
  <2>4. e \in Int
    BY <1>1, <1>5
  <2> HIDE DEF e, ends
  <2>5. Min(ends) = e
    <3>1. \A n \in ends : n \in Int
      BY DEF ends
    <3>2. Min(ends) \in ends /\ \A n \in ends : Min(ends) <= n
      BY <2>2, <2>3 DEF Min
    <3>3. Min(ends) \in Int /\ Min(ends) <= e /\ e <= Min(ends)
      BY <2>2, <2>3, <3>1, <3>2
    <3> QED
      BY <2>4, <3>3
  <2>6. SubSeq(f, p, e - 1) = name
    <3> DEFINE t == SubSeq(f, p, e - 1)
    <3>1. \A i \in p .. e - 1 : f[i] \in Int
      BY <1>5, <2>1, <2>4 DEF Files
    <3>2. p \in Int /\ e - 1 \in Int
      BY <1>5, <2>4
    <3>3. (e - 1) - p + 1 = Len(name)
      BY <1>1, <1>5 DEF e
    <3>4. t \in Seq(Int) /\ Len(t) = (IF p <= e - 1 THEN Len(name) ELSE 0) /\ \A i \in 1 .. Len(name) : t[i] = f[p + i - 1]
      BY <3>1, <3>2, <3>3, SubSeqProperties
    <3>5. Len(t) = Len(name)
      BY <1>1, <1>5, <3>4 DEF e
    <3> HIDE DEF t
    <3>6. \A i \in 1 .. Len(t) : t[i] = name[i]
      BY <2>1, <3>4, <3>5
    <3>7. t = name
      BY <1>1, <3>4, <3>5, <3>6, SameSequence
    <3> QED
      BY <3>7 DEF t
  <2>7. ReadName(r) = Reading(f, e + 1, TRUE, SubSeq(f, p, e - 1))
    <3>1. r.file = f /\ r.at = p /\ r.ok
      BY AtIs
    <3> HIDE DEF r
    <3>2. ends # {} /\ ends = {n \in r.at .. Len(r.file) : r.file[n] = 0}
      BY <2>2, <3>1 DEF ends
    <3>3. ReadName(r) = Reading(r.file, Min(ends) + 1, TRUE, SubSeq(r.file, r.at, Min(ends) - 1))
      BY <3>1, <3>2, Zenon DEF ReadName
    <3> QED
      BY <2>5, <3>1, <3>3, Zenon
  <2>8. e + 1 = p + Len(s)
    BY <1>1, <1>3, <1>5 DEF e
  <2> QED
    BY <2>6, <2>7, <2>8, Zenon DEF ReadTo
<1>7. ASSUME CutOff(f, p, s)
      PROVE  ~ ReadName(r).ok
  <2>1. ASSUME NEW n \in ends
        PROVE  FALSE
    <3>1. n - p + 1 \in 1 .. Len(name) /\ p + (n - p + 1) <= Len(f) + 1 /\ p + (n - p + 1) - 1 = n /\ n - p + 1 \in 1 .. Len(s)
      BY <1>1, <1>3, <1>5, <1>7 DEF CutOff
    <3>2. f[p + (n - p + 1) - 1] = s[n - p + 1]
      BY <1>7, <3>1 DEF CutOff
    <3> QED
      BY <1>1, <1>4, <3>1, <3>2
  <2>2. ends = {n \in r.at .. Len(r.file) : r.file[n] = 0}
    BY AtIs
  <2> HIDE DEF r, ends
  <2>3. ReadName(r) = Refuse(r)
    BY <2>1, <2>2, Zenon DEF ReadName
  <2> QED
    BY <2>3, RefuseIs
<1> QED
  BY <1>3, <1>6, <1>7 DEF Conveys, s

-----------------------------------------------------------------------------
(* Things one after the other.                                                 *)

\* What is read before each of them, where they all are in the file.
LEMMA HoldsEach ==
  ASSUME NEW f \in Files, NEW p \in Places(f), NEW seqs \in Seq(Seq(Int)), NEW P, IsJoined(P, seqs, Int),
         NEW j \in 0 .. Len(seqs), Matches(f, p, P[j])
  PROVE  /\ \A k \in 0 .. j : p + Len(P[k]) \in Places(f)
         /\ \A k \in 0 .. j - 1 : /\ Matches(f, p + Len(P[k]), seqs[k + 1])
                                  /\ p + Len(P[k]) + Len(seqs[k + 1]) = p + Len(P[k + 1])
<1>0. Len(seqs) \in Nat /\ j \in Nat /\ j <= Len(seqs) /\ p \in Int
  BY DEF Places
<1>1. \A k \in 0 .. Len(seqs) : P[k] \in Seq(Int)
  BY DEF IsJoined
<1>2. ASSUME NEW k \in 0 .. j
      PROVE  Matches(f, p, P[k]) /\ p + Len(P[k]) \in Places(f)
  <2> DEFINE rest == FlattenSeq(SubSeq(seqs, k + 1, j))
  <2>1. P[j] = P[k] \o rest
    BY JoinedBetween
  <2>2. rest \in Seq(Int)
    <3>1. SubSeq(seqs, k + 1, j) \in Seq(Seq(Int))
      BY <1>0
    <3> QED
      BY <3>1, FlattenIsSeq
  <2> HIDE DEF rest
  <2>3. P[k] \in Seq(Int)
    BY <1>0, <1>1
  <2> QED
    BY <2>1, <2>2, <2>3, HoldsConcat
<1>3. ASSUME NEW k \in 0 .. j - 1
      PROVE  Matches(f, p + Len(P[k]), seqs[k + 1]) /\ p + Len(P[k]) + Len(seqs[k + 1]) = p + Len(P[k + 1])
  <2>1. k \in 0 .. Len(seqs) - 1 /\ k \in 0 .. Len(seqs) /\ k + 1 \in 0 .. j /\ k + 1 \in 1 .. Len(seqs)
    BY <1>0
  <2>2. P[k + 1] = P[k] \o seqs[k + 1]
    BY <2>1 DEF IsJoined
  <2>3. P[k] \in Seq(Int) /\ seqs[k + 1] \in Seq(Int)
    BY <1>1, <2>1
  <2>4. Matches(f, p, P[k] \o seqs[k + 1])
    BY <1>2, <2>1, <2>2
  <2>5. Len(P[k] \o seqs[k + 1]) = Len(P[k]) + Len(seqs[k + 1]) /\ Len(P[k]) \in Nat /\ Len(seqs[k + 1]) \in Nat
    BY <2>3
  <2>6. Matches(f, p + Len(P[k]), seqs[k + 1])
    BY <2>3, <2>4, HoldsConcat
  <2>7. Len(P[k + 1]) = Len(P[k]) + Len(seqs[k + 1])
    BY <2>2, <2>5
  <2>8. p + Len(P[k]) + Len(seqs[k + 1]) = p + Len(P[k + 1])
    <3> DEFINE x == Len(P[k])
               y == Len(seqs[k + 1])
    <3>1. x \in Nat /\ y \in Nat
      BY <2>5
    <3> HIDE DEF x, y
    <3>2. p + x + y = p + (x + y)
      BY <1>0, <3>1
    <3> QED
      BY <2>7, <3>2 DEF x, y
  <2> QED
    BY <2>6, <2>8
<1> QED
  BY <1>2, <1>3

\* Where the file ends among them, it ends in one of them.
LEMMA CutEach ==
  ASSUME NEW f \in Files, NEW p \in Places(f), NEW seqs \in Seq(Seq(Int)), NEW P, IsJoined(P, seqs, Int),
         CutOff(f, p, P[Len(seqs)])
  PROVE  \E j \in 0 .. Len(seqs) - 1 : Matches(f, p, P[j]) /\ CutOff(f, p + Len(P[j]), seqs[j + 1])
<1> DEFINE S == {k \in 0 .. Len(seqs) : CutOff(f, p, P[k])}
<1>0. Len(seqs) \in Nat
  OBVIOUS
<1>1. \A k \in 0 .. Len(seqs) : P[k] \in Seq(Int)
  BY DEF IsJoined
<1>2. Len(seqs) \in S /\ S \subseteq Nat
  BY <1>0
<1>3. PICK i \in S : \A k \in S : i <= k
  BY <1>2, LeastNatural
<1>4. i # 0
  <2>1. P[0] = <<>> /\ p + 0 <= Len(f) + 1
    BY DEF IsJoined, Places, Files
  <2>2. ~ CutOff(f, p, <<>>)
    BY <2>1 DEF CutOff, Places, Files
  <2> QED
    BY <1>3, <2>1, <2>2
<1> DEFINE j == i - 1
<1>5. j \in 0 .. Len(seqs) - 1 /\ j \in 0 .. Len(seqs) /\ j + 1 = i /\ i \in 1 .. Len(seqs)
  BY <1>0, <1>3, <1>4
<1>6. ~ CutOff(f, p, P[j])
  BY <1>3, <1>5
<1> HIDE DEF j
<1>7. P[j + 1] = P[j] \o seqs[j + 1]
  BY <1>5 DEF IsJoined
<1>8. P[j] \in Seq(Int) /\ seqs[j + 1] \in Seq(Int) /\ CutOff(f, p, P[j] \o seqs[j + 1])
  <2>1. CutOff(f, p, P[j + 1])
    BY <1>3, <1>5
  <2>2. P[j] \in Seq(Int) /\ seqs[j + 1] \in Seq(Int)
    BY <1>1, <1>5
  <2> QED
    BY <1>7, <2>1, <2>2
<1>9. Matches(f, p, P[j]) /\ CutOff(f, p + Len(P[j]), seqs[j + 1])
  BY <1>6, <1>8, CutConcat
<1> QED
  BY <1>5, <1>9

\* The readings before, between and after them, where g is what each of them is read to be.
IsGathered(c, f, p, P, vals, g, N) ==
  /\ c[0] = ReadTo(f, p, <<>>)
  /\ \A k \in 0 .. N - 1 :
       \/ c[k] = ReadTo(f, p + Len(P[k]), SubSeq(vals, 1, k)) /\ c[k + 1] = Gathered(c[k], g[k + 1])
       \/ ~ c[k].ok /\ c[k + 1] = c[k]

LEMMA GatheredConveyed ==
  ASSUME NEW f \in Files, NEW p \in Places(f), NEW seqs \in Seq(Seq(Int)), NEW P, IsJoined(P, seqs, Int),
         NEW V, NEW vals \in Seq(V), Len(vals) = Len(seqs), NEW g,
         \A k \in 0 .. Len(seqs) - 1 :
           p + Len(P[k]) \in Places(f) => Conveys(f, p + Len(P[k]), seqs[k + 1], g[k + 1], vals[k + 1]),
         Matches(f, p, P[Len(seqs)]) \/ CutOff(f, p, P[Len(seqs)])
  PROVE  \E c : IsGathered(c, f, p, P, vals, g, Len(seqs)) /\ Conveys(f, p, P[Len(seqs)], c[Len(seqs)], vals)
<1> DEFINE N == Len(seqs)
           before(k) == ReadTo(f, p + Len(P[k]), SubSeq(vals, 1, k))
<1>0. N \in Nat /\ p \in Int /\ Len(P[0]) = 0
  BY DEF Places, IsJoined
<1>1. before(0) = ReadTo(f, p, <<>>)
  <2>1. SubSeq(vals, 1, 0) = <<>> /\ p + Len(P[0]) = p
    BY <1>0, SubSeqEmpty
  <2> QED
    BY <2>1
<1>2. before(N) = ReadTo(f, p + Len(P[N]), vals)
  <2>1. SubSeq(vals, 1, N) = vals
    <3> DEFINE t == SubSeq(vals, 1, N)
    <3>1. t \in Seq(V) /\ Len(t) = N /\ \A i \in 1 .. N : t[i] = vals[i]
      BY <1>0
    <3> HIDE DEF t
    <3> QED
      BY <3>1, SameSequence DEF t
  <2> QED
    BY <2>1
<1>3. ASSUME NEW k \in 0 .. N - 1, p + Len(P[k]) \in Places(f), Matches(f, p + Len(P[k]), seqs[k + 1]),
             p + Len(P[k]) + Len(seqs[k + 1]) = p + Len(P[k + 1])
      PROVE  Gathered(before(k), g[k + 1]) = before(k + 1)
  <2>1. g[k + 1] = ReadTo(f, p + Len(P[k + 1]), vals[k + 1])
    BY <1>3 DEF Conveys
  <2>3. Append(SubSeq(vals, 1, k), vals[k + 1]) = SubSeq(vals, 1, k + 1)
    <3> DEFINE s == SubSeq(vals, 1, k)
               t == SubSeq(vals, 1, k + 1)
    <3>1. k \in 0 .. Len(vals) /\ k + 1 \in 1 .. Len(vals)
      BY <1>0
    <3>2. s \in Seq(V) /\ Len(s) = k /\ \A i \in 1 .. k : s[i] = vals[i]
      BY <3>1
    <3>3. t \in Seq(V) /\ Len(t) = k + 1 /\ \A i \in 1 .. k + 1 : t[i] = vals[i]
      BY <3>1
    <3> HIDE DEF s, t
    <3> DEFINE a == Append(s, vals[k + 1])
    <3>4. a \in Seq(V) /\ Len(a) = k + 1 /\ \A i \in 1 .. k + 1 : a[i] = IF i = k + 1 THEN vals[k + 1] ELSE s[i]
      BY <3>1, <3>2
    <3>5. \A i \in 1 .. k + 1 : i # k + 1 => i \in 1 .. k
      BY <3>1
    <3> HIDE DEF a
    <3>6. \A i \in 1 .. k + 1 : a[i] = t[i]
      BY <3>2, <3>3, <3>4, <3>5
    <3>7. a = t
      BY <3>3, <3>4, <3>6, SameSequence
    <3> QED
      BY <3>7 DEF a, s, t
  <2> QED
    <3> DEFINE s == SubSeq(vals, 1, k)
               t == SubSeq(vals, 1, k + 1)
               q == p + Len(P[k])
               q1 == p + Len(P[k + 1])
               x == vals[k + 1]
    <3>1. g[k + 1] = ReadTo(f, q1, x) /\ Append(s, x) = t
      BY <2>1, <2>3
    <3>2. before(k) = ReadTo(f, q, s) /\ before(k + 1) = ReadTo(f, q1, t)
      OBVIOUS
    <3> HIDE DEF before, s, t, q, q1, x
    <3>3. Gathered(ReadTo(f, q, s), ReadTo(f, q1, x)) = Given(ReadTo(f, q1, x), Append(s, x))
      BY AtIs DEF Gathered
    <3> QED
      BY <3>1, <3>2, <3>3, GivenIs
<1> HIDE DEF before
<1>4. CASE Matches(f, p, P[N])
  <2> DEFINE c == [k \in 0 .. N |-> before(k)]
  <2>1. ASSUME NEW k \in 0 .. N - 1
        PROVE  c[k] = before(k) /\ c[k + 1] = Gathered(c[k], g[k + 1])
    <3>1. k \in 0 .. N /\ k + 1 \in 0 .. N /\ N \in 0 .. Len(seqs)
      BY <1>0
    <3>2. p + Len(P[k]) \in Places(f)
      BY <1>4, <3>1, HoldsEach
    <3>3. Matches(f, p + Len(P[k]), seqs[k + 1]) /\ p + Len(P[k]) + Len(seqs[k + 1]) = p + Len(P[k + 1])
      BY <1>4, <3>1, HoldsEach
    <3>4. Gathered(before(k), g[k + 1]) = before(k + 1)
      BY <1>3, <3>2, <3>3
    <3> QED
      BY <3>1, <3>4
  <2>2. c[0] = ReadTo(f, p, <<>>) /\ c[N] = ReadTo(f, p + Len(P[N]), vals)
    BY <1>0, <1>1, <1>2
  <2> HIDE DEF c
  <2>3. IsGathered(c, f, p, P, vals, g, N)
    BY <2>1, <2>2 DEF IsGathered, before
  <2>4. ~ CutOff(f, p, P[N])
    BY <1>4 DEF Matches, CutOff, Places, Files
  <2>5. Conveys(f, p, P[N], c[N], vals)
    BY <2>2, <2>4 DEF Conveys
  <2> QED
    BY <2>3, <2>5
<1>5. CASE CutOff(f, p, P[N])
  <2>1. PICK j \in 0 .. N - 1 : Matches(f, p, P[j]) /\ CutOff(f, p + Len(P[j]), seqs[j + 1])
    BY <1>5, CutEach
  <2> DEFINE R == Gathered(before(j), g[j + 1])
             c == [k \in 0 .. N |-> IF k <= j THEN before(k) ELSE R]
  <2>2. j \in 0 .. Len(seqs) /\ p + Len(P[j]) \in Places(f) /\ j \in Nat /\ j < N
    <3>1. j \in 0 .. Len(seqs) /\ j \in 0 .. j /\ j \in Nat /\ j < N
      BY <1>0
    <3>2. \A k \in 0 .. j : p + Len(P[k]) \in Places(f)
      BY <2>1, <3>1, HoldsEach
    <3> QED
      BY <3>1, <3>2
  <2>3. ~ R.ok
    <3>1. ~ g[j + 1].ok
      BY <2>1, <2>2 DEF Conveys
    <3> QED
      BY <3>1, GivenIs DEF Gathered
  <2>4. ASSUME NEW k \in 0 .. j - 1
        PROVE  Gathered(before(k), g[k + 1]) = before(k + 1)
    <3>1. k \in 0 .. j /\ k \in 0 .. N - 1
      BY <2>2
    <3>2. p + Len(P[k]) \in Places(f)
      BY <2>1, <2>2, <3>1, HoldsEach
    <3>3. Matches(f, p + Len(P[k]), seqs[k + 1]) /\ p + Len(P[k]) + Len(seqs[k + 1]) = p + Len(P[k + 1])
      BY <2>1, <2>2, HoldsEach
    <3> QED
      BY <1>3, <3>1, <3>2, <3>3
  <2> HIDE DEF R
  <2>5. \A k \in 0 .. N : c[k] = IF k <= j THEN before(k) ELSE R
    OBVIOUS
  <2> HIDE DEF c
  <2>6. ASSUME NEW k \in 0 .. N - 1
        PROVE  \/ c[k] = before(k) /\ c[k + 1] = Gathered(c[k], g[k + 1])
               \/ ~ c[k].ok /\ c[k + 1] = c[k]
    <3>1. k \in 0 .. N /\ k + 1 \in 0 .. N
      BY <1>0
    <3>2. CASE k < j
      <4>1. k \in 0 .. j - 1 /\ k <= j /\ k + 1 <= j
        BY <2>2, <3>2
      <4> QED
        BY <2>4, <2>5, <3>1, <4>1
    <3>3. CASE k = j
      <4>1. k <= j /\ ~ k + 1 <= j
        BY <2>2, <3>3
      <4> QED
        BY <2>5, <3>1, <3>3, <4>1 DEF R
    <3>4. CASE k > j
      <4>1. ~ k <= j /\ ~ k + 1 <= j
        BY <2>2, <3>4
      <4> QED
        BY <2>3, <2>5, <3>1, <4>1
    <3> QED
      BY <2>2, <3>2, <3>3, <3>4
  <2>7. c[0] = ReadTo(f, p, <<>>) /\ ~ c[N].ok
    <3>1. 0 \in 0 .. N /\ 0 <= j /\ N \in 0 .. N /\ ~ N <= j
      BY <1>0, <2>2
    <3> QED
      BY <1>1, <2>3, <2>5, <3>1
  <2>8. IsGathered(c, f, p, P, vals, g, N)
    BY <2>6, <2>7 DEF IsGathered, before
  <2>9. ~ Matches(f, p, P[N])
    BY <1>5 DEF Matches, CutOff, Places, Files
  <2>10. Conveys(f, p, P[N], c[N], vals)
    BY <2>7, <2>9 DEF Conveys
  <2> QED
    BY <2>8, <2>10
<1> QED
  BY <1>4, <1>5

\* The parts that long sequences are taken in.
LEMMA PartsOf ==
  ASSUME NEW n \in Nat
  PROVE  /\ Parts(n) \in Nat /\ EndOf(0, n) = 0 /\ EndOf(Parts(n), n) = n
         /\ \A part \in 1 .. Parts(n) :
              /\ EndOf(part - 1, n) = Short * (part - 1) /\ EndOf(part - 1, n) \in 0 .. EndOf(part, n)
              /\ EndOf(part, n) \in 0 .. n
BY DEF EndOf, Parts, Short

\* A run of readings in which each comes from the one before is what is read, for each of the four
\* readers that read one of several kinds.

LEMMA SomeFieldIs ==
  ASSUME NEW kinds, Len(kinds) \in Nat, NEW c,
         \A k \in 0 .. Len(kinds) - 1 :
           c[k + 1] = IF c[k].ok THEN Gathered(c[k], ReadField(c[k], kinds[k + 1])) ELSE c[k],
         NEW b \in 0 .. Len(kinds), NEW a \in 0 .. b
  PROVE  Some(c[a], ReadField, kinds, a, b) = c[b]
<1> DEFINE Is(u) == u = [n \in a .. b |-> IF n = a THEN c[a] ELSE Onward(u[n - 1], ReadField, kinds[n])]
           upto == CHOOSE u : Is(u)
           F == [n \in a .. b |-> c[n]]
           D(i) == a + i <= b => upto[a + i] = c[a + i]
           E(i) == a + i <= b => c[a + i] = c[a]
           S == {i \in Nat : D(i)}
           T == {i \in Nat : E(i)}
<1>0. a \in Nat /\ b \in Nat /\ a <= b /\ b <= Len(kinds) /\ b - a \in Nat /\ a + (b - a) = b
  OBVIOUS
<1>1. Some(c[a], ReadField, kinds, a, b) = IF c[a].ok THEN upto[b] ELSE c[a]
  BY DEF Some
<1>2. ASSUME NEW n \in a .. b, n # a
      PROVE  c[n] = Onward(c[n - 1], ReadField, kinds[n])
  <2>1. n - 1 \in 0 .. Len(kinds) - 1 /\ (n - 1) + 1 = n
    BY <1>0, <1>2
  <2>2. c[(n - 1) + 1] = IF c[n - 1].ok THEN Gathered(c[n - 1], ReadField(c[n - 1], kinds[(n - 1) + 1])) ELSE c[n - 1]
    BY <2>1
  <2> QED
    BY <2>1, <2>2 DEF Onward
<1>3. CASE c[a].ok
  <2>1. ASSUME NEW n \in a .. b
        PROVE  F[n] = IF n = a THEN c[a] ELSE Onward(F[n - 1], ReadField, kinds[n])
    <3>1. CASE n = a
      BY <3>1
    <3>2. CASE n # a
      <4>1. n - 1 \in a .. b
        BY <1>0, <3>2
      <4>2. F[n] = c[n] /\ F[n - 1] = c[n - 1]
        BY <4>1
      <4> HIDE DEF F
      <4> QED
        BY <1>2, <3>2, <4>2
    <3> QED
      BY <3>1, <3>2
  <2>2. Is(F)
    BY <2>1
  <2>3. Is(upto)
    <3> HIDE DEF F, Is
    <3> QED
      BY <2>2
  <2> HIDE DEF upto
  <2>4. \A n \in a .. b : upto[n] = IF n = a THEN c[a] ELSE Onward(upto[n - 1], ReadField, kinds[n])
    BY <2>3
  <2> HIDE DEF Is, F
  <2>5. D(0)
    BY <1>0, <2>4
  <2>6. ASSUME NEW i \in Nat, D(i)
        PROVE  D(i + 1)
    <3> SUFFICES ASSUME a + (i + 1) <= b PROVE upto[a + (i + 1)] = c[a + (i + 1)]
      OBVIOUS
    <3>1. a + (i + 1) \in a .. b /\ a + (i + 1) # a /\ a + (i + 1) - 1 = a + i /\ a + i <= b
      BY <1>0
    <3>2. upto[a + (i + 1)] = Onward(upto[a + i], ReadField, kinds[a + (i + 1)])
      BY <2>4, <3>1
    <3>3. c[a + (i + 1)] = Onward(c[a + i], ReadField, kinds[a + (i + 1)])
      BY <1>2, <3>1
    <3> QED
      BY <2>6, <3>1, <3>2, <3>3
  <2> HIDE DEF D
  <2>7. Nat \subseteq S
    <3>1. 0 \in S /\ \A i \in Nat : i \in S => i + 1 \in S
      BY <2>5, <2>6
    <3> HIDE DEF S
    <3> QED
      BY <3>1, SetInduction
  <2>8. D(b - a)
    BY <1>0, <2>7
  <2>9. upto[b] = c[b]
    BY <1>0, <2>8 DEF D
  <2> QED
    BY <1>1, <1>3, <2>9
<1>4. CASE ~ c[a].ok
  <2> HIDE DEF upto, Is, F, D
  <2>1. E(0)
    BY <1>0
  <2>2. ASSUME NEW i \in Nat, E(i)
        PROVE  E(i + 1)
    <3> SUFFICES ASSUME a + (i + 1) <= b PROVE c[a + (i + 1)] = c[a]
      OBVIOUS
    <3>1. a + i \in 0 .. Len(kinds) - 1 /\ (a + i) + 1 = a + (i + 1) /\ a + i <= b
      BY <1>0
    <3>2. c[a + i] = c[a]
      BY <2>2, <3>1
    <3>3. c[(a + i) + 1] = IF c[a + i].ok THEN Gathered(c[a + i], ReadField(c[a + i], kinds[(a + i) + 1])) ELSE c[a + i]
      BY <3>1
    <3> QED
      BY <1>4, <3>1, <3>2, <3>3
  <2> HIDE DEF E
  <2>3. Nat \subseteq T
    <3>1. 0 \in T /\ \A i \in Nat : i \in T => i + 1 \in T
      BY <2>1, <2>2
    <3> HIDE DEF T
    <3> QED
      BY <3>1, SetInduction
  <2>4. E(b - a)
    BY <1>0, <2>3
  <2>5. c[b] = c[a]
    BY <1>0, <2>4 DEF E
  <2> QED
    BY <1>1, <1>4, <2>5
<1> QED
  BY <1>3, <1>4

LEMMA EachFieldIs ==
  ASSUME NEW r, NEW kinds, Len(kinds) \in Nat, NEW c, c[0] = Given(r, <<>>),
         \A k \in 0 .. Len(kinds) - 1 :
           c[k + 1] = IF c[k].ok THEN Gathered(c[k], ReadField(c[k], kinds[k + 1])) ELSE c[k]
  PROVE  ReadEach(r, ReadField, kinds) = c[Len(kinds)]
<1> DEFINE n == Len(kinds)
           K == Parts(n)
           Is(u) == u = [part \in 0 .. K |-> IF part = 0 THEN Given(r, <<>>)
                                             ELSE Some(u[part - 1], ReadField, kinds, Short * (part - 1), EndOf(part, n))]
           upto == CHOOSE u : Is(u)
           F == [part \in 0 .. K |-> c[EndOf(part, n)]]
           D(i) == i <= K => upto[i] = c[EndOf(i, n)]
           S == {i \in Nat : D(i)}
<1>0. n \in Nat
  OBVIOUS
<1>1. ReadEach(r, ReadField, kinds) = upto[K]
  BY DEF ReadEach
<1>2. /\ K \in Nat /\ EndOf(0, n) = 0 /\ EndOf(K, n) = n
      /\ \A part \in 1 .. K : /\ EndOf(part - 1, n) = Short * (part - 1) /\ EndOf(part - 1, n) \in 0 .. EndOf(part, n)
                              /\ EndOf(part, n) \in 0 .. n
  BY <1>0, PartsOf
<1> HIDE DEF n, K
<1>3. ASSUME NEW part \in 1 .. K
      PROVE  c[EndOf(part, n)] = Some(c[EndOf(part - 1, n)], ReadField, kinds, Short * (part - 1), EndOf(part, n))
  <2> DEFINE a == EndOf(part - 1, n)
             b == EndOf(part, n)
  <2>1. b \in 0 .. Len(kinds) /\ a \in 0 .. b /\ a = Short * (part - 1)
    BY <1>2 DEF n
  <2> HIDE DEF a, b
  <2>2. Some(c[a], ReadField, kinds, a, b) = c[b]
    BY <2>1, SomeFieldIs
  <2>3. Some(c[a], ReadField, kinds, Short * (part - 1), b) = c[b]
    BY <2>1, <2>2
  <2> QED
    BY <2>3 DEF a, b
<1>4. Is(F)
  <2>1. ASSUME NEW part \in 0 .. K
        PROVE  F[part] = IF part = 0 THEN Given(r, <<>>)
                         ELSE Some(F[part - 1], ReadField, kinds, Short * (part - 1), EndOf(part, n))
    <3>1. CASE part = 0
      BY <1>2, <3>1
    <3>2. CASE part # 0
      <4>1. part \in 1 .. K /\ part - 1 \in 0 .. K
        BY <1>2, <3>2
      <4>2. F[part] = c[EndOf(part, n)] /\ F[part - 1] = c[EndOf(part - 1, n)]
        BY <4>1
      <4> HIDE DEF F
      <4> QED
        BY <1>3, <3>2, <4>1, <4>2
    <3> QED
      BY <3>1, <3>2
  <2> QED
    BY <2>1
<1>5. Is(upto)
  <2> HIDE DEF F, Is
  <2> QED
    BY <1>4
<1> HIDE DEF upto
<1>6. \A part \in 0 .. K : upto[part] = IF part = 0 THEN Given(r, <<>>)
                                        ELSE Some(upto[part - 1], ReadField, kinds, Short * (part - 1), EndOf(part, n))
  BY <1>5
<1> HIDE DEF Is, F
<1>7. D(0)
  BY <1>2, <1>6
<1>8. ASSUME NEW i \in Nat, D(i)
      PROVE  D(i + 1)
  <2> SUFFICES ASSUME i + 1 <= K PROVE upto[i + 1] = c[EndOf(i + 1, n)]
    OBVIOUS
  <2>1. i + 1 \in 0 .. K /\ i + 1 \in 1 .. K /\ i + 1 # 0 /\ (i + 1) - 1 = i /\ i <= K
    BY <1>2
  <2>2. upto[i + 1] = Some(upto[i], ReadField, kinds, Short * ((i + 1) - 1), EndOf(i + 1, n))
    BY <1>6, <2>1
  <2>3. c[EndOf(i + 1, n)] = Some(c[EndOf(i, n)], ReadField, kinds, Short * ((i + 1) - 1), EndOf(i + 1, n))
    BY <1>3, <2>1
  <2> QED
    BY <1>8, <2>1, <2>2, <2>3
<1> HIDE DEF D
<1>9. Nat \subseteq S
  <2>1. 0 \in S /\ \A i \in Nat : i \in S => i + 1 \in S
    BY <1>7, <1>8
  <2> HIDE DEF S
  <2> QED
    BY <2>1, SetInduction
<1>10. D(K)
  BY <1>2, <1>9
<1>11. upto[K] = c[n]
  BY <1>2, <1>10 DEF D
<1> QED
  BY <1>1, <1>11 DEF n

LEMMA FieldsConveyed ==
  ASSUME NEW f \in Files, NEW p \in Places(f), NEW u, NEW kinds, NEW seqs \in Seq(Seq(Int)), NEW V, NEW vals \in Seq(V),
         Len(kinds) = Len(seqs), Len(vals) = Len(seqs),
         \A k \in 1 .. Len(seqs) : \A q \in Places(f) : \A v :
           Conveys(f, q, seqs[k], ReadField(ReadTo(f, q, v), kinds[k]), vals[k])
  PROVE  Conveys(f, p, Flat(seqs), ReadEach(ReadTo(f, p, u), ReadField, kinds), vals)
<1> DEFINE N == Len(seqs)
           got == ReadEach(ReadTo(f, p, u), ReadField, kinds)
<1>0. N \in Nat
  OBVIOUS
<1>1. PICK P : IsJoined(P, seqs, Int)
  BY JoinedExists
<1>2. Flat(seqs) = P[N]
  BY <1>1, FlatJoins
<1> DEFINE before(k) == ReadTo(f, p + Len(P[k]), SubSeq(vals, 1, k))
           g == [k \in 1 .. N |-> ReadField(before(k - 1), kinds[k])]
<1>3. ASSUME NEW k \in 0 .. N - 1
      PROVE  g[k + 1] = ReadField(before(k), kinds[k + 1])
  <2>1. k + 1 \in 1 .. N /\ (k + 1) - 1 = k
    BY <1>0
  <2> HIDE DEF before
  <2> QED
    BY <2>1
<1>4. ASSUME NEW k \in 0 .. N - 1, p + Len(P[k]) \in Places(f)
      PROVE  Conveys(f, p + Len(P[k]), seqs[k + 1], g[k + 1], vals[k + 1])
  <2>1. k + 1 \in 1 .. N
    BY <1>0
  <2> HIDE DEF g
  <2> QED
    BY <1>3, <1>4, <2>1
<1>5. ASSUME Matches(f, p, P[N]) \/ CutOff(f, p, P[N])
      PROVE  Conveys(f, p, P[N], got, vals)
  <2> HIDE DEF g
  <2>1. PICK c : IsGathered(c, f, p, P, vals, g, N) /\ Conveys(f, p, P[N], c[N], vals)
    BY <1>1, <1>4, <1>5, GatheredConveyed
  <2>2. c[0] = ReadTo(f, p, <<>>)
    BY <2>1 DEF IsGathered
  <2>3. ASSUME NEW k \in 0 .. N - 1
        PROVE  c[k + 1] = IF c[k].ok THEN Gathered(c[k], ReadField(c[k], kinds[k + 1])) ELSE c[k]
    <3>1. \/ c[k] = before(k) /\ c[k + 1] = Gathered(c[k], g[k + 1])
          \/ ~ c[k].ok /\ c[k + 1] = c[k]
      BY <2>1 DEF IsGathered
    <3>2. before(k).ok
      BY AtIs
    <3> HIDE DEF before
    <3> QED
      BY <1>3, <3>1, <3>2
  <2>4. got = c[Len(kinds)]
    <3>1. Len(kinds) \in Nat /\ c[0] = Given(ReadTo(f, p, u), <<>>)
      BY <2>2, GivenIs
    <3> QED
      BY <2>3, <3>1, EachFieldIs
  <2> QED
    BY <2>1, <2>4
<1>6. Conveys(f, p, P[N], got, vals)
  BY <1>5 DEF Conveys
<1> QED
  BY <1>2, <1>6

-----------------------------------------------------------------------------
(* What is made up of fields.                                                  *)

FieldKinds == {"operand", "count", "word", "name"}
FieldSet(kind) == CASE kind = "operand" -> Int [] kind = "count" -> Nat [] kind = "word" -> Int32 [] kind = "name" -> NameSet
FieldBytes(kind, x) ==
  CASE kind \in {"operand", "count"} -> WriteOp(x) [] kind = "word" -> WriteWord(x) [] kind = "name" -> WriteName(x)

LEMMA FieldConveyed ==
  ASSUME NEW f \in Files, NEW p \in Places(f), NEW u, NEW kind \in FieldKinds, NEW x \in FieldSet(kind)
  PROVE  FieldBytes(kind, x) \in Seq(Int) /\ Conveys(f, p, FieldBytes(kind, x), ReadField(ReadTo(f, p, u), kind), x)
<1> DEFINE r == ReadTo(f, p, u)
<1>1. CASE kind = "operand"
  <2>1. x \in Int /\ FieldBytes(kind, x) = WriteOp(x) /\ ReadField(r, kind) = ReadOperand(r)
    BY <1>1 DEF FieldSet, FieldBytes, ReadField
  <2> QED
    BY <2>1, OperandConveyed
<1>2. CASE kind = "count"
  <2>1. x \in Nat /\ FieldBytes(kind, x) = WriteOp(x) /\ ReadField(r, kind) = ReadCount(r)
    BY <1>2 DEF FieldSet, FieldBytes, ReadField
  <2> QED
    BY <2>1, CountConveyed
<1>3. CASE kind = "word"
  <2>1. x \in Int32 /\ FieldBytes(kind, x) = WriteWord(x) /\ ReadField(r, kind) = ReadWord(r)
    BY <1>3 DEF FieldSet, FieldBytes, ReadField
  <2> QED
    BY <2>1, WordConveyed
<1>4. CASE kind = "name"
  <2>1. x \in NameSet /\ FieldBytes(kind, x) = WriteName(x) /\ ReadField(r, kind) = ReadName(r)
    BY <1>4 DEF FieldSet, FieldBytes, ReadField
  <2> QED
    BY <2>1, NameConveyed
<1> QED
  BY <1>1, <1>2, <1>3, <1>4 DEF FieldKinds

LEMMA FieldBytesAre ==
  ASSUME NEW kind \in FieldKinds, NEW x \in FieldSet(kind)
  PROVE  FieldBytes(kind, x) \in Seq(Int)
<1>1. <<>> \in Files /\ 1 \in Places(<<>>)
  BY DEF Files, Places
<1> QED
  BY <1>1, FieldConveyed

LEMMA RecordConveyed ==
  ASSUME NEW f \in Files, NEW p \in Places(f), NEW u, NEW kinds \in Seq(FieldKinds), NEW V, NEW vals \in Seq(V), NEW seqs,
         Len(vals) = Len(kinds), DOMAIN seqs = 1 .. Len(kinds), seqs = [k \in DOMAIN seqs |-> seqs[k]],
         \A k \in 1 .. Len(kinds) : vals[k] \in FieldSet(kinds[k]) /\ seqs[k] = FieldBytes(kinds[k], vals[k])
  PROVE  Flat(seqs) \in Seq(Int) /\ Conveys(f, p, Flat(seqs), ReadEach(ReadTo(f, p, u), ReadField, kinds), vals)
<1>1. seqs \in Seq(Seq(Int)) /\ Len(seqs) = Len(kinds)
  <2>1. \A k \in 1 .. Len(kinds) : seqs[k] \in Seq(Int)
    BY FieldBytesAre
  <2>2. seqs \in [1 .. Len(kinds) -> Seq(Int)]
    BY <2>1
  <2> QED
    BY <2>2, FunctionIsSeq
<1>2. \A k \in 1 .. Len(seqs) : \A q \in Places(f) : \A v :
        Conveys(f, q, seqs[k], ReadField(ReadTo(f, q, v), kinds[k]), vals[k])
  <2> SUFFICES ASSUME NEW k \in 1 .. Len(seqs), NEW q \in Places(f), NEW v
               PROVE  Conveys(f, q, seqs[k], ReadField(ReadTo(f, q, v), kinds[k]), vals[k])
    OBVIOUS
  <2>1. kinds[k] \in FieldKinds /\ vals[k] \in FieldSet(kinds[k]) /\ seqs[k] = FieldBytes(kinds[k], vals[k])
    BY <1>1
  <2> QED
    BY <2>1, FieldConveyed
<1>3. Conveys(f, p, Flat(seqs), ReadEach(ReadTo(f, p, u), ReadField, kinds), vals)
  BY <1>1, <1>2, FieldsConveyed
<1>4. Flat(seqs) \in Seq(Int)
  BY <1>1, JoinedExists, FlatJoins
<1> QED
  BY <1>3, <1>4

LEMMA FlatIsSeq ==
  ASSUME NEW seqs \in Seq(Seq(Int))
  PROVE  Flat(seqs) \in Seq(Int)
BY JoinedExists, FlatJoins

\* What every operand, value, function and case is to its reader.
PartSet(kind) ==
  CASE kind = "wide" -> [1 .. 2 -> Int32] [] kind = "function" -> FunctionSet
    [] kind = "case" -> {c \in CaseSet : c.name # NoName} [] OTHER -> {o \in OperandSet : o.mode = kind}
PartBytes(kind, x) ==
  CASE kind = "wide" -> WriteWide(x) [] kind = "function" -> WriteFunction(x) [] kind = "case" -> WriteCase(x)
    [] OTHER -> WriteOperand(x)
PartKinds == {"wide", "function", "case"} \cup OneNumber \cup TwoNumbers \cup {"none"}

LEMMA WideConveyed ==
  ASSUME NEW f \in Files, NEW p \in Places(f), NEW u, NEW x \in [1 .. 2 -> Int32]
  PROVE  WriteWide(x) \in Seq(Int) /\ Conveys(f, p, WriteWide(x), ReadWide(ReadTo(f, p, u)), x)
<1> DEFINE kinds == <<"word", "word">>
           seqs == [n \in DOMAIN x |-> WriteWord(x[n])]
<1>1. kinds \in Seq(FieldKinds) /\ Len(kinds) = 2 /\ \A k \in 1 .. 2 : kinds[k] = "word"
  BY DEF FieldKinds
<1>2. x \in Seq(Int32) /\ Len(x) = 2 /\ \A k \in 1 .. 2 : x[k] \in Int32
  BY FunctionIsSeq
<1>3. DOMAIN seqs = 1 .. 2 /\ seqs = [k \in DOMAIN seqs |-> seqs[k]] /\ \A k \in 1 .. 2 : seqs[k] = WriteWord(x[k])
  OBVIOUS
<1>4. WriteWide(x) = Flat(seqs) /\ ReadWide(ReadTo(f, p, u)) = ReadEach(ReadTo(f, p, u), ReadField, kinds)
  BY DEF WriteWide, ReadWide, Each
<1> HIDE DEF kinds, seqs
<1>5. \A k \in 1 .. 2 : x[k] \in FieldSet(kinds[k]) /\ seqs[k] = FieldBytes(kinds[k], x[k])
  BY <1>1, <1>2, <1>3 DEF FieldSet, FieldBytes
<1>6. Flat(seqs) \in Seq(Int) /\ Conveys(f, p, Flat(seqs), ReadEach(ReadTo(f, p, u), ReadField, kinds), x)
  BY <1>1, <1>2, <1>3, <1>5, RecordConveyed
<1> QED
  BY <1>4, <1>6

LEMMA TwoFieldsConveyed ==
  ASSUME NEW f \in Files, NEW p \in Places(f), NEW u, NEW k1 \in FieldKinds, NEW k2 \in FieldKinds,
         NEW x1 \in FieldSet(k1), NEW x2 \in FieldSet(k2), NEW bytes, bytes = Flat(<<FieldBytes(k1, x1), FieldBytes(k2, x2)>>)
  PROVE  bytes \in Seq(Int) /\ Conveys(f, p, bytes, ReadEach(ReadTo(f, p, u), ReadField, <<k1, k2>>), <<x1, x2>>)
<1> DEFINE kinds == <<k1, k2>>
           vals == <<x1, x2>>
           seqs == <<FieldBytes(k1, x1), FieldBytes(k2, x2)>>
<1>1. kinds \in Seq(FieldKinds) /\ Len(kinds) = 2 /\ kinds[1] = k1 /\ kinds[2] = k2
  OBVIOUS
<1>2. vals \in Seq({x1, x2}) /\ Len(vals) = 2 /\ vals[1] = x1 /\ vals[2] = x2
  OBVIOUS
<1>3. DOMAIN seqs = 1 .. 2 /\ seqs = [k \in DOMAIN seqs |-> seqs[k]] /\ seqs[1] = FieldBytes(k1, x1) /\ seqs[2] = FieldBytes(k2, x2)
  OBVIOUS
<1> HIDE DEF kinds, vals, seqs
<1>4. \A k \in 1 .. 2 : vals[k] \in FieldSet(kinds[k]) /\ seqs[k] = FieldBytes(kinds[k], vals[k])
  BY <1>1, <1>2, <1>3
<1>5. Flat(seqs) \in Seq(Int) /\ Conveys(f, p, Flat(seqs), ReadEach(ReadTo(f, p, u), ReadField, kinds), vals)
  BY <1>1, <1>2, <1>3, <1>4, RecordConveyed
<1> QED
  BY <1>5 DEF kinds, vals, seqs

LEMMA FunctionConveyed ==
  ASSUME NEW f \in Files, NEW p \in Places(f), NEW u, NEW x \in FunctionSet
  PROVE  WriteFunction(x) \in Seq(Int) /\ Conveys(f, p, WriteFunction(x), ReadFunction(ReadTo(f, p, u)), x)
<1> DEFINE s == WriteFunction(x)
           mid == ReadEach(ReadTo(f, p, u), ReadField, <<"word", "name">>)
           got == FunctionOf(mid)
           y == <<x.sig, x.name>>
<1>1. x.sig \in Int32 /\ x.name \in NameSet /\ x = [sig |-> x.sig, name |-> x.name]
  BY DEF FunctionSet
<1>2. "word" \in FieldKinds /\ "name" \in FieldKinds /\ x.sig \in FieldSet("word") /\ x.name \in FieldSet("name")
  BY <1>1 DEF FieldKinds, FieldSet
<1>3. s = Flat(<<FieldBytes("word", x.sig), FieldBytes("name", x.name)>>)
  BY DEF WriteFunction, FieldBytes
<1> HIDE DEF s
<1>4. s \in Seq(Int) /\ Conveys(f, p, s, mid, y)
  BY <1>2, <1>3, TwoFieldsConveyed
<1>5. ReadFunction(ReadTo(f, p, u)) = got
  BY DEF ReadFunction
<1> HIDE DEF mid
<1>6. ASSUME NEW q \in Places(f), mid = ReadTo(f, q, y)
      PROVE  got = ReadTo(f, q, x)
  <2>1. mid.val[1] = x.sig /\ mid.val[2] = x.name
    BY <1>6, AtIs
  <2>2. got = Given(ReadTo(f, q, y), x)
    BY <1>1, <1>6, <2>1 DEF FunctionOf
  <2> QED
    BY <2>2, GivenIs
<1>7. ~ mid.ok => ~ got.ok
  BY GivenIs DEF FunctionOf
<1> HIDE DEF got, y
<1>8. Conveys(f, p, s, got, x)
  BY <1>4, <1>6, <1>7, Afterwards
<1> QED
  BY <1>4, <1>5, <1>8 DEF s

LEMMA CaseConveyed ==
  ASSUME NEW f \in Files, NEW p \in Places(f), NEW u, NEW x \in CaseSet, x.name # NoName
  PROVE  WriteCase(x) \in Seq(Int) /\ Conveys(f, p, WriteCase(x), ReadCase(ReadTo(f, p, u)), x)
<1> DEFINE s == WriteCase(x)
           mid == ReadEach(ReadTo(f, p, u), ReadField, <<"name", "operand">>)
           got == CaseFrom(mid)
           y == <<x.name, x.pc>>
<1>1. x.pc \in Int /\ x.name \in NameSet /\ x = [name |-> x.name, pc |-> x.pc]
  BY DEF CaseSet
<1>2. "operand" \in FieldKinds /\ "name" \in FieldKinds /\ x.pc \in FieldSet("operand") /\ x.name \in FieldSet("name")
  BY <1>1 DEF FieldKinds, FieldSet
<1>3. s = Flat(<<FieldBytes("name", x.name), FieldBytes("operand", x.pc)>>)
  BY DEF WriteCase, FieldBytes
<1> HIDE DEF s
<1>4. s \in Seq(Int) /\ Conveys(f, p, s, mid, y)
  BY <1>2, <1>3, TwoFieldsConveyed
<1>5. ReadCase(ReadTo(f, p, u)) = got
  BY DEF ReadCase
<1> HIDE DEF mid
<1>6. ASSUME NEW q \in Places(f), mid = ReadTo(f, q, y)
      PROVE  got = ReadTo(f, q, x)
  <2>1. mid.val[1] = x.name /\ mid.val[2] = x.pc
    BY <1>6, AtIs
  <2>2. got = Given(ReadTo(f, q, y), x)
    BY <1>1, <1>6, <2>1 DEF CaseFrom
  <2> QED
    BY <2>2, GivenIs
<1>7. ~ mid.ok => ~ got.ok
  BY GivenIs DEF CaseFrom
<1> HIDE DEF got, y
<1>8. Conveys(f, p, s, got, x)
  BY <1>4, <1>6, <1>7, Afterwards
<1> QED
  BY <1>4, <1>5, <1>8 DEF s

\* An operand as its mode has it: of no number, of one or of two.
LEMMA OperandOfConveyed ==
  ASSUME NEW f \in Files, NEW p \in Places(f), NEW u, NEW x \in OperandSet
  PROVE  WriteOperand(x) \in Seq(Int) /\ Conveys(f, p, WriteOperand(x), ReadOperandOf(ReadTo(f, p, u), x.mode), x)
<1> DEFINE r == ReadTo(f, p, u)
           s == WriteOperand(x)
           got == ReadOperandOf(r, x.mode)
<1>1. CASE x = UnusedOperand
  <2>1. x.mode = "none"
    BY <1>1 DEF UnusedOperand, Operand
  <2>2. s = <<>> /\ got = Given(r, UnusedOperand)
    BY <2>1 DEF WriteOperand, ReadOperandOf, OneNumber, TwoNumbers
  <2>3. got = ReadTo(f, p, x)
    BY <1>1, <2>2, GivenIs
  <2> QED
    BY <2>2, <2>3, NothingConveyed
<1>2. CASE x \in [mode : OneNumber, at : Int, off : {0}]
  <2> DEFINE mid == ReadOperand(r)
  <2>1. x.mode \in OneNumber /\ x.at \in Int /\ x = Operand(x.mode, x.at, 0)
    BY <1>2 DEF Operand
  <2>2. x.mode # "none" /\ x.mode \notin TwoNumbers /\ x.mode # "reserved"
    BY <2>1 DEF OneNumber, TwoNumbers
  <2>3. s = WriteOp(x.at) /\ got = OneOperand(mid, x.mode)
    BY <2>1, <2>2 DEF WriteOperand, ReadOperandOf
  <2>4. s \in Seq(Int) /\ Conveys(f, p, s, mid, x.at)
    BY <2>1, <2>3, OperandConveyed
  <2> HIDE DEF mid, s, got
  <2>5. \A q \in Places(f) : mid = ReadTo(f, q, x.at) => got = ReadTo(f, q, x)
    BY <2>1, <2>3, AtIs, GivenIs DEF OneOperand
  <2>6. ~ mid.ok => ~ got.ok
    BY <2>3, GivenIs DEF OneOperand
  <2>7. Conveys(f, p, s, got, x)
    BY <2>4, <2>5, <2>6, Afterwards
  <2> QED
    BY <2>4, <2>7 DEF s, got
<1>3. CASE x \in [mode : TwoNumbers, at : Int, off : Int]
  <2> DEFINE mid == ReadEach(r, ReadField, <<"operand", "operand">>)
             y == <<x.at, x.off>>
  <2>1. x.mode \in TwoNumbers /\ x.at \in Int /\ x.off \in Int /\ x = Operand(x.mode, x.at, x.off)
    BY <1>3 DEF Operand
  <2>2. x.mode # "none" /\ x.mode \notin OneNumber /\ x.mode # "reserved"
    BY <2>1 DEF OneNumber, TwoNumbers
  <2>3. s = Each(WriteOp, <<x.at, x.off>>) /\ got = TwoOperands(mid, x.mode)
    BY <2>1, <2>2 DEF WriteOperand, ReadOperandOf
  <2>4. Each(WriteOp, <<x.at, x.off>>) = Flat(<<FieldBytes("operand", x.at), FieldBytes("operand", x.off)>>)
    <3>1. [n \in DOMAIN <<x.at, x.off>> |-> WriteOp(<<x.at, x.off>>[n])] = <<WriteOp(x.at), WriteOp(x.off)>>
      OBVIOUS
    <3>2. FieldBytes("operand", x.at) = WriteOp(x.at) /\ FieldBytes("operand", x.off) = WriteOp(x.off)
      BY DEF FieldBytes
    <3> QED
      BY <3>1, <3>2 DEF Each
  <2>5. "operand" \in FieldKinds /\ x.at \in FieldSet("operand") /\ x.off \in FieldSet("operand")
    BY <2>1 DEF FieldKinds, FieldSet
  <2>6. s \in Seq(Int) /\ Conveys(f, p, s, mid, y)
    BY <2>3, <2>4, <2>5, TwoFieldsConveyed
  <2> HIDE DEF mid, s, got
  <2>7. ASSUME NEW q \in Places(f), mid = ReadTo(f, q, y)
        PROVE  got = ReadTo(f, q, x)
    <3>1. mid.val[1] = x.at /\ mid.val[2] = x.off
      BY <2>7, AtIs
    <3> QED
      BY <2>1, <2>3, <2>7, <3>1, GivenIs DEF TwoOperands
  <2>8. ~ mid.ok => ~ got.ok
    BY <2>3, GivenIs DEF TwoOperands
  <2> HIDE DEF y
  <2>9. Conveys(f, p, s, got, x)
    BY <2>6, <2>7, <2>8, Afterwards
  <2> QED
    BY <2>6, <2>9 DEF s, got
<1> QED
  BY <1>1, <1>2, <1>3 DEF OperandSet

LEMMA PartConveyed ==
  ASSUME NEW f \in Files, NEW p \in Places(f), NEW u, NEW kind \in PartKinds, NEW x \in PartSet(kind)
  PROVE  PartBytes(kind, x) \in Seq(Int) /\ Conveys(f, p, PartBytes(kind, x), ReadPart(ReadTo(f, p, u), kind), x)
<1> DEFINE r == ReadTo(f, p, u)
<1>1. CASE kind = "wide"
  <2>1. x \in [1 .. 2 -> Int32] /\ PartBytes(kind, x) = WriteWide(x) /\ ReadPart(r, kind) = ReadWide(r)
    BY <1>1 DEF PartSet, PartBytes, ReadPart
  <2> QED
    BY <2>1, WideConveyed
<1>2. CASE kind = "function"
  <2>1. x \in FunctionSet /\ PartBytes(kind, x) = WriteFunction(x) /\ ReadPart(r, kind) = ReadFunction(r)
    BY <1>2 DEF PartSet, PartBytes, ReadPart
  <2> QED
    BY <2>1, FunctionConveyed
<1>3. CASE kind = "case"
  <2>1. x \in CaseSet /\ x.name # NoName /\ PartBytes(kind, x) = WriteCase(x) /\ ReadPart(r, kind) = ReadCase(r)
    BY <1>3 DEF PartSet, PartBytes, ReadPart
  <2> QED
    BY <2>1, CaseConveyed
<1>4. CASE kind \notin {"wide", "function", "case"}
  <2>1. x \in OperandSet /\ x.mode = kind /\ PartBytes(kind, x) = WriteOperand(x) /\ ReadPart(r, kind) = ReadOperandOf(r, kind)
    BY <1>4 DEF PartSet, PartBytes, ReadPart
  <2> QED
    BY <2>1, OperandOfConveyed
<1> QED
  BY <1>1, <1>2, <1>3, <1>4

LEMMA SomePartIs ==
  ASSUME NEW kinds, Len(kinds) \in Nat, NEW c,
         \A k \in 0 .. Len(kinds) - 1 :
           c[k + 1] = IF c[k].ok THEN Gathered(c[k], ReadPart(c[k], kinds[k + 1])) ELSE c[k],
         NEW b \in 0 .. Len(kinds), NEW a \in 0 .. b
  PROVE  Some(c[a], ReadPart, kinds, a, b) = c[b]
<1> DEFINE Is(u) == u = [n \in a .. b |-> IF n = a THEN c[a] ELSE Onward(u[n - 1], ReadPart, kinds[n])]
           upto == CHOOSE u : Is(u)
           F == [n \in a .. b |-> c[n]]
           D(i) == a + i <= b => upto[a + i] = c[a + i]
           E(i) == a + i <= b => c[a + i] = c[a]
           S == {i \in Nat : D(i)}
           T == {i \in Nat : E(i)}
<1>0. a \in Nat /\ b \in Nat /\ a <= b /\ b <= Len(kinds) /\ b - a \in Nat /\ a + (b - a) = b
  OBVIOUS
<1>1. Some(c[a], ReadPart, kinds, a, b) = IF c[a].ok THEN upto[b] ELSE c[a]
  BY DEF Some
<1>2. ASSUME NEW n \in a .. b, n # a
      PROVE  c[n] = Onward(c[n - 1], ReadPart, kinds[n])
  <2>1. n - 1 \in 0 .. Len(kinds) - 1 /\ (n - 1) + 1 = n
    BY <1>0, <1>2
  <2>2. c[(n - 1) + 1] = IF c[n - 1].ok THEN Gathered(c[n - 1], ReadPart(c[n - 1], kinds[(n - 1) + 1])) ELSE c[n - 1]
    BY <2>1
  <2> QED
    BY <2>1, <2>2 DEF Onward
<1>3. CASE c[a].ok
  <2>1. ASSUME NEW n \in a .. b
        PROVE  F[n] = IF n = a THEN c[a] ELSE Onward(F[n - 1], ReadPart, kinds[n])
    <3>1. CASE n = a
      BY <3>1
    <3>2. CASE n # a
      <4>1. n - 1 \in a .. b
        BY <1>0, <3>2
      <4>2. F[n] = c[n] /\ F[n - 1] = c[n - 1]
        BY <4>1
      <4> HIDE DEF F
      <4> QED
        BY <1>2, <3>2, <4>2
    <3> QED
      BY <3>1, <3>2
  <2>2. Is(F)
    BY <2>1
  <2>3. Is(upto)
    <3> HIDE DEF F, Is
    <3> QED
      BY <2>2
  <2> HIDE DEF upto
  <2>4. \A n \in a .. b : upto[n] = IF n = a THEN c[a] ELSE Onward(upto[n - 1], ReadPart, kinds[n])
    BY <2>3
  <2> HIDE DEF Is, F
  <2>5. D(0)
    BY <1>0, <2>4
  <2>6. ASSUME NEW i \in Nat, D(i)
        PROVE  D(i + 1)
    <3> SUFFICES ASSUME a + (i + 1) <= b PROVE upto[a + (i + 1)] = c[a + (i + 1)]
      OBVIOUS
    <3>1. a + (i + 1) \in a .. b /\ a + (i + 1) # a /\ a + (i + 1) - 1 = a + i /\ a + i <= b
      BY <1>0
    <3>2. upto[a + (i + 1)] = Onward(upto[a + i], ReadPart, kinds[a + (i + 1)])
      BY <2>4, <3>1
    <3>3. c[a + (i + 1)] = Onward(c[a + i], ReadPart, kinds[a + (i + 1)])
      BY <1>2, <3>1
    <3> QED
      BY <2>6, <3>1, <3>2, <3>3
  <2> HIDE DEF D
  <2>7. Nat \subseteq S
    <3>1. 0 \in S /\ \A i \in Nat : i \in S => i + 1 \in S
      BY <2>5, <2>6
    <3> HIDE DEF S
    <3> QED
      BY <3>1, SetInduction
  <2>8. D(b - a)
    BY <1>0, <2>7
  <2>9. upto[b] = c[b]
    BY <1>0, <2>8 DEF D
  <2> QED
    BY <1>1, <1>3, <2>9
<1>4. CASE ~ c[a].ok
  <2> HIDE DEF upto, Is, F, D
  <2>1. E(0)
    BY <1>0
  <2>2. ASSUME NEW i \in Nat, E(i)
        PROVE  E(i + 1)
    <3> SUFFICES ASSUME a + (i + 1) <= b PROVE c[a + (i + 1)] = c[a]
      OBVIOUS
    <3>1. a + i \in 0 .. Len(kinds) - 1 /\ (a + i) + 1 = a + (i + 1) /\ a + i <= b
      BY <1>0
    <3>2. c[a + i] = c[a]
      BY <2>2, <3>1
    <3>3. c[(a + i) + 1] = IF c[a + i].ok THEN Gathered(c[a + i], ReadPart(c[a + i], kinds[(a + i) + 1])) ELSE c[a + i]
      BY <3>1
    <3> QED
      BY <1>4, <3>1, <3>2, <3>3
  <2> HIDE DEF E
  <2>3. Nat \subseteq T
    <3>1. 0 \in T /\ \A i \in Nat : i \in T => i + 1 \in T
      BY <2>1, <2>2
    <3> HIDE DEF T
    <3> QED
      BY <3>1, SetInduction
  <2>4. E(b - a)
    BY <1>0, <2>3
  <2>5. c[b] = c[a]
    BY <1>0, <2>4 DEF E
  <2> QED
    BY <1>1, <1>4, <2>5
<1> QED
  BY <1>3, <1>4

LEMMA EachPartIs ==
  ASSUME NEW r, NEW kinds, Len(kinds) \in Nat, NEW c, c[0] = Given(r, <<>>),
         \A k \in 0 .. Len(kinds) - 1 :
           c[k + 1] = IF c[k].ok THEN Gathered(c[k], ReadPart(c[k], kinds[k + 1])) ELSE c[k]
  PROVE  ReadEach(r, ReadPart, kinds) = c[Len(kinds)]
<1> DEFINE n == Len(kinds)
           K == Parts(n)
           Is(u) == u = [part \in 0 .. K |-> IF part = 0 THEN Given(r, <<>>)
                                             ELSE Some(u[part - 1], ReadPart, kinds, Short * (part - 1), EndOf(part, n))]
           upto == CHOOSE u : Is(u)
           F == [part \in 0 .. K |-> c[EndOf(part, n)]]
           D(i) == i <= K => upto[i] = c[EndOf(i, n)]
           S == {i \in Nat : D(i)}
<1>0. n \in Nat
  OBVIOUS
<1>1. ReadEach(r, ReadPart, kinds) = upto[K]
  BY DEF ReadEach
<1>2. /\ K \in Nat /\ EndOf(0, n) = 0 /\ EndOf(K, n) = n
      /\ \A part \in 1 .. K : /\ EndOf(part - 1, n) = Short * (part - 1) /\ EndOf(part - 1, n) \in 0 .. EndOf(part, n)
                              /\ EndOf(part, n) \in 0 .. n
  BY <1>0, PartsOf
<1> HIDE DEF n, K
<1>3. ASSUME NEW part \in 1 .. K
      PROVE  c[EndOf(part, n)] = Some(c[EndOf(part - 1, n)], ReadPart, kinds, Short * (part - 1), EndOf(part, n))
  <2> DEFINE a == EndOf(part - 1, n)
             b == EndOf(part, n)
  <2>1. b \in 0 .. Len(kinds) /\ a \in 0 .. b /\ a = Short * (part - 1)
    BY <1>2 DEF n
  <2> HIDE DEF a, b
  <2>2. Some(c[a], ReadPart, kinds, a, b) = c[b]
    BY <2>1, SomePartIs
  <2>3. Some(c[a], ReadPart, kinds, Short * (part - 1), b) = c[b]
    BY <2>1, <2>2
  <2> QED
    BY <2>3 DEF a, b
<1>4. Is(F)
  <2>1. ASSUME NEW part \in 0 .. K
        PROVE  F[part] = IF part = 0 THEN Given(r, <<>>)
                         ELSE Some(F[part - 1], ReadPart, kinds, Short * (part - 1), EndOf(part, n))
    <3>1. CASE part = 0
      BY <1>2, <3>1
    <3>2. CASE part # 0
      <4>1. part \in 1 .. K /\ part - 1 \in 0 .. K
        BY <1>2, <3>2
      <4>2. F[part] = c[EndOf(part, n)] /\ F[part - 1] = c[EndOf(part - 1, n)]
        BY <4>1
      <4> HIDE DEF F
      <4> QED
        BY <1>3, <3>2, <4>1, <4>2
    <3> QED
      BY <3>1, <3>2
  <2> QED
    BY <2>1
<1>5. Is(upto)
  <2> HIDE DEF F, Is
  <2> QED
    BY <1>4
<1> HIDE DEF upto
<1>6. \A part \in 0 .. K : upto[part] = IF part = 0 THEN Given(r, <<>>)
                                        ELSE Some(upto[part - 1], ReadPart, kinds, Short * (part - 1), EndOf(part, n))
  BY <1>5
<1> HIDE DEF Is, F
<1>7. D(0)
  BY <1>2, <1>6
<1>8. ASSUME NEW i \in Nat, D(i)
      PROVE  D(i + 1)
  <2> SUFFICES ASSUME i + 1 <= K PROVE upto[i + 1] = c[EndOf(i + 1, n)]
    OBVIOUS
  <2>1. i + 1 \in 0 .. K /\ i + 1 \in 1 .. K /\ i + 1 # 0 /\ (i + 1) - 1 = i /\ i <= K
    BY <1>2
  <2>2. upto[i + 1] = Some(upto[i], ReadPart, kinds, Short * ((i + 1) - 1), EndOf(i + 1, n))
    BY <1>6, <2>1
  <2>3. c[EndOf(i + 1, n)] = Some(c[EndOf(i, n)], ReadPart, kinds, Short * ((i + 1) - 1), EndOf(i + 1, n))
    BY <1>3, <2>1
  <2> QED
    BY <1>8, <2>1, <2>2, <2>3
<1> HIDE DEF D
<1>9. Nat \subseteq S
  <2>1. 0 \in S /\ \A i \in Nat : i \in S => i + 1 \in S
    BY <1>7, <1>8
  <2> HIDE DEF S
  <2> QED
    BY <2>1, SetInduction
<1>10. D(K)
  BY <1>2, <1>9
<1>11. upto[K] = c[n]
  BY <1>2, <1>10 DEF D
<1> QED
  BY <1>1, <1>11 DEF n

LEMMA PartsConveyed ==
  ASSUME NEW f \in Files, NEW p \in Places(f), NEW u, NEW kinds, NEW seqs \in Seq(Seq(Int)), NEW V, NEW vals \in Seq(V),
         Len(kinds) = Len(seqs), Len(vals) = Len(seqs),
         \A k \in 1 .. Len(seqs) : \A q \in Places(f) : \A v :
           Conveys(f, q, seqs[k], ReadPart(ReadTo(f, q, v), kinds[k]), vals[k])
  PROVE  Conveys(f, p, Flat(seqs), ReadEach(ReadTo(f, p, u), ReadPart, kinds), vals)
<1> DEFINE N == Len(seqs)
           got == ReadEach(ReadTo(f, p, u), ReadPart, kinds)
<1>0. N \in Nat
  OBVIOUS
<1>1. PICK P : IsJoined(P, seqs, Int)
  BY JoinedExists
<1>2. Flat(seqs) = P[N]
  BY <1>1, FlatJoins
<1> DEFINE before(k) == ReadTo(f, p + Len(P[k]), SubSeq(vals, 1, k))
           g == [k \in 1 .. N |-> ReadPart(before(k - 1), kinds[k])]
<1>3. ASSUME NEW k \in 0 .. N - 1
      PROVE  g[k + 1] = ReadPart(before(k), kinds[k + 1])
  <2>1. k + 1 \in 1 .. N /\ (k + 1) - 1 = k
    BY <1>0
  <2> HIDE DEF before
  <2> QED
    BY <2>1
<1>4. ASSUME NEW k \in 0 .. N - 1, p + Len(P[k]) \in Places(f)
      PROVE  Conveys(f, p + Len(P[k]), seqs[k + 1], g[k + 1], vals[k + 1])
  <2>1. k + 1 \in 1 .. N
    BY <1>0
  <2> HIDE DEF g
  <2> QED
    BY <1>3, <1>4, <2>1
<1>5. ASSUME Matches(f, p, P[N]) \/ CutOff(f, p, P[N])
      PROVE  Conveys(f, p, P[N], got, vals)
  <2> HIDE DEF g
  <2>1. PICK c : IsGathered(c, f, p, P, vals, g, N) /\ Conveys(f, p, P[N], c[N], vals)
    BY <1>1, <1>4, <1>5, GatheredConveyed
  <2>2. c[0] = ReadTo(f, p, <<>>)
    BY <2>1 DEF IsGathered
  <2>3. ASSUME NEW k \in 0 .. N - 1
        PROVE  c[k + 1] = IF c[k].ok THEN Gathered(c[k], ReadPart(c[k], kinds[k + 1])) ELSE c[k]
    <3>1. \/ c[k] = before(k) /\ c[k + 1] = Gathered(c[k], g[k + 1])
          \/ ~ c[k].ok /\ c[k + 1] = c[k]
      BY <2>1 DEF IsGathered
    <3>2. before(k).ok
      BY AtIs
    <3> HIDE DEF before
    <3> QED
      BY <1>3, <3>1, <3>2
  <2>4. got = c[Len(kinds)]
    <3>1. Len(kinds) \in Nat /\ c[0] = Given(ReadTo(f, p, u), <<>>)
      BY <2>2, GivenIs
    <3> QED
      BY <2>3, <3>1, EachPartIs
  <2> QED
    BY <2>1, <2>4
<1>6. Conveys(f, p, P[N], got, vals)
  BY <1>5 DEF Conveys
<1> QED
  BY <1>2, <1>6

-----------------------------------------------------------------------------
(* As many things as were counted.                                             *)

\* Each takes a byte at least.
LEMMA LongEnough ==
  ASSUME NEW f \in Files, NEW p \in Places(f), NEW u, NEW seqs \in Seq(Seq(Int)), \A k \in 1 .. Len(seqs) : seqs[k] # <<>>,
         Matches(f, p, Flat(seqs))
  PROVE  Len(seqs) <= Left(ReadTo(f, p, u))
<1> DEFINE N == Len(seqs)
<1>0. N \in Nat
  OBVIOUS
<1>1. PICK P : IsJoined(P, seqs, Int)
  BY JoinedExists
<1>2. Flat(seqs) = P[N]
  BY <1>1, FlatJoins
<1>3. \A k \in 0 .. N : P[k] \in Seq(Int)
  BY <1>1 DEF IsJoined
<1> DEFINE S == {k \in Nat : k <= N => Len(P[k]) >= k}
<1>4. 0 \in S
  BY <1>1 DEF IsJoined
<1>5. ASSUME NEW k \in Nat, k \in S
      PROVE  k + 1 \in S
  <2> SUFFICES ASSUME k + 1 <= N PROVE Len(P[k + 1]) >= k + 1
    OBVIOUS
  <2>1. k \in 0 .. N - 1 /\ k \in 0 .. N /\ k + 1 \in 1 .. N /\ k <= N
    BY <1>0
  <2>2. P[k + 1] = P[k] \o seqs[k + 1]
    BY <1>1, <2>1 DEF IsJoined
  <2>3. P[k] \in Seq(Int) /\ seqs[k + 1] \in Seq(Int) /\ seqs[k + 1] # <<>> /\ Len(P[k]) >= k
    BY <1>3, <1>5, <2>1
  <2>4. Len(P[k] \o seqs[k + 1]) = Len(P[k]) + Len(seqs[k + 1]) /\ Len(P[k]) \in Nat /\ Len(seqs[k + 1]) \in Nat
    BY <2>3
  <2>5. Len(seqs[k + 1]) # 0
    BY <2>3
  <2> DEFINE x == Len(P[k])
             y == Len(seqs[k + 1])
  <2>6. x \in Nat /\ y \in Nat /\ x >= k /\ y # 0 /\ Len(P[k + 1]) = x + y
    BY <2>2, <2>3, <2>4, <2>5
  <2> HIDE DEF x, y
  <2> QED
    BY <2>6
<1>6. Nat \subseteq S
  <2> HIDE DEF S
  <2> QED
    BY <1>4, <1>5, SetInduction
<1>7. Len(P[N]) >= N /\ Len(P[N]) \in Nat
  BY <1>0, <1>3, <1>6
<1>8. p + Len(P[N]) <= Len(f) + 1
  BY <1>2 DEF Matches
<1>9. Left(ReadTo(f, p, u)) = Len(f) - p + 1
  BY AtIs DEF Left
<1> QED
  BY <1>0, <1>7, <1>8, <1>9 DEF Files, Places

LEMMA ManyPartsConveyed ==
  ASSUME NEW f \in Files, NEW p \in Places(f), NEW kind \in PartKinds, NEW V, NEW vals \in Seq(V), NEW seqs,
         DOMAIN seqs = DOMAIN vals, seqs = [k \in DOMAIN seqs |-> seqs[k]],
         \A k \in 1 .. Len(vals) : /\ vals[k] \in PartSet(kind) /\ seqs[k] = PartBytes(kind, vals[k]) /\ seqs[k] # <<>>
  PROVE  /\ Flat(seqs) \in Seq(Int)
         /\ Conveys(f, p, Flat(seqs), ReadMany(ReadTo(f, p, Len(vals)), ReadPart, kind), vals)
<1> DEFINE N == Len(vals)
           r == ReadTo(f, p, N)
           kinds == [n \in 1 .. N |-> kind]
           each == ReadEach(r, ReadPart, kinds)
           got == ReadMany(r, ReadPart, kind)
<1>0. N \in Nat /\ DOMAIN vals = 1 .. N
  OBVIOUS
<1>1. seqs \in Seq(Seq(Int)) /\ Len(seqs) = N
  <2>1. <<>> \in Files /\ 1 \in Places(<<>>)
    BY DEF Files, Places
  <2>2. \A k \in 1 .. N : seqs[k] \in Seq(Int)
    BY <2>1, PartConveyed
  <2>3. seqs \in [1 .. N -> Seq(Int)]
    BY <1>0, <2>2
  <2> QED
    BY <1>0, <2>3, FunctionIsSeq
<1>2. kinds \in Seq({kind}) /\ Len(kinds) = N /\ \A k \in 1 .. N : kinds[k] = kind
  <2>1. kinds \in [1 .. N -> {kind}]
    OBVIOUS
  <2> QED
    BY <1>0, <2>1, FunctionIsSeq
<1>3. r.ok /\ r.val = N
  BY AtIs
<1>4. got = IF N \in 0 .. Left(r) THEN each ELSE Refuse(r)
  BY <1>3 DEF ReadMany
<1> HIDE DEF kinds
<1>5. Conveys(f, p, Flat(seqs), each, vals)
  <2>1. \A k \in 1 .. Len(seqs) : \A q \in Places(f) : \A v :
          Conveys(f, q, seqs[k], ReadPart(ReadTo(f, q, v), kinds[k]), vals[k])
    BY <1>1, <1>2, PartConveyed
  <2> QED
    BY <1>1, <1>2, <2>1, PartsConveyed
<1>6. Matches(f, p, Flat(seqs)) => N \in 0 .. Left(r)
  <2>1. Matches(f, p, Flat(seqs)) => N <= Left(r)
    BY <1>1, LongEnough
  <2>2. Left(r) \in Int
    BY AtIs DEF Left, Files, Places
  <2> QED
    BY <1>0, <2>1, <2>2
<1> HIDE DEF got, each, r
<1>7. Conveys(f, p, Flat(seqs), got, vals)
  BY <1>4, <1>5, <1>6, RefuseIs DEF Conveys
<1> QED
  BY <1>1, <1>7, FlatIsSeq DEF got, r

LEMMA ManyWordsConveyed ==
  ASSUME NEW f \in Files, NEW p \in Places(f), NEW V, NEW vals \in Seq(V), NEW seqs,
         DOMAIN seqs = DOMAIN vals, seqs = [k \in DOMAIN seqs |-> seqs[k]],
         \A k \in 1 .. Len(vals) : /\ vals[k] \in Int32 /\ seqs[k] = WriteWord(vals[k]) /\ seqs[k] # <<>>
  PROVE  /\ Flat(seqs) \in Seq(Int)
         /\ Conveys(f, p, Flat(seqs), ReadMany(ReadTo(f, p, Len(vals)), ReadField, "word"), vals)
<1> DEFINE N == Len(vals)
           r == ReadTo(f, p, N)
           kinds == [n \in 1 .. N |-> "word"]
           each == ReadEach(r, ReadField, kinds)
           got == ReadMany(r, ReadField, "word")
<1>0. N \in Nat /\ DOMAIN vals = 1 .. N
  OBVIOUS
<1>1. seqs \in Seq(Seq(Int)) /\ Len(seqs) = N
  <2>1. <<>> \in Files /\ 1 \in Places(<<>>)
    BY DEF Files, Places
  <2>2. \A k \in 1 .. N : seqs[k] \in Seq(Int)
    BY <2>1, WordConveyed
  <2>3. seqs \in [1 .. N -> Seq(Int)]
    BY <1>0, <2>2
  <2> QED
    BY <1>0, <2>3, FunctionIsSeq
<1>2. kinds \in Seq({"word"}) /\ Len(kinds) = N /\ \A k \in 1 .. N : kinds[k] = "word"
  <2>1. kinds \in [1 .. N -> {"word"}]
    OBVIOUS
  <2> QED
    BY <1>0, <2>1, FunctionIsSeq
<1>3. r.ok /\ r.val = N
  BY AtIs
<1>4. got = IF N \in 0 .. Left(r) THEN each ELSE Refuse(r)
  BY <1>3 DEF ReadMany
<1> HIDE DEF kinds
<1>5. Conveys(f, p, Flat(seqs), each, vals)
  <2>1. \A k \in 1 .. Len(seqs) : \A q \in Places(f) : \A v :
          Conveys(f, q, seqs[k], ReadField(ReadTo(f, q, v), kinds[k]), vals[k])
    BY <1>1, <1>2, WordConveyed DEF ReadField
  <2> QED
    BY <1>1, <1>2, <2>1, FieldsConveyed
<1>6. Matches(f, p, Flat(seqs)) => N \in 0 .. Left(r)
  <2>1. Matches(f, p, Flat(seqs)) => N <= Left(r)
    BY <1>1, LongEnough
  <2>2. Left(r) \in Int
    BY AtIs DEF Left, Files, Places
  <2> QED
    BY <1>0, <2>1, <2>2
<1> HIDE DEF got, each, r
<1>7. Conveys(f, p, Flat(seqs), got, vals)
  BY <1>4, <1>5, <1>6, RefuseIs DEF Conveys
<1> QED
  BY <1>1, <1>7, FlatIsSeq DEF got, r

-----------------------------------------------------------------------------
(* Instructions and types.                                                     *)

LEMMA IndexOfIs ==
  ASSUME NEW seq, NEW x \in ToSet(seq), Len(seq) \in Nat, DOMAIN seq = 1 .. Len(seq)
  PROVE  IndexOf(seq, x) \in 0 .. Len(seq) - 1 /\ seq[IndexOf(seq, x) + 1] = x
<1> DEFINE I == {i \in 1 .. Len(seq) : seq[i] = x}
           m == Min(I)
<1>1. I # {} /\ I \subseteq Nat
  <2>1. PICK i \in DOMAIN seq : x = seq[i]
    BY DEF ToSet
  <2>2. i \in 1 .. Len(seq)
    OBVIOUS
  <2> QED
    BY <2>1, <2>2
<1>2. IndexOf(seq, x) = m - 1
  <2>1. SelectInSeq(seq, LAMBDA y : y = x) = m
    BY <1>1 DEF SelectInSeq
  <2> QED
    BY <2>1 DEF IndexOf
<1>3. m \in I
  <2>1. \E i \in I : \A j \in I : i <= j
    <3> HIDE DEF I
    <3> QED
      BY <1>1, LeastNatural
  <2> HIDE DEF I
  <2> QED
    BY <2>1 DEF Min
<1> HIDE DEF m
<1>4. m \in 1 .. Len(seq) /\ seq[m] = x /\ Len(seq) \in Nat
  BY <1>3
<1>5. m - 1 + 1 = m /\ m - 1 \in 0 .. Len(seq) - 1
  BY <1>4
<1> QED
  BY <1>2, <1>4, <1>5

LEMMA TablesAre ==
  /\ Len(Opcodes) \in Nat /\ DOMAIN Opcodes = 1 .. Len(Opcodes)
  /\ Len(Modes) = 6 /\ DOMAIN Modes = 1 .. 6
  /\ Len(MiddleModes) = 4 /\ DOMAIN MiddleModes = 1 .. 4
<1>1. Len(Opcodes) \in Nat /\ DOMAIN Opcodes = 1 .. Len(Opcodes)
  BY DEF Opcodes
<1>2. Len(Modes) = 6 /\ DOMAIN Modes = 1 .. 6
  BY DEF Modes
<1>3. Len(MiddleModes) = 4 /\ DOMAIN MiddleModes = 1 .. 4
  BY DEF MiddleModes
<1> QED
  BY <1>1, <1>2, <1>3

LEMMA ModesAre ==
  ASSUME NEW mode \in OneNumber \cup TwoNumbers \cup {"none"}
  PROVE  /\ IndexOf(Modes, mode) \in 0 .. 5 /\ ModeOf(IndexOf(Modes, mode)) = mode
         /\ mode \in {"none", "imm", "fp", "mp"} =>
              IndexOf(MiddleModes, mode) \in 0 .. 3 /\ MiddleModes[1 + IndexOf(MiddleModes, mode)] = mode
<1>1. Len(Modes) = 6 /\ Len(MiddleModes) = 4
  BY DEF Modes, MiddleModes
<1>2. mode \in ToSet(Modes)
  <2>1. ToSet(Modes) = {"mp", "fp", "imm", "none", "mpind", "ind"}
    <3>1. DOMAIN Modes = 1 .. 6
      BY DEF Modes
    <3>2. \A i \in 1 .. 6 : Modes[i] \in {"mp", "fp", "imm", "none", "mpind", "ind"}
      BY DEF Modes
    <3>3. Modes[1] = "mp" /\ Modes[2] = "fp" /\ Modes[3] = "imm" /\ Modes[4] = "none" /\ Modes[5] = "mpind" /\ Modes[6] = "ind"
      BY DEF Modes
    <3> HIDE DEF Modes
    <3>4. \A i \in {1, 2, 3, 4, 5, 6} : i \in DOMAIN Modes
      BY <3>1
    <3> QED
      BY <3>1, <3>2, <3>3, <3>4 DEF ToSet
  <2> QED
    BY <2>1 DEF OneNumber, TwoNumbers
<1>3. IndexOf(Modes, mode) \in 0 .. Len(Modes) - 1 /\ Modes[IndexOf(Modes, mode) + 1] = mode
  BY <1>2, TablesAre, IndexOfIs
<1>4. IndexOf(Modes, mode) \in 0 .. 5 /\ ModeOf(IndexOf(Modes, mode)) = mode
  <2> DEFINE k == IndexOf(Modes, mode)
  <2>1. k \in 0 .. 5 /\ Modes[k + 1] = mode
    BY <1>1, <1>3
  <2> HIDE DEF k
  <2>2. ModeOf(k) = mode
    BY <1>1, <2>1 DEF ModeOf
  <2> QED
    BY <2>1, <2>2 DEF k
<1>5. ASSUME mode \in {"none", "imm", "fp", "mp"}
      PROVE  IndexOf(MiddleModes, mode) \in 0 .. 3 /\ MiddleModes[1 + IndexOf(MiddleModes, mode)] = mode
  <2>1. mode \in ToSet(MiddleModes)
    <3>1. DOMAIN MiddleModes = 1 .. 4
      BY DEF MiddleModes
    <3>2. MiddleModes[1] = "none" /\ MiddleModes[2] = "imm" /\ MiddleModes[3] = "fp" /\ MiddleModes[4] = "mp"
      BY DEF MiddleModes
    <3> HIDE DEF MiddleModes
    <3>3. \A i \in {1, 2, 3, 4} : i \in DOMAIN MiddleModes
      BY <3>1
    <3> QED
      BY <1>5, <3>2, <3>3 DEF ToSet
  <2> DEFINE k == IndexOf(MiddleModes, mode)
  <2>2. k \in 0 .. Len(MiddleModes) - 1 /\ MiddleModes[k + 1] = mode
    BY <2>1, TablesAre, IndexOfIs
  <2> HIDE DEF k
  <2>3. k \in 0 .. 3 /\ k + 1 = 1 + k
    BY <1>1, <2>2
  <2> QED
    BY <2>2, <2>3 DEF k
<1> QED
  BY <1>4, <1>5

LEMMA ModeByteIs ==
  ASSUME NEW i \in InstrSet
  PROVE  ModeByte(i) \in 0 .. 255 /\ ModesIn(ModeByte(i)) = <<i.mid.mode, i.src.mode, i.dst.mode>>
<1> DEFINE a == IndexOf(MiddleModes, i.mid.mode)
           b == IndexOf(Modes, i.src.mode)
           c == IndexOf(Modes, i.dst.mode)
<1>1. i.mid \in MiddleSet /\ i.src \in OperandSet /\ i.dst \in OperandSet
  BY DEF InstrSet
<1>2. \A o \in OperandSet : o.mode \in OneNumber \cup TwoNumbers \cup {"none"}
  BY DEF OperandSet, UnusedOperand, Operand
<1>3. i.mid.mode \in {"none", "imm", "fp", "mp"}
  BY <1>1 DEF MiddleSet, UnusedOperand, Operand
<1>4. i.mid.mode \in OneNumber \cup TwoNumbers \cup {"none"}
  BY <1>3 DEF OneNumber
<1>5. a \in 0 .. 3 /\ MiddleModes[1 + a] = i.mid.mode
  BY <1>3, <1>4, ModesAre
<1>6. b \in 0 .. 5 /\ ModeOf(b) = i.src.mode /\ c \in 0 .. 5 /\ ModeOf(c) = i.dst.mode
  BY <1>1, <1>2, ModesAre
<1>7. ModeByte(i) = 64 * a + 8 * b + c
  BY DEF ModeByte
<1> HIDE DEF a, b, c
<1> DEFINE byte == 64 * a + 8 * b + c
<1>8. byte \in 0 .. 255 /\ byte \div 64 = a /\ (byte \div 8) % 8 = b /\ byte % 8 = c
  <2>1. 8 * a + b \in Int /\ byte = 8 * (8 * a + b) + c
    BY <1>5, <1>6
  <2>2. byte \div 8 = 8 * a + b
    BY <1>5, <1>6, <2>1
  <2> QED
    BY <1>5, <1>6, <2>2
<1> HIDE DEF byte
<1>9. ModesIn(byte) = <<MiddleModes[1 + a], ModeOf(b), ModeOf(c)>>
  BY <1>8 DEF ModesIn
<1> QED
  BY <1>5, <1>6, <1>7, <1>8, <1>9 DEF byte

\* The middle operands are operands.
LEMMA MiddleIsOperand ==
  MiddleSet \subseteq OperandSet
BY DEF MiddleSet, OperandSet, OneNumber

\* An instruction is read with its opcode, its modes and its operands: the byte of the modes says
\* how many operands follow and how many numbers each of them is (write_dis, parse_code).
THEOREM InstrConveyed ==
  ASSUME NEW f \in Files, NEW p \in Places(f), NEW u, NEW i \in InstrSet
  PROVE  WriteInstr(i) \in Seq(Int) /\ Conveys(f, p, WriteInstr(i), ReadInstr(ReadTo(f, p, u)), i)
<1> DEFINE code == CodeOf(i.op)
           mb == ModeByte(i)
           ops == <<i.mid, i.src, i.dst>>
           seqs == [n \in DOMAIN ops |-> WriteOperand(ops[n])]
           modes == <<i.mid.mode, i.src.mode, i.dst.mode>>
           first == ReadByte(ReadTo(f, p, u))
           got == WithOpcode(first)
<1>1. /\ i.op \in ToSet(Opcodes) /\ i.mid \in OperandSet /\ i.src \in OperandSet /\ i.dst \in OperandSet
      /\ i = [op |-> i.op, src |-> i.src, mid |-> i.mid, dst |-> i.dst]
  BY MiddleIsOperand DEF InstrSet
<1>2. code \in Nat /\ code < Len(Opcodes) /\ Opcodes[code + 1] = i.op
  <2>1. IndexOf(Opcodes, i.op) \in 0 .. Len(Opcodes) - 1 /\ Opcodes[IndexOf(Opcodes, i.op) + 1] = i.op
    BY <1>1, TablesAre, IndexOfIs
  <2>2. Len(Opcodes) \in Nat
    BY TablesAre
  <2> QED
    BY <2>1, <2>2 DEF CodeOf
<1>3. mb \in Int /\ ModesIn(mb) = modes
  BY ModeByteIs
<1>4. ops \in Seq(OperandSet) /\ Len(ops) = 3 /\ ops[1] = i.mid /\ ops[2] = i.src /\ ops[3] = i.dst
  BY <1>1
<1>5. Len(modes) = 3 /\ modes[1] = i.mid.mode /\ modes[2] = i.src.mode /\ modes[3] = i.dst.mode
  OBVIOUS
<1>6. \A k \in 1 .. 3 : ops[k] \in OperandSet /\ modes[k] = ops[k].mode
  BY <1>1, <1>4, <1>5
<1>7. seqs \in Seq(Seq(Int)) /\ Len(seqs) = 3 /\ \A k \in 1 .. 3 : seqs[k] = WriteOperand(ops[k])
  <2>1. DOMAIN ops = 1 .. 3
    BY <1>4
  <2>2. \A k \in 1 .. 3 : WriteOperand(ops[k]) \in Seq(Int)
    BY <1>6, OperandOfConveyed
  <2> HIDE DEF ops
  <2>3. seqs \in [1 .. 3 -> Seq(Int)]
    BY <2>1, <2>2
  <2> QED
    BY <2>1, <2>3, FunctionIsSeq
<1>8. WriteInstr(i) = <<code, mb>> \o Flat(seqs) /\ Flat(seqs) \in Seq(Int)
  BY <1>7, FlatIsSeq DEF WriteInstr, Each
<1> HIDE DEF ops, seqs, modes, code, mb
<1> DEFINE t == Flat(seqs)
<1>9. ASSUME NEW q \in Places(f), NEW v
      PROVE  Conveys(f, q, t, ReadEach(ReadTo(f, q, v), ReadPart, modes), ops)
  <2>1. \A k \in 1 .. Len(seqs) : \A q1 \in Places(f) : \A v1 :
          Conveys(f, q1, seqs[k], ReadPart(ReadTo(f, q1, v1), modes[k]), ops[k])
    <3> SUFFICES ASSUME NEW k \in 1 .. 3, NEW q1 \in Places(f), NEW v1
                 PROVE  Conveys(f, q1, seqs[k], ReadPart(ReadTo(f, q1, v1), modes[k]), ops[k])
      BY <1>7
    <3>1. ops[k] \in OperandSet /\ modes[k] = ops[k].mode /\ seqs[k] = WriteOperand(ops[k])
      BY <1>6, <1>7
    <3>2. modes[k] \notin {"wide", "function", "case"}
      BY <3>1 DEF OperandSet, UnusedOperand, Operand, OneNumber, TwoNumbers
    <3>3. ReadPart(ReadTo(f, q1, v1), modes[k]) = ReadOperandOf(ReadTo(f, q1, v1), modes[k])
      BY <3>2 DEF ReadPart
    <3> QED
      BY <3>1, <3>3, OperandOfConveyed
  <2> QED
    BY <1>4, <1>5, <1>7, <2>1, PartsConveyed
<1>10. <<code>> \in Seq(Int) /\ <<mb>> \in Seq(Int) /\ t \in Seq(Int)
  BY <1>2, <1>3, <1>8
<1>11. WriteInstr(i) = <<code>> \o (<<mb>> \o t)
  <2>1. <<code, mb>> = <<code>> \o <<mb>>
    BY <1>2, <1>3, PairIs
  <2> DEFINE x == <<code>>
             y == <<mb>>
  <2>2. x \in Seq(Int) /\ y \in Seq(Int)
    BY <1>10
  <2> HIDE DEF x, y, t
  <2>3. (x \o y) \o t = x \o (y \o t)
    BY <1>10, <2>2, ConcatRegroups
  <2> QED
    BY <1>8, <2>1, <2>3 DEF x, y, t
<1> HIDE DEF t
<1>12. ASSUME NEW q \in Places(f), first = ReadTo(f, q, code)
       PROVE  Conveys(f, q, <<mb>> \o t, got, i)
  <2> DEFINE second == ReadByte(ReadTo(f, q, code))
  <2>1. got = InstrFrom(code, second)
    BY <1>2, <1>12, AtIs DEF WithOpcode
  <2>2. Conveys(f, q, <<mb>>, second, mb)
    BY <1>3, ByteConveyed
  <2> HIDE DEF second, got, first
  <2>3. ASSUME NEW q2 \in Places(f), second = ReadTo(f, q2, mb)
        PROVE  Conveys(f, q2, t, got, i)
    <3> DEFINE each == ReadEach(second, ReadPart, modes)
    <3>1. got = InstrOf(code, each)
      BY <1>3, <2>1, <2>3, AtIs DEF InstrFrom
    <3>2. Conveys(f, q2, t, each, ops)
      BY <1>9, <2>3
    <3> HIDE DEF each
    <3>3. ASSUME NEW q3 \in Places(f), each = ReadTo(f, q3, ops)
          PROVE  got = ReadTo(f, q3, i)
      <4>1. each.val[1] = i.mid /\ each.val[2] = i.src /\ each.val[3] = i.dst
        BY <1>4, <3>3, AtIs
      <4>2. got = Given(ReadTo(f, q3, ops), [op |-> i.op, mid |-> i.mid, src |-> i.src, dst |-> i.dst])
        BY <1>2, <3>1, <3>3, <4>1 DEF InstrOf
      <4>3. [op |-> i.op, mid |-> i.mid, src |-> i.src, dst |-> i.dst] = i
        BY <1>1
      <4> QED
        BY <4>2, <4>3, GivenIs
    <3>4. ~ each.ok => ~ got.ok
      BY <3>1, GivenIs DEF InstrOf
    <3> QED
      BY <1>10, <3>2, <3>3, <3>4, Afterwards
  <2>4. ~ second.ok => ~ got.ok
    BY <2>1 DEF InstrFrom
  <2> DEFINE y == <<mb>>
  <2>5. y \in Seq(Int) /\ Conveys(f, q, y, second, mb)
    BY <1>10, <2>2
  <2> HIDE DEF y
  <2>6. Conveys(f, q, y \o t, got, i)
    BY <1>10, <2>3, <2>4, <2>5, Compose
  <2> QED
    BY <2>6 DEF y
<1>13. Conveys(f, p, <<code>>, first, code)
  BY <1>2, ByteConveyed
<1>14. ~ first.ok => ~ got.ok
  BY RefuseIs DEF WithOpcode
<1>15. <<mb>> \o t \in Seq(Int)
  BY <1>10
<1>16. ReadInstr(ReadTo(f, p, u)) = got
  BY DEF ReadInstr
<1> DEFINE x == <<code>>
           z == <<mb>> \o t
<1>17. x \in Seq(Int) /\ z \in Seq(Int) /\ Conveys(f, p, x, first, code)
  BY <1>10, <1>13, <1>15
<1> HIDE DEF x, z, first, got
<1>18. \A q \in Places(f) : first = ReadTo(f, q, code) => Conveys(f, q, z, got, i)
  BY <1>12 DEF z
<1>19. Conveys(f, p, x \o z, got, i)
  BY <1>14, <1>17, <1>18, Compose
<1>20. x \o z \in Seq(Int)
  BY <1>17
<1> QED
  BY <1>11, <1>16, <1>19, <1>20 DEF x, z

\* Nothing but a name's end, and no name at all, takes less than a byte.
LEMMA OperandTakesAByte ==
  ASSUME NEW v \in Int
  PROVE  WriteOp(v) \in Seq(Int) /\ WriteOp(v) # <<>>
<1>1. WriteOp(v) \in Seq(Int)
  <2>1. <<>> \in Files /\ 1 \in Places(<<>>)
    BY DEF Files, Places
  <2> QED
    BY <2>1, OperandConveyed
<1>2. \A a, b, c, d : <<a>> # <<>> /\ <<a, b>> # <<>> /\ <<a, b, c, d>> # <<>>
  OBVIOUS
<1> DEFINE s == WriteOp(v)
           A == v \in 0 .. 63
           B == v \in -64 .. -1
           C == v \in TwoBytes
           D == v \in FourBytes
<1>3. A \/ B \/ ~ v \in -64 .. 63
  OBVIOUS
<1>4. /\ A => s = <<v>>
      /\ B => s = <<64 + (v % 64)>>
      /\ C /\ ~ v \in -64 .. 63 => s = <<FirstOfTwo(v), v % 256>>
      /\ ~ C /\ ~ D => s = <<OutOfRange>>
      /\ ~ C /\ D => s = <<FirstOfFour(v), ByteAt(v, Byte2), ByteAt(v, Byte1), v % 256>>
  BY FormOfOperand
<1> HIDE DEF s, A, B, C, D
<1>5. s # <<>>
  BY <1>2, <1>3, <1>4
<1> QED
  BY <1>1, <1>5 DEF s

LEMMA BeginsWithSome ==
  ASSUME NEW s \in Seq(Int), NEW t \in Seq(Int), s # <<>>
  PROVE  s \o t \in Seq(Int) /\ s \o t # <<>>
<1>1. s \o t \in Seq(Int) /\ Len(s \o t) = Len(s) + Len(t)
  BY ConcatProperties
<1>2. Len(s) \in Nat /\ Len(s) # 0 /\ Len(t) \in Nat
  OBVIOUS
<1>3. Len(s \o t) # 0
  BY <1>1, <1>2
<1> QED
  BY <1>1, <1>3

LEMMA EndsWithSome ==
  ASSUME NEW S, NEW s \in Seq(S), NEW t \in Seq(S), Len(t) = 1
  PROVE  s \o t # <<>>
<1>1. s \o t \in Seq(S) /\ Len(s \o t) = Len(s) + Len(t)
  BY ConcatProperties
<1>2. Len(s) \in Nat
  OBVIOUS
<1>3. Len(s \o t) # 0
  BY <1>1, <1>2
<1> QED
  BY <1>3

LEMMA FieldTakesAByte ==
  ASSUME NEW kind \in FieldKinds, NEW x \in FieldSet(kind)
  PROVE  FieldBytes(kind, x) \in Seq(Int) /\ FieldBytes(kind, x) # <<>>
<1>1. CASE kind \in {"operand", "count"}
  <2>1. x \in Int /\ FieldBytes(kind, x) = WriteOp(x)
    BY <1>1 DEF FieldSet, FieldBytes
  <2> QED
    BY <2>1, OperandTakesAByte
<1>2. CASE kind = "word"
  <2>1. FieldBytes(kind, x) = WriteWord(x)
    BY <1>2 DEF FieldBytes
  <2>2. \A a, b, c, d : <<a, b, c, d>> # <<>>
    OBVIOUS
  <2> QED
    BY <2>1, <2>2, FieldBytesAre DEF WriteWord
<1>3. CASE kind = "name"
  <2>1. FieldBytes(kind, x) = x \o <<0>> /\ x \in Seq(Nat)
    BY <1>3 DEF FieldSet, FieldBytes, WriteName, NameSet
  <2> DEFINE z == <<0>>
  <2>2. z \in Seq(Nat) /\ Len(z) = 1
    OBVIOUS
  <2> HIDE DEF z
  <2>4. x \o z # <<>>
    BY <2>1, <2>2, EndsWithSome
  <2> QED
    BY <2>1, <2>4, FieldBytesAre DEF z
<1> QED
  BY <1>1, <1>2, <1>3 DEF FieldKinds

LEMMA FlatTakesAByte ==
  ASSUME NEW seqs \in Seq(Seq(Int)), Len(seqs) > 0, seqs[1] # <<>>
  PROVE  Flat(seqs) # <<>>
<1> DEFINE N == Len(seqs)
<1>1. PICK P : IsJoined(P, seqs, Int)
  BY JoinedExists
<1>2. N \in Nat /\ 0 \in 0 .. N - 1 /\ 1 \in 0 .. N /\ N \in 0 .. N /\ 1 \in 0 .. N /\ 1 \in 1 .. N
  OBVIOUS
<1>3. P[N] = P[1] \o FlattenSeq(SubSeq(seqs, 1 + 1, N))
  BY <1>1, <1>2, JoinedBetween
<1>4. P[0] = <<>> /\ P[0 + 1] = P[0] \o seqs[0 + 1]
  BY <1>1, <1>2 DEF IsJoined
<1>5. P[1] = seqs[1]
  BY <1>2, <1>4
<1>6. FlattenSeq(SubSeq(seqs, 1 + 1, N)) \in Seq(Int)
  <2>1. SubSeq(seqs, 1 + 1, N) \in Seq(Seq(Int))
    BY <1>2
  <2> QED
    BY <2>1, FlattenIsSeq
<1>7. P[N] # <<>>
  BY <1>2, <1>3, <1>5, <1>6, BeginsWithSome
<1> QED
  BY <1>1, <1>7, FlatJoins

LEMMA RecordTakesAByte ==
  ASSUME NEW kinds \in Seq(FieldKinds), NEW V, NEW vals \in Seq(V), NEW seqs, Len(kinds) > 0,
         Len(vals) = Len(kinds), DOMAIN seqs = 1 .. Len(kinds), seqs = [k \in DOMAIN seqs |-> seqs[k]],
         \A k \in 1 .. Len(kinds) : vals[k] \in FieldSet(kinds[k]) /\ seqs[k] = FieldBytes(kinds[k], vals[k])
  PROVE  Flat(seqs) \in Seq(Int) /\ Flat(seqs) # <<>>
<1>1. \A k \in 1 .. Len(kinds) : seqs[k] \in Seq(Int) /\ seqs[k] # <<>>
  BY FieldTakesAByte
<1>2. seqs \in Seq(Seq(Int)) /\ Len(seqs) = Len(kinds)
  <2> DEFINE n == Len(kinds)
  <2>1. seqs \in [1 .. n -> Seq(Int)] /\ n \in Nat
    BY <1>1
  <2> HIDE DEF n
  <2>2. seqs \in Seq(Seq(Int)) /\ Len(seqs) = n
    BY <2>1, FunctionIsSeq
  <2> QED
    BY <2>2 DEF n
<1>3. 1 \in 1 .. Len(kinds)
  OBVIOUS
<1> QED
  BY <1>1, <1>2, <1>3, FlatTakesAByte, FlatIsSeq

\* Three numbers and then the bytes of the map.
LEMMA TypeConveyed ==
  ASSUME NEW f \in Files, NEW p \in Places(f), NEW u, NEW x \in TypeSet
  PROVE  /\ WriteType(x) \in Seq(Int) /\ WriteType(x) # <<>>
         /\ Conveys(f, p, WriteType(x), ReadType(ReadTo(f, p, u)), x)
<1> DEFINE kinds == <<"operand", "operand", "count">>
           vals == <<x.id, x.size, Len(x.map)>>
           seqs == [n \in DOMAIN vals |-> WriteOp(vals[n])]
           s == Flat(seqs)
           mid == ReadEach(ReadTo(f, p, u), ReadField, kinds)
           got == TypeFrom(mid)
<1>1. x.id \in Int /\ x.size \in Int /\ x.map \in Seq(Nat) /\ x = [id |-> x.id, size |-> x.size, map |-> x.map]
  BY DEF TypeSet
<1>2. kinds \in Seq(FieldKinds) /\ Len(kinds) = 3 /\ kinds[1] = "operand" /\ kinds[2] = "operand" /\ kinds[3] = "count"
  BY DEF FieldKinds
<1>3. vals \in Seq(Int) /\ Len(vals) = 3 /\ vals[1] = x.id /\ vals[2] = x.size /\ vals[3] = Len(x.map) /\ DOMAIN vals = 1 .. 3
  BY <1>1
<1>4. Len(x.map) \in Nat /\ x.map \in Seq(Int)
  BY <1>1
<1>5. WriteType(x) = s \o x.map /\ ReadType(ReadTo(f, p, u)) = got
  BY DEF WriteType, ReadType, Each
<1> HIDE DEF kinds, vals
<1>6. DOMAIN seqs = 1 .. 3 /\ seqs = [k \in DOMAIN seqs |-> seqs[k]] /\ \A k \in 1 .. 3 : seqs[k] = WriteOp(vals[k])
  BY <1>3
<1> HIDE DEF seqs
<1>7. \A k \in 1 .. 3 : vals[k] \in FieldSet(kinds[k]) /\ seqs[k] = FieldBytes(kinds[k], vals[k])
  BY <1>1, <1>2, <1>3, <1>4, <1>6 DEF FieldSet, FieldBytes
<1>8. s \in Seq(Int) /\ s # <<>> /\ Conveys(f, p, s, mid, vals)
  <2>1. Len(kinds) > 0 /\ Len(vals) = Len(kinds) /\ DOMAIN seqs = 1 .. Len(kinds) /\ kinds \in Seq(FieldKinds) /\ vals \in Seq(Int)
    BY <1>2, <1>3, <1>6
  <2>2. \A k \in 1 .. Len(kinds) : vals[k] \in FieldSet(kinds[k]) /\ seqs[k] = FieldBytes(kinds[k], vals[k])
    BY <1>2, <1>7
  <2>3. s # <<>>
    BY <1>6, <2>1, <2>2, RecordTakesAByte
  <2>4. s \in Seq(Int) /\ Conveys(f, p, s, mid, vals)
    BY <1>6, <2>1, <2>2, RecordConveyed
  <2> QED
    BY <2>3, <2>4
<1> HIDE DEF s, mid
<1>9. ASSUME NEW q \in Places(f), mid = ReadTo(f, q, vals)
      PROVE  Conveys(f, q, x.map, got, x)
  <2> DEFINE last == Take(mid, Len(x.map))
  <2>1. got = MapOf(vals, last)
    BY <1>3, <1>9, AtIs DEF TypeFrom
  <2>2. Conveys(f, q, x.map, last, x.map)
    BY <1>4, <1>9, TakeConveyed
  <2> HIDE DEF last, got
  <2>3. ASSUME NEW q2 \in Places(f), last = ReadTo(f, q2, x.map)
        PROVE  got = ReadTo(f, q2, x)
    BY <1>1, <1>3, <2>1, <2>3, AtIs, GivenIs DEF MapOf
  <2>4. ~ last.ok => ~ got.ok
    BY <2>1, GivenIs DEF MapOf
  <2> DEFINE map == x.map
  <2>5. map \in Seq(Int) /\ Conveys(f, q, map, last, map)
    BY <1>4, <2>2
  <2>6. \A q2 \in Places(f) : last = ReadTo(f, q2, map) => got = ReadTo(f, q2, x)
    BY <2>3
  <2> HIDE DEF map
  <2>7. Conveys(f, q, map, got, x)
    BY <2>4, <2>5, <2>6, Afterwards
  <2> QED
    BY <2>7 DEF map
<1>10. ~ mid.ok => ~ got.ok
  BY DEF TypeFrom
<1> DEFINE map == x.map
<1>11. map \in Seq(Int) /\ \A q \in Places(f) : mid = ReadTo(f, q, vals) => Conveys(f, q, map, got, x)
  BY <1>4, <1>9
<1> HIDE DEF got, map
<1>12. Conveys(f, p, s \o map, got, x) /\ s \o map \in Seq(Int) /\ s \o map # <<>>
  BY <1>8, <1>10, <1>11, Compose, BeginsWithSome
<1> QED
  BY <1>5, <1>12 DEF map

LEMMA InstrTakesAByte ==
  ASSUME NEW i \in InstrSet
  PROVE  WriteInstr(i) \in Seq(Int) /\ WriteInstr(i) # <<>>
<1> DEFINE ops == <<i.mid, i.src, i.dst>>
           seqs == [n \in DOMAIN ops |-> WriteOperand(ops[n])]
           s == <<CodeOf(i.op), ModeByte(i)>>
<1>1. <<>> \in Files /\ 1 \in Places(<<>>)
  BY DEF Files, Places
<1>2. WriteInstr(i) \in Seq(Int)
  BY <1>1, InstrConveyed
<1>3. i.mid \in OperandSet /\ i.src \in OperandSet /\ i.dst \in OperandSet
  BY MiddleIsOperand DEF InstrSet
<1>4. \A o \in OperandSet : WriteOperand(o) \in Seq(Int)
  BY <1>1, OperandOfConveyed
<1>5. Flat(seqs) \in Seq(Int)
  <2>1. DOMAIN ops = 1 .. 3 /\ \A k \in 1 .. 3 : ops[k] \in OperandSet
    BY <1>3
  <2> HIDE DEF ops
  <2>2. seqs \in [1 .. 3 -> Seq(Int)]
    BY <1>4, <2>1
  <2>3. seqs \in Seq(Seq(Int))
    BY <2>2, FunctionIsSeq
  <2> QED
    BY <2>3, FlatIsSeq
<1>6. s \in Seq(Int) /\ s # <<>>
  <2>1. ModeByte(i) \in Int
    BY ModeByteIs
  <2>2. CodeOf(i.op) \in Int
    <3>1. i.op \in ToSet(Opcodes)
      BY DEF InstrSet
    <3>2. IndexOf(Opcodes, i.op) \in 0 .. Len(Opcodes) - 1 /\ Len(Opcodes) \in Nat
      BY <3>1, TablesAre, IndexOfIs
    <3> QED
      BY <3>2 DEF CodeOf
  <2> QED
    BY <2>1, <2>2
<1>7. WriteInstr(i) = s \o Flat(seqs)
  BY DEF WriteInstr, Each
<1> HIDE DEF s, seqs
<1> QED
  BY <1>2, <1>5, <1>6, <1>7, BeginsWithSome

LEMMA TwoFieldsTakeAByte ==
  ASSUME NEW k1 \in FieldKinds, NEW k2 \in FieldKinds, NEW x1 \in FieldSet(k1), NEW x2 \in FieldSet(k2)
  PROVE  Flat(<<FieldBytes(k1, x1), FieldBytes(k2, x2)>>) # <<>>
<1> DEFINE s == FieldBytes(k1, x1)
           t == FieldBytes(k2, x2)
<1>1. s \in Seq(Int) /\ s # <<>> /\ t \in Seq(Int)
  BY FieldTakesAByte
<1> HIDE DEF s, t
<1>2. <<s, t>> \in Seq(Seq(Int)) /\ Len(<<s, t>>) = 2 /\ <<s, t>>[1] = s
  BY <1>1
<1> DEFINE seqs == <<s, t>>
<1>3. seqs \in Seq(Seq(Int)) /\ Len(seqs) > 0 /\ seqs[1] # <<>>
  BY <1>1, <1>2
<1> HIDE DEF seqs
<1>4. Flat(seqs) # <<>>
  BY <1>3, FlatTakesAByte
<1> QED
  BY <1>4 DEF seqs, s, t

LEMMA PartsTakeAByte ==
  /\ \A x \in [1 .. 2 -> Int32] : WriteWide(x) # <<>>
  /\ \A x \in FunctionSet : WriteFunction(x) # <<>>
  /\ \A x \in CaseSet : x.name # NoName => WriteCase(x) # <<>>
<1>1. ASSUME NEW x \in [1 .. 2 -> Int32]
      PROVE  WriteWide(x) # <<>>
  <2>1. [n \in DOMAIN x |-> WriteWord(x[n])] = <<WriteWord(x[1]), WriteWord(x[2])>>
    <3> DEFINE s == [n \in DOMAIN x |-> WriteWord(x[n])]
               a == WriteWord(x[1])
               b == WriteWord(x[2])
    <3>1. s \in [1 .. 2 -> {a, b}] /\ s[1] = a /\ s[2] = b
      OBVIOUS
    <3> HIDE DEF s, a, b
    <3>2. s \in Seq({a, b}) /\ Len(s) = 2
      BY <3>1, FunctionIsSeq
    <3>3. s = <<a, b>>
      BY <3>1, <3>2
    <3> QED
      BY <3>3 DEF s, a, b
  <2>2. "word" \in FieldKinds /\ x[1] \in FieldSet("word") /\ x[2] \in FieldSet("word")
    BY DEF FieldKinds, FieldSet
  <2>3. WriteWord(x[1]) = FieldBytes("word", x[1]) /\ WriteWord(x[2]) = FieldBytes("word", x[2])
    BY DEF FieldBytes
  <2>4. WriteWide(x) = Flat(<<FieldBytes("word", x[1]), FieldBytes("word", x[2])>>)
    BY <2>1, <2>3 DEF WriteWide, Each
  <2> QED
    BY <2>2, <2>4, TwoFieldsTakeAByte
<1>2. ASSUME NEW x \in FunctionSet
      PROVE  WriteFunction(x) # <<>>
  <2>1. "word" \in FieldKinds /\ "name" \in FieldKinds /\ x.sig \in FieldSet("word") /\ x.name \in FieldSet("name")
    BY DEF FunctionSet, FieldKinds, FieldSet
  <2>2. WriteFunction(x) = Flat(<<FieldBytes("word", x.sig), FieldBytes("name", x.name)>>)
    BY DEF WriteFunction, FieldBytes
  <2> QED
    BY <2>1, <2>2, TwoFieldsTakeAByte
<1>3. ASSUME NEW x \in CaseSet, x.name # NoName
      PROVE  WriteCase(x) # <<>>
  <2>1. "operand" \in FieldKinds /\ "name" \in FieldKinds /\ x.pc \in FieldSet("operand") /\ x.name \in FieldSet("name")
    BY DEF CaseSet, FieldKinds, FieldSet
  <2>2. WriteCase(x) = Flat(<<FieldBytes("name", x.name), FieldBytes("operand", x.pc)>>)
    BY <1>3 DEF WriteCase, FieldBytes
  <2> QED
    BY <2>1, <2>2, TwoFieldsTakeAByte
<1> QED
  BY <1>1, <1>2, <1>3

-----------------------------------------------------------------------------
(* Items of the data.                                                          *)

ValsOf(kind) ==
  CASE kind \in Narrow -> Seq(Nat) [] kind = "words" -> Seq(Int32) [] kind \in Wide -> Seq([1 .. 2 -> Int32])
    [] kind = "array" -> [1 .. 2 -> Int32] [] kind = "setarray" -> [1 .. 1 -> Int32] [] kind = "restore" -> {<<>>}
AllKinds == Narrow \cup Wide \cup Single \cup {"words"}

LEMMA ValuesConveyed ==
  ASSUME NEW f \in Files, NEW p \in Places(f), NEW u, NEW kind \in AllKinds, NEW vals \in ValsOf(kind), NEW count,
         kind \notin Single => count = Len(vals)
  PROVE  /\ WriteValues(kind, vals) \in Seq(Int)
         /\ Conveys(f, p, WriteValues(kind, vals), ReadValues(ReadTo(f, p, u), kind, count), vals)
<1> DEFINE r == ReadTo(f, p, u)
           s == WriteValues(kind, vals)
           got == ReadValues(r, kind, count)
<1>0. Given(r, count) = ReadTo(f, p, count)
  BY GivenIs
<1>1. CASE kind \in Narrow
  <2>1. vals \in Seq(Nat)
    BY <1>1 DEF ValsOf, Narrow, Wide
  <2>2. kind \notin Single /\ kind # "words" /\ kind \notin Wide /\ kind # "array" /\ kind # "setarray" /\ kind # "restore"
    BY <1>1 DEF Narrow, Wide, Single
  <2>3. s = vals /\ got = Take(r, Len(vals))
    BY <1>1, <2>2 DEF WriteValues, ReadValues
  <2>4. vals \in Seq(Int)
    BY <2>1
  <2> QED
    BY <2>3, <2>4, TakeConveyed
<1>2. CASE kind = "words"
  <2> DEFINE seqs == [n \in DOMAIN vals |-> WriteWord(vals[n])]
  <2>1. vals \in Seq(Int32)
    BY <1>2 DEF ValsOf, Narrow, Wide
  <2>2. kind \notin Single /\ kind \notin Wide /\ kind \notin Narrow /\ count = Len(vals)
    BY <1>2 DEF Narrow, Wide, Single
  <2>3. s = Flat(seqs) /\ got = ReadMany(ReadTo(f, p, Len(vals)), ReadField, "word")
    BY <1>0, <1>2, <2>2 DEF WriteValues, ReadValues, Each
  <2>4. DOMAIN seqs = DOMAIN vals /\ seqs = [k \in DOMAIN seqs |-> seqs[k]]
    OBVIOUS
  <2>5. ASSUME NEW k \in 1 .. Len(vals)
        PROVE  vals[k] \in Int32 /\ seqs[k] = WriteWord(vals[k]) /\ seqs[k] # <<>>
    <3>1. vals[k] \in Int32 /\ seqs[k] = WriteWord(vals[k])
      BY <2>1
    <3>2. WriteWord(vals[k]) # <<>>
      <4>1. \A a, b, c, d : <<a, b, c, d>> # <<>>
        OBVIOUS
      <4> QED
        BY <4>1 DEF WriteWord
    <3> QED
      BY <3>1, <3>2
  <2> HIDE DEF seqs, s, got
  <2>6. Flat(seqs) \in Seq(Int) /\ Conveys(f, p, Flat(seqs), ReadMany(ReadTo(f, p, Len(vals)), ReadField, "word"), vals)
    BY <2>1, <2>4, <2>5, ManyWordsConveyed
  <2> QED
    BY <2>3, <2>6 DEF s, got
<1>3. CASE kind \in Wide
  <2> DEFINE seqs == [n \in DOMAIN vals |-> WriteWide(vals[n])]
  <2>1. vals \in Seq([1 .. 2 -> Int32])
    BY <1>3 DEF ValsOf, Narrow, Wide
  <2>2. kind \notin Single /\ kind # "words" /\ kind \notin Narrow /\ kind # "array" /\ kind # "setarray" /\ kind # "restore"
        /\ count = Len(vals)
    BY <1>3 DEF Narrow, Wide, Single
  <2>3. s = Flat(seqs) /\ got = ReadMany(ReadTo(f, p, Len(vals)), ReadPart, "wide")
    BY <1>0, <1>3, <2>2 DEF WriteValues, ReadValues, Each
  <2>4. DOMAIN seqs = DOMAIN vals /\ seqs = [k \in DOMAIN seqs |-> seqs[k]]
    OBVIOUS
  <2>5. "wide" \in PartKinds /\ PartSet("wide") = [1 .. 2 -> Int32] /\ \A x : PartBytes("wide", x) = WriteWide(x)
    BY DEF PartKinds, PartSet, PartBytes
  <2>6. ASSUME NEW k \in 1 .. Len(vals)
        PROVE  vals[k] \in PartSet("wide") /\ seqs[k] = PartBytes("wide", vals[k]) /\ seqs[k] # <<>>
    <3>1. vals[k] \in [1 .. 2 -> Int32] /\ seqs[k] = WriteWide(vals[k])
      BY <2>1
    <3> QED
      BY <2>5, <3>1, PartsTakeAByte
  <2> HIDE DEF seqs, s, got
  <2>7. Flat(seqs) \in Seq(Int) /\ Conveys(f, p, Flat(seqs), ReadMany(ReadTo(f, p, Len(vals)), ReadPart, "wide"), vals)
    BY <2>1, <2>4, <2>5, <2>6, ManyPartsConveyed
  <2> QED
    BY <2>3, <2>7 DEF s, got
<1>4. CASE kind = "array"
  <2>1. vals \in [1 .. 2 -> Int32]
    BY <1>4 DEF ValsOf, Narrow, Wide
  <2>2. kind \notin Wide /\ kind \notin Narrow
    BY <1>4 DEF Narrow, Wide
  <2>3. s = WriteWide(vals) /\ got = ReadWide(r)
    BY <1>4, <2>2 DEF WriteValues, ReadValues, WriteWide
  <2> QED
    BY <2>1, <2>3, WideConveyed
<1>5. CASE kind = "setarray"
  <2> DEFINE seqs == [n \in DOMAIN vals |-> WriteWord(vals[n])]
             kinds == <<"word">>
  <2>1. vals \in [1 .. 1 -> Int32]
    BY <1>5 DEF ValsOf, Narrow, Wide
  <2>2. kind \notin Wide /\ kind \notin Narrow
    BY <1>5 DEF Narrow, Wide
  <2>3. s = Flat(seqs) /\ got = ReadEach(r, ReadField, kinds)
    BY <1>5, <2>2 DEF WriteValues, ReadValues, Each
  <2>4. kinds \in Seq(FieldKinds) /\ Len(kinds) = 1 /\ kinds[1] = "word"
    BY DEF FieldKinds
  <2>5. vals \in Seq(Int32) /\ Len(vals) = 1 /\ vals[1] \in Int32
    <3>1. 1 \in Nat /\ vals[1] \in Int32
      BY <2>1
    <3> QED
      BY <2>1, <3>1, FunctionIsSeq
  <2>6. DOMAIN seqs = 1 .. 1 /\ seqs = [k \in DOMAIN seqs |-> seqs[k]] /\ seqs[1] = WriteWord(vals[1])
    BY <2>1
  <2> HIDE DEF seqs, kinds, s, got
  <2>7. \A k \in 1 .. 1 : vals[k] \in FieldSet(kinds[k]) /\ seqs[k] = FieldBytes(kinds[k], vals[k])
    BY <2>4, <2>5, <2>6 DEF FieldSet, FieldBytes
  <2>8. Flat(seqs) \in Seq(Int) /\ Conveys(f, p, Flat(seqs), ReadEach(ReadTo(f, p, u), ReadField, kinds), vals)
    BY <2>4, <2>5, <2>6, <2>7, RecordConveyed
  <2> QED
    BY <2>3, <2>8 DEF s, got
<1>6. CASE kind = "restore"
  <2>1. vals = <<>>
    BY <1>6 DEF ValsOf, Narrow, Wide
  <2>2. kind \notin Wide /\ kind \notin Narrow
    BY <1>6 DEF Narrow, Wide
  <2>3. got = ReadTo(f, p, <<>>)
    BY <1>6, <2>2, GivenIs DEF ReadValues
  <2>4. s = Flat([n \in DOMAIN <<>> |-> WriteWord(<<>>[n])])
    BY <2>1, <2>2 DEF WriteValues, Each
  <2> DEFINE none == [n \in DOMAIN <<>> |-> WriteWord(<<>>[n])]
  <2>5. none \in Seq(Seq(Int)) /\ Len(none) = 0
    <3>1. none \in [1 .. 0 -> Seq(Int)]
      OBVIOUS
    <3> QED
      BY <3>1, FunctionIsSeq
  <2> HIDE DEF none
  <2>6. PICK P : IsJoined(P, none, Int)
    BY <2>5, JoinedExists
  <2>7. Flat(none) = <<>>
    BY <2>5, <2>6, FlatJoins DEF IsJoined
  <2>8. s = <<>>
    BY <2>4, <2>7 DEF none
  <2> HIDE DEF s, got
  <2>9. Conveys(f, p, <<>>, ReadTo(f, p, <<>>), <<>>)
    BY NothingConveyed
  <2>10. s \in Seq(Int) /\ Conveys(f, p, s, got, vals)
    BY <2>1, <2>3, <2>8, <2>9
  <2> QED
    BY <2>10 DEF s, got
<1> QED
  BY <1>1, <1>2, <1>3, <1>4, <1>5, <1>6 DEF AllKinds, Single

LEMMA ItemKindsAre ==
  ASSUME NEW kind \in AllKinds
  PROVE  1 + IndexOf(ItemKinds, kind) \in DOMAIN ItemKinds /\ 1 + IndexOf(ItemKinds, kind) \in 1 .. 8
         /\ ItemKinds[1 + IndexOf(ItemKinds, kind)] = kind
<1>1. Len(ItemKinds) = 8 /\ DOMAIN ItemKinds = 1 .. 8
  BY DEF ItemKinds
<1>2. kind \in ToSet(ItemKinds)
  <2>1. /\ ItemKinds[1] = "bytes" /\ ItemKinds[2] = "words" /\ ItemKinds[3] = "string" /\ ItemKinds[4] = "reals"
        /\ ItemKinds[5] = "array" /\ ItemKinds[6] = "setarray" /\ ItemKinds[7] = "restore" /\ ItemKinds[8] = "bigs"
    BY DEF ItemKinds
  <2>2. \A i \in {1, 2, 3, 4, 5, 6, 7, 8} : i \in DOMAIN ItemKinds
    BY <1>1
  <2>3. kind \in {"bytes", "words", "string", "reals", "array", "setarray", "restore", "bigs"}
    BY DEF AllKinds, Narrow, Wide, Single
  <2> QED
    BY <2>1, <2>2, <2>3 DEF ToSet
<1> DEFINE k == IndexOf(ItemKinds, kind)
<1>3. k \in 0 .. Len(ItemKinds) - 1 /\ ItemKinds[k + 1] = kind
  BY <1>1, <1>2, IndexOfIs
<1> HIDE DEF k
<1>4. k + 1 = 1 + k /\ k + 1 \in 1 .. 8
  BY <1>1, <1>3
<1>5. 1 + k \in DOMAIN ItemKinds /\ 1 + k \in 1 .. 8 /\ ItemKinds[1 + k] = kind
  BY <1>1, <1>3, <1>4
<1> QED
  BY <1>5 DEF k

LEMMA ItemsAre ==
  ASSUME NEW x \in ItemSet
  PROVE  /\ x.kind \in AllKinds /\ x.vals \in ValsOf(x.kind) /\ x.at \in Nat /\ (x.kind = "restore" => x.at = 0)
         /\ x = [kind |-> x.kind, at |-> x.at, vals |-> x.vals]
         /\ x.kind \notin Single => Len(x.vals) \in Nat
<1>1. CASE x \in [kind : Narrow, at : Nat, vals : Seq(Nat)]
  <2>1. x.kind \in Narrow /\ x.vals \in Seq(Nat) /\ x.at \in Nat /\ x = [kind |-> x.kind, at |-> x.at, vals |-> x.vals]
    BY <1>1
  <2>2. Len(x.vals) \in Nat /\ x.kind # "restore" /\ x.kind \in AllKinds /\ ValsOf(x.kind) = Seq(Nat)
    BY <2>1 DEF ValsOf, Narrow, Wide, AllKinds
  <2> QED
    BY <2>1, <2>2
<1>2. CASE x \in [kind : {"words"}, at : Nat, vals : Seq(Int32)]
  <2>1. x.kind = "words" /\ x.vals \in Seq(Int32) /\ x.at \in Nat /\ x = [kind |-> x.kind, at |-> x.at, vals |-> x.vals]
    BY <1>2
  <2>2. Len(x.vals) \in Nat /\ x.kind # "restore" /\ x.kind \in AllKinds /\ ValsOf(x.kind) = Seq(Int32)
    BY <2>1 DEF ValsOf, Narrow, Wide, AllKinds
  <2> QED
    BY <2>1, <2>2
<1>3. CASE x \in [kind : Wide, at : Nat, vals : Seq([1 .. 2 -> Int32])]
  <2>1. /\ x.kind \in Wide /\ x.vals \in Seq([1 .. 2 -> Int32]) /\ x.at \in Nat
        /\ x = [kind |-> x.kind, at |-> x.at, vals |-> x.vals]
    BY <1>3
  <2>2. Len(x.vals) \in Nat /\ x.kind # "restore" /\ x.kind \in AllKinds /\ ValsOf(x.kind) = Seq([1 .. 2 -> Int32])
    BY <2>1 DEF ValsOf, Narrow, Wide, AllKinds
  <2> QED
    BY <2>1, <2>2
<1>4. CASE x \in [kind : {"array"}, at : Nat, vals : [1 .. 2 -> Int32]]
  BY <1>4 DEF ValsOf, Narrow, Wide, Single, AllKinds
<1>5. CASE x \in [kind : {"setarray"}, at : Nat, vals : [1 .. 1 -> Int32]]
  BY <1>5 DEF ValsOf, Narrow, Wide, Single, AllKinds
<1>6. CASE x \in [kind : {"restore"}, at : {0}, vals : {<<>>}]
  BY <1>6 DEF ValsOf, Narrow, Wide, Single, AllKinds
<1> QED
  BY <1>1, <1>2, <1>3, <1>4, <1>5, <1>6 DEF ItemSet

\* What follows the count: the place and the values.
LEMMA PlacedConveyed ==
  ASSUME NEW f \in Files, NEW p \in Places(f), NEW x \in ItemSet, NEW count, x.kind \notin Single => count = Len(x.vals)
  PROVE  /\ WriteOp(x.at) \o WriteValues(x.kind, x.vals) \in Seq(Int)
         /\ Conveys(f, p, WriteOp(x.at) \o WriteValues(x.kind, x.vals),
                    ItemOfCount(1 + IndexOf(ItemKinds, x.kind), ReadTo(f, p, count)), x)
<1> DEFINE k == 1 + IndexOf(ItemKinds, x.kind)
           s == WriteOp(x.at)
           t == WriteValues(x.kind, x.vals)
           mid == ReadOperand(ReadTo(f, p, count))
           got == ItemOfCount(k, ReadTo(f, p, count))
           kind == x.kind
           vals == x.vals
           at == x.at
<1>1. /\ kind \in AllKinds /\ vals \in ValsOf(kind) /\ at \in Nat /\ (kind = "restore" => at = 0)
      /\ x = [kind |-> kind, at |-> at, vals |-> vals]
  BY ItemsAre
<1>2. got = ItemAt(k, count, mid)
  BY AtIs DEF ItemOfCount
<1>3. k \in DOMAIN ItemKinds /\ ItemKinds[k] = kind
  BY <1>1, ItemKindsAre
<1>4. s \in Seq(Int) /\ Conveys(f, p, s, mid, at)
  BY <1>1, OperandConveyed
<1>5. t \in Seq(Int) /\ \A q \in Places(f) : \A v : Conveys(f, q, t, ReadValues(ReadTo(f, q, v), kind, count), vals)
  BY <1>1, ValuesConveyed
<1> HIDE DEF k, s, t, mid, got, kind, vals, at
<1>6. ASSUME NEW q \in Places(f), mid = ReadTo(f, q, at)
      PROVE  Conveys(f, q, t, got, x)
  <2> DEFINE last == ReadValues(mid, kind, count)
  <2>1. mid.ok /\ mid.val = at /\ at >= 0
    BY <1>1, <1>6, AtIs
  <2>2. got = ItemOf(kind, at, last)
    BY <1>2, <1>3, <2>1 DEF ItemAt
  <2>3. Conveys(f, q, t, last, vals)
    BY <1>5, <1>6
  <2>4. (IF kind = "restore" THEN 0 ELSE at) = at
    BY <1>1
  <2> HIDE DEF last
  <2>5. ASSUME NEW q2 \in Places(f), last = ReadTo(f, q2, vals)
        PROVE  got = ReadTo(f, q2, x)
    <3>1. last.val = vals
      BY <2>5, AtIs
    <3>2. got = Given(ReadTo(f, q2, vals), x)
      BY <1>1, <2>2, <2>4, <2>5, <3>1 DEF ItemOf
    <3> QED
      BY <3>2, GivenIs
  <2>6. ~ last.ok => ~ got.ok
    BY <2>2, GivenIs DEF ItemOf
  <2> QED
    BY <1>5, <2>3, <2>5, <2>6, Afterwards
<1>7. ~ mid.ok => ~ got.ok
  BY <1>2, RefuseIs DEF ItemAt
<1>8. Conveys(f, p, s \o t, got, x) /\ s \o t \in Seq(Int)
  BY <1>4, <1>5, <1>6, <1>7, Compose
<1> QED
  BY <1>8 DEF s, t, got, k, kind, vals, at

\* The byte that begins an item is the kind and, if there is room for it, the count; it is never null.
KindByte(x) ==
  LET k == 1 + IndexOf(ItemKinds, x.kind)
  IN IF x.kind \in Single THEN 16 * k + 1 ELSE IF Len(x.vals) \in 1 .. 15 THEN 16 * k + Len(x.vals) ELSE 16 * k
CountInByte(x) == x.kind \in Single \/ Len(x.vals) \in 1 .. 15
Placed(x) == WriteOp(x.at) \o WriteValues(x.kind, x.vals)
AfterKind(x) == IF CountInByte(x) THEN Placed(x) ELSE WriteOp(Len(x.vals)) \o Placed(x)

LEMMA KindByteIs ==
  ASSUME NEW x \in ItemSet
  PROVE  /\ KindByte(x) \in Nat /\ KindByte(x) # 0 /\ KindByte(x) \div 16 = 1 + IndexOf(ItemKinds, x.kind)
         /\ KindByte(x) % 16 = IF x.kind \in Single THEN 1 ELSE IF Len(x.vals) \in 1 .. 15 THEN Len(x.vals) ELSE 0
<1> DEFINE k == 1 + IndexOf(ItemKinds, x.kind)
           n == Len(x.vals)
           b == KindByte(x)
<1>1. k \in 1 .. 8
  BY ItemsAre, ItemKindsAre
<1>2. b = IF x.kind \in Single THEN 16 * k + 1 ELSE IF n \in 1 .. 15 THEN 16 * k + n ELSE 16 * k
  BY DEF KindByte
<1> HIDE DEF k, n, b
<1>3. \A m \in 0 .. 15 : 16 * k + m \in Nat /\ 16 * k + m # 0 /\ (16 * k + m) \div 16 = k /\ (16 * k + m) % 16 = m
  BY <1>1
<1>4. CASE x.kind \in Single
  <2>1. 1 \in 0 .. 15
    OBVIOUS
  <2> QED
    BY <1>2, <1>3, <1>4, <2>1 DEF k, n, b
<1>5. CASE x.kind \notin Single /\ n \in 1 .. 15
  <2>1. n \in 0 .. 15
    BY <1>5
  <2> QED
    BY <1>2, <1>3, <1>5, <2>1 DEF k, n, b
<1>6. CASE x.kind \notin Single /\ ~ n \in 1 .. 15
  <2>1. 0 \in 0 .. 15 /\ 16 * k + 0 = 16 * k
    BY <1>1
  <2> QED
    BY <1>2, <1>3, <1>6, <2>1 DEF k, n, b
<1> QED
  BY <1>4, <1>5, <1>6

LEMMA ItemBegins ==
  ASSUME NEW x \in ItemSet
  PROVE  /\ AfterKind(x) \in Seq(Int) /\ AfterKind(x) # <<>> /\ Placed(x) \in Seq(Int)
         /\ WriteItem(x) = <<KindByte(x)>> \o AfterKind(x)
<1> DEFINE k == 1 + IndexOf(ItemKinds, x.kind)
           n == Len(x.vals)
           kb == WriteKind(x.kind, n)
           a == WriteOp(x.at)
           v == WriteValues(x.kind, x.vals)
           c == WriteOp(n)
           b == <<KindByte(x)>>
<1>1. <<>> \in Files /\ 1 \in Places(<<>>)
  BY DEF Files, Places
<1>2. a \in Seq(Int) /\ a # <<>> /\ b \in Seq(Int)
  <2>1. x.at \in Int
    BY ItemsAre
  <2>2. KindByte(x) \in Int
    BY KindByteIs
  <2>3. b \in Seq(Int)
    BY <2>2
  <2>4. a \in Seq(Int) /\ a # <<>>
    BY <2>1, OperandTakesAByte
  <2> QED
    BY <2>3, <2>4
<1>3. v \in Seq(Int)
  BY <1>1, ItemsAre, ValuesConveyed
<1>4. x.kind \notin Single => c \in Seq(Int) /\ c # <<>>
  <2>1. x.kind \notin Single => n \in Int
    BY ItemsAre
  <2> QED
    BY <2>1, OperandTakesAByte
<1>5. kb = IF CountInByte(x) THEN b ELSE b \o c
  <2>1. x.kind \in Single => kb = <<16 * k + 1>>
    BY DEF WriteKind
  <2>2. x.kind \notin Single /\ n \in 1 .. 15 => kb = <<16 * k + n>>
    BY DEF WriteKind
  <2>3. x.kind \notin Single /\ ~ n \in 1 .. 15 => kb = <<16 * k>> \o c
    BY DEF WriteKind
  <2>4. KindByte(x) = IF x.kind \in Single THEN 16 * k + 1 ELSE IF n \in 1 .. 15 THEN 16 * k + n ELSE 16 * k
    BY DEF KindByte
  <2>5. CountInByte(x) <=> x.kind \in Single \/ n \in 1 .. 15
    BY DEF CountInByte
  <2> HIDE DEF k, n, kb, c
  <2> QED
    BY <2>1, <2>2, <2>3, <2>4, <2>5
<1>6. WriteItem(x) = (kb \o a) \o v /\ Placed(x) = a \o v /\ AfterKind(x) = (IF CountInByte(x) THEN a \o v ELSE c \o (a \o v))
  BY DEF WriteItem, Placed, AfterKind
<1>7. ~ CountInByte(x) => x.kind \notin Single
  BY DEF CountInByte
<1> HIDE DEF k, n, kb, a, v, c, b
<1>8. a \o v \in Seq(Int) /\ a \o v # <<>>
  BY <1>2, <1>3, BeginsWithSome
<1>9. CASE CountInByte(x)
  <2>1. (b \o a) \o v = b \o (a \o v)
    BY <1>2, <1>3, ConcatRegroups
  <2> QED
    BY <1>5, <1>6, <1>8, <1>9, <2>1 DEF b
<1>10. CASE ~ CountInByte(x)
  <2>1. c \in Seq(Int) /\ c # <<>>
    BY <1>4, <1>7, <1>10
  <2> DEFINE bc == b \o c
             av == a \o v
  <2>2. bc \in Seq(Int) /\ av \in Seq(Int)
    BY <1>2, <1>8, <2>1
  <2>3. (bc \o a) \o v = bc \o av
    <3> HIDE DEF bc
    <3> QED
      BY <1>2, <1>3, <2>2, ConcatRegroups
  <2>4. (b \o c) \o av = b \o (c \o av)
    <3> HIDE DEF av, bc
    <3>1. b \in Seq(Int) /\ c \in Seq(Int) /\ av \in Seq(Int)
      BY <1>2, <2>1, <2>2
    <3> QED
      BY <3>1, BytesRegroup
  <2>5. c \o av \in Seq(Int) /\ c \o av # <<>>
    <3> HIDE DEF av
    <3> QED
      BY <2>1, <2>2, BeginsWithSome
  <2> QED
    BY <1>5, <1>6, <1>8, <1>10, <2>3, <2>4, <2>5 DEF b
<1> QED
  BY <1>9, <1>10

LEMMA ItemConveyed ==
  ASSUME NEW f \in Files, NEW p \in Places(f), NEW u, NEW x \in ItemSet
  PROVE  WriteItem(x) \in Seq(Int) /\ Conveys(f, p, WriteItem(x), ReadItem(ReadTo(f, p, u)), x)
<1> DEFINE k == 1 + IndexOf(ItemKinds, x.kind)
           n == Len(x.vals)
           b == KindByte(x)
           s == <<b>>
           t == AfterKind(x)
           first == ReadByte(ReadTo(f, p, u))
           got == ItemFrom(first)
<1>1. /\ b \in Nat /\ b \div 16 = k
      /\ b % 16 = IF x.kind \in Single THEN 1 ELSE IF n \in 1 .. 15 THEN n ELSE 0
  BY KindByteIs
<1>2. t \in Seq(Int) /\ Placed(x) \in Seq(Int) /\ WriteItem(x) = s \o t
  BY ItemBegins
<1>3. s \in Seq(Int) /\ Conveys(f, p, s, first, b)
  BY <1>1, ByteConveyed
<1>4. ReadItem(ReadTo(f, p, u)) = got
  BY DEF ReadItem
<1>5. ~ first.ok => ~ got.ok
  BY DEF ItemFrom
<1>6. \A q \in Places(f) : \A count : (x.kind \notin Single => count = n) => Conveys(f, q, Placed(x), ItemOfCount(k, ReadTo(f, q, count)), x)
  BY PlacedConveyed DEF Placed
<1>7. x.kind \notin Single => n \in Nat
  BY ItemsAre
<1> HIDE DEF k, n, b, first, got
<1>8. ASSUME NEW q \in Places(f), first = ReadTo(f, q, b)
      PROVE  Conveys(f, q, t, got, x)
  <2>1. got = ItemOfCount(k, IF b % 16 = 0 THEN ReadCount(ReadTo(f, q, b)) ELSE ReadTo(f, q, b % 16))
    <3>1. first.ok /\ first.val = b /\ Given(first, b % 16) = ReadTo(f, q, b % 16)
      BY <1>8, AtIs, GivenIs
    <3> QED
      BY <1>1, <1>8, <3>1 DEF ItemFrom, got
  <2>2. CASE CountInByte(x)
    <3>1. b % 16 # 0 /\ (x.kind \notin Single => b % 16 = n)
      <4>1. \A m : m \in 1 .. 15 => m # 0
        OBVIOUS
      <4>2. x.kind \in Single \/ n \in 1 .. 15
        BY <2>2 DEF CountInByte, n
      <4>3. CASE x.kind \in Single
        BY <1>1, <4>3
      <4>4. CASE x.kind \notin Single
        BY <1>1, <4>1, <4>2, <4>4
      <4> QED
        BY <4>3, <4>4
    <3>2. got = ItemOfCount(k, ReadTo(f, q, b % 16))
      BY <2>1, <3>1
    <3>3. t = Placed(x)
      BY <2>2 DEF AfterKind
    <3> QED
      BY <1>6, <3>1, <3>2, <3>3
  <2>3. CASE ~ CountInByte(x)
    <3> DEFINE mid == ReadCount(ReadTo(f, q, b))
               c == WriteOp(n)
               z == Placed(x)
    <3>1. b % 16 = 0 /\ x.kind \notin Single
      BY <1>1, <2>3 DEF CountInByte, n
    <3>2. got = ItemOfCount(k, mid) /\ t = c \o z
      BY <2>1, <2>3, <3>1 DEF AfterKind, n
    <3>3. c \in Seq(Int) /\ Conveys(f, q, c, mid, n)
      BY <1>7, <3>1, CountConveyed
    <3>4. z \in Seq(Int) /\ \A q2 \in Places(f) : mid = ReadTo(f, q2, n) => Conveys(f, q2, z, got, x)
      BY <1>2, <1>6, <3>2
    <3>5. ~ mid.ok => ~ got.ok
      BY <3>2 DEF ItemOfCount
    <3> HIDE DEF mid, c, z
    <3>6. Conveys(f, q, c \o z, got, x)
      BY <3>3, <3>4, <3>5, Compose
    <3> QED
      BY <3>2, <3>6
  <2> QED
    BY <2>2, <2>3
<1> HIDE DEF s, t
<1>9. Conveys(f, p, s \o t, got, x) /\ s \o t \in Seq(Int)
  BY <1>2, <1>3, <1>5, <1>8, Compose
<1> QED
  BY <1>2, <1>4, <1>9

-----------------------------------------------------------------------------
(* Exports, imports and handlers.                                              *)

LEMMA ExportConveyed ==
  ASSUME NEW f \in Files, NEW p \in Places(f), NEW u, NEW x \in ExportSet
  PROVE  /\ WriteExport(x) \in Seq(Int) /\ WriteExport(x) # <<>>
         /\ Conveys(f, p, WriteExport(x), ReadExport(ReadTo(f, p, u)), x)
<1> DEFINE kinds == <<"operand", "operand", "word", "name">>
           vals == <<x.pc, x.frame, x.sig, x.name>>
           V == {x.pc, x.frame, x.sig, x.name}
           seqs == <<WriteOp(x.pc), WriteOp(x.frame), WriteWord(x.sig), WriteName(x.name)>>
           s == Flat(seqs)
           mid == ReadEach(ReadTo(f, p, u), ReadField, kinds)
           got == ExportOf(mid)
<1>1. /\ x.pc \in Int /\ x.frame \in Int /\ x.sig \in Int32 /\ x.name \in NameSet
      /\ x = [pc |-> x.pc, frame |-> x.frame, sig |-> x.sig, name |-> x.name]
  BY DEF ExportSet
<1>2. /\ kinds \in Seq(FieldKinds) /\ Len(kinds) = 4
      /\ kinds[1] = "operand" /\ kinds[2] = "operand" /\ kinds[3] = "word" /\ kinds[4] = "name"
  BY DEF FieldKinds
<1>3. vals \in Seq(V) /\ Len(vals) = 4 /\ vals[1] = x.pc /\ vals[2] = x.frame /\ vals[3] = x.sig /\ vals[4] = x.name
  OBVIOUS
<1>4. /\ DOMAIN seqs = 1 .. 4 /\ seqs = [k \in DOMAIN seqs |-> seqs[k]]
      /\ seqs[1] = WriteOp(x.pc) /\ seqs[2] = WriteOp(x.frame) /\ seqs[3] = WriteWord(x.sig) /\ seqs[4] = WriteName(x.name)
  OBVIOUS
<1>5. WriteExport(x) = s /\ ReadExport(ReadTo(f, p, u)) = got
  BY DEF WriteExport, ReadExport
<1> HIDE DEF kinds, vals, V, seqs
<1>6. \A k \in 1 .. 4 : vals[k] \in FieldSet(kinds[k]) /\ seqs[k] = FieldBytes(kinds[k], vals[k])
  BY <1>1, <1>2, <1>3, <1>4 DEF FieldSet, FieldBytes
<1>7. s \in Seq(Int) /\ s # <<>> /\ Conveys(f, p, s, mid, vals)
  <2>1. Len(kinds) > 0 /\ Len(vals) = Len(kinds) /\ DOMAIN seqs = 1 .. Len(kinds) /\ kinds \in Seq(FieldKinds) /\ vals \in Seq(V)
    BY <1>2, <1>3, <1>4
  <2>2. \A k \in 1 .. Len(kinds) : vals[k] \in FieldSet(kinds[k]) /\ seqs[k] = FieldBytes(kinds[k], vals[k])
    BY <1>2, <1>6
  <2>3. s # <<>>
    BY <1>4, <2>1, <2>2, RecordTakesAByte
  <2>4. s \in Seq(Int) /\ Conveys(f, p, s, mid, vals)
    BY <1>4, <2>1, <2>2, RecordConveyed
  <2> QED
    BY <2>3, <2>4
<1> HIDE DEF s, mid
<1>8. ASSUME NEW q \in Places(f), mid = ReadTo(f, q, vals)
      PROVE  got = ReadTo(f, q, x)
  BY <1>1, <1>3, <1>8, AtIs, GivenIs DEF ExportOf
<1>9. ~ mid.ok => ~ got.ok
  BY GivenIs DEF ExportOf
<1> HIDE DEF got
<1>10. Conveys(f, p, s, got, x)
  BY <1>7, <1>8, <1>9, Afterwards
<1> QED
  BY <1>5, <1>7, <1>10

LEMMA ImportConveyed ==
  ASSUME NEW f \in Files, NEW p \in Places(f), NEW u, NEW x \in Seq(FunctionSet)
  PROVE  /\ WriteImport(x) \in Seq(Int) /\ WriteImport(x) # <<>>
         /\ Conveys(f, p, WriteImport(x), ReadImport(ReadTo(f, p, u)), x)
<1> DEFINE n == Len(x)
           seqs == [k \in DOMAIN x |-> WriteFunction(x[k])]
           s == WriteOp(n)
           t == Flat(seqs)
           mid == ReadCount(ReadTo(f, p, u))
           got == ReadMany(mid, ReadPart, "function")
<1>1. WriteImport(x) = s \o t /\ ReadImport(ReadTo(f, p, u)) = got
  BY DEF WriteImport, ReadImport, Counted, Each
<1>2. n \in Nat
  OBVIOUS
<1>3. s \in Seq(Int) /\ s # <<>> /\ Conveys(f, p, s, mid, n)
  BY <1>2, CountConveyed, OperandTakesAByte
<1>4. "function" \in PartKinds /\ PartSet("function") = FunctionSet /\ \A y : PartBytes("function", y) = WriteFunction(y)
  BY DEF PartKinds, PartSet, PartBytes
<1>5. DOMAIN seqs = DOMAIN x /\ seqs = [k \in DOMAIN seqs |-> seqs[k]]
  OBVIOUS
<1>6. \A k \in 1 .. n : x[k] \in PartSet("function") /\ seqs[k] = PartBytes("function", x[k]) /\ seqs[k] # <<>>
  <2>1. \A k \in 1 .. n : x[k] \in FunctionSet /\ seqs[k] = WriteFunction(x[k])
    OBVIOUS
  <2> QED
    BY <1>4, <2>1, PartsTakeAByte
<1> HIDE DEF seqs, got, mid, s
<1>7. \A q \in Places(f) : t \in Seq(Int) /\ Conveys(f, q, t, ReadMany(ReadTo(f, q, n), ReadPart, "function"), x)
  BY <1>4, <1>5, <1>6, ManyPartsConveyed
<1>8. t \in Seq(Int) /\ \A q \in Places(f) : mid = ReadTo(f, q, n) => Conveys(f, q, t, got, x)
  BY <1>7 DEF got
<1>9. ~ mid.ok => ~ got.ok
  BY RefuseIs DEF got, ReadMany
<1> HIDE DEF n, t
<1>10. Conveys(f, p, s \o t, got, x) /\ s \o t \in Seq(Int) /\ s \o t # <<>>
  BY <1>3, <1>8, <1>9, Compose, BeginsWithSome
<1> QED
  BY <1>1, <1>10

LEMMA FlatFront ==
  ASSUME NEW seqs \in Seq(Seq(Int)), NEW n \in Nat, Len(seqs) = n + 1, seqs[n + 1] = <<>>
  PROVE  Flat(seqs) = Flat(SubSeq(seqs, 1, n))
<1> DEFINE front == SubSeq(seqs, 1, n)
<1>1. PICK P : IsJoined(P, seqs, Int)
  BY JoinedExists
<1> DEFINE Q == [k \in 0 .. n |-> P[k]]
<1>2. front \in Seq(Seq(Int)) /\ Len(front) = n /\ \A k \in 1 .. n : front[k] = seqs[k]
  OBVIOUS
<1>3. P \in [0 .. n + 1 -> Seq(Int)] /\ P[0] = <<>> /\ \A k \in 0 .. n : P[k + 1] = P[k] \o seqs[k + 1]
  <2>1. Len(seqs) - 1 = n
    OBVIOUS
  <2> QED
    BY <1>1, <2>1 DEF IsJoined
<1> HIDE DEF front
<1>4. Q \in [0 .. n -> Seq(Int)] /\ Q[0] = <<>> /\ Q[n] = P[n]
  BY <1>3
<1>5. \A k \in 0 .. n - 1 : Q[k + 1] = Q[k] \o front[k + 1]
  <2> SUFFICES ASSUME NEW k \in 0 .. n - 1
               PROVE  Q[k + 1] = Q[k] \o front[k + 1]
    OBVIOUS
  <2>1. k \in 0 .. n /\ k + 1 \in 0 .. n /\ k + 1 \in 1 .. n
    OBVIOUS
  <2> QED
    BY <1>2, <1>3, <2>1
<1> HIDE DEF Q
<1>6. IsJoined(Q, front, Int)
  BY <1>2, <1>4, <1>5 DEF IsJoined
<1>7. Flat(front) = P[n]
  BY <1>2, <1>4, <1>6, FlatJoins
<1>8. P[n + 1] = P[n] \o <<>> /\ P[n] \in Seq(Int)
  <2>1. n \in 0 .. n /\ n \in 0 .. n + 1
    OBVIOUS
  <2>2. P[n + 1] = P[n] \o seqs[n + 1]
    BY <1>3, <2>1
  <2> QED
    BY <1>3, <2>1, <2>2
<1>9. P[n + 1] = P[n]
  BY <1>8, ConcatEmptySeq
<1>10. Flat(seqs) = P[n + 1]
  BY <1>1, FlatJoins
<1> QED
  BY <1>7, <1>9, <1>10 DEF front

\* How many cases of a handler have a name.
Named(x) == Len(x.cases) - 1

LEMMA HandlerIs ==
  ASSUME NEW x \in HandlerSet
  PROVE  /\ x.at \in Int /\ x.from \in Int /\ x.to \in Int /\ x.type \in Int /\ x.cases \in Seq(CaseSet)
         /\ x = [at |-> x.at, from |-> x.from, to |-> x.to, type |-> x.type, cases |-> x.cases]
         /\ Named(x) \in Nat /\ Len(x.cases) = Named(x) + 1 /\ Named(x) % MostCases = Named(x)
         /\ \A k \in 1 .. Named(x) : x.cases[k] \in CaseSet /\ x.cases[k].name # NoName
         /\ x.cases[Named(x) + 1] \in CaseSet /\ x.cases[Named(x) + 1].name = NoName
         /\ WriteHandler(x) = Each(WriteOp, <<x.at, x.from, x.to, x.type, Named(x)>>)
                                \o Each(WriteCase, x.cases) \o WriteOp(x.cases[Named(x) + 1].pc)
<1> DEFINE n == Named(x)
           L == Len(x.cases)
           cases == x.cases
           nameless == {k \in DOMAIN cases : cases[k].name = NoName}
           named == DOMAIN cases \ nameless
<1>1. /\ x.at \in Int /\ x.from \in Int /\ x.to \in Int /\ x.type \in Int /\ cases \in Seq(CaseSet)
      /\ x = [at |-> x.at, from |-> x.from, to |-> x.to, type |-> x.type, cases |-> cases]
  BY DEF HandlerSet
<1>2. L \in 1 .. MostCases /\ \A k \in DOMAIN cases : cases[k].name = NoName <=> k = L
  BY DEF HandlerSet
<1>3. L = Len(cases) /\ n = L - 1
  BY DEF Named
<1>4. MostCases \in Nat /\ \A m \in Nat : m < MostCases => m % MostCases = m
  BY SMT DEF MostCases
<1> HIDE DEF cases, L, n
<1>5. n \in Nat /\ L = n + 1 /\ n < MostCases
  BY <1>2, <1>3, <1>4
<1>6. n % MostCases = n
  BY <1>4, <1>5
<1>7. DOMAIN cases = 1 .. n + 1 /\ n + 1 \in 1 .. n + 1 /\ \A k \in 1 .. n : k \in 1 .. n + 1 /\ k # n + 1
  BY <1>1, <1>3, <1>5
<1>8. \A k \in 1 .. n : cases[k] \in CaseSet /\ cases[k].name # NoName
  BY <1>1, <1>2, <1>5, <1>7
<1>9. cases[n + 1] \in CaseSet /\ cases[n + 1].name = NoName
  BY <1>1, <1>2, <1>5, <1>7
<1>10. nameless = {n + 1}
  BY <1>2, <1>5, <1>7
<1>11. named = 1 .. n
  BY <1>5, <1>7, <1>10
<1>12. Cardinality(named) = n
  <2>1. Cardinality(1 .. n) = n
    BY <1>5, FS_Interval
  <2> QED
    BY <1>11, <2>1
<1>13. nameless # {} /\ Min(nameless) = n + 1
  <2>1. Min({n + 1}) = n + 1
    BY <1>5 DEF Min
  <2> QED
    BY <1>10, <2>1
<1>14. WriteHandler(x) = Each(WriteOp, <<x.at, x.from, x.to, x.type, Cardinality(named) % MostCases>>)
                           \o Each(WriteCase, cases) \o WriteOp(IF nameless = {} THEN -1 ELSE cases[Min(nameless)].pc)
  BY DEF WriteHandler, cases
<1> HIDE DEF nameless, named
<1>15. WriteHandler(x) = Each(WriteOp, <<x.at, x.from, x.to, x.type, n>>) \o Each(WriteCase, cases) \o WriteOp(cases[n + 1].pc)
  BY <1>6, <1>12, <1>13, <1>14
<1> QED
  BY <1>1, <1>3, <1>5, <1>6, <1>8, <1>9, <1>15 DEF cases, n

LEMMA NamedCasesConveyed ==
  ASSUME NEW f \in Files, NEW p \in Places(f), NEW x \in HandlerSet
  PROVE  /\ Each(WriteCase, x.cases) \in Seq(Int)
         /\ Conveys(f, p, Each(WriteCase, x.cases), ReadMany(ReadTo(f, p, Named(x)), ReadPart, "case"), SubSeq(x.cases, 1, Named(x)))
<1> DEFINE n == Named(x)
           cases == x.cases
           seqs == [k \in DOMAIN cases |-> WriteCase(cases[k])]
           vals == SubSeq(cases, 1, n)
           front == SubSeq(seqs, 1, n)
<1>1. /\ n \in Nat /\ cases \in Seq(CaseSet) /\ Len(cases) = n + 1 /\ cases[n + 1].name = NoName
      /\ \A k \in 1 .. n : cases[k] \in CaseSet /\ cases[k].name # NoName
  BY HandlerIs
<1>2. Each(WriteCase, x.cases) = Flat(seqs)
  BY DEF Each
<1> HIDE DEF n, cases
<1>3. <<>> \in Files /\ 1 \in Places(<<>>)
  BY DEF Files, Places
<1>4. n + 1 \in 1 .. n + 1 /\ DOMAIN cases = 1 .. n + 1 /\ n + 1 \in Nat
  BY <1>1
<1>5. \A k \in 1 .. n + 1 : WriteCase(cases[k]) \in Seq(Int)
  <2> SUFFICES ASSUME NEW k \in 1 .. n + 1
               PROVE  WriteCase(cases[k]) \in Seq(Int)
    OBVIOUS
  <2>1. CASE k \in 1 .. n
    BY <1>1, <1>3, <2>1, CaseConveyed
  <2>2. CASE k = n + 1
    <3>1. WriteCase(cases[k]) = <<>>
      BY <1>1, <2>2 DEF WriteCase
    <3> QED
      BY <3>1
  <2> QED
    BY <1>1, <2>1, <2>2
<1>6. seqs \in Seq(Seq(Int)) /\ Len(seqs) = n + 1
  <2>1. seqs \in [1 .. n + 1 -> Seq(Int)]
    BY <1>4, <1>5
  <2> HIDE DEF seqs
  <2> DEFINE m == n + 1
  <2>2. m \in Nat /\ seqs \in [1 .. m -> Seq(Int)]
    BY <1>4, <2>1
  <2> HIDE DEF m
  <2>3. seqs \in Seq(Seq(Int)) /\ Len(seqs) = m
    BY <2>2, FunctionIsSeq
  <2> QED
    BY <2>3 DEF m
<1>7. seqs[n + 1] = <<>> /\ \A k \in 1 .. n : seqs[k] = WriteCase(cases[k])
  BY <1>1, <1>4 DEF WriteCase
<1> HIDE DEF seqs
<1>8. Flat(seqs) = Flat(front)
  BY <1>1, <1>6, <1>7, FlatFront
<1>9. vals \in Seq(CaseSet) /\ Len(vals) = n /\ \A k \in 1 .. n : vals[k] = cases[k]
  BY <1>1
<1>10. front \in Seq(Seq(Int)) /\ Len(front) = n /\ \A k \in 1 .. n : front[k] = seqs[k]
  BY <1>1, <1>6
<1> HIDE DEF vals, front
<1>11. DOMAIN front = DOMAIN vals /\ front = [k \in DOMAIN front |-> front[k]]
  BY <1>9, <1>10
<1>12. "case" \in PartKinds /\ PartSet("case") = {c \in CaseSet : c.name # NoName} /\ \A y : PartBytes("case", y) = WriteCase(y)
  BY DEF PartKinds, PartSet, PartBytes
<1>13. \A k \in 1 .. Len(vals) : vals[k] \in PartSet("case") /\ front[k] = PartBytes("case", vals[k]) /\ front[k] # <<>>
  <2> SUFFICES ASSUME NEW k \in 1 .. n
               PROVE  vals[k] \in PartSet("case") /\ front[k] = PartBytes("case", vals[k]) /\ front[k] # <<>>
    BY <1>9
  <2>1. vals[k] \in CaseSet /\ vals[k].name # NoName /\ front[k] = WriteCase(vals[k])
    BY <1>1, <1>7, <1>9, <1>10
  <2> QED
    BY <1>12, <2>1, PartsTakeAByte
<1>14. Flat(front) \in Seq(Int) /\ Conveys(f, p, Flat(front), ReadMany(ReadTo(f, p, Len(vals)), ReadPart, "case"), vals)
  BY <1>9, <1>11, <1>12, <1>13, ManyPartsConveyed
<1>15. Flat(seqs) \in Seq(Int) /\ Conveys(f, p, Flat(seqs), ReadMany(ReadTo(f, p, n), ReadPart, "case"), vals)
  BY <1>8, <1>9, <1>14
<1> QED
  BY <1>2, <1>15 DEF n, vals, cases

\* A handler is five numbers, the cases that have a name, which are counted, and where the others go
\* (write_dis, parse_handlers).
THEOREM HandlerConveyed ==
  ASSUME NEW f \in Files, NEW p \in Places(f), NEW u, NEW x \in HandlerSet
  PROVE  /\ WriteHandler(x) \in Seq(Int) /\ WriteHandler(x) # <<>>
         /\ Conveys(f, p, WriteHandler(x), ReadHandler(ReadTo(f, p, u)), x)
<1> DEFINE n == Named(x)
           head == <<x.at, x.from, x.to, x.type, n>>
           kinds == <<"operand", "operand", "operand", "operand", "operand">>
           seqs == [k \in DOMAIN head |-> WriteOp(head[k])]
           s1 == Flat(seqs)
           s2 == Each(WriteCase, x.cases)
           last == x.cases[n + 1]
           s3 == WriteOp(last.pc)
           vals == SubSeq(x.cases, 1, n)
           mid == ReadEach(ReadTo(f, p, u), ReadField, kinds)
           got == HandlerFrom(mid)
<1>1. /\ x.at \in Int /\ x.from \in Int /\ x.to \in Int /\ x.type \in Int /\ x.cases \in Seq(CaseSet)
      /\ x = [at |-> x.at, from |-> x.from, to |-> x.to, type |-> x.type, cases |-> x.cases]
      /\ n \in Nat /\ Len(x.cases) = n + 1 /\ n % MostCases = n
      /\ last \in CaseSet /\ last.name = NoName
      /\ WriteHandler(x) = Each(WriteOp, head) \o s2 \o s3
  BY HandlerIs
<1>2. Each(WriteOp, head) = s1 /\ ReadHandler(ReadTo(f, p, u)) = got
  BY DEF Each, ReadHandler
<1>3. s2 \in Seq(Int) /\ \A q \in Places(f) : Conveys(f, q, s2, ReadMany(ReadTo(f, q, n), ReadPart, "case"), vals)
  BY NamedCasesConveyed
<1> HIDE DEF n, s2
<1>4. /\ head \in Seq(Int) /\ Len(head) = 5 /\ DOMAIN head = 1 .. 5
      /\ head[1] = x.at /\ head[2] = x.from /\ head[3] = x.to /\ head[4] = x.type /\ head[5] = n
  BY <1>1
<1>5. kinds \in Seq(FieldKinds) /\ Len(kinds) = 5 /\ \A k \in 1 .. 5 : kinds[k] = "operand"
  BY DEF FieldKinds
<1> HIDE DEF head, kinds
<1>6. DOMAIN seqs = 1 .. 5 /\ seqs = [k \in DOMAIN seqs |-> seqs[k]] /\ \A k \in 1 .. 5 : seqs[k] = WriteOp(head[k])
  BY <1>4
<1>7. \A k \in 1 .. 5 : head[k] \in FieldSet(kinds[k]) /\ seqs[k] = FieldBytes(kinds[k], head[k])
  <2> HIDE DEF seqs
  <2>1. head[1] \in Int /\ head[2] \in Int /\ head[3] \in Int /\ head[4] \in Int /\ head[5] \in Int
    BY <1>1, <1>4
  <2>2. \A k \in 1 .. 5 : head[k] \in Int
    BY <2>1
  <2> QED
    BY <1>5, <1>6, <2>2 DEF FieldSet, FieldBytes
<1> HIDE DEF seqs
<1>8. s1 \in Seq(Int) /\ s1 # <<>> /\ Conveys(f, p, s1, mid, head)
  <2>1. Len(kinds) > 0 /\ Len(head) = Len(kinds) /\ DOMAIN seqs = 1 .. Len(kinds) /\ kinds \in Seq(FieldKinds) /\ head \in Seq(Int)
    BY <1>4, <1>5, <1>6
  <2>2. \A k \in 1 .. Len(kinds) : head[k] \in FieldSet(kinds[k]) /\ seqs[k] = FieldBytes(kinds[k], head[k])
    BY <1>5, <1>7
  <2>3. s1 # <<>>
    BY <1>6, <2>1, <2>2, RecordTakesAByte
  <2>4. s1 \in Seq(Int) /\ Conveys(f, p, s1, mid, head)
    BY <1>6, <2>1, <2>2, RecordConveyed
  <2> QED
    BY <2>3, <2>4
<1>9. s3 \in Seq(Int) /\ last.pc \in Int
  <2>1. last.pc \in Int
    BY <1>1 DEF CaseSet
  <2> QED
    BY <2>1, OperandTakesAByte
<1>10. Append(vals, [name |-> NoName, pc |-> last.pc]) = x.cases
  <2>1. last = [name |-> NoName, pc |-> last.pc]
    BY <1>1 DEF CaseSet
  <2>2. vals \in Seq(CaseSet) /\ Len(vals) = n /\ \A k \in 1 .. n : vals[k] = x.cases[k]
    BY <1>1
  <2> HIDE DEF vals
  <2> DEFINE all == Append(vals, last)
  <2>3. /\ all \in Seq(CaseSet) /\ Len(all) = n + 1 /\ all[n + 1] = last
        /\ \A k \in 1 .. n : all[k] = vals[k]
    BY <1>1, <2>2, AppendProperties
  <2> HIDE DEF all
  <2>4. \A k \in 1 .. n + 1 : all[k] = x.cases[k]
    BY <1>1, <2>2, <2>3
  <2>5. all = x.cases
    BY <1>1, <2>3, <2>4, SameSequence
  <2> QED
    BY <2>1, <2>5 DEF all
<1> HIDE DEF s1, s3, mid, got, vals, last
<1>11. ASSUME NEW q \in Places(f), mid = ReadTo(f, q, head)
       PROVE  Conveys(f, q, s2 \o s3, got, x)
  <2> DEFINE many == ReadMany(ReadTo(f, q, n), ReadPart, "case")
  <2>1. got = HandlerWith(head, many)
    <3>1. mid.ok /\ mid.val = head /\ Given(mid, n) = ReadTo(f, q, n) /\ head[5] % MostCases = n
      BY <1>1, <1>4, <1>11, AtIs, GivenIs
    <3> QED
      BY <3>1 DEF HandlerFrom, got
  <2>2. Conveys(f, q, s2, many, vals)
    BY <1>3
  <2> HIDE DEF many
  <2>3. ASSUME NEW q2 \in Places(f), many = ReadTo(f, q2, vals)
        PROVE  Conveys(f, q2, s3, got, x)
    <3> DEFINE other == ReadOperand(many)
               y == last.pc
    <3>1. got = HandlerOf(head, vals, other)
      BY <2>1, <2>3, AtIs DEF HandlerWith
    <3>2. Conveys(f, q2, s3, other, y)
      BY <1>9, <2>3, OperandConveyed DEF s3
    <3> HIDE DEF other
    <3>3. ASSUME NEW q3 \in Places(f), other = ReadTo(f, q3, y)
          PROVE  got = ReadTo(f, q3, x)
      <4>1. other.val = last.pc
        BY <3>3, AtIs
      <4>2. got = Given(ReadTo(f, q3, y), x)
        BY <1>1, <1>4, <1>10, <3>1, <3>3, <4>1 DEF HandlerOf
      <4> QED
        BY <4>2, GivenIs
    <3>4. ~ other.ok => ~ got.ok
      BY <3>1, GivenIs DEF HandlerOf
    <3> HIDE DEF y
    <3> QED
      BY <1>9, <3>2, <3>3, <3>4, Afterwards
  <2>4. ~ many.ok => ~ got.ok
    BY <2>1 DEF HandlerWith
  <2> QED
    BY <1>3, <1>9, <2>2, <2>3, <2>4, Compose
<1>12. ~ mid.ok => ~ got.ok
  BY DEF HandlerFrom, got
<1> DEFINE s23 == s2 \o s3
<1>13. s23 \in Seq(Int) /\ \A q \in Places(f) : mid = ReadTo(f, q, head) => Conveys(f, q, s23, got, x)
  BY <1>3, <1>9, <1>11
<1>14. (s1 \o s2) \o s3 = s1 \o s23
  BY <1>3, <1>8, <1>9, BytesRegroup
<1> HIDE DEF s23
<1>15. Conveys(f, p, s1 \o s23, got, x) /\ s1 \o s23 \in Seq(Int) /\ s1 \o s23 # <<>>
  BY <1>8, <1>12, <1>13, Compose, BeginsWithSome
<1> QED
  BY <1>1, <1>2, <1>14, <1>15

-----------------------------------------------------------------------------
(* The things of a section, as they are read one after the other.              *)

LEMMA SomeThingIs ==
  ASSUME NEW kinds, Len(kinds) \in Nat, NEW c,
         \A k \in 0 .. Len(kinds) - 1 :
           c[k + 1] = IF c[k].ok THEN Gathered(c[k], ReadThing(c[k], kinds[k + 1])) ELSE c[k],
         NEW b \in 0 .. Len(kinds), NEW a \in 0 .. b
  PROVE  Some(c[a], ReadThing, kinds, a, b) = c[b]
<1> DEFINE Is(u) == u = [n \in a .. b |-> IF n = a THEN c[a] ELSE Onward(u[n - 1], ReadThing, kinds[n])]
           upto == CHOOSE u : Is(u)
           F == [n \in a .. b |-> c[n]]
           D(i) == a + i <= b => upto[a + i] = c[a + i]
           E(i) == a + i <= b => c[a + i] = c[a]
           S == {i \in Nat : D(i)}
           T == {i \in Nat : E(i)}
<1>0. a \in Nat /\ b \in Nat /\ a <= b /\ b <= Len(kinds) /\ b - a \in Nat /\ a + (b - a) = b
  OBVIOUS
<1>1. Some(c[a], ReadThing, kinds, a, b) = IF c[a].ok THEN upto[b] ELSE c[a]
  BY DEF Some
<1>2. ASSUME NEW n \in a .. b, n # a
      PROVE  c[n] = Onward(c[n - 1], ReadThing, kinds[n])
  <2>1. n - 1 \in 0 .. Len(kinds) - 1 /\ (n - 1) + 1 = n
    BY <1>0, <1>2
  <2>2. c[(n - 1) + 1] = IF c[n - 1].ok THEN Gathered(c[n - 1], ReadThing(c[n - 1], kinds[(n - 1) + 1])) ELSE c[n - 1]
    BY <2>1
  <2> QED
    BY <2>1, <2>2 DEF Onward
<1>3. CASE c[a].ok
  <2>1. ASSUME NEW n \in a .. b
        PROVE  F[n] = IF n = a THEN c[a] ELSE Onward(F[n - 1], ReadThing, kinds[n])
    <3>1. CASE n = a
      BY <3>1
    <3>2. CASE n # a
      <4>1. n - 1 \in a .. b
        BY <1>0, <3>2
      <4>2. F[n] = c[n] /\ F[n - 1] = c[n - 1]
        BY <4>1
      <4> HIDE DEF F
      <4> QED
        BY <1>2, <3>2, <4>2
    <3> QED
      BY <3>1, <3>2
  <2>2. Is(F)
    BY <2>1
  <2>3. Is(upto)
    <3> HIDE DEF F, Is
    <3> QED
      BY <2>2
  <2> HIDE DEF upto
  <2>4. \A n \in a .. b : upto[n] = IF n = a THEN c[a] ELSE Onward(upto[n - 1], ReadThing, kinds[n])
    BY <2>3
  <2> HIDE DEF Is, F
  <2>5. D(0)
    BY <1>0, <2>4
  <2>6. ASSUME NEW i \in Nat, D(i)
        PROVE  D(i + 1)
    <3> SUFFICES ASSUME a + (i + 1) <= b PROVE upto[a + (i + 1)] = c[a + (i + 1)]
      OBVIOUS
    <3>1. a + (i + 1) \in a .. b /\ a + (i + 1) # a /\ a + (i + 1) - 1 = a + i /\ a + i <= b
      BY <1>0
    <3>2. upto[a + (i + 1)] = Onward(upto[a + i], ReadThing, kinds[a + (i + 1)])
      BY <2>4, <3>1
    <3>3. c[a + (i + 1)] = Onward(c[a + i], ReadThing, kinds[a + (i + 1)])
      BY <1>2, <3>1
    <3> QED
      BY <2>6, <3>1, <3>2, <3>3
  <2> HIDE DEF D
  <2>7. Nat \subseteq S
    <3>1. 0 \in S /\ \A i \in Nat : i \in S => i + 1 \in S
      BY <2>5, <2>6
    <3> HIDE DEF S
    <3> QED
      BY <3>1, SetInduction
  <2>8. D(b - a)
    BY <1>0, <2>7
  <2>9. upto[b] = c[b]
    BY <1>0, <2>8 DEF D
  <2> QED
    BY <1>1, <1>3, <2>9
<1>4. CASE ~ c[a].ok
  <2> HIDE DEF upto, Is, F, D
  <2>1. E(0)
    BY <1>0
  <2>2. ASSUME NEW i \in Nat, E(i)
        PROVE  E(i + 1)
    <3> SUFFICES ASSUME a + (i + 1) <= b PROVE c[a + (i + 1)] = c[a]
      OBVIOUS
    <3>1. a + i \in 0 .. Len(kinds) - 1 /\ (a + i) + 1 = a + (i + 1) /\ a + i <= b
      BY <1>0
    <3>2. c[a + i] = c[a]
      BY <2>2, <3>1
    <3>3. c[(a + i) + 1] = IF c[a + i].ok THEN Gathered(c[a + i], ReadThing(c[a + i], kinds[(a + i) + 1])) ELSE c[a + i]
      BY <3>1
    <3> QED
      BY <1>4, <3>1, <3>2, <3>3
  <2> HIDE DEF E
  <2>3. Nat \subseteq T
    <3>1. 0 \in T /\ \A i \in Nat : i \in T => i + 1 \in T
      BY <2>1, <2>2
    <3> HIDE DEF T
    <3> QED
      BY <3>1, SetInduction
  <2>4. E(b - a)
    BY <1>0, <2>3
  <2>5. c[b] = c[a]
    BY <1>0, <2>4 DEF E
  <2> QED
    BY <1>1, <1>4, <2>5
<1> QED
  BY <1>3, <1>4

LEMMA EachThingIs ==
  ASSUME NEW r, NEW kinds, Len(kinds) \in Nat, NEW c, c[0] = Given(r, <<>>),
         \A k \in 0 .. Len(kinds) - 1 :
           c[k + 1] = IF c[k].ok THEN Gathered(c[k], ReadThing(c[k], kinds[k + 1])) ELSE c[k]
  PROVE  ReadEach(r, ReadThing, kinds) = c[Len(kinds)]
<1> DEFINE n == Len(kinds)
           K == Parts(n)
           Is(u) == u = [part \in 0 .. K |-> IF part = 0 THEN Given(r, <<>>)
                                             ELSE Some(u[part - 1], ReadThing, kinds, Short * (part - 1), EndOf(part, n))]
           upto == CHOOSE u : Is(u)
           F == [part \in 0 .. K |-> c[EndOf(part, n)]]
           D(i) == i <= K => upto[i] = c[EndOf(i, n)]
           S == {i \in Nat : D(i)}
<1>0. n \in Nat
  OBVIOUS
<1>1. ReadEach(r, ReadThing, kinds) = upto[K]
  BY DEF ReadEach
<1>2. /\ K \in Nat /\ EndOf(0, n) = 0 /\ EndOf(K, n) = n
      /\ \A part \in 1 .. K : /\ EndOf(part - 1, n) = Short * (part - 1) /\ EndOf(part - 1, n) \in 0 .. EndOf(part, n)
                              /\ EndOf(part, n) \in 0 .. n
  BY <1>0, PartsOf
<1> HIDE DEF n, K
<1>3. ASSUME NEW part \in 1 .. K
      PROVE  c[EndOf(part, n)] = Some(c[EndOf(part - 1, n)], ReadThing, kinds, Short * (part - 1), EndOf(part, n))
  <2> DEFINE a == EndOf(part - 1, n)
             b == EndOf(part, n)
  <2>1. b \in 0 .. Len(kinds) /\ a \in 0 .. b /\ a = Short * (part - 1)
    BY <1>2 DEF n
  <2> HIDE DEF a, b
  <2>2. Some(c[a], ReadThing, kinds, a, b) = c[b]
    BY <2>1, SomeThingIs
  <2>3. Some(c[a], ReadThing, kinds, Short * (part - 1), b) = c[b]
    BY <2>1, <2>2
  <2> QED
    BY <2>3 DEF a, b
<1>4. Is(F)
  <2>1. ASSUME NEW part \in 0 .. K
        PROVE  F[part] = IF part = 0 THEN Given(r, <<>>)
                         ELSE Some(F[part - 1], ReadThing, kinds, Short * (part - 1), EndOf(part, n))
    <3>1. CASE part = 0
      BY <1>2, <3>1
    <3>2. CASE part # 0
      <4>1. part \in 1 .. K /\ part - 1 \in 0 .. K
        BY <1>2, <3>2
      <4>2. F[part] = c[EndOf(part, n)] /\ F[part - 1] = c[EndOf(part - 1, n)]
        BY <4>1
      <4> HIDE DEF F
      <4> QED
        BY <1>3, <3>2, <4>1, <4>2
    <3> QED
      BY <3>1, <3>2
  <2> QED
    BY <2>1
<1>5. Is(upto)
  <2> HIDE DEF F, Is
  <2> QED
    BY <1>4
<1> HIDE DEF upto
<1>6. \A part \in 0 .. K : upto[part] = IF part = 0 THEN Given(r, <<>>)
                                        ELSE Some(upto[part - 1], ReadThing, kinds, Short * (part - 1), EndOf(part, n))
  BY <1>5
<1> HIDE DEF Is, F
<1>7. D(0)
  BY <1>2, <1>6
<1>8. ASSUME NEW i \in Nat, D(i)
      PROVE  D(i + 1)
  <2> SUFFICES ASSUME i + 1 <= K PROVE upto[i + 1] = c[EndOf(i + 1, n)]
    OBVIOUS
  <2>1. i + 1 \in 0 .. K /\ i + 1 \in 1 .. K /\ i + 1 # 0 /\ (i + 1) - 1 = i /\ i <= K
    BY <1>2
  <2>2. upto[i + 1] = Some(upto[i], ReadThing, kinds, Short * ((i + 1) - 1), EndOf(i + 1, n))
    BY <1>6, <2>1
  <2>3. c[EndOf(i + 1, n)] = Some(c[EndOf(i, n)], ReadThing, kinds, Short * ((i + 1) - 1), EndOf(i + 1, n))
    BY <1>3, <2>1
  <2> QED
    BY <1>8, <2>1, <2>2, <2>3
<1> HIDE DEF D
<1>9. Nat \subseteq S
  <2>1. 0 \in S /\ \A i \in Nat : i \in S => i + 1 \in S
    BY <1>7, <1>8
  <2> HIDE DEF S
  <2> QED
    BY <2>1, SetInduction
<1>10. D(K)
  BY <1>2, <1>9
<1>11. upto[K] = c[n]
  BY <1>2, <1>10 DEF D
<1> QED
  BY <1>1, <1>11 DEF n

LEMMA ThingsConveyed ==
  ASSUME NEW f \in Files, NEW p \in Places(f), NEW u, NEW kinds, NEW seqs \in Seq(Seq(Int)), NEW V, NEW vals \in Seq(V),
         Len(kinds) = Len(seqs), Len(vals) = Len(seqs),
         \A k \in 1 .. Len(seqs) : \A q \in Places(f) : \A v :
           Conveys(f, q, seqs[k], ReadThing(ReadTo(f, q, v), kinds[k]), vals[k])
  PROVE  Conveys(f, p, Flat(seqs), ReadEach(ReadTo(f, p, u), ReadThing, kinds), vals)
<1> DEFINE N == Len(seqs)
           got == ReadEach(ReadTo(f, p, u), ReadThing, kinds)
<1>0. N \in Nat
  OBVIOUS
<1>1. PICK P : IsJoined(P, seqs, Int)
  BY JoinedExists
<1>2. Flat(seqs) = P[N]
  BY <1>1, FlatJoins
<1> DEFINE before(k) == ReadTo(f, p + Len(P[k]), SubSeq(vals, 1, k))
           g == [k \in 1 .. N |-> ReadThing(before(k - 1), kinds[k])]
<1>3. ASSUME NEW k \in 0 .. N - 1
      PROVE  g[k + 1] = ReadThing(before(k), kinds[k + 1])
  <2>1. k + 1 \in 1 .. N /\ (k + 1) - 1 = k
    BY <1>0
  <2> HIDE DEF before
  <2> QED
    BY <2>1
<1>4. ASSUME NEW k \in 0 .. N - 1, p + Len(P[k]) \in Places(f)
      PROVE  Conveys(f, p + Len(P[k]), seqs[k + 1], g[k + 1], vals[k + 1])
  <2>1. k + 1 \in 1 .. N
    BY <1>0
  <2> HIDE DEF g
  <2> QED
    BY <1>3, <1>4, <2>1
<1>5. ASSUME Matches(f, p, P[N]) \/ CutOff(f, p, P[N])
      PROVE  Conveys(f, p, P[N], got, vals)
  <2> HIDE DEF g
  <2>1. PICK c : IsGathered(c, f, p, P, vals, g, N) /\ Conveys(f, p, P[N], c[N], vals)
    BY <1>1, <1>4, <1>5, GatheredConveyed
  <2>2. c[0] = ReadTo(f, p, <<>>)
    BY <2>1 DEF IsGathered
  <2>3. ASSUME NEW k \in 0 .. N - 1
        PROVE  c[k + 1] = IF c[k].ok THEN Gathered(c[k], ReadThing(c[k], kinds[k + 1])) ELSE c[k]
    <3>1. \/ c[k] = before(k) /\ c[k + 1] = Gathered(c[k], g[k + 1])
          \/ ~ c[k].ok /\ c[k + 1] = c[k]
      BY <2>1 DEF IsGathered
    <3>2. before(k).ok
      BY AtIs
    <3> HIDE DEF before
    <3> QED
      BY <1>3, <3>1, <3>2
  <2>4. got = c[Len(kinds)]
    <3>1. Len(kinds) \in Nat /\ c[0] = Given(ReadTo(f, p, u), <<>>)
      BY <2>2, GivenIs
    <3> QED
      BY <2>3, <3>1, EachThingIs
  <2> QED
    BY <2>1, <2>4
<1>6. Conveys(f, p, P[N], got, vals)
  BY <1>5 DEF Conveys
<1> QED
  BY <1>2, <1>6

\* What every instruction, type, export, import and handler is to its reader.
ThingKinds == {"instr", "type", "export", "import", "handler"}
ThingSet(kind) ==
  CASE kind = "instr" -> InstrSet [] kind = "type" -> TypeSet [] kind = "export" -> ExportSet
    [] kind = "import" -> Seq(FunctionSet) [] kind = "handler" -> HandlerSet
ThingBytes(kind, x) ==
  CASE kind = "instr" -> WriteInstr(x) [] kind = "type" -> WriteType(x) [] kind = "export" -> WriteExport(x)
    [] kind = "import" -> WriteImport(x) [] kind = "handler" -> WriteHandler(x)

LEMMA ThingConveyed ==
  ASSUME NEW f \in Files, NEW p \in Places(f), NEW u, NEW kind \in ThingKinds, NEW x \in ThingSet(kind)
  PROVE  /\ ThingBytes(kind, x) \in Seq(Int) /\ ThingBytes(kind, x) # <<>>
         /\ Conveys(f, p, ThingBytes(kind, x), ReadThing(ReadTo(f, p, u), kind), x)
<1> DEFINE r == ReadTo(f, p, u)
<1>1. CASE kind = "instr"
  <2>1. x \in InstrSet /\ ThingBytes(kind, x) = WriteInstr(x) /\ ReadThing(r, kind) = ReadInstr(r)
    BY <1>1 DEF ThingSet, ThingBytes, ReadThing
  <2> QED
    BY <2>1, InstrConveyed, InstrTakesAByte
<1>2. CASE kind = "type"
  <2>1. x \in TypeSet /\ ThingBytes(kind, x) = WriteType(x) /\ ReadThing(r, kind) = ReadType(r)
    BY <1>2 DEF ThingSet, ThingBytes, ReadThing
  <2> QED
    BY <2>1, TypeConveyed
<1>3. CASE kind = "export"
  <2>1. x \in ExportSet /\ ThingBytes(kind, x) = WriteExport(x) /\ ReadThing(r, kind) = ReadExport(r)
    BY <1>3 DEF ThingSet, ThingBytes, ReadThing
  <2> QED
    BY <2>1, ExportConveyed
<1>4. CASE kind = "import"
  <2>1. x \in Seq(FunctionSet) /\ ThingBytes(kind, x) = WriteImport(x) /\ ReadThing(r, kind) = ReadImport(r)
    BY <1>4 DEF ThingSet, ThingBytes, ReadThing
  <2> QED
    BY <2>1, ImportConveyed
<1>5. CASE kind = "handler"
  <2>1. x \in HandlerSet /\ ThingBytes(kind, x) = WriteHandler(x) /\ ReadThing(r, kind) = ReadHandler(r)
    BY <1>5 DEF ThingSet, ThingBytes, ReadThing
  <2> QED
    BY <2>1, HandlerConveyed
<1> QED
  BY <1>1, <1>2, <1>3, <1>4, <1>5 DEF ThingKinds

LEMMA ManyThingsConveyed ==
  ASSUME NEW f \in Files, NEW p \in Places(f), NEW kind \in ThingKinds, NEW V, NEW vals \in Seq(V), NEW seqs,
         DOMAIN seqs = DOMAIN vals, seqs = [k \in DOMAIN seqs |-> seqs[k]],
         \A k \in 1 .. Len(vals) : /\ vals[k] \in ThingSet(kind) /\ seqs[k] = ThingBytes(kind, vals[k]) /\ seqs[k] # <<>>
  PROVE  /\ Flat(seqs) \in Seq(Int)
         /\ Conveys(f, p, Flat(seqs), ReadMany(ReadTo(f, p, Len(vals)), ReadThing, kind), vals)
<1> DEFINE N == Len(vals)
           r == ReadTo(f, p, N)
           kinds == [n \in 1 .. N |-> kind]
           each == ReadEach(r, ReadThing, kinds)
           got == ReadMany(r, ReadThing, kind)
<1>0. N \in Nat /\ DOMAIN vals = 1 .. N
  OBVIOUS
<1>1. seqs \in Seq(Seq(Int)) /\ Len(seqs) = N
  <2>1. <<>> \in Files /\ 1 \in Places(<<>>)
    BY DEF Files, Places
  <2>2. \A k \in 1 .. N : seqs[k] \in Seq(Int)
    BY <2>1, ThingConveyed
  <2>3. seqs \in [1 .. N -> Seq(Int)]
    BY <1>0, <2>2
  <2> QED
    BY <1>0, <2>3, FunctionIsSeq
<1>2. kinds \in Seq({kind}) /\ Len(kinds) = N /\ \A k \in 1 .. N : kinds[k] = kind
  <2>1. kinds \in [1 .. N -> {kind}]
    OBVIOUS
  <2> QED
    BY <1>0, <2>1, FunctionIsSeq
<1>3. r.ok /\ r.val = N
  BY AtIs
<1>4. got = IF N \in 0 .. Left(r) THEN each ELSE Refuse(r)
  BY <1>3 DEF ReadMany
<1> HIDE DEF kinds
<1>5. Conveys(f, p, Flat(seqs), each, vals)
  <2>1. \A k \in 1 .. Len(seqs) : \A q \in Places(f) : \A v :
          Conveys(f, q, seqs[k], ReadThing(ReadTo(f, q, v), kinds[k]), vals[k])
    BY <1>1, <1>2, ThingConveyed
  <2> QED
    BY <1>1, <1>2, <2>1, ThingsConveyed
<1>6. Matches(f, p, Flat(seqs)) => N \in 0 .. Left(r)
  <2>1. Matches(f, p, Flat(seqs)) => N <= Left(r)
    BY <1>1, LongEnough
  <2>2. Left(r) \in Int
    BY AtIs DEF Left, Files, Places
  <2> QED
    BY <1>0, <2>1, <2>2
<1> HIDE DEF got, each, r
<1>7. Conveys(f, p, Flat(seqs), got, vals)
  BY <1>4, <1>5, <1>6, RefuseIs DEF Conveys
<1> QED
  BY <1>1, <1>7, FlatIsSeq DEF got, r

-----------------------------------------------------------------------------
(* The data: as many turns as there may be items, and the null byte.           *)

LEMMA ClosedIs ==
  /\ \A r : ~ r.ok => ~ Closed(r).ok
  /\ \A f \in Files : \A q \in Places(f) : \A v :
       /\ q # Len(f) + 1 /\ f[q] = 0 => Closed(ReadTo(f, q, v)) = ReadTo(f, q + 1, v)
       /\ q = Len(f) + 1 \/ f[q] # 0 => ~ Closed(ReadTo(f, q, v)).ok
<1>1. ASSUME NEW r, ~ r.ok
      PROVE  ~ Closed(r).ok
  BY <1>1, RefuseIs DEF Closed, ClosedBy, ReadByte
<1>2. ASSUME NEW f \in Files, NEW q \in Places(f), NEW v
      PROVE  /\ q # Len(f) + 1 /\ f[q] = 0 => Closed(ReadTo(f, q, v)) = ReadTo(f, q + 1, v)
             /\ q = Len(f) + 1 \/ f[q] # 0 => ~ Closed(ReadTo(f, q, v)).ok
  <2> DEFINE r == ReadTo(f, q, v)
             end == ReadByte(r)
  <2>1. r.file = f /\ r.at = q /\ r.ok /\ r.val = v
    BY AtIs
  <2>2. Len(f) \in Nat /\ q \in Nat /\ Left(r) = Len(f) - q + 1 /\ q <= Len(f) + 1
    BY <2>1 DEF Left, Files, Places
  <2>3. CASE q = Len(f) + 1
    <3>1. ~ Left(r) > 0
      BY <2>2, <2>3
    <3>2. ~ end.ok
      BY <3>1, RefuseIs DEF ReadByte
    <3> HIDE DEF end
    <3>3. ~ ClosedBy(r, end).ok
      BY <3>2, RefuseIs DEF ClosedBy
    <3> QED
      BY <2>3, <3>3 DEF Closed, end, r
  <2>4. CASE q # Len(f) + 1
    <3>1. Left(r) > 0
      BY <2>2, <2>4
    <3>2. end = ReadTo(f, q + 1, f[q])
      BY <2>1, <3>1 DEF ReadByte, ReadTo
    <3>3. end.ok /\ end.val = f[q] /\ \A x : Given(end, x) = ReadTo(f, q + 1, x)
      BY <3>2, AtIs, GivenIs
    <3> HIDE DEF end, r
    <3>4. f[q] = 0 => ClosedBy(r, end) = ReadTo(f, q + 1, v)
      BY <2>1, <3>3 DEF ClosedBy
    <3>5. f[q] # 0 => ~ ClosedBy(r, end).ok
      BY <3>3, RefuseIs DEF ClosedBy
    <3> QED
      BY <2>4, <3>4, <3>5 DEF Closed, end, r
  <2> QED
    BY <2>3, <2>4
<1> QED
  BY <1>1, <1>2

\* Where no item is, nothing is read; where there is one, it is; where it is cut off, nothing is given.
LEMMA AnyItemIs ==
  ASSUME NEW f \in Files, NEW q \in Places(f), NEW v
  PROVE  /\ q = Len(f) + 1 \/ f[q] = 0 => AnyItem(ReadTo(f, q, v)) = ReadTo(f, q, <<>>)
         /\ \A x \in ItemSet :
              /\ Matches(f, q, WriteItem(x)) => AnyItem(ReadTo(f, q, v)) = ReadTo(f, q + Len(WriteItem(x)), <<x>>)
              /\ CutOff(f, q, WriteItem(x)) /\ q # Len(f) + 1 => f[q] # 0 /\ ~ AnyItem(ReadTo(f, q, v)).ok
<1> DEFINE r == ReadTo(f, q, v)
           any == AnyItem(r)
           one == ReadItem(r)
<1>1. r.file = f /\ r.at = q /\ r.ok
  BY AtIs
<1>2. Len(f) \in Nat /\ q \in Nat /\ Left(r) = Len(f) - q + 1 /\ q <= Len(f) + 1
  BY <1>1 DEF Left, Files, Places
<1>3. Left(r) = 0 <=> q = Len(f) + 1
  BY <1>2
<1>4. any = IF q = Len(f) + 1 \/ f[q] = 0 THEN Given(r, <<>>) ELSE AsOne(one)
  BY <1>1, <1>3 DEF AnyItem
<1>5. q = Len(f) + 1 \/ f[q] = 0 => any = ReadTo(f, q, <<>>)
  BY <1>4, GivenIs
<1> HIDE DEF r, any, one
<1>6. ASSUME NEW x \in ItemSet
      PROVE  /\ Matches(f, q, WriteItem(x)) => any = ReadTo(f, q + Len(WriteItem(x)), <<x>>)
             /\ CutOff(f, q, WriteItem(x)) /\ q # Len(f) + 1 => f[q] # 0 /\ ~ any.ok
  <2> DEFINE s == WriteItem(x)
             b == KindByte(x)
  <2>1. Len(s) \in Nat /\ Len(s) > 0 /\ s[1] = b
    <3> DEFINE t == AfterKind(x)
               h == <<b>>
    <3>1. t \in Seq(Int) /\ s = h \o t /\ b \in Int
      BY ItemBegins, KindByteIs
    <3>2. h \in Seq(Int) /\ Len(h) = 1 /\ h[1] = b
      BY <3>1
    <3> HIDE DEF h, t, s, b
    <3>3. Len(s) = Len(h) + Len(t) /\ Len(t) \in Nat
      <4>1. Len(h \o t) = Len(h) + Len(t)
        BY <3>1, <3>2, ConcatProperties
      <4> QED
        BY <3>1, <4>1
    <3>4. 1 \in 1 .. Len(h) + Len(t) /\ 1 <= Len(h)
      BY <3>2, <3>3
    <3>5. s[1] = h[1]
      BY <3>1, <3>2, <3>4, ConcatProperties
    <3> QED
      BY <3>2, <3>3, <3>5
  <2>2. b # 0
    BY KindByteIs
  <2>3. Conveys(f, q, s, one, x)
    BY ItemConveyed DEF one, r
  <2> HIDE DEF s, b
  <2>4. ASSUME Matches(f, q, s)
        PROVE  any = ReadTo(f, q + Len(s), <<x>>)
    <3>1. q + Len(s) <= Len(f) + 1 /\ f[q + 1 - 1] = s[1]
      BY <2>1, <2>4 DEF Matches
    <3>2. q # Len(f) + 1 /\ f[q] # 0
      BY <1>2, <2>1, <2>2, <3>1
    <3>3. one = ReadTo(f, q + Len(s), x)
      BY <2>3, <2>4 DEF Conveys
    <3>4. any = AsOne(one)
      BY <1>4, <3>2
    <3> QED
      BY <3>3, <3>4, AtIs, GivenIs DEF AsOne
  <2>5. ASSUME CutOff(f, q, s), q # Len(f) + 1
        PROVE  f[q] # 0 /\ ~ any.ok
    <3>1. q + 1 <= Len(f) + 1 => f[q + 1 - 1] = s[1]
      BY <2>1, <2>5 DEF CutOff
    <3>2. f[q] # 0
      BY <1>2, <2>1, <2>2, <2>5, <3>1
    <3>3. ~ one.ok
      BY <2>3, <2>5 DEF Conveys
    <3>4. any = AsOne(one)
      BY <1>4, <2>5, <3>2
    <3> QED
      BY <3>2, <3>3, <3>4, GivenIs DEF AsOne
  <2> QED
    BY <2>4, <2>5 DEF s
<1> QED
  BY <1>5, <1>6 DEF any, r

\* What some turns gather when there are so many items: each as a sequence, then empty ones.
Turns(items, have, turns) == [n \in 1 .. turns |-> IF n <= have THEN <<items[n]>> ELSE <<>>]

LEMMA TurnsAre ==
  ASSUME NEW V, NEW items \in Seq(V), NEW have \in 0 .. Len(items), NEW k \in Nat
  PROVE  /\ Turns(items, have, k) \in Seq(Seq(V)) /\ Len(Turns(items, have, k)) = k
         /\ Append(Turns(items, have, k), IF k < have THEN <<items[k + 1]>> ELSE <<>>) = Turns(items, have, k + 1)
         /\ Turns(items, have, 0) = <<>>
<1>1. ASSUME NEW m \in Nat
      PROVE  /\ Turns(items, have, m) \in Seq(Seq(V)) /\ Len(Turns(items, have, m)) = m
             /\ \A n \in 1 .. m : Turns(items, have, m)[n] = IF n <= have THEN <<items[n]>> ELSE <<>>
  <2> DEFINE g == Turns(items, have, m)
  <2>1. ASSUME NEW n \in 1 .. m
        PROVE  g[n] = (IF n <= have THEN <<items[n]>> ELSE <<>>) /\ g[n] \in Seq(V)
    <3>1. g[n] = IF n <= have THEN <<items[n]>> ELSE <<>>
      BY DEF Turns
    <3>2. n <= have => items[n] \in V
      OBVIOUS
    <3>3. \A y \in V : <<y>> \in Seq(V)
      OBVIOUS
    <3>4. <<>> \in Seq(V)
      OBVIOUS
    <3> QED
      BY <3>1, <3>2, <3>3, <3>4
  <2>2. DOMAIN g = 1 .. m /\ g = [n \in DOMAIN g |-> g[n]]
    BY DEF Turns
  <2> HIDE DEF g
  <2>3. g \in [1 .. m -> Seq(V)]
    BY <2>1, <2>2
  <2>4. g \in Seq(Seq(V)) /\ Len(g) = m
    BY <2>3, FunctionIsSeq
  <2> QED
    BY <2>1, <2>4 DEF g
<1> DEFINE a == Turns(items, have, k)
           b == Turns(items, have, k + 1)
           e == IF k < have THEN <<items[k + 1]>> ELSE <<>>
           c == Append(a, e)
<1>2. k + 1 \in Nat /\ k + 1 \in 1 .. k + 1 /\ (k < have <=> k + 1 <= have)
  OBVIOUS
<1>3. /\ a \in Seq(Seq(V)) /\ Len(a) = k /\ \A n \in 1 .. k : a[n] = IF n <= have THEN <<items[n]>> ELSE <<>>
  BY <1>1
<1>4. /\ b \in Seq(Seq(V)) /\ Len(b) = k + 1 /\ \A n \in 1 .. k + 1 : b[n] = IF n <= have THEN <<items[n]>> ELSE <<>>
  BY <1>1, <1>2
<1>5. e = IF k + 1 <= have THEN <<items[k + 1]>> ELSE <<>>
  BY <1>2
<1>6. e = b[k + 1]
  BY <1>2, <1>4, <1>5
<1> HIDE DEF a, b, e
<1>7. e \in Seq(V)
  BY <1>2, <1>4, <1>6
<1>8. c \in Seq(Seq(V)) /\ Len(c) = k + 1 /\ c[k + 1] = e /\ \A n \in 1 .. k : c[n] = a[n]
  BY <1>3, <1>7, AppendProperties
<1> HIDE DEF c
<1>9. \A n \in 1 .. k + 1 : c[n] = b[n]
  <2> SUFFICES ASSUME NEW n \in 1 .. k + 1
               PROVE  c[n] = b[n]
    OBVIOUS
  <2>1. CASE n \in 1 .. k
    BY <1>3, <1>4, <1>8, <2>1
  <2>2. CASE n = k + 1
    BY <1>6, <1>8, <2>2
  <2> QED
    BY <2>1, <2>2
<1>10. c = b
  BY <1>4, <1>8, <1>9, SameSequence
<1>11. Turns(items, have, 0) = <<>>
  <2>1. Turns(items, have, 0) \in Seq(Seq(V)) /\ Len(Turns(items, have, 0)) = 0
    BY <1>1
  <2> QED
    BY <2>1
<1> QED
  BY <1>3, <1>10, <1>11 DEF a, b, c, e

\* As many turns as there are items, or more, gather them all.
LEMMA TurnsGather ==
  ASSUME NEW V, NEW items \in Seq(V), NEW k \in Nat, k >= Len(items)
  PROVE  Flat(Turns(items, Len(items), k)) = items
<1> DEFINE N == Len(items)
           g == Turns(items, N, k)
           upto(n) == IF n <= N THEN n ELSE N
           Q == [n \in 0 .. k |-> SubSeq(items, 1, upto(n))]
<1>1. N \in Nat /\ N \in 0 .. Len(items) /\ k >= N
  OBVIOUS
<1>2. g \in Seq(Seq(V)) /\ Len(g) = k
  BY <1>1, TurnsAre
<1>3. \A n \in 1 .. k : g[n] = IF n <= N THEN <<items[n]>> ELSE <<>>
  BY DEF Turns
<1> HIDE DEF g, N
<1>4. \A m \in 0 .. N : SubSeq(items, 1, m) \in Seq(V) /\ Len(SubSeq(items, 1, m)) = m /\ \A i \in 1 .. m : SubSeq(items, 1, m)[i] = items[i]
  BY <1>1 DEF N
<1>5. Q \in [0 .. k -> Seq(V)] /\ Q[0] = <<>> /\ Q[k] = items
  <2>1. Q \in [0 .. k -> Seq(V)]
    BY <1>1, <1>4
  <2>2. SubSeq(items, 1, 0) = <<>> /\ upto(0) = 0
    <3>1. 0 \in 0 .. N
      BY <1>1
    <3> QED
      BY <1>1, <1>4, <3>1
  <2>3. SubSeq(items, 1, N) = items /\ upto(k) = N
    <3>1. N \in 0 .. N
      BY <1>1
    <3>2. SubSeq(items, 1, N) = items
      BY <1>1, <1>4, <3>1, SameSequence DEF N
    <3> QED
      BY <1>1, <3>2
  <2> QED
    BY <1>1, <2>1, <2>2, <2>3
<1>6. \A n \in 0 .. k - 1 : Q[n + 1] = Q[n] \o g[n + 1]
  <2> SUFFICES ASSUME NEW n \in 0 .. k - 1
               PROVE  Q[n + 1] = Q[n] \o g[n + 1]
    OBVIOUS
  <2>1. n \in 0 .. k /\ n + 1 \in 0 .. k /\ n + 1 \in 1 .. k
    OBVIOUS
  <2>2. Q[n] = SubSeq(items, 1, upto(n)) /\ Q[n + 1] = SubSeq(items, 1, upto(n + 1))
    BY <2>1
  <2>3. CASE n < N
    <3> DEFINE a == SubSeq(items, 1, n)
               b == SubSeq(items, 1, n + 1)
               e == items[n + 1]
               c == Append(a, e)
    <3>1. n + 1 <= N /\ n <= N /\ n \in 0 .. N /\ n + 1 \in 0 .. N /\ n + 1 \in 1 .. N /\ n \in Nat /\ n + 1 \in 1 .. n + 1
      BY <1>1, <2>3
    <3>2. a \in Seq(V) /\ Len(a) = n /\ \A i \in 1 .. n : a[i] = items[i]
      BY <1>4, <3>1
    <3>3. b \in Seq(V) /\ Len(b) = n + 1 /\ \A i \in 1 .. n + 1 : b[i] = items[i]
      BY <1>4, <3>1
    <3>4. e \in V /\ b[n + 1] = e
      BY <3>1, <3>3 DEF N
    <3> HIDE DEF a, b, e
    <3>5. c \in Seq(V) /\ Len(c) = n + 1 /\ c[n + 1] = e /\ \A i \in 1 .. n : c[i] = a[i]
      BY <3>2, <3>4, AppendProperties
    <3> HIDE DEF c
    <3>6. \A i \in 1 .. n + 1 : c[i] = b[i]
      <4> SUFFICES ASSUME NEW i \in 1 .. n + 1
                   PROVE  c[i] = b[i]
        OBVIOUS
      <4>1. i \in 1 .. n \/ i = n + 1
        BY <3>1
      <4> QED
        BY <3>2, <3>3, <3>4, <3>5, <4>1
    <3>7. c = b
      BY <3>3, <3>5, <3>6, SameSequence
    <3>8. a \o <<e>> = c
      BY <3>2, <3>4 DEF c
    <3>9. g[n + 1] = <<e>>
      BY <1>3, <2>1, <3>1 DEF e
    <3>10. upto(n) = n /\ upto(n + 1) = n + 1
      BY <3>1
    <3> QED
      BY <2>2, <3>7, <3>8, <3>9, <3>10 DEF a, b
  <2>4. CASE ~ n < N
    <3>1. ~ n + 1 <= N /\ upto(n) = N /\ upto(n + 1) = N
      BY <1>1, <2>4
    <3>2. g[n + 1] = <<>>
      BY <1>3, <2>1, <3>1
    <3>3. Q[n] \in Seq(V)
      BY <1>5, <2>1
    <3> HIDE DEF Q
    <3>4. Q[n] \o <<>> = Q[n]
      BY <3>3, ConcatEmptySeq
    <3> QED
      BY <2>2, <3>1, <3>2, <3>4
  <2> QED
    BY <2>3, <2>4
<1> HIDE DEF Q
<1>7. IsJoined(Q, g, V)
  BY <1>2, <1>5, <1>6 DEF IsJoined
<1> QED
  BY <1>2, <1>5, <1>7, FlatJoins DEF g, N

\* An item takes two bytes at least.
LEMMA ItemsTakeTwo ==
  ASSUME NEW items \in Seq(ItemSet), NEW seqs \in Seq(Seq(Int)), Len(seqs) = Len(items),
         \A k \in 1 .. Len(items) : seqs[k] = WriteItem(items[k]), NEW P, IsJoined(P, seqs, Int), NEW j \in 0 .. Len(items)
  PROVE  Len(P[j]) \in Nat /\ Len(P[j]) >= 2 * j
<1> DEFINE N == Len(items)
           D(k) == k <= N => Len(P[k]) >= 2 * k
           S == {k \in Nat : D(k)}
<1>1. N \in Nat /\ P[0] = <<>> /\ \A k \in 0 .. N : P[k] \in Seq(Int)
  <2>1. N \in Nat /\ N = Len(seqs)
    OBVIOUS
  <2> HIDE DEF N
  <2> QED
    BY <2>1 DEF IsJoined
<1>2. \A x \in ItemSet : WriteItem(x) \in Seq(Int) /\ Len(WriteItem(x)) >= 2
  <2> SUFFICES ASSUME NEW x \in ItemSet
               PROVE  WriteItem(x) \in Seq(Int) /\ Len(WriteItem(x)) >= 2
    OBVIOUS
  <2> DEFINE t == AfterKind(x)
             h == <<KindByte(x)>>
  <2>1. t \in Seq(Int) /\ t # <<>> /\ WriteItem(x) = h \o t
    BY ItemBegins
  <2>2. h \in Seq(Int) /\ Len(h) = 1
    <3>1. KindByte(x) \in Int
      BY KindByteIs
    <3> QED
      BY <3>1
  <2> HIDE DEF h, t
  <2>3. Len(t) \in Nat /\ Len(t) # 0
    BY <2>1
  <2>4. h \o t \in Seq(Int) /\ Len(h \o t) = Len(h) + Len(t)
    BY <2>1, <2>2, ConcatProperties
  <2> QED
    BY <2>1, <2>2, <2>3, <2>4
<1>3. 0 \in S
  BY <1>1
<1>4. ASSUME NEW k \in Nat, k \in S
      PROVE  k + 1 \in S
  <2> SUFFICES ASSUME k + 1 <= N PROVE Len(P[k + 1]) >= 2 * (k + 1)
    OBVIOUS
  <2>1. k \in 0 .. N /\ k \in 0 .. Len(seqs) - 1 /\ k + 1 \in 1 .. N /\ k <= N
    BY <1>1
  <2>2. P[k + 1] = P[k] \o seqs[k + 1]
    BY <2>1 DEF IsJoined
  <2>3. Len(P[k]) >= 2 * k
    BY <1>4, <2>1
  <2> DEFINE a == P[k]
             b == seqs[k + 1]
  <2>4. a \in Seq(Int) /\ b \in Seq(Int) /\ Len(b) >= 2
    <3>1. items[k + 1] \in ItemSet /\ seqs[k + 1] = WriteItem(items[k + 1])
      BY <2>1
    <3> QED
      BY <1>1, <1>2, <2>1, <3>1
  <2> HIDE DEF a, b
  <2>5. Len(a \o b) = Len(a) + Len(b) /\ Len(a) \in Nat /\ Len(b) \in Nat
    BY <2>4, ConcatProperties
  <2> DEFINE x == Len(a)
             y == Len(b)
  <2>6. x \in Nat /\ y \in Nat /\ x >= 2 * k /\ y >= 2 /\ Len(P[k + 1]) = x + y
    BY <2>2, <2>3, <2>4, <2>5 DEF a, b
  <2> HIDE DEF x, y
  <2> QED
    BY <2>6
<1>5. Nat \subseteq S
  <2> HIDE DEF S
  <2> QED
    BY <1>3, <1>4, SetInduction
<1>6. D(j)
  BY <1>1, <1>5
<1> QED
  BY <1>1, <1>6

LEMMA GatheredIs ==
  \A f, a, b, y, z : Gathered(ReadTo(f, a, y), ReadTo(f, b, z)) = ReadTo(f, b, Append(y, z))
BY DEF Gathered, Given, ReadTo, Reading

\* What the turns give when the file has the first items whole and what comes then is no item
\* (or is not come to), or one that is cut off.
AreWritten(items, seqs, P) ==
  /\ seqs \in Seq(Seq(Int)) /\ Len(seqs) = Len(items) /\ \A k \in 1 .. Len(items) : seqs[k] = WriteItem(items[k])
  /\ IsJoined(P, seqs, Int)
Reached(f, p, items, P, have, q) == have \in 0 .. Len(items) /\ Matches(f, p, P[have]) /\ q = p + Len(P[have])
ForItems(kinds, turns) == Len(kinds) = turns /\ \A k \in 1 .. turns : kinds[k] = "item"

LEMMA ItemsRead ==
  ASSUME NEW f \in Files, NEW p \in Places(f), NEW u, NEW items \in Seq(ItemSet), NEW seqs, NEW P, AreWritten(items, seqs, P),
         NEW have, NEW q, Reached(f, p, items, P, have, q), NEW turns \in Nat, turns >= have,
         NEW kinds, ForItems(kinds, turns)
  PROVE  /\ q \in Places(f)
         /\ q = Len(f) + 1 \/ f[q] = 0 \/ turns = have =>
              ReadEach(ReadTo(f, p, u), ReadThing, kinds) = ReadTo(f, q, Turns(items, have, turns))
         /\ have < turns /\ (\A v : ~ AnyItem(ReadTo(f, q, v)).ok) => ~ ReadEach(ReadTo(f, p, u), ReadThing, kinds).ok
<1> DEFINE got == ReadEach(ReadTo(f, p, u), ReadThing, kinds)
           T(k) == Turns(items, have, k)
           stays == q = Len(f) + 1 \/ f[q] = 0
           bad == Gathered(ReadTo(f, q, T(have)), AnyItem(ReadTo(f, q, T(have))))
           c == [k \in 0 .. turns |->
                   IF k <= have THEN ReadTo(f, p + Len(P[k]), T(k)) ELSE IF stays THEN ReadTo(f, q, T(k)) ELSE bad]
<1>0. /\ seqs \in Seq(Seq(Int)) /\ Len(seqs) = Len(items) /\ \A k \in 1 .. Len(items) : seqs[k] = WriteItem(items[k])
      /\ IsJoined(P, seqs, Int) /\ have \in 0 .. Len(items) /\ Matches(f, p, P[have]) /\ q = p + Len(P[have])
  BY DEF AreWritten, Reached
<1>1. have \in Nat /\ have <= Len(items) /\ have \in 0 .. Len(seqs) /\ have \in 0 .. have /\ have \in 0 .. turns
  BY <1>0
<1>2. \A k \in 0 .. have : p + Len(P[k]) \in Places(f)
  BY <1>0, <1>1, HoldsEach
<1>3. \A k \in 0 .. have - 1 : /\ Matches(f, p + Len(P[k]), seqs[k + 1])
                               /\ p + Len(P[k]) + Len(seqs[k + 1]) = p + Len(P[k + 1])
  BY <1>0, <1>1, HoldsEach
<1>4. q \in Places(f)
  BY <1>0, <1>1, <1>2
<1>5. \A k \in Nat : /\ T(k) \in Seq(Seq(ItemSet)) /\ T(0) = <<>>
                     /\ Append(T(k), IF k < have THEN <<items[k + 1]>> ELSE <<>>) = T(k + 1)
  BY <1>0, TurnsAre
<1>6. \A k \in 0 .. turns : c[k] = IF k <= have THEN ReadTo(f, p + Len(P[k]), T(k)) ELSE IF stays THEN ReadTo(f, q, T(k)) ELSE bad
  OBVIOUS
<1>7. Len(kinds) = turns /\ \A k \in 1 .. turns : kinds[k] = "item"
  BY DEF ForItems
<1>8. \A r : ReadThing(r, "item") = AnyItem(r)
  BY DEF ReadThing
<1>9. stays => \A v : AnyItem(ReadTo(f, q, v)) = ReadTo(f, q, <<>>)
  BY <1>4, AnyItemIs
<1> HIDE DEF c, T, stays, got
<1>10. (have < turns /\ ~ stays => ~ bad.ok) => 
       \A k \in 0 .. turns - 1 : c[k + 1] = IF c[k].ok THEN Gathered(c[k], ReadThing(c[k], kinds[k + 1])) ELSE c[k]
  <2> SUFFICES ASSUME have < turns /\ ~ stays => ~ bad.ok, NEW k \in 0 .. turns - 1
               PROVE  c[k + 1] = IF c[k].ok THEN Gathered(c[k], AnyItem(c[k])) ELSE c[k]
    <3>1. \A k \in 0 .. turns - 1 : k + 1 \in 1 .. turns
      OBVIOUS
    <3> QED
      BY <1>7, <1>8, <3>1
  <2>1. k \in 0 .. turns /\ k + 1 \in 0 .. turns /\ k \in Nat /\ (k < have <=> k + 1 <= have)
    BY <1>1
  <2>2. CASE k < have
    <3> DEFINE x == items[k + 1]
               a == p + Len(P[k])
               b == p + Len(P[k + 1])
    <3>1. k \in 0 .. have - 1 /\ k \in 0 .. have /\ k <= have /\ k + 1 <= have /\ k + 1 \in 1 .. Len(items)
      BY <1>1, <2>1, <2>2
    <3>2. x \in ItemSet /\ seqs[k + 1] = WriteItem(x)
      BY <1>0, <3>1
    <3>3. a \in Places(f) /\ Matches(f, a, WriteItem(x)) /\ a + Len(WriteItem(x)) = b
      BY <1>2, <1>3, <3>1, <3>2
    <3>4. c[k] = ReadTo(f, a, T(k)) /\ c[k + 1] = ReadTo(f, b, T(k + 1))
      BY <1>6, <2>1, <3>1
    <3>5. Append(T(k), <<x>>) = T(k + 1)
      BY <1>5, <2>1, <2>2
    <3> HIDE DEF a, b, x
    <3>6. AnyItem(c[k]) = ReadTo(f, b, <<x>>)
      BY <3>2, <3>3, <3>4, AnyItemIs
    <3>7. Gathered(c[k], AnyItem(c[k])) = ReadTo(f, b, T(k + 1))
      <4>1. Gathered(ReadTo(f, a, T(k)), ReadTo(f, b, <<x>>)) = ReadTo(f, b, Append(T(k), <<x>>))
        BY GatheredIs
      <4> QED
        BY <3>4, <3>5, <3>6, <4>1
    <3> QED
      BY <3>4, <3>7, AtIs
  <2>3. CASE ~ k < have /\ stays
    <3>1. c[k] = ReadTo(f, q, T(k)) /\ c[k + 1] = ReadTo(f, q, T(k + 1))
      <4>1. CASE k = have
        <5>1. k <= have /\ ~ k + 1 <= have
          BY <1>1, <2>1, <4>1
        <5> QED
          BY <1>0, <1>6, <2>1, <2>3, <4>1, <5>1
      <4>2. CASE k # have
        <5>1. ~ k <= have /\ ~ k + 1 <= have
          BY <1>1, <2>1, <2>3, <4>2
        <5> QED
          BY <1>6, <2>1, <2>3, <5>1
      <4> QED
        BY <4>1, <4>2
    <3>2. Append(T(k), <<>>) = T(k + 1)
      BY <1>5, <2>1, <2>3
    <3>3. AnyItem(c[k]) = ReadTo(f, q, <<>>)
      BY <1>9, <2>3, <3>1
    <3>4. Gathered(c[k], AnyItem(c[k])) = ReadTo(f, q, T(k + 1))
      <4>1. Gathered(ReadTo(f, q, T(k)), ReadTo(f, q, <<>>)) = ReadTo(f, q, Append(T(k), <<>>))
        BY GatheredIs
      <4> QED
        BY <3>1, <3>2, <3>3, <4>1
    <3> QED
      BY <3>1, <3>4, AtIs
  <2>4. CASE ~ k < have /\ ~ stays
    <3>1. have < turns /\ ~ bad.ok
      BY <1>1, <2>1, <2>4
    <3>2. c[k + 1] = bad
      BY <1>6, <2>1, <2>4
    <3>3. CASE k = have
      <4>1. k <= have
        BY <1>1, <3>3
      <4>2. c[k] = ReadTo(f, q, T(have))
        BY <1>0, <1>6, <2>1, <3>3, <4>1
      <4> QED
        BY <3>2, <4>2, AtIs
    <3>4. CASE k # have
      <4>1. ~ k <= have
        BY <1>1, <2>1, <2>4, <3>4
      <4>2. c[k] = bad
        BY <1>6, <2>1, <2>4, <4>1
      <4> QED
        BY <3>1, <3>2, <4>2
    <3> QED
      BY <3>3, <3>4
  <2> QED
    BY <2>2, <2>3, <2>4
<1>11. (have < turns /\ ~ stays => ~ bad.ok) => got = c[turns]
  <2> SUFFICES ASSUME have < turns /\ ~ stays => ~ bad.ok
               PROVE  got = c[turns]
    OBVIOUS
  <2>1. \A k \in 0 .. Len(kinds) - 1 : c[k + 1] = IF c[k].ok THEN Gathered(c[k], ReadThing(c[k], kinds[k + 1])) ELSE c[k]
    BY <1>7, <1>10
  <2>2. c[0] = Given(ReadTo(f, p, u), <<>>)
    <3>1. 0 \in 0 .. turns /\ 0 <= have /\ 0 \in 0 .. have
      BY <1>1
    <3>2. P[0] = <<>> /\ p + Len(<<>>) = p
      BY <1>0 DEF IsJoined, Places
    <3>3. c[0] = ReadTo(f, p, <<>>)
      BY <1>5, <1>6, <3>1, <3>2
    <3> QED
      BY <3>3, GivenIs
  <2>3. ReadEach(ReadTo(f, p, u), ReadThing, kinds) = c[Len(kinds)]
    BY <1>7, <2>1, <2>2, EachThingIs
  <2> QED
    BY <1>7, <2>3 DEF got
<1>12. ASSUME stays \/ turns = have
       PROVE  got = ReadTo(f, q, T(turns))
  <2>1. have < turns /\ ~ stays => ~ bad.ok
    BY <1>1, <1>12
  <2>2. turns \in 0 .. turns /\ (turns <= have => turns = have)
    BY <1>1
  <2> QED
    BY <1>0, <1>6, <1>11, <1>12, <2>1, <2>2
<1>13. ASSUME have < turns, \A v : ~ AnyItem(ReadTo(f, q, v)).ok
       PROVE  ~ got.ok
  <2>1. ~ bad.ok
    BY <1>13, GivenIs DEF Gathered
  <2>2. ~ stays
    BY <1>9, <1>13, AtIs
  <2>3. turns \in 0 .. turns /\ ~ turns <= have
    BY <1>1, <1>13
  <2> QED
    BY <1>6, <1>11, <2>1, <2>2, <2>3
<1> QED
  BY <1>4, <1>12, <1>13 DEF T, stays, got

LEMMA InOneIs ==
  /\ \A f, q, y : InOne(ReadTo(f, q, y)) = ReadTo(f, q, Flat(y))
  /\ \A r : ~ r.ok => ~ InOne(r).ok
BY AtIs, GivenIs DEF InOne

\* The data section, which has no count: items follow each other until a null byte where the next
\* one would begin, and no item begins with one (write_data_item, parse_data).
THEOREM DataConveyed ==
  ASSUME NEW f \in Files, NEW p \in Places(f), NEW u, NEW items \in Seq(ItemSet)
  PROVE  /\ Each(WriteItem, items) \o <<0>> \in Seq(Int)
         /\ Conveys(f, p, Each(WriteItem, items) \o <<0>>, ReadData(ReadTo(f, p, u)), items)
<1> DEFINE N == Len(items)
           seqs == [n \in DOMAIN items |-> WriteItem(items[n])]
           s == Flat(seqs)
           z == <<0>>
           turns == Left(ReadTo(f, p, u)) \div 2
           kinds == [n \in 1 .. turns |-> "item"]
           read == ReadEach(ReadTo(f, p, u), ReadThing, kinds)
           got == Closed(InOne(read))
<1>1. Each(WriteItem, items) = s
  BY DEF Each
<1>2. ReadData(ReadTo(f, p, u)) = got
  BY DEF ReadData
<1>3. N \in Nat /\ Len(seqs) = N /\ seqs \in Seq(Seq(Int)) /\ \A k \in 1 .. N : seqs[k] = WriteItem(items[k])
  <2>1. \A x \in ItemSet : WriteItem(x) \in Seq(Int)
    BY ItemConveyed
  <2>2. N \in Nat /\ DOMAIN items = 1 .. N /\ \A k \in 1 .. N : items[k] \in ItemSet
    OBVIOUS
  <2> HIDE DEF N
  <2>3. seqs \in [1 .. N -> Seq(Int)] /\ \A k \in 1 .. N : seqs[k] = WriteItem(items[k])
    BY <2>1, <2>2
  <2> HIDE DEF seqs
  <2>4. seqs \in Seq(Seq(Int)) /\ Len(seqs) = N
    BY <2>2, <2>3, FunctionIsSeq
  <2> QED
    BY <2>2, <2>3, <2>4
<1> HIDE DEF seqs
<1>4. PICK P : IsJoined(P, seqs, Int)
  BY <1>3, JoinedExists
<1>5. s = P[N] /\ s \in Seq(Int)
  BY <1>3, <1>4, FlatJoins
<1>6. z \in Seq(Int) /\ Len(z) = 1 /\ z[1] = 0
  OBVIOUS
<1>7. Len(f) \in Nat /\ p \in Nat /\ p <= Len(f) + 1 /\ Left(ReadTo(f, p, u)) = Len(f) - p + 1
  BY AtIs DEF Left, Files, Places
<1>8. /\ turns \in Nat
      /\ \A n \in Nat : 2 * n <= Len(f) - p + 1 => turns >= n
  BY <1>7
<1> HIDE DEF s, z, turns
<1>9. ASSUME NEW have \in 0 .. N, Matches(f, p, P[have]), NEW q, q = p + Len(P[have])
      PROVE  /\ have \in Nat /\ turns >= have /\ q \in Places(f)
             /\ q = Len(f) + 1 \/ f[q] = 0 \/ turns = have => read = ReadTo(f, q, Turns(items, have, turns))
             /\ have < turns /\ (\A v : ~ AnyItem(ReadTo(f, q, v)).ok) => ~ read.ok
  <2>1. Len(P[have]) \in Nat /\ Len(P[have]) >= 2 * have
    BY <1>3, <1>4, ItemsTakeTwo
  <2>2. p + Len(P[have]) <= Len(f) + 1
    BY <1>9 DEF Matches
  <2>3. have \in Nat
    BY <1>3
  <2>4. turns >= have
    <3> DEFINE x == Len(P[have])
    <3>1. x \in Nat /\ x >= 2 * have /\ p + x <= Len(f) + 1
      BY <2>1, <2>2
    <3> HIDE DEF x
    <3>2. 2 * have <= Len(f) - p + 1
      BY <1>7, <2>3, <3>1
    <3> QED
      BY <1>8, <2>3, <3>2
  <2>5. AreWritten(items, seqs, P) /\ Reached(f, p, items, P, have, q)
    BY <1>3, <1>4, <1>9 DEF AreWritten, Reached
  <2>6. ForItems(kinds, turns)
    <3>1. kinds \in [1 .. turns -> {"item"}] /\ \A k \in 1 .. turns : kinds[k] = "item"
      OBVIOUS
    <3> HIDE DEF kinds
    <3> QED
      BY <1>8, <3>1, FunctionIsSeq DEF ForItems
  <2> HIDE DEF kinds
  <2>7. /\ q \in Places(f)
        /\ q = Len(f) + 1 \/ f[q] = 0 \/ turns = have => read = ReadTo(f, q, Turns(items, have, turns))
        /\ have < turns /\ (\A v : ~ AnyItem(ReadTo(f, q, v)).ok) => ~ read.ok
    BY <1>8, <2>4, <2>5, <2>6, ItemsRead
  <2> QED
    BY <2>3, <2>4, <2>7
<1> HIDE DEF read, got
<1>10. ASSUME Matches(f, p, s \o z)
       PROVE  got = ReadTo(f, p + Len(s \o z), items)
  <2> DEFINE q == p + Len(s)
  <2>1. Matches(f, p, s) /\ q \in Places(f) /\ Matches(f, q, z)
    BY <1>5, <1>6, <1>10, HoldsConcat
  <2>2. Len(s \o z) = Len(s) + 1 /\ Len(s) \in Nat
    <3>1. Len(s \o z) = Len(s) + Len(z)
      BY <1>5, <1>6, ConcatProperties
    <3> QED
      BY <1>5, <1>6, <3>1
  <2> HIDE DEF q
  <2>3. q # Len(f) + 1 /\ f[q] = 0
    <3>1. q + 1 <= Len(f) + 1 /\ f[q + 1 - 1] = 0 /\ q \in Nat
      BY <1>6, <2>1 DEF Matches, Places
    <3> QED
      BY <1>7, <3>1
  <2>4. N \in 0 .. N /\ Matches(f, p, P[N]) /\ q = p + Len(P[N])
    BY <1>3, <1>5, <2>1 DEF q
  <2>5. turns >= N /\ read = ReadTo(f, q, Turns(items, N, turns))
    BY <1>9, <2>3, <2>4
  <2>6. Flat(Turns(items, N, turns)) = items
    BY <1>8, <2>5, TurnsGather
  <2>7. got = ReadTo(f, q + 1, items)
    BY <2>1, <2>3, <2>5, <2>6, InOneIs, ClosedIs DEF got
  <2>8. q + 1 = p + Len(s \o z)
    BY <1>7, <2>2 DEF q
  <2> QED
    BY <2>7, <2>8
<1>11. ASSUME CutOff(f, p, s \o z)
       PROVE  ~ got.ok
  <2>1. \/ CutOff(f, p, s)
        \/ Matches(f, p, s) /\ p + Len(s) \in Places(f) /\ CutOff(f, p + Len(s), z)
    BY <1>5, <1>6, <1>11, CutConcat
  <2>2. ASSUME Matches(f, p, s), p + Len(s) \in Places(f), CutOff(f, p + Len(s), z)
        PROVE  ~ got.ok
    <3> DEFINE q == p + Len(s)
    <3>1. q = Len(f) + 1
      <4> DEFINE x == p + Len(s)
      <4>1. x \in Places(f) /\ x + 1 > Len(f) + 1
        BY <1>6, <2>2 DEF CutOff
      <4> HIDE DEF x
      <4>2. x = Len(f) + 1
        BY <1>7, <4>1 DEF Places
      <4> QED
        BY <4>2 DEF x
    <3>2. q \in Places(f)
      BY <2>2
    <3> HIDE DEF q
    <3>3. N \in 0 .. N /\ Matches(f, p, P[N]) /\ q = p + Len(P[N])
      BY <1>3, <1>5, <2>2 DEF q
    <3>4. read = ReadTo(f, q, Turns(items, N, turns))
      BY <1>9, <3>1, <3>3
    <3> QED
      BY <3>1, <3>2, <3>4, InOneIs, ClosedIs DEF got
  <2>3. ASSUME CutOff(f, p, s)
        PROVE  ~ got.ok
    <3>1. PICK j \in 0 .. N - 1 : Matches(f, p, P[j]) /\ CutOff(f, p + Len(P[j]), seqs[j + 1])
      BY <1>3, <1>4, <1>5, <2>3, CutEach
    <3> DEFINE q == p + Len(P[j])
               x == items[j + 1]
    <3>2. j \in 0 .. N /\ j + 1 \in 1 .. N
      BY <1>3
    <3>3. x \in ItemSet /\ seqs[j + 1] = WriteItem(x)
      BY <1>3, <3>2
    <3>4. CutOff(f, q, WriteItem(x))
      BY <3>1, <3>3
    <3> HIDE DEF q, x
    <3>5. q = p + Len(P[j])
      BY DEF q
    <3>6. /\ j \in Nat /\ turns >= j /\ q \in Places(f)
          /\ q = Len(f) + 1 \/ f[q] = 0 \/ turns = j => read = ReadTo(f, q, Turns(items, j, turns))
          /\ j < turns /\ (\A v : ~ AnyItem(ReadTo(f, q, v)).ok) => ~ read.ok
      BY <1>9, <3>1, <3>2, <3>5
    <3>7. CASE q = Len(f) + 1
      BY <3>6, <3>7, InOneIs, ClosedIs DEF got
    <3>8. CASE q # Len(f) + 1
      <4>1. f[q] # 0 /\ \A v : ~ AnyItem(ReadTo(f, q, v)).ok
        BY <3>3, <3>4, <3>6, <3>8, AnyItemIs
      <4>2. CASE turns = j
        BY <3>6, <4>1, <4>2, InOneIs, ClosedIs DEF got
      <4>3. CASE turns # j
        <5>1. j < turns
          BY <1>8, <3>6, <4>3
        <5> QED
          BY <3>6, <4>1, <5>1, InOneIs, ClosedIs DEF got
      <4> QED
        BY <4>2, <4>3
    <3> QED
      BY <3>7, <3>8
  <2> QED
    BY <2>1, <2>2, <2>3
<1>12. s \o z \in Seq(Int)
  BY <1>5, <1>6, ConcatProperties
<1> QED
  BY <1>1, <1>2, <1>10, <1>11, <1>12 DEF Conveys, z

-----------------------------------------------------------------------------
(* Sections.                                                                   *)

\* The null byte that ends a section is waited for.
LEMMA EndedConveyed ==
  ASSUME NEW f \in Files, NEW p \in Places(f), NEW s \in Seq(Int), NEW mid, NEW x, Conveys(f, p, s, mid, x)
  PROVE  s \o <<0>> \in Seq(Int) /\ Conveys(f, p, s \o <<0>>, Closed(mid), x)
<1> DEFINE z == <<0>>
           got == Closed(mid)
<1>1. z \in Seq(Int) /\ Len(z) = 1 /\ z[1] = 0
  OBVIOUS
<1> HIDE DEF z
<1>2. ASSUME NEW q \in Places(f), mid = ReadTo(f, q, x)
      PROVE  Conveys(f, q, z, got, x)
  <2>1. q \in Nat /\ Len(f) \in Nat /\ q <= Len(f) + 1
    BY DEF Files, Places
  <2>2. ASSUME Matches(f, q, z)
        PROVE  got = ReadTo(f, q + Len(z), x)
    <3>1. q + 1 <= Len(f) + 1 /\ f[q + 1 - 1] = 0
      BY <1>1, <2>2 DEF Matches
    <3>2. q # Len(f) + 1 /\ f[q] = 0
      BY <2>1, <3>1
    <3> QED
      BY <1>1, <1>2, <3>2, ClosedIs
  <2>3. ASSUME CutOff(f, q, z)
        PROVE  ~ got.ok
    <3>1. q + 1 > Len(f) + 1
      BY <1>1, <2>3 DEF CutOff
    <3>2. q = Len(f) + 1
      BY <2>1, <3>1
    <3> QED
      BY <1>2, <3>2, ClosedIs
  <2> QED
    BY <2>2, <2>3 DEF Conveys
<1>3. ~ mid.ok => ~ got.ok
  BY ClosedIs
<1> HIDE DEF got
<1>4. Conveys(f, p, s \o z, got, x) /\ s \o z \in Seq(Int)
  BY <1>1, <1>2, <1>3, Compose
<1> QED
  BY <1>4 DEF z, got

LEMMA CountedConveyed ==
  ASSUME NEW f \in Files, NEW p \in Places(f), NEW u, NEW kind \in ThingKinds, NEW V, NEW vals \in Seq(V), NEW seqs,
         DOMAIN seqs = DOMAIN vals, seqs = [k \in DOMAIN seqs |-> seqs[k]],
         \A k \in 1 .. Len(vals) : vals[k] \in ThingSet(kind) /\ seqs[k] = ThingBytes(kind, vals[k]) /\ seqs[k] # <<>>
  PROVE  /\ WriteOp(Len(vals)) \o Flat(seqs) \in Seq(Int)
         /\ Conveys(f, p, WriteOp(Len(vals)) \o Flat(seqs), Counted(ReadTo(f, p, u), ReadThing, kind), vals)
<1> DEFINE n == Len(vals)
           s == WriteOp(n)
           t == Flat(seqs)
           mid == ReadCount(ReadTo(f, p, u))
           got == ReadMany(mid, ReadThing, kind)
<1>1. Counted(ReadTo(f, p, u), ReadThing, kind) = got
  BY DEF Counted
<1>2. s \in Seq(Int) /\ Conveys(f, p, s, mid, n)
  <2>1. n \in Nat
    OBVIOUS
  <2> HIDE DEF n
  <2> QED
    BY <2>1, CountConveyed
<1> HIDE DEF got, mid, s
<1>3. \A q \in Places(f) : t \in Seq(Int) /\ Conveys(f, q, t, ReadMany(ReadTo(f, q, n), ReadThing, kind), vals)
  BY ManyThingsConveyed
<1>4. t \in Seq(Int) /\ \A q \in Places(f) : mid = ReadTo(f, q, n) => Conveys(f, q, t, got, vals)
  BY <1>3 DEF got
<1>5. ~ mid.ok => ~ got.ok
  BY RefuseIs DEF got, ReadMany
<1> HIDE DEF n, t
<1>6. Conveys(f, p, s \o t, got, vals) /\ s \o t \in Seq(Int)
  BY <1>2, <1>4, <1>5, Compose
<1> QED
  BY <1>1, <1>6 DEF s, t, n

LEMMA ThingTakesAByte ==
  ASSUME NEW kind \in ThingKinds, NEW x \in ThingSet(kind)
  PROVE  ThingBytes(kind, x) # <<>>
<1>1. <<>> \in Files /\ 1 \in Places(<<>>)
  BY DEF Files, Places
<1> QED
  BY <1>1, ThingConveyed

LEMMA CodeConveyed ==
  ASSUME NEW f \in Files, NEW p \in Places(f), NEW u, NEW x \in Seq(InstrSet)
  PROVE  /\ Each(WriteInstr, x) \in Seq(Int)
         /\ Conveys(f, p, Each(WriteInstr, x), ReadMany(Given(ReadTo(f, p, u), Len(x)), ReadThing, "instr"), x)
<1> DEFINE seqs == [n \in DOMAIN x |-> WriteInstr(x[n])]
           kind == "instr"
<1>1. Each(WriteInstr, x) = Flat(seqs)
  BY DEF Each
<1>2. kind \in ThingKinds /\ ThingSet(kind) = InstrSet /\ \A y : ThingBytes(kind, y) = WriteInstr(y)
  BY DEF ThingKinds, ThingSet, ThingBytes
<1>3. DOMAIN seqs = DOMAIN x /\ seqs = [k \in DOMAIN seqs |-> seqs[k]]
  OBVIOUS
<1>4. \A k \in 1 .. Len(x) : x[k] \in InstrSet /\ seqs[k] = WriteInstr(x[k])
  OBVIOUS
<1>5. \A y \in InstrSet : WriteInstr(y) # <<>>
  BY InstrTakesAByte
<1>6. Given(ReadTo(f, p, u), Len(x)) = ReadTo(f, p, Len(x))
  BY GivenIs
<1> HIDE DEF seqs, kind
<1>7. \A k \in 1 .. Len(x) : x[k] \in ThingSet(kind) /\ seqs[k] = ThingBytes(kind, x[k]) /\ seqs[k] # <<>>
  BY <1>2, <1>4, <1>5
<1>8. /\ Flat(seqs) \in Seq(Int)
      /\ Conveys(f, p, Flat(seqs), ReadMany(ReadTo(f, p, Len(x)), ReadThing, kind), x)
  BY <1>2, <1>3, <1>7, ManyThingsConveyed
<1> QED
  BY <1>1, <1>6, <1>8 DEF kind

LEMMA TypesConveyed ==
  ASSUME NEW f \in Files, NEW p \in Places(f), NEW u, NEW x \in Seq(TypeSet)
  PROVE  /\ Each(WriteType, x) \in Seq(Int)
         /\ Conveys(f, p, Each(WriteType, x), ReadMany(Given(ReadTo(f, p, u), Len(x)), ReadThing, "type"), x)
<1> DEFINE seqs == [n \in DOMAIN x |-> WriteType(x[n])]
           kind == "type"
<1>1. Each(WriteType, x) = Flat(seqs)
  BY DEF Each
<1>2. kind \in ThingKinds /\ ThingSet(kind) = TypeSet /\ \A y : ThingBytes(kind, y) = WriteType(y)
  BY DEF ThingKinds, ThingSet, ThingBytes
<1>3. DOMAIN seqs = DOMAIN x /\ seqs = [k \in DOMAIN seqs |-> seqs[k]]
  OBVIOUS
<1>4. \A k \in 1 .. Len(x) : x[k] \in TypeSet /\ seqs[k] = WriteType(x[k])
  OBVIOUS
<1>5. \A y \in TypeSet : WriteType(y) # <<>>
  BY ThingTakesAByte DEF ThingKinds, ThingSet, ThingBytes
<1>6. Given(ReadTo(f, p, u), Len(x)) = ReadTo(f, p, Len(x))
  BY GivenIs
<1> HIDE DEF seqs, kind
<1>7. \A k \in 1 .. Len(x) : x[k] \in ThingSet(kind) /\ seqs[k] = ThingBytes(kind, x[k]) /\ seqs[k] # <<>>
  BY <1>2, <1>4, <1>5
<1>8. /\ Flat(seqs) \in Seq(Int)
      /\ Conveys(f, p, Flat(seqs), ReadMany(ReadTo(f, p, Len(x)), ReadThing, kind), x)
  BY <1>2, <1>3, <1>7, ManyThingsConveyed
<1> QED
  BY <1>1, <1>6, <1>8 DEF kind

LEMMA ExportsConveyed ==
  ASSUME NEW f \in Files, NEW p \in Places(f), NEW u, NEW x \in Seq(ExportSet)
  PROVE  /\ Each(WriteExport, x) \in Seq(Int)
         /\ Conveys(f, p, Each(WriteExport, x), ReadMany(Given(ReadTo(f, p, u), Len(x)), ReadThing, "export"), x)
<1> DEFINE seqs == [n \in DOMAIN x |-> WriteExport(x[n])]
           kind == "export"
<1>1. Each(WriteExport, x) = Flat(seqs)
  BY DEF Each
<1>2. kind \in ThingKinds /\ ThingSet(kind) = ExportSet /\ \A y : ThingBytes(kind, y) = WriteExport(y)
  BY DEF ThingKinds, ThingSet, ThingBytes
<1>3. DOMAIN seqs = DOMAIN x /\ seqs = [k \in DOMAIN seqs |-> seqs[k]]
  OBVIOUS
<1>4. \A k \in 1 .. Len(x) : x[k] \in ExportSet /\ seqs[k] = WriteExport(x[k])
  OBVIOUS
<1>5. \A y \in ExportSet : WriteExport(y) # <<>>
  BY ThingTakesAByte DEF ThingKinds, ThingSet, ThingBytes
<1>6. Given(ReadTo(f, p, u), Len(x)) = ReadTo(f, p, Len(x))
  BY GivenIs
<1> HIDE DEF seqs, kind
<1>7. \A k \in 1 .. Len(x) : x[k] \in ThingSet(kind) /\ seqs[k] = ThingBytes(kind, x[k]) /\ seqs[k] # <<>>
  BY <1>2, <1>4, <1>5
<1>8. /\ Flat(seqs) \in Seq(Int)
      /\ Conveys(f, p, Flat(seqs), ReadMany(ReadTo(f, p, Len(x)), ReadThing, kind), x)
  BY <1>2, <1>3, <1>7, ManyThingsConveyed
<1> QED
  BY <1>1, <1>6, <1>8 DEF kind

LEMMA ImportListConveyed ==
  ASSUME NEW f \in Files, NEW p \in Places(f), NEW u, NEW x \in Seq(Seq(FunctionSet))
  PROVE  /\ WriteOp(Len(x)) \o Each(WriteImport, x) \in Seq(Int)
         /\ Conveys(f, p, WriteOp(Len(x)) \o Each(WriteImport, x), Counted(ReadTo(f, p, u), ReadThing, "import"), x)
<1> DEFINE seqs == [n \in DOMAIN x |-> WriteImport(x[n])]
           kind == "import"
<1>1. Each(WriteImport, x) = Flat(seqs)
  BY DEF Each
<1>2. kind \in ThingKinds /\ ThingSet(kind) = Seq(FunctionSet) /\ \A y : ThingBytes(kind, y) = WriteImport(y)
  BY DEF ThingKinds, ThingSet, ThingBytes
<1>3. DOMAIN seqs = DOMAIN x /\ seqs = [k \in DOMAIN seqs |-> seqs[k]]
  OBVIOUS
<1>4. \A k \in 1 .. Len(x) : x[k] \in Seq(FunctionSet) /\ seqs[k] = WriteImport(x[k])
  OBVIOUS
<1>5. \A y \in Seq(FunctionSet) : WriteImport(y) # <<>>
  BY ThingTakesAByte DEF ThingKinds, ThingSet, ThingBytes
<1>6. Given(ReadTo(f, p, u), Len(x)) = ReadTo(f, p, Len(x))
  BY GivenIs
<1> HIDE DEF seqs, kind
<1>7. \A k \in 1 .. Len(x) : x[k] \in ThingSet(kind) /\ seqs[k] = ThingBytes(kind, x[k]) /\ seqs[k] # <<>>
  BY <1>2, <1>4, <1>5
<1>8. /\ WriteOp(Len(x)) \o Flat(seqs) \in Seq(Int)
      /\ Conveys(f, p, WriteOp(Len(x)) \o Flat(seqs), Counted(ReadTo(f, p, u), ReadThing, kind), x)
  BY <1>2, <1>3, <1>7, CountedConveyed
<1> QED
  BY <1>1, <1>6, <1>8 DEF kind

LEMMA HandlerListConveyed ==
  ASSUME NEW f \in Files, NEW p \in Places(f), NEW u, NEW x \in Seq(HandlerSet)
  PROVE  /\ WriteOp(Len(x)) \o Each(WriteHandler, x) \in Seq(Int)
         /\ Conveys(f, p, WriteOp(Len(x)) \o Each(WriteHandler, x), Counted(ReadTo(f, p, u), ReadThing, "handler"), x)
<1> DEFINE seqs == [n \in DOMAIN x |-> WriteHandler(x[n])]
           kind == "handler"
<1>1. Each(WriteHandler, x) = Flat(seqs)
  BY DEF Each
<1>2. kind \in ThingKinds /\ ThingSet(kind) = HandlerSet /\ \A y : ThingBytes(kind, y) = WriteHandler(y)
  BY DEF ThingKinds, ThingSet, ThingBytes
<1>3. DOMAIN seqs = DOMAIN x /\ seqs = [k \in DOMAIN seqs |-> seqs[k]]
  OBVIOUS
<1>4. \A k \in 1 .. Len(x) : x[k] \in HandlerSet /\ seqs[k] = WriteHandler(x[k])
  OBVIOUS
<1>5. \A y \in HandlerSet : WriteHandler(y) # <<>>
  BY ThingTakesAByte DEF ThingKinds, ThingSet, ThingBytes
<1>6. Given(ReadTo(f, p, u), Len(x)) = ReadTo(f, p, Len(x))
  BY GivenIs
<1> HIDE DEF seqs, kind
<1>7. \A k \in 1 .. Len(x) : x[k] \in ThingSet(kind) /\ seqs[k] = ThingBytes(kind, x[k]) /\ seqs[k] # <<>>
  BY <1>2, <1>4, <1>5
<1>8. /\ WriteOp(Len(x)) \o Flat(seqs) \in Seq(Int)
      /\ Conveys(f, p, WriteOp(Len(x)) \o Flat(seqs), Counted(ReadTo(f, p, u), ReadThing, kind), x)
  BY <1>2, <1>3, <1>7, CountedConveyed
<1> QED
  BY <1>1, <1>6, <1>8 DEF kind

LEMMA SomeSectionIs ==
  ASSUME NEW kinds, Len(kinds) \in Nat, NEW c,
         \A k \in 0 .. Len(kinds) - 1 :
           c[k + 1] = IF c[k].ok THEN Gathered(c[k], ReadSection(c[k], kinds[k + 1])) ELSE c[k],
         NEW b \in 0 .. Len(kinds), NEW a \in 0 .. b
  PROVE  Some(c[a], ReadSection, kinds, a, b) = c[b]
<1> DEFINE Is(u) == u = [n \in a .. b |-> IF n = a THEN c[a] ELSE Onward(u[n - 1], ReadSection, kinds[n])]
           upto == CHOOSE u : Is(u)
           F == [n \in a .. b |-> c[n]]
           D(i) == a + i <= b => upto[a + i] = c[a + i]
           E(i) == a + i <= b => c[a + i] = c[a]
           S == {i \in Nat : D(i)}
           T == {i \in Nat : E(i)}
<1>0. a \in Nat /\ b \in Nat /\ a <= b /\ b <= Len(kinds) /\ b - a \in Nat /\ a + (b - a) = b
  OBVIOUS
<1>1. Some(c[a], ReadSection, kinds, a, b) = IF c[a].ok THEN upto[b] ELSE c[a]
  BY DEF Some
<1>2. ASSUME NEW n \in a .. b, n # a
      PROVE  c[n] = Onward(c[n - 1], ReadSection, kinds[n])
  <2>1. n - 1 \in 0 .. Len(kinds) - 1 /\ (n - 1) + 1 = n
    BY <1>0, <1>2
  <2>2. c[(n - 1) + 1] = IF c[n - 1].ok THEN Gathered(c[n - 1], ReadSection(c[n - 1], kinds[(n - 1) + 1])) ELSE c[n - 1]
    BY <2>1
  <2> QED
    BY <2>1, <2>2 DEF Onward
<1>3. CASE c[a].ok
  <2>1. ASSUME NEW n \in a .. b
        PROVE  F[n] = IF n = a THEN c[a] ELSE Onward(F[n - 1], ReadSection, kinds[n])
    <3>1. CASE n = a
      BY <3>1
    <3>2. CASE n # a
      <4>1. n - 1 \in a .. b
        BY <1>0, <3>2
      <4>2. F[n] = c[n] /\ F[n - 1] = c[n - 1]
        BY <4>1
      <4> HIDE DEF F
      <4> QED
        BY <1>2, <3>2, <4>2
    <3> QED
      BY <3>1, <3>2
  <2>2. Is(F)
    BY <2>1
  <2>3. Is(upto)
    <3> HIDE DEF F, Is
    <3> QED
      BY <2>2
  <2> HIDE DEF upto
  <2>4. \A n \in a .. b : upto[n] = IF n = a THEN c[a] ELSE Onward(upto[n - 1], ReadSection, kinds[n])
    BY <2>3
  <2> HIDE DEF Is, F
  <2>5. D(0)
    BY <1>0, <2>4
  <2>6. ASSUME NEW i \in Nat, D(i)
        PROVE  D(i + 1)
    <3> SUFFICES ASSUME a + (i + 1) <= b PROVE upto[a + (i + 1)] = c[a + (i + 1)]
      OBVIOUS
    <3>1. a + (i + 1) \in a .. b /\ a + (i + 1) # a /\ a + (i + 1) - 1 = a + i /\ a + i <= b
      BY <1>0
    <3>2. upto[a + (i + 1)] = Onward(upto[a + i], ReadSection, kinds[a + (i + 1)])
      BY <2>4, <3>1
    <3>3. c[a + (i + 1)] = Onward(c[a + i], ReadSection, kinds[a + (i + 1)])
      BY <1>2, <3>1
    <3> QED
      BY <2>6, <3>1, <3>2, <3>3
  <2> HIDE DEF D
  <2>7. Nat \subseteq S
    <3>1. 0 \in S /\ \A i \in Nat : i \in S => i + 1 \in S
      BY <2>5, <2>6
    <3> HIDE DEF S
    <3> QED
      BY <3>1, SetInduction
  <2>8. D(b - a)
    BY <1>0, <2>7
  <2>9. upto[b] = c[b]
    BY <1>0, <2>8 DEF D
  <2> QED
    BY <1>1, <1>3, <2>9
<1>4. CASE ~ c[a].ok
  <2> HIDE DEF upto, Is, F, D
  <2>1. E(0)
    BY <1>0
  <2>2. ASSUME NEW i \in Nat, E(i)
        PROVE  E(i + 1)
    <3> SUFFICES ASSUME a + (i + 1) <= b PROVE c[a + (i + 1)] = c[a]
      OBVIOUS
    <3>1. a + i \in 0 .. Len(kinds) - 1 /\ (a + i) + 1 = a + (i + 1) /\ a + i <= b
      BY <1>0
    <3>2. c[a + i] = c[a]
      BY <2>2, <3>1
    <3>3. c[(a + i) + 1] = IF c[a + i].ok THEN Gathered(c[a + i], ReadSection(c[a + i], kinds[(a + i) + 1])) ELSE c[a + i]
      BY <3>1
    <3> QED
      BY <1>4, <3>1, <3>2, <3>3
  <2> HIDE DEF E
  <2>3. Nat \subseteq T
    <3>1. 0 \in T /\ \A i \in Nat : i \in T => i + 1 \in T
      BY <2>1, <2>2
    <3> HIDE DEF T
    <3> QED
      BY <3>1, SetInduction
  <2>4. E(b - a)
    BY <1>0, <2>3
  <2>5. c[b] = c[a]
    BY <1>0, <2>4 DEF E
  <2> QED
    BY <1>1, <1>4, <2>5
<1> QED
  BY <1>3, <1>4

LEMMA EachSectionIs ==
  ASSUME NEW r, NEW kinds, Len(kinds) \in Nat, NEW c, c[0] = Given(r, <<>>),
         \A k \in 0 .. Len(kinds) - 1 :
           c[k + 1] = IF c[k].ok THEN Gathered(c[k], ReadSection(c[k], kinds[k + 1])) ELSE c[k]
  PROVE  ReadEach(r, ReadSection, kinds) = c[Len(kinds)]
<1> DEFINE n == Len(kinds)
           K == Parts(n)
           Is(u) == u = [part \in 0 .. K |-> IF part = 0 THEN Given(r, <<>>)
                                             ELSE Some(u[part - 1], ReadSection, kinds, Short * (part - 1), EndOf(part, n))]
           upto == CHOOSE u : Is(u)
           F == [part \in 0 .. K |-> c[EndOf(part, n)]]
           D(i) == i <= K => upto[i] = c[EndOf(i, n)]
           S == {i \in Nat : D(i)}
<1>0. n \in Nat
  OBVIOUS
<1>1. ReadEach(r, ReadSection, kinds) = upto[K]
  BY DEF ReadEach
<1>2. /\ K \in Nat /\ EndOf(0, n) = 0 /\ EndOf(K, n) = n
      /\ \A part \in 1 .. K : /\ EndOf(part - 1, n) = Short * (part - 1) /\ EndOf(part - 1, n) \in 0 .. EndOf(part, n)
                              /\ EndOf(part, n) \in 0 .. n
  BY <1>0, PartsOf
<1> HIDE DEF n, K
<1>3. ASSUME NEW part \in 1 .. K
      PROVE  c[EndOf(part, n)] = Some(c[EndOf(part - 1, n)], ReadSection, kinds, Short * (part - 1), EndOf(part, n))
  <2> DEFINE a == EndOf(part - 1, n)
             b == EndOf(part, n)
  <2>1. b \in 0 .. Len(kinds) /\ a \in 0 .. b /\ a = Short * (part - 1)
    BY <1>2 DEF n
  <2> HIDE DEF a, b
  <2>2. Some(c[a], ReadSection, kinds, a, b) = c[b]
    BY <2>1, SomeSectionIs
  <2>3. Some(c[a], ReadSection, kinds, Short * (part - 1), b) = c[b]
    BY <2>1, <2>2
  <2> QED
    BY <2>3 DEF a, b
<1>4. Is(F)
  <2>1. ASSUME NEW part \in 0 .. K
        PROVE  F[part] = IF part = 0 THEN Given(r, <<>>)
                         ELSE Some(F[part - 1], ReadSection, kinds, Short * (part - 1), EndOf(part, n))
    <3>1. CASE part = 0
      BY <1>2, <3>1
    <3>2. CASE part # 0
      <4>1. part \in 1 .. K /\ part - 1 \in 0 .. K
        BY <1>2, <3>2
      <4>2. F[part] = c[EndOf(part, n)] /\ F[part - 1] = c[EndOf(part - 1, n)]
        BY <4>1
      <4> HIDE DEF F
      <4> QED
        BY <1>3, <3>2, <4>1, <4>2
    <3> QED
      BY <3>1, <3>2
  <2> QED
    BY <2>1
<1>5. Is(upto)
  <2> HIDE DEF F, Is
  <2> QED
    BY <1>4
<1> HIDE DEF upto
<1>6. \A part \in 0 .. K : upto[part] = IF part = 0 THEN Given(r, <<>>)
                                        ELSE Some(upto[part - 1], ReadSection, kinds, Short * (part - 1), EndOf(part, n))
  BY <1>5
<1> HIDE DEF Is, F
<1>7. D(0)
  BY <1>2, <1>6
<1>8. ASSUME NEW i \in Nat, D(i)
      PROVE  D(i + 1)
  <2> SUFFICES ASSUME i + 1 <= K PROVE upto[i + 1] = c[EndOf(i + 1, n)]
    OBVIOUS
  <2>1. i + 1 \in 0 .. K /\ i + 1 \in 1 .. K /\ i + 1 # 0 /\ (i + 1) - 1 = i /\ i <= K
    BY <1>2
  <2>2. upto[i + 1] = Some(upto[i], ReadSection, kinds, Short * ((i + 1) - 1), EndOf(i + 1, n))
    BY <1>6, <2>1
  <2>3. c[EndOf(i + 1, n)] = Some(c[EndOf(i, n)], ReadSection, kinds, Short * ((i + 1) - 1), EndOf(i + 1, n))
    BY <1>3, <2>1
  <2> QED
    BY <1>8, <2>1, <2>2, <2>3
<1> HIDE DEF D
<1>9. Nat \subseteq S
  <2>1. 0 \in S /\ \A i \in Nat : i \in S => i + 1 \in S
    BY <1>7, <1>8
  <2> HIDE DEF S
  <2> QED
    BY <2>1, SetInduction
<1>10. D(K)
  BY <1>2, <1>9
<1>11. upto[K] = c[n]
  BY <1>2, <1>10 DEF D
<1> QED
  BY <1>1, <1>11 DEF n

LEMMA SectionsConveyed ==
  ASSUME NEW f \in Files, NEW p \in Places(f), NEW u, NEW kinds, NEW seqs \in Seq(Seq(Int)), NEW V, NEW vals \in Seq(V),
         Len(kinds) = Len(seqs), Len(vals) = Len(seqs),
         \A k \in 1 .. Len(seqs) : \A q \in Places(f) : \A v :
           Conveys(f, q, seqs[k], ReadSection(ReadTo(f, q, v), kinds[k]), vals[k])
  PROVE  Conveys(f, p, Flat(seqs), ReadEach(ReadTo(f, p, u), ReadSection, kinds), vals)
<1> DEFINE N == Len(seqs)
           got == ReadEach(ReadTo(f, p, u), ReadSection, kinds)
<1>0. N \in Nat
  OBVIOUS
<1>1. PICK P : IsJoined(P, seqs, Int)
  BY JoinedExists
<1>2. Flat(seqs) = P[N]
  BY <1>1, FlatJoins
<1> DEFINE before(k) == ReadTo(f, p + Len(P[k]), SubSeq(vals, 1, k))
           g == [k \in 1 .. N |-> ReadSection(before(k - 1), kinds[k])]
<1>3. ASSUME NEW k \in 0 .. N - 1
      PROVE  g[k + 1] = ReadSection(before(k), kinds[k + 1])
  <2>1. k + 1 \in 1 .. N /\ (k + 1) - 1 = k
    BY <1>0
  <2> HIDE DEF before
  <2> QED
    BY <2>1
<1>4. ASSUME NEW k \in 0 .. N - 1, p + Len(P[k]) \in Places(f)
      PROVE  Conveys(f, p + Len(P[k]), seqs[k + 1], g[k + 1], vals[k + 1])
  <2>1. k + 1 \in 1 .. N
    BY <1>0
  <2> HIDE DEF g
  <2> QED
    BY <1>3, <1>4, <2>1
<1>5. ASSUME Matches(f, p, P[N]) \/ CutOff(f, p, P[N])
      PROVE  Conveys(f, p, P[N], got, vals)
  <2> HIDE DEF g
  <2>1. PICK c : IsGathered(c, f, p, P, vals, g, N) /\ Conveys(f, p, P[N], c[N], vals)
    BY <1>1, <1>4, <1>5, GatheredConveyed
  <2>2. c[0] = ReadTo(f, p, <<>>)
    BY <2>1 DEF IsGathered
  <2>3. ASSUME NEW k \in 0 .. N - 1
        PROVE  c[k + 1] = IF c[k].ok THEN Gathered(c[k], ReadSection(c[k], kinds[k + 1])) ELSE c[k]
    <3>1. \/ c[k] = before(k) /\ c[k + 1] = Gathered(c[k], g[k + 1])
          \/ ~ c[k].ok /\ c[k + 1] = c[k]
      BY <2>1 DEF IsGathered
    <3>2. before(k).ok
      BY AtIs
    <3> HIDE DEF before
    <3> QED
      BY <1>3, <3>1, <3>2
  <2>4. got = c[Len(kinds)]
    <3>1. Len(kinds) \in Nat /\ c[0] = Given(ReadTo(f, p, u), <<>>)
      BY <2>2, GivenIs
    <3> QED
      BY <2>3, <3>1, EachSectionIs
  <2> QED
    BY <2>1, <2>4
<1>6. Conveys(f, p, P[N], got, vals)
  BY <1>5 DEF Conveys
<1> QED
  BY <1>2, <1>6

\* What the loader reads of what is written: all of it, but the count of imports that are not announced.
SectionBytes(m) ==
  <<Each(WriteInstr, m.code), Each(WriteType, m.types), Each(WriteItem, m.data) \o <<0>>, WriteName(m.name),
    Each(WriteExport, m.exports), IF Has(m.header.flags, HasImport) THEN WriteImports(m.imports) ELSE <<>>,
    IF Has(m.header.flags, HasHandler) THEN WriteHandlers(m.handlers) ELSE <<>>>>
InSections(m) == <<m.code, m.types, m.data, m.name, m.exports, m.imports, m.handlers>>

LEMMA ModuleHas ==
  ASSUME NEW m, IsModule(m)
  PROVE  /\ m.code \in Seq(InstrSet) /\ m.types \in Seq(TypeSet) /\ m.data \in Seq(ItemSet) /\ m.name \in NameSet
         /\ m.exports \in Seq(ExportSet) /\ m.imports \in Seq(Seq(FunctionSet)) /\ m.handlers \in Seq(HandlerSet)
         /\ m.header.code = Len(m.code) /\ m.header.types = Len(m.types) /\ m.header.exports = Len(m.exports)
         /\ Has(m.header.flags, HasImport) <=> m.imports # <<>>
         /\ Has(m.header.flags, HasHandler) => Has(m.header.flags, HasImport)
         /\ ~ Has(m.header.flags, HasHandler) => m.handlers = <<>>
BY DEF IsModule

LEMMA ImportsConveyed ==
  ASSUME NEW f \in Files, NEW p \in Places(f), NEW u, NEW x \in Seq(Seq(FunctionSet)), x # <<>>
  PROVE  WriteImports(x) \in Seq(Int) /\ Conveys(f, p, WriteImports(x), Closed(Counted(ReadTo(f, p, u), ReadThing, "import")), x)
<1> DEFINE s == WriteOp(Len(x)) \o Each(WriteImport, x)
           mid == Counted(ReadTo(f, p, u), ReadThing, "import")
<1>1. s \in Seq(Int) /\ Conveys(f, p, s, mid, x)
  BY ImportListConveyed
<1>2. WriteImports(x) = s \o <<0>>
  BY DEF WriteImports
<1> HIDE DEF s, mid
<1>3. s \o <<0>> \in Seq(Int) /\ Conveys(f, p, s \o <<0>>, Closed(mid), x)
  BY <1>1, EndedConveyed
<1> QED
  BY <1>2, <1>3 DEF mid

LEMMA HandlersConveyed ==
  ASSUME NEW f \in Files, NEW p \in Places(f), NEW u, NEW x \in Seq(HandlerSet)
  PROVE  WriteHandlers(x) \in Seq(Int) /\ Conveys(f, p, WriteHandlers(x), Closed(Counted(ReadTo(f, p, u), ReadThing, "handler")), x)
<1> DEFINE s == WriteOp(Len(x)) \o Each(WriteHandler, x)
           mid == Counted(ReadTo(f, p, u), ReadThing, "handler")
<1>1. s \in Seq(Int) /\ Conveys(f, p, s, mid, x)
  BY HandlerListConveyed
<1>2. WriteHandlers(x) = s \o <<0>>
  BY DEF WriteHandlers
<1> HIDE DEF s, mid
<1>3. s \o <<0>> \in Seq(Int) /\ Conveys(f, p, s \o <<0>>, Closed(mid), x)
  BY <1>1, EndedConveyed
<1> QED
  BY <1>2, <1>3 DEF mid

\* A section that is not announced is not read.
LEMMA AbsentConveyed ==
  ASSUME NEW f \in Files, NEW p \in Places(f), NEW u
  PROVE  <<>> \in Seq(Int) /\ Conveys(f, p, <<>>, ReadSection(ReadTo(f, p, u), Section("absent", 0)), <<>>)
<1>1. ReadSection(ReadTo(f, p, u), Section("absent", 0)) = Given(ReadTo(f, p, u), <<>>)
  BY DEF ReadSection, Section
<1>2. Given(ReadTo(f, p, u), <<>>) = ReadTo(f, p, <<>>)
  BY GivenIs
<1>3. Conveys(f, p, <<>>, ReadTo(f, p, <<>>), <<>>)
  BY NothingConveyed
<1> QED
  BY <1>1, <1>2, <1>3

\* Every section of a module is read as it was written, if the header says how many things it has and
\* whether it is there (write_dis, parse_module).
THEOREM SectionConveyed ==
  ASSUME NEW m, IsModule(m), NEW f \in Files, NEW p \in Places(f), NEW u, NEW k \in 1 .. 7
  PROVE  /\ SectionBytes(m)[k] \in Seq(Int)
         /\ Conveys(f, p, SectionBytes(m)[k], ReadSection(ReadTo(f, p, u), Sections(m.header)[k]), InSections(m)[k])
<1> DEFINE h == m.header
           r == ReadTo(f, p, u)
           b == SectionBytes(m)[k]
           s == Sections(h)[k]
           x == InSections(m)[k]
<1>1. CASE k = 1
  <2>1. b = Each(WriteInstr, m.code) /\ s = Section("code", Len(m.code)) /\ x = m.code
    BY <1>1, ModuleHas DEF SectionBytes, InSections, Sections
  <2>2. ReadSection(r, s) = ReadMany(Given(r, Len(m.code)), ReadThing, "instr")
    BY <2>1 DEF ReadSection, Section
  <2> QED
    BY <2>1, <2>2, ModuleHas, CodeConveyed
<1>2. CASE k = 2
  <2>1. b = Each(WriteType, m.types) /\ s = Section("types", Len(m.types)) /\ x = m.types
    BY <1>2, ModuleHas DEF SectionBytes, InSections, Sections
  <2>2. ReadSection(r, s) = ReadMany(Given(r, Len(m.types)), ReadThing, "type")
    BY <2>1 DEF ReadSection, Section
  <2> QED
    BY <2>1, <2>2, ModuleHas, TypesConveyed
<1>3. CASE k = 3
  <2>1. b = Each(WriteItem, m.data) \o <<0>> /\ s = Section("data", 0) /\ x = m.data
    BY <1>3, ModuleHas DEF SectionBytes, InSections, Sections
  <2>2. ReadSection(r, s) = ReadData(r)
    BY <2>1 DEF ReadSection, Section
  <2> QED
    BY <2>1, <2>2, ModuleHas, DataConveyed
<1>4. CASE k = 4
  <2>1. b = WriteName(m.name) /\ s = Section("name", 0) /\ x = m.name
    BY <1>4, ModuleHas DEF SectionBytes, InSections, Sections
  <2>2. ReadSection(r, s) = ReadName(r)
    BY <2>1 DEF ReadSection, Section
  <2> QED
    BY <2>1, <2>2, ModuleHas, NameConveyed
<1>5. CASE k = 5
  <2>1. b = Each(WriteExport, m.exports) /\ s = Section("exports", Len(m.exports)) /\ x = m.exports
    BY <1>5, ModuleHas DEF SectionBytes, InSections, Sections
  <2>2. ReadSection(r, s) = ReadMany(Given(r, Len(m.exports)), ReadThing, "export")
    BY <2>1 DEF ReadSection, Section
  <2> QED
    BY <2>1, <2>2, ModuleHas, ExportsConveyed
<1>6. CASE k = 6
  <2>1. /\ b = IF Has(h.flags, HasImport) THEN WriteImports(m.imports) ELSE <<>>
        /\ s = Section(IF Has(h.flags, HasImport) THEN "imports" ELSE "absent", 0) /\ x = m.imports
    BY <1>6, ModuleHas DEF SectionBytes, InSections, Sections, Announced
  <2>2. CASE Has(h.flags, HasImport)
    <3>1. ReadSection(r, s) = Closed(Counted(r, ReadThing, "import"))
      BY <2>1, <2>2 DEF ReadSection, Section
    <3> QED
      BY <2>1, <2>2, <3>1, ModuleHas, ImportsConveyed
  <2>3. CASE ~ Has(h.flags, HasImport)
    <3>1. b = <<>> /\ s = Section("absent", 0) /\ x = <<>>
      BY <2>1, <2>3, ModuleHas
    <3> QED
      BY <3>1, AbsentConveyed
  <2> QED
    BY <2>2, <2>3
<1>7. CASE k = 7
  <2>1. /\ b = IF Has(h.flags, HasHandler) THEN WriteHandlers(m.handlers) ELSE <<>>
        /\ s = Section(IF Has(h.flags, HasHandler) THEN "handlers" ELSE "absent", 0) /\ x = m.handlers
    BY <1>7, ModuleHas DEF SectionBytes, InSections, Sections, Announced
  <2>2. CASE Has(h.flags, HasHandler)
    <3>1. ReadSection(r, s) = Closed(Counted(r, ReadThing, "handler"))
      BY <2>1, <2>2 DEF ReadSection, Section
    <3> QED
      BY <2>1, <2>2, <3>1, ModuleHas, HandlersConveyed
  <2>3. CASE ~ Has(h.flags, HasHandler)
    <3>1. b = <<>> /\ s = Section("absent", 0) /\ x = <<>>
      BY <2>1, <2>3, ModuleHas
    <3> QED
      BY <3>1, AbsentConveyed
  <2> QED
    BY <2>2, <2>3
<1>8. k \in {1, 2, 3, 4, 5, 6, 7}
  OBVIOUS
<1> QED
  BY <1>1, <1>2, <1>3, <1>4, <1>5, <1>6, <1>7, <1>8

-----------------------------------------------------------------------------
(* The whole file.                                                             *)

LEMMA ReadSectionsConveyed ==
  ASSUME NEW m, IsModule(m), NEW f \in Files, NEW p \in Places(f), NEW u
  PROVE  /\ SectionBytes(m) \in Seq(Seq(Int)) /\ Len(SectionBytes(m)) = 7 /\ Flat(SectionBytes(m)) \in Seq(Int)
         /\ Conveys(f, p, Flat(SectionBytes(m)), ReadEach(ReadTo(f, p, u), ReadSection, Sections(m.header)), InSections(m))
<1> DEFINE seqs == SectionBytes(m)
           kinds == Sections(m.header)
           vals == InSections(m)
           V == {m.code, m.types, m.data, m.name, m.exports, m.imports, m.handlers}
<1>1. Len(kinds) = 7 /\ Len(vals) = 7 /\ vals \in Seq(V)
  BY DEF Sections, InSections
<1>2. Len(seqs) = 7 /\ DOMAIN seqs = 1 .. 7 /\ seqs = [k \in 1 .. 7 |-> seqs[k]]
  BY DEF SectionBytes
<1>3. \A k \in 1 .. 7 : seqs[k] \in Seq(Int)
  BY SectionConveyed
<1>4. \A k \in 1 .. 7 : \A q \in Places(f) : \A v : Conveys(f, q, seqs[k], ReadSection(ReadTo(f, q, v), kinds[k]), vals[k])
  BY SectionConveyed
<1> HIDE DEF seqs, kinds, vals, V
<1>5. seqs \in Seq(Seq(Int))
  <2>1. seqs \in [1 .. 7 -> Seq(Int)]
    BY <1>2, <1>3
  <2> DEFINE n == 7
  <2>2. n \in Nat /\ seqs \in [1 .. n -> Seq(Int)]
    BY <2>1
  <2> HIDE DEF n
  <2> QED
    BY <2>2, FunctionIsSeq
<1>6. Len(kinds) = Len(seqs) /\ Len(vals) = Len(seqs) /\ 1 .. Len(seqs) = 1 .. 7
  BY <1>1, <1>2
<1>7. \A k \in 1 .. Len(seqs) : \A q \in Places(f) : \A v :
        Conveys(f, q, seqs[k], ReadSection(ReadTo(f, q, v), kinds[k]), vals[k])
  BY <1>4, <1>6
<1>8. Conveys(f, p, Flat(seqs), ReadEach(ReadTo(f, p, u), ReadSection, kinds), vals)
  BY <1>1, <1>5, <1>6, <1>7, SectionsConveyed
<1>9. Flat(seqs) \in Seq(Int)
  BY <1>5, FlatIsSeq
<1> QED
  BY <1>2, <1>5, <1>8, <1>9 DEF seqs, kinds, vals

LEMMA HeaderFieldsConveyed ==
  ASSUME NEW f \in Files, NEW p \in Places(f), NEW signature, NEW h \in HeaderSet
  PROVE  /\ WriteHeader(h) \in Seq(Int)
         /\ Conveys(f, p, WriteHeader(h), HeaderFrom(ReadTo(f, p, signature)), <<signature, h>>)
<1> DEFINE n == 8
           kinds == [k \in 1 .. n |-> "operand"]
           vals == <<h.flags, h.stack, h.code, h.data, h.types, h.exports, h.pc, h.frame>>
           seqs == [k \in DOMAIN vals |-> WriteOp(vals[k])]
           s == Flat(seqs)
           mid == ReadEach(ReadTo(f, p, signature), ReadField, kinds)
           got == HeaderOf(signature, mid)
           x == <<signature, h>>
<1>1. /\ h.flags \in Int /\ h.stack \in Int /\ h.code \in Int /\ h.data \in Int /\ h.types \in Int /\ h.exports \in Int
      /\ h.pc \in Int /\ h.frame \in Int
      /\ h = [flags |-> h.flags, stack |-> h.stack, code |-> h.code, data |-> h.data, types |-> h.types,
              exports |-> h.exports, pc |-> h.pc, frame |-> h.frame]
  BY DEF HeaderSet
<1>2. /\ vals \in Seq(Int) /\ Len(vals) = n /\ DOMAIN vals = 1 .. n
      /\ vals[1] = h.flags /\ vals[2] = h.stack /\ vals[3] = h.code /\ vals[4] = h.data /\ vals[5] = h.types
      /\ vals[6] = h.exports /\ vals[7] = h.pc /\ vals[8] = h.frame
  BY <1>1
<1>3. WriteHeader(h) = s /\ HeaderFrom(ReadTo(f, p, signature)) = got
  BY AtIs DEF WriteHeader, HeaderFrom, Each
<1>4. n \in Nat
  OBVIOUS
<1> HIDE DEF vals, n
<1>5. kinds \in Seq(FieldKinds) /\ Len(kinds) = n /\ \A k \in 1 .. n : kinds[k] = "operand"
  <2>1. kinds \in [1 .. n -> FieldKinds]
    BY DEF FieldKinds
  <2>2. \A k \in 1 .. n : kinds[k] = "operand"
    OBVIOUS
  <2> HIDE DEF kinds
  <2> QED
    BY <1>4, <2>1, <2>2, FunctionIsSeq
<1> HIDE DEF kinds
<1>6. DOMAIN seqs = 1 .. n /\ seqs = [k \in DOMAIN seqs |-> seqs[k]] /\ \A k \in 1 .. n : seqs[k] = WriteOp(vals[k])
  BY <1>2
<1> HIDE DEF seqs
<1>7. \A k \in 1 .. n : vals[k] \in FieldSet(kinds[k]) /\ seqs[k] = FieldBytes(kinds[k], vals[k])
  BY <1>2, <1>5, <1>6 DEF FieldSet, FieldBytes
<1>8. s \in Seq(Int) /\ Conveys(f, p, s, mid, vals)
  BY <1>2, <1>5, <1>6, <1>7, RecordConveyed
<1> HIDE DEF s, mid
<1>9. ASSUME NEW q \in Places(f), mid = ReadTo(f, q, vals)
      PROVE  got = ReadTo(f, q, x)
  <2>1. mid.val = vals
    BY <1>9, AtIs
  <2>2. h = [flags |-> vals[1], stack |-> vals[2], code |-> vals[3], data |-> vals[4],
             types |-> vals[5], exports |-> vals[6], pc |-> vals[7], frame |-> vals[8]]
    BY <1>1, <1>2
  <2>3. got = Given(mid, x)
    BY <2>1, <2>2 DEF HeaderOf
  <2> QED
    BY <1>9, <2>3, GivenIs
<1>10. ~ mid.ok => ~ got.ok
  BY GivenIs DEF HeaderOf
<1> HIDE DEF got, x
<1>11. Conveys(f, p, s, got, x)
  BY <1>8, <1>9, <1>10, Afterwards
<1> QED
  BY <1>3, <1>8, <1>11 DEF x

\* Two magic numbers: one stands before the header, the other before a signature.
LEMMA UnsignedConveyed ==
  ASSUME NEW f \in Files, NEW p \in Places(f), NEW u
  PROVE  /\ WriteOp(XMagic) \in Seq(Int)
         /\ Conveys(f, p, WriteOp(XMagic), SignatureFrom(ReadOperand(ReadTo(f, p, u))), <<>>)
<1> DEFINE mid == ReadOperand(ReadTo(f, p, u))
           s == WriteOp(XMagic)
           got == SignatureFrom(mid)
<1>1. XMagic \in Int /\ XMagic # SMagic
  BY SMT DEF XMagic, SMagic
<1>2. s \in Seq(Int) /\ Conveys(f, p, s, mid, XMagic)
  BY <1>1, OperandConveyed
<1> HIDE DEF s, mid
<1>3. ASSUME NEW q \in Places(f), mid = ReadTo(f, q, XMagic)
      PROVE  got = ReadTo(f, q, <<>>)
  <2>1. mid.ok /\ mid.val = XMagic
    BY <1>3, AtIs
  <2>2. got = Given(mid, <<>>)
    BY <1>1, <2>1 DEF SignatureFrom, Require
  <2> QED
    BY <1>3, <2>2, GivenIs
<1>4. ~ mid.ok => ~ got.ok
  BY GivenIs DEF SignatureFrom, Require
<1> HIDE DEF got
<1>5. Conveys(f, p, s, got, <<>>)
  BY <1>2, <1>3, <1>4, Afterwards
<1> QED
  BY <1>2, <1>5 DEF got, s, mid

LEMMA SignedConveyed ==
  ASSUME NEW f \in Files, NEW p \in Places(f), NEW u, NEW signature \in Seq(Nat)
  PROVE  /\ WriteOp(SMagic) \o (WriteOp(Len(signature)) \o signature) \in Seq(Int)
         /\ Conveys(f, p, WriteOp(SMagic) \o (WriteOp(Len(signature)) \o signature),
                    SignatureFrom(ReadOperand(ReadTo(f, p, u))), signature)
<1> DEFINE mid == ReadOperand(ReadTo(f, p, u))
           n == Len(signature)
           s == WriteOp(SMagic)
           t == WriteOp(n)
           got == SignatureFrom(mid)
<1>1. SMagic \in Int /\ n \in Nat /\ signature \in Seq(Int)
  BY SMT DEF SMagic
<1>2. s \in Seq(Int) /\ Conveys(f, p, s, mid, SMagic)
  BY <1>1, OperandConveyed
<1>3. t \in Seq(Int) /\ \A q \in Places(f) : \A v : Conveys(f, q, t, ReadCount(ReadTo(f, q, v)), n)
  <2> HIDE DEF n
  <2> QED
    BY <1>1, CountConveyed
<1>4. \A q \in Places(f) : \A v : Conveys(f, q, signature, Take(ReadTo(f, q, v), n), signature)
  BY <1>1, TakeConveyed
<1> HIDE DEF s, t, mid, n
<1>5. ASSUME NEW q \in Places(f), mid = ReadTo(f, q, SMagic)
      PROVE  Conveys(f, q, t \o signature, got, signature)
  <2> DEFINE count == ReadCount(mid)
  <2>1. got = SignatureOf(count)
    BY <1>5, AtIs DEF SignatureFrom
  <2>2. Conveys(f, q, t, count, n)
    BY <1>3, <1>5
  <2> HIDE DEF count, got
  <2>3. ASSUME NEW q2 \in Places(f), count = ReadTo(f, q2, n)
        PROVE  Conveys(f, q2, signature, got, signature)
    <3>1. got = Take(ReadTo(f, q2, n), n)
      BY <2>1, <2>3, AtIs DEF SignatureOf
    <3> QED
      BY <1>4, <3>1
  <2>4. ~ count.ok => ~ got.ok
    BY <2>1 DEF SignatureOf
  <2> QED
    BY <1>1, <1>3, <2>2, <2>3, <2>4, Compose
<1>6. ~ mid.ok => ~ got.ok
  BY GivenIs DEF SignatureFrom, Require
<1> HIDE DEF got
<1>7. t \o signature \in Seq(Int)
  BY <1>1, <1>3, ConcatProperties
<1>8. s \o (t \o signature) \in Seq(Int)
  BY <1>2, <1>7, ConcatProperties
<1> DEFINE rest == t \o signature
<1>9. rest \in Seq(Int) /\ \A q \in Places(f) : mid = ReadTo(f, q, SMagic) => Conveys(f, q, rest, got, signature)
  BY <1>5, <1>7
<1> HIDE DEF rest
<1>10. Conveys(f, p, s \o rest, got, signature)
  BY <1>2, <1>6, <1>9, Compose
<1> QED
  BY <1>8, <1>10 DEF got, s, t, mid, n, rest

\* The bytes that the loader needs of a file that begins in some way.
Needed(start, m) == (start \o WriteHeader(m.header)) \o Flat(SectionBytes(m))

LEMMA ModuleConveyed ==
  ASSUME NEW m, IsModule(m), NEW f \in Files, NEW p \in Places(f), NEW u, NEW start \in Seq(Int),
         Conveys(f, p, start, SignatureFrom(ReadOperand(ReadTo(f, p, u))), m.signature)
  PROVE  Needed(start, m) \in Seq(Int) /\ Conveys(f, p, Needed(start, m), ReadModule(ReadTo(f, p, u)), m)
<1> DEFINE h == m.header
           signature == m.signature
           header == WriteHeader(h)
           sections == Flat(SectionBytes(m))
           mid == SignatureFrom(ReadOperand(ReadTo(f, p, u)))
           head == HeaderFrom(mid)
           got == ModuleFrom(head)
           y == <<signature, h>>
           x == m
           vals == InSections(m)
<1>1. /\ h \in HeaderSet
      /\ m = [signature |-> m.signature, header |-> m.header, code |-> m.code, types |-> m.types, data |-> m.data,
              name |-> m.name, exports |-> m.exports, imports |-> m.imports, handlers |-> m.handlers]
  BY DEF IsModule
<1>2. header \in Seq(Int) /\ \A q \in Places(f) : Conveys(f, q, header, HeaderFrom(ReadTo(f, q, signature)), y)
  BY <1>1, HeaderFieldsConveyed
<1>3. /\ sections \in Seq(Int)
      /\ \A q \in Places(f) : \A v : Conveys(f, q, sections, ReadEach(ReadTo(f, q, v), ReadSection, Sections(h)), vals)
  BY ReadSectionsConveyed
<1>4. ReadModule(ReadTo(f, p, u)) = got /\ Needed(start, m) = (start \o header) \o sections
  BY DEF ReadModule, ReadHeader, Needed
<1>5. Conveys(f, p, start, mid, signature)
  OBVIOUS
<1>6. y[1] = signature /\ y[2] = h
  OBVIOUS
<1>7. \A r : ModuleOf(signature, h, r) =
               Given(r, [signature |-> signature, header |-> h, code |-> r.val[1], types |-> r.val[2], data |-> r.val[3],
                         name |-> r.val[4], exports |-> r.val[5], imports |-> r.val[6], handlers |-> r.val[7]])
  BY DEF ModuleOf
<1>8. x = [signature |-> signature, header |-> h, code |-> vals[1], types |-> vals[2], data |-> vals[3],
           name |-> vals[4], exports |-> vals[5], imports |-> vals[6], handlers |-> vals[7]]
  BY <1>1 DEF InSections
<1> HIDE DEF h, signature, header, sections, mid, x, y, vals
<1>9. Conveys(f, p, start \o header, head, y)
  <2>1. \A q \in Places(f) : mid = ReadTo(f, q, signature) => Conveys(f, q, header, head, y)
    BY <1>2
  <2>2. ~ mid.ok => ~ head.ok
    BY DEF HeaderFrom
  <2> HIDE DEF head
  <2> QED
    BY <1>2, <1>5, <2>1, <2>2, Compose
<1>10. start \o header \in Seq(Int)
  BY <1>2, ConcatProperties
<1> HIDE DEF head
<1>11. ASSUME NEW q \in Places(f), head = ReadTo(f, q, y)
       PROVE  Conveys(f, q, sections, got, x)
  <2> DEFINE read == ReadEach(head, ReadSection, Sections(h))
  <2>1. got = ModuleOf(signature, h, read)
    BY <1>6, <1>11, AtIs DEF ModuleFrom
  <2>2. Conveys(f, q, sections, read, vals)
    BY <1>3, <1>11
  <2> HIDE DEF read, got
  <2>3. ASSUME NEW q2 \in Places(f), read = ReadTo(f, q2, vals)
        PROVE  got = ReadTo(f, q2, x)
    <3>1. read.val = vals
      BY <2>3, AtIs
    <3>2. got = Given(read, x)
      BY <1>7, <1>8, <2>1, <3>1
    <3> QED
      BY <2>3, <3>2, GivenIs
  <2>4. ~ read.ok => ~ got.ok
    BY <1>7, <2>1, GivenIs
  <2> QED
    BY <1>3, <2>2, <2>3, <2>4, Afterwards
<1>12. ~ head.ok => ~ got.ok
  BY DEF ModuleFrom
<1> HIDE DEF got
<1> DEFINE begin == start \o header
<1>13. begin \in Seq(Int) /\ Conveys(f, p, begin, head, y)
  BY <1>9, <1>10
<1> HIDE DEF begin
<1>14. Conveys(f, p, begin \o sections, got, x) /\ begin \o sections \in Seq(Int)
  BY <1>3, <1>11, <1>12, <1>13, Compose, ConcatProperties
<1>15. Needed(start, m) = begin \o sections
  BY <1>4 DEF begin
<1> QED
  BY <1>4, <1>14, <1>15 DEF x

\* What is written after that, and not read: the count of imports that are not announced.
Unread(m) == IF Has(m.header.flags, HasImport) THEN <<>> ELSE <<0>>

LEMMA NothingAfter ==
  ASSUME NEW s \in Seq(Int)
  PROVE  s \o <<>> = s
OBVIOUS

LEMMA NoImportsAre ==
  WriteImports(<<>>) = <<0>>
<1> DEFINE none == <<>>
           e == [n \in DOMAIN none |-> WriteImport(none[n])]
<1>1. e \in Seq(Seq(Int)) /\ Len(e) = 0
  <2> DEFINE zero == 0
  <2>1. e \in [1 .. zero -> Seq(Int)] /\ zero \in Nat /\ zero = 0
    OBVIOUS
  <2> HIDE DEF zero, e
  <2> QED
    BY <2>1, FunctionIsSeq
<1>2. Each(WriteImport, <<>>) = Flat(e)
  BY DEF Each
<1> HIDE DEF e
<1>3. Flat(e) = <<>>
  <2>1. PICK P : IsJoined(P, e, Int)
    BY <1>1, JoinedExists
  <2>2. P[0] = <<>>
    BY <2>1 DEF IsJoined
  <2>3. Flat(e) = P[0]
    BY <1>1, <2>1, FlatJoins
  <2> QED
    BY <2>2, <2>3
<1>4. WriteOp(0) = <<0>>
  <2>1. 0 \in 0 .. 63 /\ 0 \in Int
    OBVIOUS
  <2> QED
    BY <2>1, FormOfOperand
<1>5. WriteImports(<<>>) = (WriteOp(0) \o Each(WriteImport, <<>>)) \o <<>>
  BY DEF WriteImports
<1>6. <<0>> \in Seq(Int)
  OBVIOUS
<1>7. WriteImports(<<>>) = (<<0>> \o <<>>) \o <<>>
  BY <1>2, <1>3, <1>4, <1>5
<1> QED
  BY <1>6, <1>7, NothingAfter

\* Sequences of which the last is empty, and the one before it in one case.
LEMMA OneMore ==
  ASSUME NEW n \in Nat, NEW w \in Seq(Seq(Int)), NEW b \in Seq(Seq(Int)), Len(w) = n + 2, Len(b) = n + 2,
         \A k \in 1 .. n : w[k] = b[k], b[n + 1] = <<>>, b[n + 2] = <<>>, w[n + 2] = <<>>
  PROVE  Flat(w) = Flat(b) \o w[n + 1]
<1>1. PICK P : IsJoined(P, b, Int)
  BY JoinedExists
<1>2. PICK Q : IsJoined(Q, w, Int)
  BY JoinedExists
<1>3. SubSeq(b, 1, n) = SubSeq(w, 1, n)
  <2> DEFINE sb == SubSeq(b, 1, n)
             sw == SubSeq(w, 1, n)
  <2>1. sb \in Seq(Seq(Int)) /\ Len(sb) = n /\ \A k \in 1 .. n : sb[k] = b[k]
    OBVIOUS
  <2>2. sw \in Seq(Seq(Int)) /\ Len(sw) = n /\ \A k \in 1 .. n : sw[k] = w[k]
    OBVIOUS
  <2> HIDE DEF sb, sw
  <2>3. \A k \in 1 .. Len(sb) : sb[k] = sw[k]
    BY <2>1, <2>2
  <2>4. sb = sw
    BY <2>1, <2>2, <2>3, SameSequence
  <2> QED
    BY <2>4 DEF sb, sw
<1>4. P[n] = P[0] \o FlattenSeq(SubSeq(b, 1, n)) /\ Q[n] = Q[0] \o FlattenSeq(SubSeq(w, 1, n))
  <2>1. n \in 0 .. Len(b) /\ n \in 0 .. Len(w) /\ 0 \in 0 .. n /\ 0 + 1 = 1
    OBVIOUS
  <2>2. P[n] = P[0] \o FlattenSeq(SubSeq(b, 0 + 1, n))
    BY <1>1, <2>1, JoinedBetween
  <2>3. Q[n] = Q[0] \o FlattenSeq(SubSeq(w, 0 + 1, n))
    BY <1>2, <2>1, JoinedBetween
  <2> QED
    BY <2>1, <2>2, <2>3
<1>5. P[0] = <<>> /\ Q[0] = <<>>
  BY <1>1, <1>2 DEF IsJoined
<1>6. Q[n] = P[n]
  BY <1>3, <1>4, <1>5
<1>7. n \in 0 .. Len(b) - 1 /\ n + 1 \in 0 .. Len(b) - 1 /\ (n + 1) + 1 = n + 2 /\ Len(w) = Len(b)
  OBVIOUS
<1>8. P[n] \in Seq(Int) /\ P[n + 1] = P[n] \o <<>> /\ P[n + 2] = P[n + 1] \o <<>>
  <2>1. P[n] \in Seq(Int)
    BY <1>1, <1>7 DEF IsJoined
  <2>2. P[n + 1] = P[n] \o b[n + 1]
    BY <1>1, <1>7 DEF IsJoined
  <2>3. P[(n + 1) + 1] = P[n + 1] \o b[(n + 1) + 1]
    BY <1>1, <1>7 DEF IsJoined
  <2> QED
    BY <1>7, <2>1, <2>2, <2>3
<1>9. Q[n + 1] \in Seq(Int) /\ Q[n + 1] = Q[n] \o w[n + 1] /\ Q[n + 2] = Q[n + 1] \o <<>>
  <2>1. n + 1 \in 0 .. Len(w)
    BY <1>7
  <2>2. Q[n + 1] \in Seq(Int)
    BY <1>2, <2>1 DEF IsJoined
  <2>3. Q[n + 1] = Q[n] \o w[n + 1]
    BY <1>2, <1>7 DEF IsJoined
  <2>4. Q[(n + 1) + 1] = Q[n + 1] \o w[(n + 1) + 1]
    BY <1>2, <1>7 DEF IsJoined
  <2> QED
    BY <1>7, <2>2, <2>3, <2>4
<1>10. P[n + 2] = P[n]
  BY <1>8, NothingAfter
<1>11. Q[n + 2] = P[n] \o w[n + 1]
  BY <1>6, <1>9, NothingAfter
<1>12. Flat(w) = Q[Len(w)] /\ Flat(b) = P[Len(b)]
  BY <1>1, <1>2, FlatJoins
<1> QED
  BY <1>10, <1>11, <1>12

LEMMA SectionsAreWritten ==
  ASSUME NEW m, IsModule(m)
  PROVE  /\ WriteSections(m) = Flat(SectionBytes(m)) \o Unread(m) /\ WriteSections(m) \in Seq(Int)
         /\ Flat(SectionBytes(m)) \in Seq(Int) /\ Unread(m) \in Seq(Int)
<1> DEFINE b == SectionBytes(m)
           w == <<Each(WriteInstr, m.code), Each(WriteType, m.types), Each(WriteItem, m.data) \o <<0>>, WriteName(m.name),
                  Each(WriteExport, m.exports), WriteImports(m.imports),
                  IF Has(m.header.flags, HasHandler) THEN WriteHandlers(m.handlers) ELSE <<>>>>
<1>1. WriteSections(m) = Flat(w)
  BY DEF WriteSections
<1>2. b \in Seq(Seq(Int)) /\ Len(b) = 7 /\ Flat(b) \in Seq(Int) /\ Unread(m) \in Seq(Int)
  <2>1. <<>> \in Files /\ 1 \in Places(<<>>)
    BY DEF Files, Places
  <2> QED
    BY <2>1, ReadSectionsConveyed DEF Unread
<1>3. CASE Has(m.header.flags, HasImport)
  <2>1. w = b /\ Unread(m) = <<>>
    BY <1>3 DEF SectionBytes, Unread
  <2> HIDE DEF b, w
  <2> QED
    BY <1>1, <1>2, <2>1, NothingAfter DEF b
<1>4. CASE ~ Has(m.header.flags, HasImport)
  <2>1. m.imports = <<>> /\ ~ Has(m.header.flags, HasHandler)
    BY <1>4, ModuleHas
  <2>2. /\ Len(w) = 7 /\ DOMAIN w = 1 .. 7 /\ w = [k \in 1 .. 7 |-> w[k]]
        /\ w[6] = WriteImports(m.imports) /\ w[7] = <<>>
    BY <2>1
  <2>3. b[6] = <<>> /\ b[7] = <<>> /\ \A k \in 1 .. 5 : w[k] = b[k]
    BY <1>4, <2>1 DEF SectionBytes
  <2>4. w[6] = <<0>> /\ Unread(m) = <<0>>
    BY <1>4, <2>1, <2>2, NoImportsAre DEF Unread
  <2> HIDE DEF b, w
  <2>5. \A k \in 1 .. 7 : w[k] \in Seq(Int)
    <3>1. \A k \in 1 .. 5 : b[k] \in Seq(Int)
      <4> SUFFICES ASSUME NEW k \in 1 .. 5 PROVE b[k] \in Seq(Int)
        OBVIOUS
      <4>1. k \in 1 .. 7 /\ <<>> \in Files /\ 1 \in Places(<<>>)
        BY DEF Files, Places
      <4> QED
        BY <4>1, SectionConveyed DEF b
    <3>2. <<>> \in Seq(Int) /\ <<0>> \in Seq(Int)
      OBVIOUS
    <3>3. \A k \in 1 .. 7 : k \in 1 .. 5 \/ k = 6 \/ k = 7
      OBVIOUS
    <3> QED
      BY <2>2, <2>3, <2>4, <3>1, <3>2, <3>3
  <2>6. w \in Seq(Seq(Int))
    <3> DEFINE n == 7
    <3>1. n \in Nat /\ w \in [1 .. n -> Seq(Int)]
      BY <2>2, <2>5
    <3> HIDE DEF n
    <3> QED
      BY <3>1, FunctionIsSeq
  <2>7. Flat(w) = Flat(b) \o w[6] /\ Flat(w) \in Seq(Int)
    <3> DEFINE n == 5
    <3>1. n \in Nat /\ Len(w) = n + 2 /\ Len(b) = n + 2 /\ n + 1 = 6 /\ n + 2 = 7
      BY <1>2, <2>2
    <3>2. \A k \in 1 .. n : w[k] = b[k]
      BY <2>3
    <3> HIDE DEF n
    <3>3. b[n + 1] = <<>> /\ b[n + 2] = <<>> /\ w[n + 2] = <<>>
      BY <2>2, <2>3, <3>1
    <3>4. Flat(w) = Flat(b) \o w[n + 1]
      BY <1>2, <2>6, <3>1, <3>2, <3>3, OneMore
    <3>5. Flat(w) \in Seq(Int)
      BY <2>6, FlatIsSeq
    <3> QED
      BY <3>1, <3>4, <3>5
  <2> QED
    BY <1>1, <1>2, <2>4, <2>7 DEF b
<1> QED
  BY <1>3, <1>4

\* A module is in a file with its signature, or as the compiler wrote it if it has none.
FilesOf(m) ==
  {WithSignature(Write(m), m.signature)} \cup IF m.signature = <<>> THEN {Write(m)} ELSE {}

\* A start of a file that gives the signature, whatever comes after it.
Starts(start, signature) ==
  \A f \in Files : \A p \in Places(f) : \A u : Conveys(f, p, start, SignatureFrom(ReadOperand(ReadTo(f, p, u))), signature)

LEMMA RestOfFile ==
  ASSUME NEW s \in Seq(Int), NEW t \in Seq(Int)
  PROVE  SubSeq(s \o t, Len(s) + 1, Len(s \o t)) = t
<1> DEFINE w == s \o t
           r == SubSeq(w, Len(s) + 1, Len(w))
<1>1. w \in Seq(Int) /\ Len(w) = Len(s) + Len(t) /\ Len(s) \in Nat /\ Len(t) \in Nat
  BY ConcatProperties
<1>2. \A n \in 1 .. Len(t) : w[Len(s) + n] = t[n]
  OBVIOUS
<1> HIDE DEF w
<1>3. r \in Seq(Int) /\ Len(r) = Len(t) /\ \A n \in 1 .. Len(t) : r[n] = w[(Len(s) + 1) + n - 1]
  <2>1. /\ Len(s) + 1 \in 1 .. Len(w) + 1 /\ Len(w) \in (Len(s) + 1) - 1 .. Len(w)
        /\ Len(w) - (Len(s) + 1) + 1 = Len(t)
    BY <1>1
  <2> QED
    BY <1>1, <2>1, SubSeqProperties
<1> HIDE DEF r
<1>4. \A n \in 1 .. Len(r) : r[n] = t[n]
  <2> SUFFICES ASSUME NEW n \in 1 .. Len(r) PROVE r[n] = t[n]
    OBVIOUS
  <2>1. n \in 1 .. Len(t) /\ (Len(s) + 1) + n - 1 = Len(s) + n
    BY <1>1, <1>3
  <2> QED
    BY <1>2, <1>3, <2>1
<1>5. r = t
  BY <1>3, <1>4, SameSequence
<1> QED
  BY <1>5 DEF r, w

LEMMA FileHasStart ==
  ASSUME NEW m, IsModule(m), NEW file \in FilesOf(m)
  PROVE  \E start \in Seq(Int) : Starts(start, m.signature) /\ file = Needed(start, m) \o Unread(m)
<1> DEFINE magic == WriteOp(XMagic)
           header == WriteHeader(m.header)
           sections == Flat(SectionBytes(m))
           unread == Unread(m)
           signature == m.signature
           smagic == WriteOp(SMagic)
           count == WriteOp(Len(signature))
<1>1. m.header \in HeaderSet /\ signature \in Seq(Nat)
  BY DEF IsModule
<1>2. <<>> \in Files /\ 1 \in Places(<<>>)
  BY DEF Files, Places
<1>3. header \in Seq(Int)
  BY <1>1, <1>2, HeaderFieldsConveyed
<1>4. sections \in Seq(Int) /\ unread \in Seq(Int) /\ WriteSections(m) = sections \o unread
  BY SectionsAreWritten
<1>5. magic \in Seq(Int) /\ Starts(magic, <<>>)
  BY <1>2, UnsignedConveyed DEF Starts
<1>6. smagic \o (count \o signature) \in Seq(Int) /\ Starts(smagic \o (count \o signature), signature)
  BY <1>1, <1>2, SignedConveyed DEF Starts
<1>7. smagic \in Seq(Int) /\ count \in Seq(Int) /\ signature \in Seq(Int)
  <2>1. SMagic \in Int
    BY SMT DEF SMagic
  <2>2. Len(signature) \in Int /\ signature \in Seq(Int)
    BY <1>1
  <2> HIDE DEF signature
  <2> QED
    BY <1>2, <2>1, <2>2, OperandConveyed
<1>8. Write(m) = (magic \o header) \o (sections \o unread)
  BY <1>4 DEF Write
<1>9. \A start : Needed(start, m) \o unread = ((start \o header) \o sections) \o unread
  BY DEF Needed
<1>10. file = WithSignature(Write(m), signature) \/ (signature = <<>> /\ file = Write(m))
  BY DEF FilesOf
<1>11. \A bytes : WithSignature(bytes, signature) =
                    ((smagic \o count) \o signature) \o SubSeq(bytes, Len(magic) + 1, Len(bytes))
  BY DEF WithSignature
<1> HIDE DEF magic, header, sections, unread, signature, smagic, count
<1>12. \A start \in Seq(Int) : (start \o header) \o (sections \o unread) = ((start \o header) \o sections) \o unread
  <2> SUFFICES ASSUME NEW start \in Seq(Int)
               PROVE  (start \o header) \o (sections \o unread) = ((start \o header) \o sections) \o unread
    OBVIOUS
  <2> DEFINE begin == start \o header
  <2>1. begin \in Seq(Int)
    BY <1>3, ConcatProperties
  <2> HIDE DEF begin
  <2>2. begin \o (sections \o unread) = (begin \o sections) \o unread
    BY <1>4, <2>1, BytesRegroup
  <2> QED
    BY <2>2 DEF begin
<1>13. CASE signature = <<>> /\ file = Write(m)
  <2>1. Starts(magic, signature)
    BY <1>5, <1>13
  <2>2. file = Needed(magic, m) \o unread
    BY <1>5, <1>8, <1>9, <1>12, <1>13
  <2> QED
    BY <1>5, <2>1, <2>2 DEF signature, unread
<1>14. CASE file = WithSignature(Write(m), signature)
  <2> DEFINE start == smagic \o (count \o signature)
             rest == header \o (sections \o unread)
  <2>1. start = (smagic \o count) \o signature
    BY <1>7, BytesRegroup
  <2>2. sections \o unread \in Seq(Int) /\ rest \in Seq(Int)
    BY <1>3, <1>4, ConcatProperties
  <2>3. Write(m) = magic \o rest
    BY <1>3, <1>5, <1>8, <2>2, BytesRegroup
  <2>4. start \in Seq(Int) /\ Starts(start, signature)
    BY <1>6
  <2> HIDE DEF start
  <2>5. start \o rest = (start \o header) \o (sections \o unread)
    BY <1>3, <2>2, <2>4, BytesRegroup
  <2> HIDE DEF rest
  <2>6. SubSeq(magic \o rest, Len(magic) + 1, Len(magic \o rest)) = rest
    BY <1>5, <2>2, RestOfFile
  <2>7. file = start \o rest
    BY <1>11, <1>14, <2>1, <2>3, <2>6
  <2>8. file = Needed(start, m) \o unread
    BY <1>9, <1>12, <2>4, <2>5, <2>7
  <2> QED
    BY <2>4, <2>8 DEF signature, unread
<1> QED
  BY <1>10, <1>13, <1>14

LEMMA FileIs ==
  ASSUME NEW file \in Seq(Int), Writable(file), NEW n \in 0 .. Len(file)
  PROVE  file \in Files /\ SubSeq(file, 1, n) \in Files /\ Len(SubSeq(file, 1, n)) = n
<1> DEFINE S == Int \ {OutOfRange}
           cut == SubSeq(file, 1, n)
<1>1. \A i \in 1 .. Len(file) : file[i] \in S
  BY DEF Writable
<1>2. file \in Seq(S)
  BY <1>1
<1>3. cut \in Seq(S) /\ Len(cut) = n
  BY <1>2
<1> QED
  BY <1>2, <1>3 DEF Files

\* The loader takes from a file the module that was written to it, all of it and no other, for every
\* module and every signature, and refuses it only if it is not valid (writer.rs, decode.rs).
THEOREM WrittenModulesAreLoaded ==
  ASSUME NEW m, IsModule(m), NEW file \in FilesOf(m), Writable(file)
  PROVE  Load(file).val = m /\ (Load(file).ok <=> Valid(m))
<1>1. PICK start \in Seq(Int) : Starts(start, m.signature) /\ file = Needed(start, m) \o Unread(m)
  BY FileHasStart
<1> DEFINE s == Needed(start, m)
           t == Unread(m)
           r == ReadModule(ReadTo(file, 1, <<>>))
<1>2. s \in Seq(Int)
  <2>1. <<>> \in Files /\ 1 \in Places(<<>>)
    BY DEF Files, Places
  <2>2. Conveys(<<>>, 1, start, SignatureFrom(ReadOperand(ReadTo(<<>>, 1, <<>>))), m.signature)
    BY <1>1, <2>1 DEF Starts
  <2> QED
    BY <2>1, <2>2, ModuleConveyed
<1>3. t \in Seq(Int)
  BY SectionsAreWritten
<1>4. file = s \o t
  BY <1>1
<1>5. Load(file) = Checked(r)
  BY DEF Load, ReadTo
<1> HIDE DEF s, t
<1>6. file \in Seq(Int)
  BY <1>2, <1>3, <1>4, ConcatProperties
<1>7. file \in Files /\ 1 \in Places(file)
  <2>1. Len(file) \in Nat /\ 0 \in 0 .. Len(file)
    BY <1>6
  <2> QED
    BY <1>6, <2>1, FileIs DEF Places
<1>8. Conveys(file, 1, s, r, m)
  <2>1. Conveys(file, 1, start, SignatureFrom(ReadOperand(ReadTo(file, 1, <<>>))), m.signature)
    BY <1>1, <1>7 DEF Starts
  <2> QED
    BY <1>7, <2>1, ModuleConveyed DEF s
<1>9. Matches(file, 1, s)
  <2>1. Len(file) = Len(s) + Len(t) /\ Len(s) \in Nat /\ Len(t) \in Nat
    BY <1>2, <1>3, <1>4, ConcatProperties
  <2>2. \A n \in 1 .. Len(s) : file[n] = s[n]
    BY <1>2, <1>3, <1>4
  <2>3. \A n \in 1 .. Len(s) : 1 + n - 1 = n
    BY <2>1
  <2> QED
    BY <2>1, <2>2, <2>3 DEF Matches
<1>10. r = ReadTo(file, 1 + Len(s), m)
  BY <1>8, <1>9 DEF Conveys
<1> HIDE DEF r
<1>11. r.ok /\ r.val = m
  BY <1>10, AtIs
<1> QED
  BY <1>5, <1>11 DEF Checked, Require, Refuse, Reading

\* A file that lost its end is refused wherever it breaks off, for every module; only the last byte
\* may be missing, and only if the flags announce no imports, for then the section that the writer
\* makes of them is not read (writer.rs, decode.rs).
THEOREM CutModulesAreRefused ==
  ASSUME NEW m, IsModule(m), NEW file \in FilesOf(m), Writable(file), NEW n \in 0 .. Len(file) - 1,
         Has(m.header.flags, HasImport) \/ n < Len(file) - 1
  PROVE  ~ Load(SubSeq(file, 1, n)).ok
<1>1. PICK start \in Seq(Int) : Starts(start, m.signature) /\ file = Needed(start, m) \o Unread(m)
  BY FileHasStart
<1> DEFINE s == Needed(start, m)
           t == Unread(m)
           part == SubSeq(file, 1, n)
           r == ReadModule(ReadTo(part, 1, <<>>))
<1>2. s \in Seq(Int)
  <2>1. <<>> \in Files /\ 1 \in Places(<<>>)
    BY DEF Files, Places
  <2>2. Conveys(<<>>, 1, start, SignatureFrom(ReadOperand(ReadTo(<<>>, 1, <<>>))), m.signature)
    BY <1>1, <2>1 DEF Starts
  <2> QED
    BY <2>1, <2>2, ModuleConveyed
<1>3. t \in Seq(Int) /\ Len(t) = IF Has(m.header.flags, HasImport) THEN 0 ELSE 1
  BY SectionsAreWritten DEF Unread
<1>4. file = s \o t
  BY <1>1
<1>5. Load(part) = Checked(r)
  BY DEF Load, ReadTo
<1> HIDE DEF s, t
<1>6. file \in Seq(Int) /\ Len(file) = Len(s) + Len(t) /\ Len(s) \in Nat
  <2>1. t \in Seq(Int)
    BY <1>3
  <2> QED
    BY <1>2, <1>4, <2>1, ConcatProperties
<1>7. n \in Nat /\ n < Len(s) /\ n \in 0 .. Len(file)
  BY <1>3, <1>6
<1>8. \A i \in 1 .. n : part[i] = s[i]
  <2> SUFFICES ASSUME NEW i \in 1 .. n PROVE part[i] = s[i]
    OBVIOUS
  <2>1. i \in 1 .. Len(s)
    BY <1>6, <1>7
  <2>2. part[i] = file[i]
    BY <1>6, <1>7
  <2>3. file[i] = s[i]
    BY <1>2, <1>3, <1>4, <2>1
  <2> QED
    BY <2>2, <2>3
<1>9. part \in Files /\ Len(part) = n /\ 1 \in Places(part)
  <2>1. part \in Files /\ Len(part) = n
    BY <1>6, <1>7, FileIs
  <2> HIDE DEF part
  <2> QED
    BY <1>7, <2>1 DEF Places
<1> HIDE DEF part
<1>10. Conveys(part, 1, s, r, m)
  <2>1. Conveys(part, 1, start, SignatureFrom(ReadOperand(ReadTo(part, 1, <<>>))), m.signature)
    BY <1>1, <1>9 DEF Starts
  <2> QED
    BY <1>9, <2>1, ModuleConveyed DEF s
<1>11. CutOff(part, 1, s)
  <2>1. 1 + Len(s) > Len(part) + 1
    BY <1>6, <1>7, <1>9
  <2>2. ASSUME NEW i \in 1 .. Len(s), 1 + i <= Len(part) + 1
        PROVE  part[1 + i - 1] = s[i]
    <3>1. i \in 1 .. n /\ 1 + i - 1 = i
      BY <1>6, <1>7, <1>9, <2>2
    <3> QED
      BY <1>8, <3>1
  <2> QED
    BY <2>1, <2>2 DEF CutOff
<1>12. ~ r.ok
  BY <1>10, <1>11 DEF Conveys
<1> QED
  BY <1>5, <1>12 DEF Checked, Require, part

-----------------------------------------------------------------------------
(* What a loaded module binds a call to.                                      *)

\* The first element of a sequence that passes a test, of all that do.
LEMMA FirstIs ==
  ASSUME NEW I, I \subseteq Nat, I # {}
  PROVE  Min(I) \in I /\ \A i \in I : Min(I) <= i
<1>1. \E i \in I : \A j \in I : i <= j
  BY LeastNatural
<1> QED
  BY <1>1 DEF Min

\* A function that is wanted is bound to the first that is given under its name, whatever the
\* signatures are; only if none has the name, to the first of its signature; else to nothing
\* (op_load in ops/control.rs).
THEOREM NamesDecide ==
  ASSUME NEW wanted, NEW n \in DOMAIN wanted, NEW S, NEW given \in Seq(S)
  PROVE  LET named == {i \in DOMAIN given : given[i].name = wanted[n].name}
             alike == {i \in DOMAIN given : given[i].sig = wanted[n].sig}
             place == Bound(wanted, given)[n]
         IN /\ named # {} => place \in named /\ \A i \in named : place <= i
            /\ named = {} /\ alike # {} => place \in alike /\ \A i \in alike : place <= i
            /\ named = {} /\ alike = {} => place = 0
<1> DEFINE named == {i \in 1 .. Len(given) : given[i].name = wanted[n].name}
           alike == {i \in 1 .. Len(given) : given[i].sig = wanted[n].sig}
           first == IF named # {} THEN Min(named) ELSE 0
           second == IF alike # {} THEN Min(alike) ELSE 0
<1>1. Bound(wanted, given)[n] = IF first > 0 THEN first ELSE second
  BY DEF Bound, SelectInSeq
<1>2. named \subseteq Nat /\ alike \subseteq Nat
  OBVIOUS
<1>3. DOMAIN given = 1 .. Len(given) /\ Len(given) \in Nat
  OBVIOUS
<1>4. \A i \in named : i > 0
  OBVIOUS
<1>5. named # {} => Min(named) \in named /\ \A i \in named : Min(named) <= i
  BY <1>2, FirstIs
<1>6. alike # {} => Min(alike) \in alike /\ \A i \in alike : Min(alike) <= i
  BY <1>2, FirstIs
<1> HIDE DEF named, alike
<1>7. named # {} => Bound(wanted, given)[n] = Min(named)
  BY <1>1, <1>4, <1>5
<1>8. named = {} => Bound(wanted, given)[n] = second
  BY <1>1
<1>9. /\ named # {} => Bound(wanted, given)[n] \in named /\ \A i \in named : Bound(wanted, given)[n] <= i
      /\ named = {} /\ alike # {} => Bound(wanted, given)[n] \in alike /\ \A i \in alike : Bound(wanted, given)[n] <= i
      /\ named = {} /\ alike = {} => Bound(wanted, given)[n] = 0
  BY <1>5, <1>6, <1>7, <1>8
<1> QED
  BY <1>3, <1>9 DEF named, alike

\* A module in which a module was written, valid and in the first place that holds any, is what is
\* loaded, and a call of a function that is imported reaches the pc, and gets the frame, of the
\* export of that name; the signature changes nothing (op_load, op_mframe and op_mcall in
\* ops/control.rs, writer.rs, decode.rs).
THEOREM CallsReachTheirExport ==
  ASSUME NEW m, IsModule(m), Valid(m), NEW file \in FilesOf(m), Writable(file),
         NEW S, NEW candidates \in Seq(S), NEW files, NEW first \in DOMAIN candidates,
         candidates[first] \in DOMAIN files, files[candidates[first]] = file,
         \A i \in 1 .. first - 1 : ~ CanLoad(files, candidates[i]),
         NEW wanted, NEW n \in DOMAIN wanted, NEW e \in DOMAIN m.exports, m.exports[e].name = wanted[n].name,
         \A i \in DOMAIN m.exports : m.exports[i].name = wanted[n].name => i = e
  PROVE  LET ref == FromFiles(wanted, files, candidates)
         IN /\ ref.kind = "loaded" /\ ref.of = m
            /\ Mcall(ref, n) = At(m.exports[e].pc)
            /\ Mframe(ref, n) = FrameOf(m, m.exports[e].frame)
<1> DEFINE found == {i \in DOMAIN candidates : CanLoad(files, candidates[i])}
           ref == FromFiles(wanted, files, candidates)
           named == {i \in DOMAIN m.exports : m.exports[i].name = wanted[n].name}
<1>1. Load(file).val = m /\ Load(file).ok
  BY WrittenModulesAreLoaded
<1>2. first \in found
  BY <1>1 DEF CanLoad
<1>3. DOMAIN candidates = 1 .. Len(candidates) /\ Len(candidates) \in Nat
  OBVIOUS
<1>4. found \subseteq Nat /\ \A i \in found : first <= i
  BY <1>3
<1>5. Min(found) = first
  <2>1. Min(found) \in found /\ \A i \in found : Min(found) <= i
    <3> HIDE DEF found
    <3> QED
      BY <1>2, <1>4, FirstIs
  <2> HIDE DEF found
  <2>2. Min(found) \in Nat /\ first \in Nat /\ Min(found) <= first /\ first <= Min(found)
    BY <1>2, <1>4, <2>1
  <2> QED
    BY <2>2
<1>6. ref = Reference("loaded", m, Bound(wanted, m.exports))
  <2>1. found # {} /\ Load(files[candidates[Min(found)]]).val = m
    BY <1>1, <1>2, <1>5
  <2> QED
    BY <2>1 DEF FromFiles, FirstOf, Loaded
<1>7. ref.kind = "loaded" /\ ref.of = m /\ ref.map = Bound(wanted, m.exports)
  BY <1>6 DEF Reference
<1>8. m.exports \in Seq(ExportSet)
  BY DEF IsModule
<1>9. Bound(wanted, m.exports)[n] = e
  <2>1. named = {e}
    OBVIOUS
  <2>2. Bound(wanted, m.exports)[n] \in named
    BY <1>8, <2>1, NamesDecide
  <2> QED
    BY <2>1, <2>2
<1>10. DOMAIN Bound(wanted, m.exports) = DOMAIN wanted
  BY DEF Bound
<1>11. e > 0
  BY <1>8
<1> HIDE DEF ref
<1>12. Place(ref, n) = e
  BY <1>7, <1>9, <1>10, <1>11 DEF Place
<1>13. Mcall(ref, n) = At(m.exports[e].pc)
  BY <1>7, <1>12 DEF Mcall
<1>14. Mframe(ref, n) = FrameOf(m, m.exports[e].frame)
  BY <1>7, <1>12 DEF Mframe
<1> QED
  BY <1>7, <1>13, <1>14 DEF ref

-----------------------------------------------------------------------------
(* Values in the bytes of the data, or of an array.                           *)

\* The bytes of the data, or of an array.
IsMemory(bytes, size) == size \in Nat /\ DOMAIN bytes = 0 .. size - 1
Kinds == {"b", "w", "l", "f"}

LEMMA WidthIs ==
  ASSUME NEW k \in Kinds
  PROVE  WidthOf(k) \in {1, 4, 8}
BY DEF Kinds, WidthOf

LEMMA SizeIs ==
  ASSUME NEW bytes, NEW size, IsMemory(bytes, size)
  PROVE  Cardinality(DOMAIN bytes) = size
<1>1. size \in Nat /\ DOMAIN bytes = 0 .. size - 1
  BY DEF IsMemory
<1>2. Cardinality(0 .. size - 1) = IF 0 <= size - 1 THEN size - 1 - 0 + 1 ELSE 0
  BY <1>1, FS_Interval
<1> QED
  BY <1>1, <1>2

\* The n-th byte of the i-th value belongs to that value.
LEMMA PartOfValue ==
  ASSUME NEW w \in {1, 4, 8}, NEW i \in Nat, NEW n \in 0 .. w - 1
  PROVE  (w * i + n) \div w = i /\ (w * i + n) % w = n
<1>1. CASE w = 1
  BY <1>1
<1>2. CASE w = 4
  BY <1>2, SMT
<1>3. CASE w = 8
  BY <1>3, SMT
<1> QED
  BY <1>1, <1>2, <1>3

LEMMA RoomIs ==
  ASSUME NEW w \in {1, 4, 8}, NEW left \in Int, NEW i \in Nat
  PROVE  left \div w \in Int /\ w * (left \div w) <= left /\ (w * i <= left => i <= left \div w)
<1>1. CASE w = 1
  BY <1>1
<1>2. CASE w = 4
  BY <1>2, SMT
<1>3. CASE w = 8
  BY <1>3, SMT
<1> QED
  BY <1>1, <1>2, <1>3

\* How many are written: those that there are and is room for.
LEMMA WrittenAre ==
  ASSUME NEW room \in Int, NEW count \in Nat
  PROVE  LET written == Max({0, Min({room, count})})
         IN /\ written \in 0 .. count /\ (written = 0 \/ written <= room)
            /\ \A i \in Nat : i <= room /\ i <= count => i <= written
<1> DEFINE least == IF room <= count THEN room ELSE count
           most == IF least <= 0 THEN 0 ELSE least
<1>1. Min({room, count}) = least
  <2>1. least \in {room, count} /\ \A y \in {room, count} : least <= y
    OBVIOUS
  <2>2. \A x \in {room, count} : (\A y \in {room, count} : x <= y) => x = least
    OBVIOUS
  <2> HIDE DEF least
  <2> QED
    BY <2>1, <2>2 DEF Min
<1>2. Max({0, least}) = most
  <2>1. least \in Int
    OBVIOUS
  <2> HIDE DEF least
  <2>2. most \in {0, least} /\ \A y \in {0, least} : most >= y
    BY <2>1
  <2>3. \A x \in {0, least} : (\A y \in {0, least} : x >= y) => x = most
    BY <2>1
  <2> HIDE DEF most
  <2> QED
    BY <2>2, <2>3 DEF Max
<1> QED
  BY <1>1, <1>2

\* What writing makes of the memory: its size stays, the values for which there is room are written,
\* and whatever else there is stays.
LEMMA WritingIs ==
  ASSUME NEW bytes, NEW size, IsMemory(bytes, size), NEW at \in Nat, NEW k \in Kinds, NEW V, NEW vals \in Seq(V)
  PROVE  LET new == WithValues(bytes, at, k, vals)
             w == WidthOf(k)
         IN /\ IsMemory(new, size)
            /\ \A byte \in 0 .. size - 1 : byte < at \/ byte >= at + w * Len(vals) => new[byte] = bytes[byte]
            /\ \A i \in 1 .. Len(vals), n \in 1 .. w :
                 at + w * i <= size => new[at + w * (i - 1) + n - 1] = <<k, vals[i], n>>
<1> DEFINE w == WidthOf(k)
           room == (size - at) \div w
           many == Max({0, Min({room, Len(vals)})})
           wide == w * many
           new == WithValues(bytes, at, k, vals)
           value(byte) == <<k, vals[1 + (byte - at) \div w], 1 + ((byte - at) % w)>>
<1>1. w \in {1, 4, 8} /\ Len(vals) \in Nat /\ size \in Nat /\ DOMAIN bytes = 0 .. size - 1
  BY WidthIs DEF IsMemory
<1>2. room \in Int /\ w * room <= size - at /\ \A i \in Nat : w * i <= size - at => i <= room
  <2> HIDE DEF w
  <2>1. size - at \in Int
    BY <1>1
  <2> QED
    BY <1>1, <2>1, RoomIs
<1>3. many \in 0 .. Len(vals) /\ (many = 0 \/ many <= room) /\ \A i \in Nat : i <= room /\ i <= Len(vals) => i <= many
  <2> HIDE DEF room
  <2> QED
    BY <1>1, <1>2, WrittenAre
<1>4. new = [byte \in 0 .. size - 1 |-> IF byte \in at .. at + wide - 1 THEN value(byte) ELSE bytes[byte]]
  <2>1. Cardinality(DOMAIN bytes) = size
    BY SizeIs
  <2>2. new = [byte \in DOMAIN bytes |-> IF byte \in at .. at + wide - 1 THEN value(byte) ELSE bytes[byte]]
    BY <2>1 DEF WithValues
  <2> HIDE DEF new, wide, value
  <2> QED
    BY <1>1, <2>2
<1> HIDE DEF many, room, w
<1>5. wide \in Nat /\ (wide = 0 \/ at + wide <= size) /\ wide <= w * Len(vals)
  BY <1>1, <1>2, <1>3
<1> HIDE DEF new, wide
<1>7. DOMAIN new = 0 .. size - 1
  BY <1>4
<1>8. \A byte \in 0 .. size - 1 : byte < at \/ byte >= at + w * Len(vals) => new[byte] = bytes[byte]
  <2> TAKE byte \in 0 .. size - 1
  <2> HAVE byte < at \/ byte >= at + w * Len(vals)
  <2>1. byte \notin at .. at + wide - 1
    BY <1>1, <1>5
  <2> HIDE DEF value
  <2> QED
    BY <1>4, <2>1
<1>9. \A i \in 1 .. Len(vals), n \in 1 .. w : at + w * i <= size => new[at + w * (i - 1) + n - 1] = <<k, vals[i], n>>
  <2> TAKE i \in 1 .. Len(vals), n \in 1 .. w
  <2> HAVE at + w * i <= size
  <2> DEFINE byte == at + w * (i - 1) + n - 1
  <2>1. i <= many
    BY <1>1, <1>2, <1>3
  <2>2. byte \in at .. at + wide - 1 /\ byte - at = w * (i - 1) + (n - 1)
    BY <1>1, <1>3, <2>1 DEF wide
  <2>3. (byte - at) \div w = i - 1 /\ (byte - at) % w = n - 1
    <3>1. i - 1 \in Nat /\ n - 1 \in 0 .. w - 1
      BY <1>1
    <3> QED
      BY <1>1, <2>2, <3>1, PartOfValue
  <2>4. value(byte) = <<k, vals[i], n>>
    BY <1>1, <2>3
  <2>5. new[byte] = value(byte)
    <3> HIDE DEF value, byte
    <3> QED
      BY <1>1, <1>4, <1>5, <2>2
  <2> QED
    BY <2>4, <2>5
<1> QED
  BY <1>1, <1>7, <1>8, <1>9 DEF IsMemory, new, w

\* A value that is written where there is room for it is read there again (memory.rs).
THEOREM WrittenValuesAreRead ==
  ASSUME NEW bytes, NEW size, IsMemory(bytes, size), NEW at \in Nat, NEW k \in Kinds, NEW V, NEW vals \in Seq(V),
         NEW i \in 1 .. Len(vals), at + WidthOf(k) * i <= size, NEW zero
  PROVE  ReadValue(WithValues(bytes, at, k, vals), at + WidthOf(k) * (i - 1), k, zero) = vals[i]
<1> DEFINE new == WithValues(bytes, at, k, vals)
           w == WidthOf(k)
           place == at + w * (i - 1)
<1>1. w \in {1, 4, 8} /\ size \in Nat
  BY WidthIs DEF IsMemory
<1>2. IsMemory(new, size) /\ Cardinality(DOMAIN new) = size
  BY WritingIs, SizeIs
<1>3. \A n \in 1 .. w : new[place + n - 1] = <<k, vals[i], n>>
  BY WritingIs
<1> HIDE DEF new, w
<1>4. place \in Nat /\ place + w <= size /\ place + 1 - 1 = place /\ 1 \in 1 .. w
  BY <1>1 DEF w
<1>5. new[place] = <<k, vals[i], 1>>
  BY <1>3, <1>4
<1>6. new[place][2] = vals[i]
  BY <1>5
<1> HIDE DEF place
<1>7. Holds(new, place, w)
  BY <1>2, <1>4 DEF Holds
<1>8. ReadValue(new, place, k, zero) = new[place][2]
  BY <1>3, <1>6, <1>7 DEF ReadValue, w
<1> QED
  BY <1>6, <1>8 DEF place, new, w

\* A value that is beside those that are written stays, whatever the kinds (memory.rs).
THEOREM OtherValuesAreKept ==
  ASSUME NEW bytes, NEW size, IsMemory(bytes, size), NEW at \in Nat, NEW k \in Kinds, NEW V, NEW vals \in Seq(V),
         NEW place \in Nat, NEW other \in Kinds, place + WidthOf(other) <= at \/ place >= at + WidthOf(k) * Len(vals), NEW zero
  PROVE  ReadValue(WithValues(bytes, at, k, vals), place, other, zero) = ReadValue(bytes, place, other, zero)
<1> DEFINE new == WithValues(bytes, at, k, vals)
           w == WidthOf(k)
           x == WidthOf(other)
<1>1. w \in {1, 4, 8} /\ x \in {1, 4, 8} /\ Len(vals) \in Nat /\ size \in Nat
  BY WidthIs DEF IsMemory
<1>2. Cardinality(DOMAIN new) = size /\ Cardinality(DOMAIN bytes) = size
  BY WritingIs, SizeIs
<1>3. \A byte \in 0 .. size - 1 : byte < at \/ byte >= at + w * Len(vals) => new[byte] = bytes[byte]
  BY WritingIs
<1> HIDE DEF new, w, x
<1>4. /\ Holds(new, place, x) <=> Holds(bytes, place, x)
      /\ Holds(bytes, place, x) => place + x <= size
  BY <1>2 DEF Holds
<1>5. ASSUME place + x <= size
      PROVE  new[place] = bytes[place] /\ \A n \in 1 .. x : new[place + n - 1] = bytes[place + n - 1]
  <2>1. \A n \in 1 .. x : /\ place + n - 1 \in 0 .. size - 1
                          /\ place + n - 1 < at \/ place + n - 1 >= at + w * Len(vals)
    BY <1>1, <1>5 DEF w, x
  <2>2. \A n \in 1 .. x : new[place + n - 1] = bytes[place + n - 1]
    BY <1>3, <2>1
  <2>3. 1 \in 1 .. x /\ place + 1 - 1 = place
    BY <1>1
  <2> QED
    BY <2>2, <2>3
<1>6. ReadValue(new, place, other, zero) = ReadValue(bytes, place, other, zero)
  BY <1>4, <1>5 DEF ReadValue, x
<1> QED
  BY <1>6 DEF new

-----------------------------------------------------------------------------
(* The items of the data, one after the other.                                *)

IsObject(object) ==
  object.is = "array" => {"is", "bytes"} \subseteq DOMAIN object /\ \E size : IsMemory(object.bytes, size)
\* The data while its items are placed: the arrays that are being filled are among the objects.
IsImage(m, Objects) ==
  /\ {"mp", "heap", "arrays"} \subseteq DOMAIN m /\ m.heap \in Seq(Objects) /\ m.arrays \in Seq(Nat)
  /\ \E size : IsMemory(m.mp, size)
  /\ \A id \in DOMAIN m.heap : IsObject(m.heap[id])
  /\ \A i \in DOMAIN m.arrays : m.arrays[i] \in DOMAIN m.heap

LEMMA TargetIs ==
  ASSUME NEW Objects, NEW m, IsImage(m, Objects)
  PROVE  /\ Target(m) \in Nat /\ (\E size : IsMemory(Active(m), size))
         /\ Target(m) > 0 => Target(m) \in DOMAIN m.heap /\ m.heap[Target(m)].is = "array" /\ Active(m) = m.heap[Target(m)].bytes
         /\ ~ Target(m) > 0 => Active(m) = m.mp
<1>1. m.heap \in Seq(Objects) /\ DOMAIN m.heap = 1 .. Len(m.heap) /\ Len(m.heap) \in Nat
  BY DEF IsImage
<1>2. Target(m) = 0 \/ (Target(m) \in DOMAIN m.heap /\ m.heap[Target(m)].is = "array")
  BY DEF Target, IsArray
<1>3. Target(m) \in Nat
  BY <1>1, <1>2
<1>4. Target(m) > 0 => Target(m) \in DOMAIN m.heap /\ m.heap[Target(m)].is = "array" /\ Active(m) = m.heap[Target(m)].bytes
  BY <1>2, <1>3 DEF Active
<1>5. ~ Target(m) > 0 => Active(m) = m.mp
  BY DEF Active
<1>6. \E size : IsMemory(Active(m), size)
  BY <1>4, <1>5 DEF IsImage, IsObject
<1> QED
  BY <1>3, <1>4, <1>5, <1>6

\* Values go into the array that is being filled, or into the data, and nowhere else.
LEMMA PuttingIs ==
  ASSUME NEW Objects, NEW m, IsImage(m, Objects), NEW at \in Nat, NEW k \in Kinds, NEW V, NEW vals \in Seq(V)
  PROVE  LET new == PutAll(m, at, k, vals)
         IN /\ Active(new) = WithValues(Active(m), at, k, vals)
            /\ DOMAIN new.heap = DOMAIN m.heap
            /\ \A id \in DOMAIN m.heap : id # Target(m) => new.heap[id] = m.heap[id]
            /\ Target(m) > 0 => new.mp = m.mp
<1> DEFINE new == PutAll(m, at, k, vals)
           old == Target(m)
           written == WithValues(Active(m), at, k, vals)
<1>1. {"mp", "heap", "arrays"} \subseteq DOMAIN m
  BY DEF IsImage
<1>2. CASE old > 0
  <2>1. old \in DOMAIN m.heap /\ m.heap[old].is = "array" /\ Active(m) = m.heap[old].bytes /\ {"is", "bytes"} \subseteq DOMAIN m.heap[old]
    BY <1>2, TargetIs DEF IsImage, IsObject
  <2>2. new = [m EXCEPT !.heap[old].bytes = WithValues(@, at, k, vals)]
    BY <1>2 DEF PutAll
  <2> HIDE DEF new, old
  <2>3. /\ new.arrays = m.arrays /\ new.mp = m.mp
        /\ new.heap = [m.heap EXCEPT ![old].bytes = WithValues(@, at, k, vals)]
    BY <1>1, <2>2
  <2> HIDE DEF written
  <2>4. /\ DOMAIN new.heap = DOMAIN m.heap
        /\ \A id \in DOMAIN m.heap : id # old => new.heap[id] = m.heap[id]
        /\ new.heap[old].is = "array"
    BY <2>1, <2>3
  <2>5. new.heap[old].bytes = written
    BY <2>1, <2>3 DEF written
  <2>6. Target(new) = old
    <3>1. m.arrays # <<>> /\ old = Last(m.arrays)
      BY <1>2 DEF old, Target
    <3> QED
      BY <2>1, <2>3, <2>4, <3>1 DEF Target, IsArray
  <2>7. Active(new) = written
    BY <1>2, <2>5, <2>6 DEF Active
  <2> QED
    BY <2>3, <2>4, <2>7 DEF new, old, written
<1>3. CASE ~ old > 0
  <2>1. new = [m EXCEPT !.mp = WithValues(@, at, k, vals)]
    BY <1>3 DEF PutAll
  <2>2. Active(m) = m.mp
    BY <1>3, TargetIs
  <2> HIDE DEF new, written
  <2>3. new.arrays = m.arrays /\ new.heap = m.heap /\ new.mp = written
    BY <1>1, <2>1, <2>2 DEF written
  <2>4. Target(new) = old
    BY <2>3 DEF Target, IsArray
  <2>5. Active(new) = written
    BY <1>3, <2>3, <2>4 DEF Active
  <2> QED
    BY <1>3, <2>3, <2>5 DEF new, written
<1> QED
  BY <1>2, <1>3

LEMMA PuttingStays ==
  ASSUME NEW Objects, NEW m, IsImage(m, Objects), NEW at \in Nat, NEW k \in Kinds, NEW V, NEW vals \in Seq(V)
  PROVE  \E All : IsImage(PutAll(m, at, k, vals), All)
<1> DEFINE new == PutAll(m, at, k, vals)
           old == Target(m)
           written == WithValues(Active(m), at, k, vals)
<1>1. {"mp", "heap", "arrays"} \subseteq DOMAIN m
  BY DEF IsImage
<1>2. PICK size : IsMemory(Active(m), size)
  BY TargetIs
<1>3. IsMemory(written, size)
  BY <1>2, WritingIs
<1>4. CASE old > 0
  <2>1. old \in DOMAIN m.heap /\ m.heap[old].is = "array" /\ Active(m) = m.heap[old].bytes /\ {"is", "bytes"} \subseteq DOMAIN m.heap[old]
    BY <1>4, TargetIs DEF IsImage, IsObject
  <2>2. new = [m EXCEPT !.heap[old].bytes = WithValues(@, at, k, vals)]
    BY <1>4 DEF PutAll
  <2> DEFINE object == [m.heap[old] EXCEPT !.bytes = written]
             All == Objects \cup {object}
  <2> HIDE DEF new, old, written
  <2>3. /\ {"mp", "heap", "arrays"} \subseteq DOMAIN new /\ new.arrays = m.arrays /\ new.mp = m.mp
        /\ new.heap = [m.heap EXCEPT ![old].bytes = WithValues(@, at, k, vals)]
    BY <1>1, <2>2
  <2>4. new.heap = [m.heap EXCEPT ![old] = object]
    BY <2>1, <2>3 DEF written
  <2>5. IsObject(object)
    <3>1. {"is", "bytes"} \subseteq DOMAIN object /\ object.bytes = written
      BY <2>1
    <3> QED
      BY <1>3, <3>1 DEF IsObject
  <2> HIDE DEF object
  <2>6. DOMAIN new.heap = DOMAIN m.heap /\ \A id \in DOMAIN m.heap : new.heap[id] = IF id = old THEN object ELSE m.heap[id]
    BY <2>4
  <2>7. new.heap \in Seq(All)
    <3>1. m.heap \in Seq(All) /\ object \in All
      BY DEF IsImage
    <3> HIDE DEF All
    <3> QED
      BY <2>1, <2>4, <3>1
  <2>8. \A id \in DOMAIN new.heap : IsObject(new.heap[id])
    BY <2>5, <2>6 DEF IsImage
  <2>9. IsImage(new, All)
    <3> HIDE DEF All
    <3> QED
      BY <2>3, <2>6, <2>7, <2>8 DEF IsImage
  <2> QED
    BY <2>9 DEF new
<1>5. CASE ~ old > 0
  <2>1. new = [m EXCEPT !.mp = WithValues(@, at, k, vals)]
    BY <1>5 DEF PutAll
  <2>2. Active(m) = m.mp
    BY <1>5, TargetIs
  <2> HIDE DEF new, written, old
  <2>3. {"mp", "heap", "arrays"} \subseteq DOMAIN new /\ new.arrays = m.arrays /\ new.heap = m.heap /\ new.mp = written
    BY <1>1, <2>1, <2>2 DEF written
  <2>4. IsImage(new, Objects)
    BY <1>3, <2>3 DEF IsImage
  <2> QED
    BY <2>4 DEF new
<1> QED
  BY <1>4, <1>5

\* An object gets an id that no other has, and its id goes where the object was asked for.
LEMMA NewIs ==
  ASSUME NEW Objects, NEW m, IsImage(m, Objects), NEW at \in Nat, NEW object, IsObject(object)
  PROVE  LET new == PutNew(m, at, object)
             id == Len(m.heap) + 1
         IN /\ Active(new) = WithValues(Active(m), at, "w", <<id>>) /\ \E All : IsImage(new, All)
            /\ id \in DOMAIN new.heap /\ id \notin DOMAIN m.heap /\ new.heap[id] = object
            /\ \A other \in DOMAIN m.heap : other # Target(m) => new.heap[other] = m.heap[other]
            /\ Target(m) > 0 => new.mp = m.mp
<1> DEFINE id == Len(m.heap) + 1
           made == [m EXCEPT !.heap = Append(@, object)]
           All == Objects \cup {object}
<1>1. {"mp", "heap", "arrays"} \subseteq DOMAIN m /\ m.heap \in Seq(All) /\ m.arrays \in Seq(Nat)
  BY DEF IsImage
<1>2. /\ Append(m.heap, object) \in Seq(All) /\ DOMAIN Append(m.heap, object) = 1 .. id /\ DOMAIN m.heap = 1 .. Len(m.heap)
      /\ Len(m.heap) \in Nat /\ Append(m.heap, object)[id] = object
      /\ \A other \in 1 .. Len(m.heap) : Append(m.heap, object)[other] = m.heap[other]
  BY <1>1
<1>3. made.mp = m.mp /\ made.heap = Append(m.heap, object) /\ made.arrays = m.arrays /\ DOMAIN made = DOMAIN m
  BY <1>1
<1> HIDE DEF made, id, All
<1>4. /\ id \notin DOMAIN m.heap /\ id \in DOMAIN made.heap /\ made.heap[id] = object /\ id \in Nat
      /\ \A other \in DOMAIN m.heap : other \in DOMAIN made.heap /\ made.heap[other] = m.heap[other]
      /\ \A other \in DOMAIN made.heap : other = id \/ other \in DOMAIN m.heap
  BY <1>2, <1>3 DEF id
<1>5. IsImage(made, All)
  <2>1. \A other \in DOMAIN made.heap : IsObject(made.heap[other])
    BY <1>4 DEF IsImage
  <2>2. \A i \in DOMAIN made.arrays : made.arrays[i] \in DOMAIN made.heap
    BY <1>3, <1>4 DEF IsImage
  <2>3. \E size : IsMemory(made.mp, size)
    BY <1>3 DEF IsImage
  <2> QED
    BY <1>1, <1>2, <1>3, <2>1, <2>2, <2>3 DEF IsImage
<1>6. Target(made) = Target(m) /\ Active(made) = Active(m) /\ Target(made) \notin {id}
  <2>1. m.arrays # <<>> => Last(m.arrays) \in DOMAIN m.heap
    <3>1. m.arrays # <<>> => Len(m.arrays) \in DOMAIN m.arrays /\ Last(m.arrays) = m.arrays[Len(m.arrays)]
      BY <1>1 DEF Last
    <3> QED
      BY <3>1 DEF IsImage
  <2>2. m.arrays # <<>> => (IsArray(made, Last(m.arrays)) <=> IsArray(m, Last(m.arrays)))
    BY <1>4, <2>1 DEF IsArray
  <2>3. Target(made) = Target(m)
    BY <1>3, <2>2 DEF Target
  <2>4. Target(m) > 0 => Target(m) \in DOMAIN m.heap
    BY TargetIs
  <2>5. id > 0
    BY <1>2 DEF id
  <2> QED
    BY <1>3, <1>4, <2>3, <2>4, <2>5 DEF Active
<1>7. PutNew(m, at, object) = PutAll(made, at, "w", <<id>>)
  BY DEF PutNew, made, id
<1> DEFINE vals == <<id>>
           word == "w"
<1>8. vals \in Seq(Nat) /\ word \in Kinds
  BY <1>4 DEF Kinds
<1> HIDE DEF vals, word
<1>10. \E Kept : IsImage(PutAll(made, at, word, vals), Kept)
  BY <1>5, <1>8, PuttingStays
<1>9. LET new == PutAll(made, at, word, vals)
      IN /\ Active(new) = WithValues(Active(made), at, word, vals)
         /\ DOMAIN new.heap = DOMAIN made.heap
         /\ \A other \in DOMAIN made.heap : other # Target(made) => new.heap[other] = made.heap[other]
         /\ Target(made) > 0 => new.mp = made.mp
  BY <1>5, <1>8, PuttingIs
<1> QED
  BY <1>3, <1>4, <1>6, <1>7, <1>9, <1>10 DEF id, vals, word

ValueKind(kind) == CASE kind = "bytes" -> "b" [] kind = "words" -> "w" [] kind = "bigs" -> "l" [] kind = "reals" -> "f"

\* Of what is beside so many bytes at a place nothing changes: neither the other values there, nor the
\* other objects, nor the data if an array is being filled.
Untouched(m, new, at, many, zero) ==
  /\ \A id \in DOMAIN m.heap : id # Target(m) => new.heap[id] = m.heap[id]
  /\ Target(m) > 0 => new.mp = m.mp
  /\ \A place \in Nat, k \in Kinds :
       place + WidthOf(k) <= at \/ place >= at + many =>
         ReadValue(Active(new), place, k, zero) = ReadValue(Active(m), place, k, zero)

\* There is an object of its own, the id of which is read at a place, and nothing beside the id changes.
IsPlaced(m, new, at, object, zero) ==
  /\ Untouched(m, new, at, 4, zero)
  /\ WordAt(Active(new), at) \in DOMAIN new.heap \ DOMAIN m.heap
  /\ new.heap[WordAt(Active(new), at)] = object

\* And there it is read.
LEMMA NewIsFound ==
  ASSUME NEW Objects, NEW m, IsImage(m, Objects), NEW at \in Nat, Holds(Active(m), at, 4), NEW object, IsObject(object), NEW zero
  PROVE  IsPlaced(m, PutNew(m, at, object), at, object, zero)
<1> DEFINE old == Active(m)
           new == PutNew(m, at, object)
           id == Len(m.heap) + 1
           vals == <<id>>
           Ids == Nat
           word == "w"
           written == WithValues(old, at, word, vals)
<1>1. PICK size : IsMemory(old, size)
  BY TargetIs
<1>2. at + 4 <= size
  BY <1>1, SizeIs DEF Holds
<1>3. vals \in Seq(Ids) /\ Len(vals) = 1 /\ vals[1] = id
  <2>1. Len(m.heap) \in Nat
    BY DEF IsImage
  <2> QED
    BY <2>1
<1>4. word \in Kinds
  BY DEF Kinds
<1>5. WidthOf(word) = 4
  BY DEF WidthOf
<1>6. /\ Active(new) = written
      /\ id \in DOMAIN new.heap /\ id \notin DOMAIN m.heap /\ new.heap[id] = object
      /\ \A other \in DOMAIN m.heap : other # Target(m) => new.heap[other] = m.heap[other]
      /\ Target(m) > 0 => new.mp = m.mp
  BY NewIs
<1>7. vals \in Seq(Ids)
  BY <1>3
<1> HIDE DEF old, new, id, vals, Ids, word
<1>8. WordAt(Active(new), at) = id
  <2>1. 1 \in 1 .. Len(vals) /\ at + WidthOf(word) * 1 <= size /\ at + WidthOf(word) * (1 - 1) = at
    BY <1>2, <1>3, <1>5
  <2>2. ReadValue(written, at + WidthOf(word) * (1 - 1), word, 0) = vals[1]
    BY <1>1, <1>4, <1>7, <2>1, WrittenValuesAreRead
  <2> QED
    BY <1>3, <1>6, <2>1, <2>2 DEF WordAt, word
<1>9. \A other \in Kinds, place \in Nat :
        place + WidthOf(other) <= at \/ place >= at + WidthOf(word) * Len(vals) =>
          ReadValue(written, place, other, zero) = ReadValue(old, place, other, zero)
  BY <1>1, <1>4, <1>7, OtherValuesAreKept
<1>10. WidthOf(word) * Len(vals) = 4
  BY <1>3, <1>5
<1> HIDE DEF written
<1>11. Untouched(m, new, at, 4, zero)
  BY <1>6, <1>9, <1>10 DEF Untouched, old
<1> QED
  BY <1>6, <1>8, <1>11 DEF IsPlaced, new

\* An array of some bytes is not too large if that many elements of it are not.
LEMMA ArrayFits ==
  ASSUME NEW most \in Nat, NEW size \in Nat \ {0}, NEW len \in Nat, len * size <= most
  PROVE  len <= most \div size
<1> DEFINE q == most \div size
<1>1. q \in Int /\ most < size * q + size
  OBVIOUS
<1> HIDE DEF q
<1>2. ASSUME ~ len <= q
      PROVE  FALSE
  <2>1. q + 1 <= len
    BY <1>1, <1>2
  <2>2. size * (q + 1) <= size * len
    BY <1>1, <2>1
  <2>3. size * (q + 1) = size * q + size /\ size * len = len * size
    BY <1>1
  <2> QED
    BY <1>1, <2>2, <2>3
<1> QED
  BY <1>2 DEF q

\* Where an item of the data has its values there they are read, each with its own width; where it has
\* a text or an array that is not too large there is the id of an object of its own that is that; and
\* it leaves all that it does not cover as it was (init_mp_with_types in data.rs).
THEOREM ItemsArePlaced ==
  ASSUME NEW Objects, NEW m, IsImage(m, Objects), NEW types, NEW V, NEW d, d.at \in Nat, d.vals \in Seq(V), NEW zero,
         MaxArrayBytes \in Nat
  PROVE  LET new == WithItem(types, m, d)
             room == Cardinality(DOMAIN Active(m))
             k == ValueKind(d.kind)
         IN /\ d.kind \in {"bytes", "words", "bigs", "reals"} =>
                 /\ Untouched(m, new, d.at, WidthOf(k) * Len(d.vals), zero)
                 /\ \A i \in 1 .. Len(d.vals) : d.at + WidthOf(k) * i <= room =>
                      ReadValue(Active(new), d.at + WidthOf(k) * (i - 1), k, zero) = d.vals[i]
            /\ d.kind = "string" /\ d.at + 4 <= room => IsPlaced(m, new, d.at, [is |-> "str", val |-> d.vals], zero)
            /\ d.kind = "array" /\ d.at + 4 <= room =>
                 \A size \in Nat \ {0} :
                   size = ElemSize(types, d.vals[1]) /\ d.vals[2] \in Nat /\ d.vals[2] * size <= MaxArrayBytes =>
                     IsPlaced(m, new, d.at, ArrayObject(d.vals[1], size, d.vals[2]), zero)
<1> DEFINE new == WithItem(types, m, d)
           old == Active(m)
           room == Cardinality(DOMAIN old)
           k == ValueKind(d.kind)
<1>1. ASSUME d.kind \in {"bytes", "words", "bigs", "reals"}
      PROVE  /\ Untouched(m, new, d.at, WidthOf(k) * Len(d.vals), zero)
             /\ \A i \in 1 .. Len(d.vals) : d.at + WidthOf(k) * i <= room =>
                  ReadValue(Active(new), d.at + WidthOf(k) * (i - 1), k, zero) = d.vals[i]
  <2> DEFINE vals == d.vals
             at == d.at
  <2>1. PICK size : IsMemory(old, size)
    BY TargetIs
  <2>2. room = size
    BY <2>1, SizeIs
  <2>3. k \in Kinds /\ new = PutAll(m, d.at, k, d.vals)
    BY <1>1 DEF new, ValueKind, Kinds, WithItem
  <2>4. vals \in Seq(V) /\ at \in Nat
    OBVIOUS
  <2> HIDE DEF new, old, k, room
  <2>5. /\ Active(new) = WithValues(old, d.at, k, d.vals)
        /\ \A id \in DOMAIN m.heap : id # Target(m) => new.heap[id] = m.heap[id]
        /\ Target(m) > 0 => new.mp = m.mp
    BY <2>3, PuttingIs DEF old
  <2> HIDE DEF vals, at
  <2>6. \A i \in 1 .. Len(vals) : at + WidthOf(k) * i <= size =>
          ReadValue(WithValues(old, at, k, vals), at + WidthOf(k) * (i - 1), k, zero) = vals[i]
    BY <2>1, <2>3, <2>4, WrittenValuesAreRead
  <2>7. \A other \in Kinds, place \in Nat :
          place + WidthOf(other) <= at \/ place >= at + WidthOf(k) * Len(vals) =>
            ReadValue(WithValues(old, at, k, vals), place, other, zero) = ReadValue(old, place, other, zero)
    BY <2>1, <2>3, <2>4, OtherValuesAreKept
  <2>8. Untouched(m, new, d.at, WidthOf(k) * Len(d.vals), zero)
    BY <2>5, <2>7 DEF Untouched, old, vals, at
  <2> QED
    BY <2>2, <2>5, <2>6, <2>8 DEF vals, at
<1> HIDE DEF new
<1>4. ASSUME NEW object, IsObject(object), Holds(old, d.at, 4), new = PutNew(m, d.at, object)
      PROVE  IsPlaced(m, new, d.at, object, zero)
  <2> DEFINE at == d.at
  <2>1. at \in Nat /\ Holds(Active(m), at, 4)
    BY <1>4
  <2> HIDE DEF at
  <2>2. IsPlaced(m, PutNew(m, at, object), at, object, zero)
    BY <1>4, <2>1, NewIsFound
  <2> QED
    BY <1>4, <2>2 DEF at
<1>2. ASSUME d.kind = "string", d.at + 4 <= room
      PROVE  IsPlaced(m, new, d.at, [is |-> "str", val |-> d.vals], zero)
  <2> DEFINE object == [is |-> "str", val |-> d.vals]
  <2>1. Holds(old, d.at, 4)
    BY <1>2 DEF Holds
  <2>2. new = PutNew(m, d.at, object)
    BY <1>2, <2>1 DEF new, WithItem
  <2>3. IsObject(object)
    BY DEF IsObject
  <2> HIDE DEF object
  <2>4. IsPlaced(m, new, d.at, object, zero)
    BY <1>4, <2>1, <2>2, <2>3
  <2> QED
    BY <2>4 DEF object
<1>3. ASSUME d.kind = "array", d.at + 4 <= room, NEW size \in Nat \ {0}, size = ElemSize(types, d.vals[1]),
             d.vals[2] \in Nat, d.vals[2] * size <= MaxArrayBytes
      PROVE  IsPlaced(m, new, d.at, ArrayObject(d.vals[1], size, d.vals[2]), zero)
  <2> DEFINE len == d.vals[2]
             object == ArrayObject(d.vals[1], size, len)
  <2>1. Holds(old, d.at, 4)
    BY <1>3 DEF Holds
  <2>2. new = NewArray(m, types, d.at, d.vals[1], len)
    BY <1>3, <2>1 DEF new, WithItem
  <2>3. len <= MaxArrayBytes \div size
    BY <1>3, ArrayFits
  <2>4. new = PutNew(m, d.at, object)
    BY <1>3, <2>2, <2>3 DEF NewArray
  <2>5. len * size \in Nat
    BY <1>3
  <2>6. {"is", "bytes"} \subseteq DOMAIN object /\ IsMemory(object.bytes, len * size)
    BY <2>5 DEF ArrayObject, Zeroes, IsMemory
  <2> HIDE DEF object
  <2>7. IsObject(object)
    BY <2>6 DEF IsObject
  <2>9. IsPlaced(m, new, d.at, object, zero)
    BY <1>4, <2>1, <2>4, <2>7
  <2> QED
    BY <2>9 DEF object
<1> QED
  BY <1>1, <1>2, <1>3 DEF new

\* The data in which nothing was placed yet is such data.
LEMMA FreshImage ==
  ASSUME NEW size \in Nat
  PROVE  IsImage([mp |-> Zeroes(size), heap |-> <<>>, arrays |-> <<>>], {})
<1> DEFINE fresh == [mp |-> Zeroes(size), heap |-> <<>>, arrays |-> <<>>]
<1>1. DOMAIN fresh.heap = {} /\ DOMAIN fresh.arrays = {}
  OBVIOUS
<1>2. IsMemory(fresh.mp, size)
  BY DEF Zeroes, IsMemory
<1>3. fresh.heap \in Seq({}) /\ fresh.arrays \in Seq(Nat) /\ {"mp", "heap", "arrays"} \subseteq DOMAIN fresh
  OBVIOUS
<1> HIDE DEF fresh
<1>4. IsImage(fresh, {})
  BY <1>1, <1>2, <1>3 DEF IsImage
<1> QED
  BY <1>4 DEF fresh

\* What the items need that is placed next holds again: an array that is entered is one that was placed
\* (init_mp_with_types in data.rs).
THEOREM ItemsKeepTheImage ==
  ASSUME NEW Objects, NEW m, IsImage(m, Objects), NEW types, NEW V, NEW d, d.at \in Nat, d.vals \in Seq(V),
         d.kind \in {"bytes", "words", "bigs", "reals", "string", "array", "setarray", "restore"},
         d.kind = "array" => d.vals[2] \in Int /\ ElemSize(types, d.vals[1]) \in Nat,
         d.kind = "setarray" => WordAt(Around(m), d.at) \in {0} \cup DOMAIN m.heap
  PROVE  \E All : IsImage(WithItem(types, m, d), All)
<1> DEFINE new == WithItem(types, m, d)
           at == d.at
           vals == d.vals
<1> at \in Nat /\ vals \in Seq(V)
  OBVIOUS
<1>1. ASSUME d.kind \in {"bytes", "words", "bigs", "reals"}
      PROVE  \E All : IsImage(new, All)
  <2> DEFINE k == ValueKind(d.kind)
  <2>1. k \in Kinds /\ new = PutAll(m, at, k, vals)
    BY <1>1 DEF ValueKind, Kinds, WithItem
  <2> HIDE DEF new, k, at, vals
  <2> QED
    BY <2>1, PuttingStays
<1>2. ASSUME NEW object, IsObject(object)
      PROVE  \E All : IsImage(PutNew(m, at, object), All)
  <2> HIDE DEF at
  <2> QED
    BY <1>2, NewIs
<1>3. ASSUME d.kind = "string"
      PROVE  \E All : IsImage(new, All)
  <2> DEFINE object == [is |-> "str", val |-> d.vals]
  <2>1. new = m \/ new = PutNew(m, at, object)
    BY <1>3 DEF WithItem
  <2>2. IsObject(object)
    BY DEF IsObject
  <2> HIDE DEF new, object, at
  <2> QED
    BY <1>2, <2>1, <2>2
<1>4. ASSUME d.kind = "array"
      PROVE  \E All : IsImage(new, All)
  <2> DEFINE size == IF ElemSize(types, d.vals[1]) = 0 THEN 1 ELSE ElemSize(types, d.vals[1])
             len == d.vals[2]
             object == ArrayObject(d.vals[1], size, len)
  <2>1. new = m \/ (len >= 0 /\ new = PutNew(m, at, object))
    BY <1>4 DEF WithItem, NewArray
  <2>2. ASSUME len >= 0
        PROVE  IsObject(object)
    <3>1. len \in Nat /\ size \in Nat
      BY <1>4, <2>2
    <3> HIDE DEF len, size
    <3>2. len * size \in Nat
      BY <3>1
    <3>3. {"is", "bytes"} \subseteq DOMAIN object /\ IsMemory(object.bytes, len * size)
      BY <3>2 DEF ArrayObject, Zeroes, IsMemory
    <3> HIDE DEF object
    <3> QED
      BY <3>3 DEF IsObject
  <2> HIDE DEF new, object, at, len
  <2> QED
    BY <1>2, <2>1, <2>2
<1>5. ASSUME d.kind = "setarray"
      PROVE  IsImage(new, Objects)
  <2> DEFINE id == WordAt(Around(m), d.at)
  <2>1. new = m \/ (id # 0 /\ new = [m EXCEPT !.arrays = Append(@, id)])
    BY <1>5 DEF WithItem, Enter
  <2>2. id \in {0} \cup DOMAIN m.heap
    BY <1>5
  <2> HIDE DEF new, id
  <2>3. CASE id # 0 /\ new = [m EXCEPT !.arrays = Append(@, id)]
    <3>1. /\ {"mp", "heap", "arrays"} \subseteq DOMAIN new /\ new.mp = m.mp /\ new.heap = m.heap
          /\ new.arrays = Append(m.arrays, id)
      BY <2>3 DEF IsImage
    <3>2. id \in DOMAIN m.heap /\ id \in Nat
      BY <2>2, <2>3 DEF IsImage
    <3>3. m.arrays \in Seq(Nat) /\ \A i \in DOMAIN m.arrays : m.arrays[i] \in DOMAIN m.heap
      BY DEF IsImage
    <3>4. /\ new.arrays \in Seq(Nat) /\ \A i \in DOMAIN new.arrays : new.arrays[i] = id \/ (i \in DOMAIN m.arrays /\ new.arrays[i] = m.arrays[i])
      BY <3>1, <3>2, <3>3
    <3> QED
      BY <3>1, <3>2, <3>3, <3>4 DEF IsImage
  <2> QED
    BY <2>1, <2>3
<1>6. ASSUME d.kind = "restore"
      PROVE  IsImage(new, Objects)
  <2>1. new = m \/ (m.arrays # <<>> /\ new = [m EXCEPT !.arrays = Front(@)])
    BY <1>6 DEF WithItem, Leave
  <2> HIDE DEF new
  <2>2. CASE m.arrays # <<>> /\ new = [m EXCEPT !.arrays = Front(@)]
    <3>1. /\ {"mp", "heap", "arrays"} \subseteq DOMAIN new /\ new.mp = m.mp /\ new.heap = m.heap
          /\ new.arrays = SubSeq(m.arrays, 1, Len(m.arrays) - 1)
      BY <2>2 DEF IsImage, Front
    <3>2. m.arrays \in Seq(Nat) /\ \A i \in DOMAIN m.arrays : m.arrays[i] \in DOMAIN m.heap
      BY DEF IsImage
    <3>3. new.arrays \in Seq(Nat) /\ \A i \in DOMAIN new.arrays : i \in DOMAIN m.arrays /\ new.arrays[i] = m.arrays[i]
      <4> DEFINE kept == m.arrays
      <4>1. kept \in Seq(Nat) /\ kept # <<>>
        BY <2>2, <3>2
      <4> HIDE DEF kept
      <4>2. /\ SubSeq(kept, 1, Len(kept) - 1) \in Seq(Nat) /\ Len(SubSeq(kept, 1, Len(kept) - 1)) = Len(kept) - 1
            /\ Len(kept) \in Nat /\ \A i \in 1 .. Len(kept) - 1 : i \in DOMAIN kept /\ SubSeq(kept, 1, Len(kept) - 1)[i] = kept[i]
        <5> DEFINE last == Len(kept) - 1
                   part == SubSeq(kept, 1, last)
        <5>1. Len(kept) \in Nat /\ Len(kept) > 0 /\ \A i \in 1 .. last : i \in DOMAIN kept /\ kept[i] \in Nat
          BY <4>1
        <5>2. last \in Nat
          BY <5>1
        <5> HIDE DEF last
        <5>3. /\ part \in Seq(Nat) /\ Len(part) = IF 1 <= last THEN last - 1 + 1 ELSE 0
              /\ \A i \in 1 .. last - 1 + 1 : part[i] = kept[1 + i - 1]
          BY <5>1, <5>2, SubSeqProperties
        <5> HIDE DEF part
        <5>4. part \in Seq(Nat) /\ Len(part) = last /\ \A i \in 1 .. last : part[i] = kept[i]
          BY <5>2, <5>3
        <5> QED
          BY <5>1, <5>4 DEF part, last
      <4>3. DOMAIN SubSeq(kept, 1, Len(kept) - 1) = 1 .. Len(kept) - 1
        BY <4>2
      <4> QED
        BY <3>1, <4>2, <4>3 DEF kept
    <3> QED
      BY <3>1, <3>2, <3>3 DEF IsImage
  <2> QED
    BY <2>1, <2>2
<1> QED
  BY <1>1, <1>3, <1>4, <1>5, <1>6
==============================================================================
