-------------------------- MODULE ModuleCallsProofs --------------------------
(***************************************************************************)
(* Nested cross-module calls, for every number of modules, every handler   *)
(* table and every limit of the frame stack: a callee leaves its callers'  *)
(* frames alone, whichever way it ends its caller's context comes back,    *)
(* and the data of a module is in one place.                               *)
(*                                                                         *)
(* The first part is about the frame stack: StackInv survives each thing   *)
(* the code does to it.  The second part is about the context: leaving a   *)
(* call undoes entering it, so that the contexts the host stack will       *)
(* restore end with the one run started from.  Every step keeps both, and  *)
(* with them DataInv, which says where the data of modules is; the last    *)
(* part shows which module's code runs on a frame.                         *)
(***************************************************************************)
EXTENDS ModuleCallsProps, SequenceTheorems, FiniteSetTheorems, WellFoundedInduction, TLAPS

-----------------------------------------------------------------------------
(* The frame stack. *)

\* What is left of a sequence without its last element.
LEMMA FrontProperties ==
  ASSUME NEW S, NEW s \in Seq(S), s # <<>>
  PROVE  /\ Len(s) \in Nat \ {0}
         /\ Front(s) \in Seq(S) /\ Len(Front(s)) = Len(s) - 1
         /\ \A i \in 1 .. Len(s) - 1 : Front(s)[i] = s[i]
         /\ Last(s) = s[Len(s)] /\ Last(s) \in S
<1> DEFINE N == Len(s)
           t == SubSeq(s, 1, N - 1)
<1>0. N \in Nat /\ N # 0
  BY LenProperties, EmptySeq
<1>1. \A i \in 1 .. N : s[i] \in S BY ElementOfSeq
<1>2. \A i \in 1 .. N - 1 : s[i] \in S BY <1>0, <1>1
<1>3. 1 \in Int /\ N - 1 \in Int BY <1>0
<1>4. /\ t \in Seq(S)
      /\ Len(t) = IF 1 <= N - 1 THEN N - 1 - 1 + 1 ELSE 0
      /\ \A i \in 1 .. N - 1 - 1 + 1 : t[i] = s[1 + i - 1]
  BY <1>2, <1>3, SubSeqProperties
<1>5. Front(s) = t BY DEF Front
<1>6. Last(s) = s[N] /\ N \in 1 .. N BY <1>0 DEF Last
<1> HIDE DEF t, N
<1>7. Len(t) = N - 1
  <2>1. Len(t) = IF 1 <= N - 1 THEN N - 1 - 1 + 1 ELSE 0 BY <1>4
  <2>2. CASE N = 1 BY <2>1, <2>2
  <2>3. CASE N # 1
    <3>1. 1 <= N - 1 /\ N - 1 - 1 + 1 = N - 1 BY <1>0, <2>3
    <3> QED BY <2>1, <3>1
  <2> QED BY <2>2, <2>3
<1>8. \A i \in 1 .. N - 1 : t[i] = s[i]
  <2> SUFFICES ASSUME NEW i \in 1 .. N - 1 PROVE t[i] = s[i] OBVIOUS
  <2>1. i \in 1 .. N - 1 - 1 + 1 /\ 1 + i - 1 = i BY <1>0
  <2> QED BY <1>4, <2>1
<1> QED BY <1>0, <1>1, <1>4, <1>5, <1>6, <1>7, <1>8 DEF N

\* A frame that is active and not current was called from by another active one.
LEMMA ActiveHasCallee ==
  ASSUME WellBuilt(stack), current \in DOMAIN stack,
         NEW k \in Active, k # current
  PROVE  /\ CalleeOf(k) \in DOMAIN stack
         /\ stack[CalleeOf(k)].prev = k
         /\ stack[k] # Pending
         /\ k < CalleeOf(k)
<1>0. Len(stack) \in Nat /\ DOMAIN stack = 1 .. Len(stack)
  BY LenProperties DEF WellBuilt
<1>1. \A j \in DOMAIN stack : stack[j].prev \in DOMAIN stack \cup {0}
  <2> SUFFICES ASSUME NEW j \in DOMAIN stack PROVE stack[j].prev \in DOMAIN stack \cup {0}
    OBVIOUS
  <2>1. CASE stack[j] = Pending BY <2>1 DEF Pending
  <2>2. CASE j = 1 BY <2>2 DEF WellBuilt, Entry
  <2>3. CASE j # 1 /\ stack[j] # Pending
    <3>1. j \in 2 .. Len(stack) BY <1>0, <2>3
    <3> QED BY <1>0, <2>3, <3>1 DEF WellBuilt
  <2> QED BY <2>1, <2>2, <2>3
<1>2. \A j \in Active : stack[j].prev \in Active \cup {0}
  BY <1>1 DEF Active
<1>3. \E j \in Active : stack[j].prev = k
  <2> SUFFICES ASSUME \A j \in Active : stack[j].prev # k PROVE FALSE
    OBVIOUS
  <2> DEFINE S == Active \ {k}
  <2>1. S \in SUBSET DOMAIN stack BY DEF Active
  <2>2. current \in S BY DEF Active
  <2>3. \A j \in S : stack[j].prev \in S \cup {0} BY <1>2
  <2>4. k \in S BY <2>1, <2>2, <2>3 DEF Active
  <2> QED BY <2>4
<1>4. CalleeOf(k) \in Active /\ stack[CalleeOf(k)].prev = k
  BY <1>3 DEF CalleeOf
<1>5. CalleeOf(k) \in DOMAIN stack /\ k \in DOMAIN stack
  BY <1>4 DEF Active
<1>6. stack[CalleeOf(k)] # Pending /\ CalleeOf(k) # 1
  BY <1>0, <1>4, <1>5 DEF Pending, WellBuilt, Entry
<1>7. CalleeOf(k) \in 2 .. Len(stack)
  BY <1>0, <1>5, <1>6
<1>8. stack[CalleeOf(k)].prev \in 1 .. CalleeOf(k) - 1 /\ stack[stack[CalleeOf(k)].prev] # Pending
  BY <1>6, <1>7 DEF WellBuilt
<1> QED BY <1>0, <1>4, <1>5, <1>7, <1>8

\* The frames above the n-th are gone.
LEMMA Truncate ==
  ASSUME NEW st, NEW cu, NEW fl, NEW cs, StackInv(st, cu, fl, cs),
         NEW n \in 1 .. Len(st), NEW new \in 1 .. n, st[new] # Pending, fl <= new,
         Len(cs) \in Nat
  PROVE  StackInv(SubSeq(st, 1, n), new, fl, cs)
<1> DEFINE r == SubSeq(st, 1, n)
<1>0. st \in Seq(Frame \cup {Pending}) /\ Len(st) \in Nat /\ Len(st) <= MAX_FRAMES
      /\ MAX_FRAMES \in Nat
  BY CallConstants DEF StackInv, WellBuilt
<1>1. /\ r \in Seq(Frame \cup {Pending}) /\ Len(r) = n
      /\ \A i \in 1 .. n : r[i] = st[i]
  BY <1>0, SubSeqProperties
<1> HIDE DEF r
<1>2. WellBuilt(r)
  <2>1. r[1] = Entry BY <1>0, <1>1 DEF StackInv, WellBuilt
  <2>2. ASSUME NEW j \in 2 .. Len(r), r[j] # Pending
        PROVE  r[j].site \in Pc /\ r[j].prev \in 1 .. j - 1 /\ r[r[j].prev] # Pending
    <3>1. j \in 2 .. Len(st) /\ r[j] = st[j] BY <1>0, <1>1
    <3>2. st[j].site \in Pc /\ st[j].prev \in 1 .. j - 1 /\ st[st[j].prev] # Pending
      BY <2>2, <3>1 DEF StackInv, WellBuilt
    <3>3. r[st[j].prev] = st[st[j].prev] BY <1>0, <1>1, <3>1, <3>2
    <3> QED BY <3>1, <3>2, <3>3
  <2> QED BY <1>0, <1>1, <2>1, <2>2 DEF WellBuilt
<1>3. \A f \in Nat : KeptAbove(st, f) => KeptAbove(r, f)
  BY <1>0, <1>1 DEF KeptAbove
<1>4. fl \in Nat /\ KeptAbove(st, fl)
  BY <1>0 DEF StackInv
<1>5. \A i \in 1 .. Len(cs) :
        cs[i].floor \in 1 .. fl - 1 /\ KeptAbove(st, cs[i].floor)
        /\ \A m \in i + 1 .. Len(cs) : cs[i].floor < cs[m].floor
  BY DEF StackInv
<1>6. \A i \in 1 .. Len(cs) : cs[i].floor \in Nat
  BY <1>4, <1>5
<1>7. fl \in 1 .. new
  BY <1>0 DEF StackInv
<1>8. r[new] # Pending /\ new \in 1 .. Len(r)
  BY <1>0, <1>1
<1>9. KeptAbove(r, fl) BY <1>3, <1>4
<1>10. \A i \in 1 .. Len(cs) :
        cs[i].floor \in 1 .. fl - 1 /\ KeptAbove(r, cs[i].floor)
        /\ \A m \in i + 1 .. Len(cs) : cs[i].floor < cs[m].floor
  BY <1>3, <1>5, <1>6
<1> QED BY <1>2, <1>7, <1>8, <1>9, <1>10 DEF StackInv, r

\* alloc_pending: a pending frame on top.
LEMMA PushPending ==
  ASSUME NEW st, NEW cu, NEW fl, NEW cs, StackInv(st, cu, fl, cs), Len(st) < MAX_FRAMES
  PROVE  StackInv(Append(st, Pending), cu, fl, cs)
<1> DEFINE r == Append(st, Pending)
<1>0. st \in Seq(Frame \cup {Pending}) /\ Len(st) \in Nat /\ MAX_FRAMES \in Nat
  BY CallConstants DEF StackInv, WellBuilt
<1>1. /\ r \in Seq(Frame \cup {Pending}) /\ Len(r) = Len(st) + 1
      /\ \A i \in 1 .. Len(st) : r[i] = st[i]
      /\ r[Len(st) + 1] = Pending
  BY <1>0, AppendProperties
<1> HIDE DEF r
<1>2. WellBuilt(r)
  <2>1. r[1] = Entry BY <1>0, <1>1 DEF StackInv, WellBuilt
  <2>2. ASSUME NEW j \in 2 .. Len(r), r[j] # Pending
        PROVE  r[j].site \in Pc /\ r[j].prev \in 1 .. j - 1 /\ r[r[j].prev] # Pending
    <3>1. j \in 2 .. Len(st) /\ r[j] = st[j] BY <1>0, <1>1, <2>2
    <3>2. st[j].site \in Pc /\ st[j].prev \in 1 .. j - 1 /\ st[st[j].prev] # Pending
      BY <2>2, <3>1 DEF StackInv, WellBuilt
    <3>3. r[st[j].prev] = st[st[j].prev] BY <1>0, <1>1, <3>1, <3>2
    <3> QED BY <3>1, <3>2, <3>3
  <2>3. Len(r) \in 1 .. MAX_FRAMES BY <1>0, <1>1
  <2> QED BY <1>1, <2>1, <2>2, <2>3 DEF WellBuilt
<1>3. \A f \in Nat : KeptAbove(st, f) => KeptAbove(r, f)
  <2> SUFFICES ASSUME NEW f \in Nat, KeptAbove(st, f),
                      NEW j \in f + 1 .. Len(r), r[j] # Pending
               PROVE  r[j].prev >= f
    BY DEF KeptAbove
  <2>1. j \in f + 1 .. Len(st) /\ r[j] = st[j] BY <1>0, <1>1
  <2> QED BY <2>1 DEF KeptAbove
<1>4. fl \in 1 .. cu /\ KeptAbove(st, fl) /\ cu \in 1 .. Len(st) /\ st[cu] # Pending
  BY DEF StackInv
<1>5. \A i \in 1 .. Len(cs) :
        cs[i].floor \in 1 .. fl - 1 /\ KeptAbove(st, cs[i].floor)
        /\ \A m \in i + 1 .. Len(cs) : cs[i].floor < cs[m].floor
  BY DEF StackInv
<1>6. \A i \in 1 .. Len(cs) : cs[i].floor \in Nat
  BY <1>4, <1>5
<1>7. cu \in 1 .. Len(r) /\ r[cu] # Pending
  BY <1>0, <1>1, <1>4
<1>8. fl \in Nat
  BY <1>4
<1>9. KeptAbove(r, fl) BY <1>3, <1>4, <1>8
<1>10. \A i \in 1 .. Len(cs) :
        cs[i].floor \in 1 .. fl - 1 /\ KeptAbove(r, cs[i].floor)
        /\ \A m \in i + 1 .. Len(cs) : cs[i].floor < cs[m].floor
  BY <1>3, <1>5, <1>6
<1> QED BY <1>2, <1>4, <1>7, <1>9, <1>10 DEF StackInv, r

\* activate_pending: the frame on top becomes the current one, linked to cu.
Activated(st, m, p, cu) == [st EXCEPT ![Len(st)] = [owner |-> m, site |-> p, prev |-> cu]]

LEMMA ActivateTop ==
  ASSUME NEW st, NEW cu, NEW fl, NEW cs, StackInv(st, cu, fl, cs),
         NEW m \in Module, NEW p \in Pc, Len(st) > cu,
         NEW r, r = Activated(st, m, p, cu)
  PROVE  /\ StackInv(r, Len(st), fl, cs)
         /\ Len(r) = Len(st) /\ KeptAbove(r, Len(st))
         /\ \A i \in 1 .. Len(st) - 1 : r[i] = st[i]
<1> DEFINE L == Len(st)
           e == [owner |-> m, site |-> p, prev |-> cu]
<1>0. st \in Seq(Frame \cup {Pending}) /\ L \in Nat /\ MAX_FRAMES \in Nat
      /\ L <= MAX_FRAMES /\ cu \in 1 .. L /\ fl \in 1 .. cu /\ cu < L /\ st[cu] # Pending
  BY CallConstants DEF StackInv, WellBuilt
<1>1. e \in Frame /\ e # Pending /\ e.site \in Pc /\ e.prev = cu
  <2>1. cu \in 0 .. MAX_FRAMES BY <1>0
  <2>2. e.prev # Pending.prev BY <1>0 DEF Pending
  <2> QED BY <2>1, <2>2 DEF Frame
<1> HIDE DEF e
<1>2. /\ r \in Seq(Frame \cup {Pending}) /\ Len(r) = L
      /\ \A i \in 1 .. L - 1 : r[i] = st[i]
      /\ r[L] = e
  <2> DEFINE D == Frame \cup {Pending}
             t == [st EXCEPT ![L] = e]
  <2>1. L \in 1 .. Len(st) /\ st \in Seq(D) /\ e \in D BY <1>0, <1>1
  <2>2. r = t BY DEF e, Activated
  <2> HIDE DEF D
  <2>3. /\ t \in Seq(D) /\ Len(t) = L
        /\ \A i \in 1 .. L : t[i] = IF i = L THEN e ELSE st[i]
    BY <2>1, ExceptSeq
  <2> HIDE DEF t
  <2>4. \A i \in 1 .. L - 1 : t[i] = st[i] BY <1>0, <2>3
  <2>5. t[L] = e BY <1>0, <2>1, <2>3
  <2> QED BY <2>2, <2>3, <2>4, <2>5 DEF D
<1>3. WellBuilt(r)
  <2>1. r[1] = Entry
    <3>1. 1 \in 1 .. L - 1 BY <1>0
    <3> QED BY <1>2, <3>1 DEF StackInv, WellBuilt
  <2>2. ASSUME NEW j \in 2 .. Len(r), r[j] # Pending
        PROVE  r[j].site \in Pc /\ r[j].prev \in 1 .. j - 1 /\ r[r[j].prev] # Pending
    <3>1. CASE j = L
      <4>1. r[cu] = st[cu] BY <1>0, <1>2
      <4> QED BY <1>0, <1>1, <1>2, <3>1, <4>1
    <3>2. CASE j # L
      <4>1. j \in 2 .. L - 1 /\ j \in 2 .. Len(st) /\ r[j] = st[j] BY <1>0, <1>2, <3>2
      <4>2. st[j].site \in Pc /\ st[j].prev \in 1 .. j - 1 /\ st[st[j].prev] # Pending
        BY <2>2, <4>1 DEF StackInv, WellBuilt
      <4>3. st[j].prev \in 1 .. L - 1 BY <1>0, <4>1, <4>2
      <4>4. r[st[j].prev] = st[st[j].prev] BY <1>2, <4>3
      <4> QED BY <4>1, <4>2, <4>4
    <3> QED BY <3>1, <3>2
  <2>3. Len(r) \in 1 .. MAX_FRAMES BY <1>0, <1>2
  <2> QED BY <1>2, <2>1, <2>2, <2>3 DEF WellBuilt
<1>4. \A f \in 1 .. cu : KeptAbove(st, f) => KeptAbove(r, f)
  <2> SUFFICES ASSUME NEW f \in 1 .. cu, KeptAbove(st, f),
                      NEW j \in f + 1 .. Len(r), r[j] # Pending
               PROVE  r[j].prev >= f
    BY DEF KeptAbove
  <2>1. CASE j = L BY <1>0, <1>1, <1>2, <2>1
  <2>2. CASE j # L
    <3>1. j \in f + 1 .. Len(st) /\ r[j] = st[j] BY <1>0, <1>2, <2>2
    <3> QED BY <3>1 DEF KeptAbove
  <2> QED BY <2>1, <2>2
<1>5. KeptAbove(r, fl)
  BY <1>0, <1>4 DEF StackInv
<1>6. \A i \in 1 .. Len(cs) :
        cs[i].floor \in 1 .. fl - 1 /\ KeptAbove(st, cs[i].floor)
        /\ \A k \in i + 1 .. Len(cs) : cs[i].floor < cs[k].floor
  BY DEF StackInv
<1>7. \A i \in 1 .. Len(cs) : cs[i].floor \in 1 .. cu
  BY <1>0, <1>6
<1>8. \A i \in 1 .. Len(cs) :
        cs[i].floor \in 1 .. fl - 1 /\ KeptAbove(r, cs[i].floor)
        /\ \A k \in i + 1 .. Len(cs) : cs[i].floor < cs[k].floor
  BY <1>4, <1>6, <1>7
<1>9. L \in 1 .. Len(r) /\ r[L] # Pending /\ fl \in 1 .. L
  BY <1>0, <1>1, <1>2
<1>10. StackInv(r, L, fl, cs)
  BY <1>3, <1>5, <1>8, <1>9 DEF StackInv
<1>11. KeptAbove(r, L)
  BY <1>0, <1>2 DEF KeptAbove
<1> QED BY <1>2, <1>10, <1>11

\* A nested call begins on the frame on top: no floor was as high.
LEMMA EnterCall ==
  ASSUME NEW st, NEW fl, NEW cs \in Seq(Saved), NEW c \in Saved,
         StackInv(st, Len(st), fl, cs), KeptAbove(st, Len(st)),
         fl < Len(st), c.floor = fl
  PROVE  StackInv(st, Len(st), Len(st), Append(cs, c))
<1> DEFINE ds == Append(cs, c)
           L == Len(st)
<1>0. L \in Nat /\ fl \in 1 .. L /\ KeptAbove(st, fl) /\ WellBuilt(st) /\ st[L] # Pending
  BY DEF StackInv, WellBuilt
<1>1. /\ Len(cs) \in Nat /\ Len(ds) = Len(cs) + 1
      /\ \A i \in 1 .. Len(cs) : ds[i] = cs[i]
      /\ ds[Len(cs) + 1] = c
  BY AppendProperties, LenProperties
<1> HIDE DEF ds
<1>2. \A i \in 1 .. Len(cs) :
        cs[i].floor \in 1 .. fl - 1 /\ KeptAbove(st, cs[i].floor)
        /\ \A m \in i + 1 .. Len(cs) : cs[i].floor < cs[m].floor
  BY DEF StackInv
<1>3. ASSUME NEW i \in 1 .. Len(ds)
      PROVE  /\ ds[i].floor \in 1 .. L - 1 /\ KeptAbove(st, ds[i].floor)
             /\ \A m \in i + 1 .. Len(ds) : ds[i].floor < ds[m].floor
  <2>1. CASE i = Len(cs) + 1
    <3>1. ds[i].floor = fl BY <1>1, <2>1
    <3>2. \A m \in i + 1 .. Len(ds) : FALSE BY <1>1, <2>1
    <3>3. fl \in 1 .. L - 1 BY <1>0
    <3> QED BY <1>0, <3>1, <3>2, <3>3
  <2>2. CASE i # Len(cs) + 1
    <3>1. i \in 1 .. Len(cs) /\ ds[i] = cs[i] BY <1>1, <2>2
    <3>2. cs[i].floor \in 1 .. fl - 1 /\ KeptAbove(st, cs[i].floor) BY <1>2, <3>1
    <3>3. ASSUME NEW m \in i + 1 .. Len(ds) PROVE cs[i].floor < ds[m].floor
      <4>1. CASE m = Len(cs) + 1
        <5>1. ds[m].floor = fl BY <1>1, <4>1
        <5> QED BY <1>0, <3>2, <5>1
      <4>2. CASE m # Len(cs) + 1
        <5>1. m \in i + 1 .. Len(cs) /\ m \in 1 .. Len(cs) BY <1>1, <3>1, <4>2
        <5>2. ds[m] = cs[m] BY <1>1, <5>1
        <5> QED BY <1>2, <3>1, <5>1, <5>2
      <4> QED BY <4>1, <4>2
    <3>4. cs[i].floor \in 1 .. L - 1 BY <1>0, <3>2
    <3> QED BY <3>1, <3>2, <3>3, <3>4
  <2> QED BY <2>1, <2>2
<1>4. L \in 1 .. L BY <1>0
<1> QED BY <1>0, <1>3, <1>4 DEF StackInv, ds

\* The end of a nested call gives its caller's floor back.
LEMMA LeaveCall ==
  ASSUME NEW st, NEW cu, NEW fl, NEW cs \in Seq(Saved), StackInv(st, cu, fl, cs), cs # <<>>
  PROVE  /\ StackInv(st, cu, Last(cs).floor, Front(cs))
         /\ Last(cs).floor \in 1 .. fl - 1
         /\ Last(cs) \in Saved
         /\ Front(cs) \in Seq(Saved)
         /\ Len(Front(cs)) = Len(cs) - 1
         /\ Len(cs) \in Nat \ {0}
<1> DEFINE N == Len(cs)
           ds == Front(cs)
<1>0. N \in Nat /\ N # 0
  BY LenProperties, EmptySeq
<1>1. /\ ds \in Seq(Saved) /\ Len(ds) = N - 1
      /\ \A i \in 1 .. N - 1 : ds[i] = cs[i]
  BY FrontProperties
<1> HIDE DEF ds
<1>2. Last(cs) = cs[N] /\ N \in 1 .. N
  BY <1>0 DEF Last
<1>3. Last(cs) \in Saved
  BY <1>2, ElementOfSeq
<1>4. \A i \in 1 .. N :
        cs[i].floor \in 1 .. fl - 1 /\ KeptAbove(st, cs[i].floor)
        /\ \A m \in i + 1 .. N : cs[i].floor < cs[m].floor
  BY DEF StackInv
<1>5. cs[N].floor \in 1 .. fl - 1 /\ KeptAbove(st, cs[N].floor)
  BY <1>2, <1>4
<1>6. fl \in 1 .. cu /\ cu \in 1 .. Len(st) /\ WellBuilt(st) /\ st[cu] # Pending /\ Len(st) \in Nat
  BY DEF StackInv, WellBuilt
<1>7. cs[N].floor \in 1 .. cu
  BY <1>5, <1>6
<1>8. ASSUME NEW i \in 1 .. N - 1
      PROVE  /\ ds[i].floor \in 1 .. cs[N].floor - 1 /\ KeptAbove(st, ds[i].floor)
             /\ \A m \in i + 1 .. N - 1 : ds[i].floor < ds[m].floor
  <2>1. i \in 1 .. N /\ ds[i] = cs[i] /\ N \in i + 1 .. N BY <1>0, <1>1
  <2>2. cs[i].floor \in 1 .. fl - 1 /\ KeptAbove(st, cs[i].floor) BY <1>4, <2>1
  <2>3. cs[i].floor < cs[N].floor BY <1>4, <2>1
  <2>4. cs[i].floor \in 1 .. cs[N].floor - 1 BY <1>5, <1>6, <2>2, <2>3
  <2>5. ASSUME NEW m \in i + 1 .. N - 1 PROVE ds[i].floor < ds[m].floor
    <3>1. m \in i + 1 .. N /\ m \in 1 .. N - 1 BY <1>0
    <3>2. ds[m] = cs[m] BY <1>1, <3>1
    <3> QED BY <1>4, <2>1, <3>1, <3>2
  <2> QED BY <2>1, <2>2, <2>4, <2>5
<1>9. StackInv(st, cu, cs[N].floor, ds)
  BY <1>1, <1>5, <1>6, <1>7, <1>8 DEF StackInv
<1> QED BY <1>0, <1>1, <1>2, <1>3, <1>5, <1>9 DEF ds

-----------------------------------------------------------------------------
(* The context of a call. *)

\* The largest of some positions of a sequence.
LEMMA LargestExists ==
  ASSUME NEW N \in Nat, NEW S \in SUBSET (1 .. N), S # {}
  PROVE  \E n \in S : \A k \in S : k <= n
<1> DEFINE D == {d \in Nat : N - d \in S}
           R == OpToRel(<, Nat)
<1>1. PICK x \in S : TRUE OBVIOUS
<1>2. N - x \in D
  BY <1>1
<1>3. \A a, b \in Nat : <<a, b>> \in R <=> a < b
  BY DEF OpToRel
<1>4. IsWellFoundedOn(R, Nat)
  BY NatLessThanWellFounded
<1> HIDE DEF R
<1>5. D \subseteq Nat /\ D # {}
  BY <1>2
<1> HIDE DEF D
<1>6. PICK d \in D : \A e \in D : ~ (<<e, d>> \in R)
  BY <1>4, <1>5, WFMin
<1>7. d \in Nat /\ N - d \in S
  BY <1>6 DEF D
<1>8. ASSUME NEW k \in S PROVE k <= N - d
  <2>1. N - k \in D
    <3>1. N - k \in Nat /\ N - (N - k) = k OBVIOUS
    <3> QED BY <3>1 DEF D
  <2>2. N - k \in Nat BY <1>5, <2>1
  <2>3. ~ (N - k < d) BY <1>3, <1>6, <1>7, <2>1, <2>2
  <2> QED BY <1>7, <2>3
<1> QED BY <1>7, <1>8


\* rposition finds a position of the caller stack, or nothing.
LEMMA ParkedMainFound ==
  ASSUME NEW D, parents \in Seq(D)
  PROVE  /\ ParkedMain \in Nat
         /\ ParkedMain # 0 => ParkedMain \in 1 .. Len(parents) /\ parents[ParkedMain].virt = Main
         /\ \A n \in 1 .. Len(parents) : parents[n].virt = Main => n <= ParkedMain
<1> DEFINE at == {n \in DOMAIN parents : parents[n].virt = Main}
<1>1. /\ Len(parents) \in Nat /\ at \in SUBSET (1 .. Len(parents))
      /\ DOMAIN parents = 1 .. Len(parents)
  BY LenProperties
<1>2. ParkedMain = IF at = {} THEN 0 ELSE CHOOSE n \in at : \A k \in at : k <= n
  BY DEF ParkedMain
<1>3. /\ \A n \in at : parents[n].virt = Main
      /\ \A n \in 1 .. Len(parents) : parents[n].virt = Main => n \in at
  BY <1>1
<1> HIDE DEF at
<1>4. CASE at = {}
  BY <1>1, <1>2, <1>3, <1>4
<1>5. CASE at # {}
  <2>1. \E n \in at : \A k \in at : k <= n
    BY <1>1, <1>5, LargestExists
  <2>2. ParkedMain \in at /\ \A k \in at : k <= ParkedMain
    BY <1>2, <1>5, <2>1
  <2> QED BY <1>1, <1>3, <2>2
<1> QED BY <1>4, <1>5

\* What run_nested_module_call saves and restores, with the data of every module in place.
Contexts == [module : Module, mp : Block, home : [Loaded -> Block],
             parents : Seq([virt : Module, data : Block]), floor : 1 .. MAX_FRAMES]

Context == {x \in Contexts : DataInv(x.module, x.mp, x.home, x.parents)}

Here == [module |-> module, mp |-> mp, home |-> home, parents |-> parents, floor |-> floor]

\* The context run starts from.
Outside == [module |-> Main, mp |-> Main, home |-> [m \in Loaded |-> m],
            parents |-> <<>>, floor |-> 1]

\* The context that leaving the call c makes of x.
RestoredTo(x, c) ==
  [module |-> c.module,
   mp |-> IF c.entering /\ (c.callee # Main \/ c.slot # 0) THEN Last(x.parents).data ELSE x.mp,
   home |-> IF c.entering /\ c.callee # Main THEN [x.home EXCEPT ![c.callee] = x.mp]
            ELSE x.home,
   parents |-> IF ~c.entering THEN x.parents
               ELSE IF c.callee = Main /\ c.slot # 0
                    THEN [Front(x.parents) EXCEPT ![c.slot].data = x.mp]
                    ELSE Front(x.parents),
   floor |-> c.floor]

\* The contexts s of the calls cs: leaving them one by one leads from here to Outside.
Remembers(s, cs, here) ==
  /\ s \in Seq(Context) /\ Len(s) = Len(cs) + 1
  /\ s[1] = Outside /\ s[Len(s)] = here
  /\ \A n \in 1 .. Len(cs) : s[n] = RestoredTo(s[n + 1], cs[n])

Restorable == \E s \in Seq(Context) : Remembers(s, calls, Here)

LEMMA RememberEnter ==
  ASSUME NEW s, NEW cs \in Seq(Saved), NEW c \in Saved, NEW here, NEW there \in Context,
         Remembers(s, cs, here), RestoredTo(there, c) = here
  PROVE  Remembers(Append(s, there), Append(cs, c), there)
<1> DEFINE t == Append(s, there)
           ds == Append(cs, c)
           N == Len(cs)
<1>0. N \in Nat /\ s \in Seq(Context) /\ Len(s) = N + 1 /\ s[1] = Outside /\ s[N + 1] = here
      /\ \A n \in 1 .. N : s[n] = RestoredTo(s[n + 1], cs[n])
  BY LenProperties DEF Remembers
<1>1. /\ t \in Seq(Context) /\ Len(t) = N + 2
      /\ \A i \in 1 .. N + 1 : t[i] = s[i]
      /\ t[N + 2] = there
  BY <1>0, AppendProperties
<1>2. /\ Len(ds) = N + 1
      /\ \A i \in 1 .. N : ds[i] = cs[i]
      /\ ds[N + 1] = c
  BY AppendProperties
<1> HIDE DEF t, ds, N
<1>3. ASSUME NEW n \in 1 .. Len(ds) PROVE t[n] = RestoredTo(t[n + 1], ds[n])
  <2>1. CASE n = N + 1
    <3>1. t[n] = here /\ t[n + 1] = there /\ ds[n] = c BY <1>0, <1>1, <1>2, <2>1
    <3> QED BY <3>1
  <2>2. CASE n # N + 1
    <3>1. n \in 1 .. N /\ n \in 1 .. N + 1 /\ n + 1 \in 1 .. N + 1 BY <1>0, <1>2, <2>2
    <3>2. t[n] = s[n] /\ t[n + 1] = s[n + 1] /\ ds[n] = cs[n] BY <1>1, <1>2, <3>1
    <3> QED BY <1>0, <3>1, <3>2
  <2> QED BY <2>1, <2>2
<1>4. t[1] = Outside /\ t[Len(t)] = there /\ Len(t) = Len(ds) + 1
  <2>1. 1 \in 1 .. N + 1 BY <1>0
  <2> QED BY <1>0, <1>1, <1>2, <2>1
<1> QED BY <1>1, <1>3, <1>4 DEF Remembers, t, ds

LEMMA RememberLeave ==
  ASSUME NEW s, NEW cs \in Seq(Saved), NEW here,
         Remembers(s, cs, here), cs # <<>>
  PROVE  /\ Front(s) \in Seq(Context)
         /\ Remembers(Front(s), Front(cs), RestoredTo(here, Last(cs)))
         /\ RestoredTo(here, Last(cs)) \in Context
<1> DEFINE t == Front(s)
           ds == Front(cs)
           N == Len(cs)
<1>0. s \in Seq(Context) /\ Len(s) = N + 1 /\ s[1] = Outside /\ s[N + 1] = here
      /\ \A n \in 1 .. N : s[n] = RestoredTo(s[n + 1], cs[n])
  BY DEF Remembers
<1>1. /\ N \in Nat \ {0} /\ Len(ds) = N - 1
      /\ \A i \in 1 .. N - 1 : ds[i] = cs[i]
      /\ Last(cs) = cs[N]
  BY FrontProperties
<1>2. s # <<>>
  BY <1>0, <1>1, EmptySeq
<1>3. /\ t \in Seq(Context) /\ Len(t) = N
      /\ \A i \in 1 .. N : t[i] = s[i]
  <2>1. /\ t \in Seq(Context) /\ Len(t) = Len(s) - 1
        /\ \A i \in 1 .. Len(s) - 1 : t[i] = s[i]
    BY <1>0, <1>2, FrontProperties
  <2> HIDE DEF t, N
  <2>2. Len(s) - 1 = N BY <1>0, <1>1
  <2> QED BY <2>1, <2>2
<1> HIDE DEF t, ds, N
<1>4. s[N] = RestoredTo(here, Last(cs)) /\ s[N] \in Context
  <2>1. N \in 1 .. N /\ N \in 1 .. Len(s) BY <1>0, <1>1
  <2> QED BY <1>0, <1>1, <2>1, ElementOfSeq
<1>5. ASSUME NEW n \in 1 .. Len(ds) PROVE t[n] = RestoredTo(t[n + 1], ds[n])
  <2>1. n \in 1 .. N /\ n + 1 \in 1 .. N /\ n \in 1 .. N - 1 BY <1>1
  <2> QED BY <1>0, <1>1, <1>3, <2>1
<1>6. t[1] = Outside /\ t[Len(t)] = s[N] /\ Len(t) = Len(ds) + 1
  <2>1. 1 \in 1 .. N /\ N \in 1 .. N BY <1>1
  <2> QED BY <1>0, <1>1, <1>3, <2>1
<1> QED BY <1>3, <1>4, <1>5, <1>6 DEF Remembers, t, ds

-----------------------------------------------------------------------------
(* The inductive invariant. *)

Flags ==
  /\ pc \in Pc
  /\ error \in {None, "nil", "other"}
  /\ outcome \in {"running", "ok", "fault"}
  /\ abandoned \subseteq {"exit", "error"}

IInv == Here \in Context /\ calls \in Seq(Saved) /\ Flags /\ FramesInv /\ Restorable

\* What Here \in Context says of the variables.
LEMMA HereTyped ==
  /\ Here \in Context <=>
       /\ module \in Module /\ mp \in Block /\ home \in [Loaded -> Block]
       /\ parents \in Seq([virt : Module, data : Block]) /\ floor \in 1 .. MAX_FRAMES
       /\ DataInv(module, mp, home, parents)
BY DEF Here, Context, Contexts

LEMMA IInvTypeOK ==
  ASSUME IInv
  PROVE  TypeOK
<1>1. /\ stack \in Seq(Frame \cup {Pending}) /\ Len(stack) \in 1 .. MAX_FRAMES
      /\ current \in 1 .. Len(stack) /\ floor \in 1 .. current
  BY DEF IInv, FramesInv, StackInv, WellBuilt
<1>2. DOMAIN stack = 1 .. Len(stack) /\ Len(stack) \in Nat
  BY <1>1, LenProperties
<1>3. current \in DOMAIN stack /\ floor \in DOMAIN stack
  BY <1>1, <1>2
<1>4. Here \in Context /\ calls \in Seq(Saved) /\ Flags
  BY DEF IInv
<1> QED BY <1>1, <1>3, <1>4, HereTyped DEF TypeOK, Flags

\* The host stack is empty exactly where run started.
LEMMA IInvContext ==
  ASSUME IInv
  PROVE  ContextIsRestored
<1> SUFFICES ASSUME calls = <<>>
             PROVE  module = Main /\ mp = Main /\ parents = <<>> /\ floor = 1
  BY DEF ContextIsRestored
<1>1. PICK s \in Seq(Context) : Remembers(s, calls, Here)
  BY DEF IInv, Restorable
<1>2. Len(calls) = 0
  BY EmptySeq
<1>3. Here = Outside
  BY <1>1, <1>2 DEF Remembers
<1> QED BY <1>3 DEF Here, Outside

LEMMA InitIInv ==
  ASSUME Init
  PROVE  IInv
<1>1. Here = Outside
  BY DEF Init, Here, Outside
<1>2. Outside \in Context
  <2>1. <<>> \in Seq([virt : Module, data : Block]) BY EmptySeq
  <2>2. Main \in Module /\ Main \in Block /\ 1 \in 1 .. MAX_FRAMES
    BY CallConstants DEF Module, Block
  <2>3. [m \in Loaded |-> m] \in [Loaded -> Block] BY DEF Module, Block
  <2>4. DataInv(Main, Main, [m \in Loaded |-> m], <<>>)
    <3>1. DOMAIN <<>> = {} OBVIOUS
    <3> QED
      BY <3>1, CallConstants DEF DataInv, InPlace, InOnePlace, InSomePlace, MainAtHand, Module
  <2> QED BY <2>1, <2>2, <2>3, <2>4 DEF Outside, Context, Contexts
<1>3. calls = <<>> /\ calls \in Seq(Saved) /\ Len(calls) = 0
  BY EmptySeq DEF Init
<1>4. Flags
  BY DEF Init, Flags
<1>5. FramesInv
  <2>1. stack = <<Entry>> /\ current = 1 /\ floor = 1 BY DEF Init, Entry
  <2>2. Entry \in Frame /\ Entry # Pending
    <3>1. 0 \in 0 .. MAX_FRAMES BY CallConstants
    <3>2. Main \in Module /\ Main # None BY CallConstants DEF Module
    <3> QED BY <3>1, <3>2 DEF Entry, Frame, Pending
  <2>3. stack \in Seq(Frame \cup {Pending}) /\ Len(stack) = 1 /\ stack[1] = Entry
    <3> HIDE DEF Entry
    <3> QED BY <2>1, <2>2
  <2>4. 1 \in 1 .. MAX_FRAMES BY CallConstants
  <2>5. WellBuilt(stack) BY <2>3, <2>4 DEF WellBuilt
  <2>6. KeptAbove(stack, 1) BY <2>3 DEF KeptAbove
  <2> QED BY <1>3, <2>1, <2>2, <2>3, <2>5, <2>6 DEF FramesInv, StackInv
<1>6. Restorable
  <2> DEFINE s == <<Outside>>
  <2> HIDE DEF Outside, Context, Here
  <2>1. s \in Seq(Context) /\ Len(s) = 1 /\ s[1] = Outside BY <1>2
  <2>2. Remembers(s, calls, Here) BY <1>1, <1>3, <2>1 DEF Remembers
  <2> QED BY <2>1, <2>2 DEF Restorable
<1> QED BY <1>1, <1>2, <1>3, <1>4, <1>5, <1>6 DEF IInv

-----------------------------------------------------------------------------
(* The steps. *)

\* Two stacks that agree on the frames below f.
LEMMA SameBelow ==
  ASSUME NEW S, NEW a \in Seq(S), NEW b \in Seq(S), NEW f \in Nat,
         f <= Len(a), f <= Len(b), \A i \in 1 .. f : a[i] = b[i]
  PROVE  SubSeq(a, 1, f) = SubSeq(b, 1, f)
<1>1. Len(a) \in Nat /\ Len(b) \in Nat
  BY LenProperties
<1> DEFINE g == SubSeq(a, 1, f)
           h == SubSeq(b, 1, f)
<1>2. (\A i \in 1 .. f : a[i] \in S) /\ (\A i \in 1 .. f : b[i] \in S)
  BY <1>1, ElementOfSeq
<1>3. /\ g \in Seq(S) /\ Len(g) = IF 1 <= f THEN f - 1 + 1 ELSE 0
      /\ \A i \in 1 .. f - 1 + 1 : g[i] = a[1 + i - 1]
  BY <1>2, SubSeqProperties
<1>4. /\ h \in Seq(S) /\ Len(h) = IF 1 <= f THEN f - 1 + 1 ELSE 0
      /\ \A i \in 1 .. f - 1 + 1 : h[i] = b[1 + i - 1]
  BY <1>2, SubSeqProperties
<1> HIDE DEF g, h
<1>5. Len(g) = f /\ Len(h) = f
  BY <1>3, <1>4
<1>6. ASSUME NEW i \in 1 .. f PROVE g[i] = h[i]
  <2>1. i \in 1 .. f - 1 + 1 /\ 1 + i - 1 = i OBVIOUS
  <2> QED BY <1>3, <1>4, <2>1
<1>7. g = h
  BY <1>3, <1>4, <1>5, <1>6, SeqEqual
<1> QED BY <1>7 DEF g, h

\* Frames popped down to the n-th: the ones below the floor are still there.
LEMMA PoppedKeeps ==
  ASSUME FramesInv, NEW n \in 1 .. Len(stack), floor <= n
  PROVE  SubSeq(SubSeq(stack, 1, n), 1, floor - 1) = SubSeq(stack, 1, floor - 1)
<1> DEFINE D == Frame \cup {Pending}
           r == SubSeq(stack, 1, n)
<1>1. stack \in Seq(D) /\ Len(stack) \in Nat /\ floor \in Nat \ {0} /\ n \in Nat
  BY DEF FramesInv, StackInv, WellBuilt
<1> HIDE DEF D
<1>2. r \in Seq(D) /\ Len(r) = n /\ \A i \in 1 .. n : r[i] = stack[i]
  BY <1>1, SubSeqProperties
<1> HIDE DEF r
<1>3. floor - 1 \in Nat /\ floor - 1 <= Len(r) /\ floor - 1 <= Len(stack)
  BY <1>1, <1>2
<1>4. \A i \in 1 .. floor - 1 : r[i] = stack[i]
  BY <1>1, <1>2
<1>5. SubSeq(r, 1, floor - 1) = SubSeq(stack, 1, floor - 1)
  BY <1>1, <1>2, <1>3, <1>4, SameBelow
<1> QED BY <1>5 DEF r

\* A nested call ends, in whatever way.
LEMMA LeaveStep ==
  ASSUME IInv, calls # <<>>, Leave
  PROVE  /\ Here' \in Context /\ Restorable'
         /\ calls' \in Seq(Saved) /\ calls' # calls
         /\ StackInv(stack, current, floor', calls')
         /\ floor' \in 1 .. floor - 1
<1>1. Here \in Context /\ calls \in Seq(Saved)
  BY DEF IInv
<1>2. PICK s \in Seq(Context) : Remembers(s, calls, Here)
  BY DEF IInv, Restorable
<1>3. calls' = Front(calls) /\ floor' = Last(calls).floor
  BY DEF Leave
<1>4. Here' = RestoredTo(Here, Last(calls))
  BY DEF Leave, SwapOut, Here, RestoredTo, dataVars
<1>5. /\ Front(s) \in Seq(Context)
      /\ Remembers(Front(s), Front(calls), RestoredTo(Here, Last(calls)))
      /\ RestoredTo(Here, Last(calls)) \in Context
  BY <1>1, <1>2, RememberLeave
<1>6. Restorable'
  BY <1>3, <1>4, <1>5 DEF Restorable
<1>7. /\ StackInv(stack, current, Last(calls).floor, Front(calls))
      /\ Last(calls).floor \in 1 .. floor - 1
      /\ Front(calls) \in Seq(Saved) /\ Len(Front(calls)) = Len(calls) - 1
      /\ Len(calls) \in Nat \ {0}
  BY <1>1, LeaveCall DEF IInv, FramesInv
<1>8. calls' # calls
  BY <1>3, <1>7
<1> QED BY <1>3, <1>4, <1>5, <1>6, <1>7, <1>8

\* An exception, handled or not, stays at or above the floor.
LEMMA RaisedStep ==
  ASSUME IInv, NEW kind \in {"nil", "other"}, Raised(kind)
  PROVE  /\ StackInv(stack', current', floor, calls)
         /\ SubSeq(stack', 1, floor - 1) = SubSeq(stack, 1, floor - 1)
         /\ pc' \in Pc
         /\ error' \in {None, "nil", "other"}
         /\ outcome' \in {"running", "ok", "fault"}
<1>0. StackInv(stack, current, floor, calls) /\ Flags /\ calls \in Seq(Saved)
  BY DEF IInv, FramesInv
<1>1. /\ WellBuilt(stack) /\ current \in 1 .. Len(stack) /\ Len(stack) \in Nat
      /\ floor \in 1 .. current /\ current \in DOMAIN stack
      /\ DOMAIN stack = 1 .. Len(stack)
  BY <1>0, LenProperties DEF StackInv, WellBuilt
<1>2. Len(calls) \in Nat
  BY <1>0, LenProperties
<1>3. CASE Handling = {} /\ UNCHANGED <<frameVars, pc>>
           /\ error' \in {error, kind} /\ outcome' \in {outcome, "fault"}
  BY <1>0, <1>3 DEF Flags, frameVars
<1>4. CASE \E k \in Handling :
             /\ stack' = Unwound(k) /\ current' = k /\ pc' \in Pc
             /\ error' = None /\ UNCHANGED outcome
  <2>1. PICK k \in Handling :
             /\ stack' = Unwound(k) /\ current' = k /\ pc' \in Pc
             /\ error' = None /\ UNCHANGED outcome
    BY <1>4
  <2>2. k \in Active /\ k >= floor
    BY DEF Handling, Walked
  <2>3. outcome' \in {"running", "ok", "fault"}
    BY <1>0, <2>1 DEF Flags
  <2>4. CASE k = current
    <3>1. stack' = stack /\ current' = current BY <2>1, <2>4 DEF Unwound
    <3> QED BY <1>0, <2>1, <2>3, <3>1
  <2>5. CASE k # current
    <3> DEFINE j == CalleeOf(k)
    <3>1. stack' = SubSeq(stack, 1, j - 1) BY <2>1, <2>5 DEF Unwound
    <3>2. j \in DOMAIN stack /\ stack[k] # Pending /\ k < j
      BY <1>1, <2>2, <2>5, ActiveHasCallee
    <3>3. k \in DOMAIN stack BY <2>2 DEF Active
    <3> HIDE DEF j
    <3>4. j - 1 \in 1 .. Len(stack) /\ k \in 1 .. j - 1 /\ floor <= k /\ floor <= j - 1
      BY <1>1, <2>2, <3>2, <3>3
    <3>5. StackInv(SubSeq(stack, 1, j - 1), k, floor, calls)
      BY <1>0, <1>2, <3>2, <3>4, Truncate
    <3>6. SubSeq(SubSeq(stack, 1, j - 1), 1, floor - 1) = SubSeq(stack, 1, floor - 1)
      BY <1>0, <3>4, PoppedKeeps DEF FramesInv
    <3> QED BY <2>1, <2>3, <3>1, <3>5, <3>6
  <2> QED BY <2>4, <2>5
<1> QED BY <1>3, <1>4 DEF Raised

\* A step that neither enters nor leaves a call.
LEMMA ContextKept ==
  ASSUME IInv, UNCHANGED <<module, dataVars, floor, calls>>
  PROVE  Here' \in Context /\ Restorable' /\ calls' \in Seq(Saved)
<1>1. Here' = Here /\ calls' = calls
  BY DEF Here, dataVars
<1> QED BY <1>1 DEF IInv, Restorable

\* What the frame on top of the stack becomes when a call activates it.
LEMMA ActivateStep ==
  ASSUME IInv, NEW m \in Module, Activate(m)
  PROVE  /\ StackInv(stack', Len(stack'), floor, calls)
         /\ Len(stack') = Len(stack) /\ current' = Len(stack')
         /\ KeptAbove(stack', Len(stack'))
         /\ floor < Len(stack') /\ floor <= current'
         /\ SubSeq(stack', 1, floor - 1) = SubSeq(stack, 1, floor - 1)
<1>0. StackInv(stack, current, floor, calls) /\ pc \in Pc
  BY DEF IInv, FramesInv, Flags
<1>1. /\ Len(stack) > current /\ Last(stack) = Pending
      /\ stack' = [stack EXCEPT ![Len(stack)] = [owner |-> m, site |-> pc, prev |-> current]]
      /\ current' = Len(stack)
  BY DEF Activate
<1>2. /\ StackInv(stack', Len(stack), floor, calls)
      /\ Len(stack') = Len(stack) /\ KeptAbove(stack', Len(stack))
      /\ \A i \in 1 .. Len(stack) - 1 : stack'[i] = stack[i]
  <2>1. stack' = Activated(stack, m, pc, current) BY <1>1 DEF Activated
  <2>2. Len(stack) > current BY <1>1
  <2>3. StackInv(stack, current, floor, calls) BY <1>0
  <2>4. pc \in Pc BY <1>0
  <2> QED BY ONLY <2>1, <2>2, <2>3, <2>4, m \in Module, ActivateTop
<1>3. /\ stack \in Seq(Frame \cup {Pending}) /\ Len(stack) \in Nat
      /\ current \in 1 .. Len(stack) /\ floor \in 1 .. current
  BY <1>0 DEF StackInv, WellBuilt
<1>4. stack' \in Seq(Frame \cup {Pending})
  BY <1>2 DEF StackInv, WellBuilt
<1>5. floor < Len(stack') /\ floor <= current'
  BY <1>1, <1>2, <1>3
<1>6. SubSeq(stack', 1, floor - 1) = SubSeq(stack, 1, floor - 1)
  <2>1. floor - 1 \in Nat /\ floor - 1 <= Len(stack) /\ floor - 1 <= Len(stack')
    BY <1>2, <1>3
  <2>2. \A i \in 1 .. floor - 1 : stack'[i] = stack[i]
    BY <1>1, <1>2, <1>3
  <2> DEFINE D == Frame \cup {Pending}
  <2>3. stack \in Seq(D) /\ stack' \in Seq(D) BY <1>3, <1>4
  <2> HIDE DEF D
  <2> QED BY <2>1, <2>2, <2>3, SameBelow
<1> QED BY <1>1, <1>2, <1>5, <1>6

\* A module that is entered finds its data at home, or leaves it with the call into it that
\* is going on; the main module finds it with the innermost call it has made.
LEMMA EnterData ==
  ASSUME module \in Module, mp \in Block, home \in [Loaded -> Block],
         parents \in Seq([virt : Module, data : Block]),
         DataInv(module, mp, home, parents), NEW m \in Module, m # module, SwapIn(m)
  PROVE  DataInv(m, mp', home', parents')
<1> DEFINE P == [virt : Module, data : Block]
           k == ParkedMain
           L == Len(parents)
           others == IF m = Main /\ k # 0 THEN [parents EXCEPT ![k].data = None] ELSE parents
<1>1. /\ Module = {Main} \cup Loaded /\ Main \notin Loaded /\ None \notin Module
      /\ Block = Module \cup {None}
  BY CallConstants DEF Module, Block
<1>2. /\ L \in Nat /\ DOMAIN parents = 1 .. L /\ \A n \in 1 .. L : parents[n] \in P
      /\ parents \in Seq(P)
  BY LenProperties, ElementOfSeq
<1>3. /\ k \in Nat /\ (k # 0 => k \in 1 .. L /\ parents[k].virt = Main)
      /\ \A n \in 1 .. L : parents[n].virt = Main => n <= k
  BY ParkedMainFound
<1>4. /\ mp \in {module, None}
      /\ \A l \in Loaded : home[l] \in {l, None}
      /\ \A n \in 1 .. L : parents[n].data \in {parents[n].virt, None}
  BY <1>2 DEF DataInv, InPlace
<1>5. /\ \A l \in Loaded : home[l] # None => home[l] # mp
      /\ \A n \in 1 .. L : parents[n].data # None =>
           /\ parents[n].data # mp
           /\ \A l \in Loaded : home[l] # parents[n].data
           /\ \A j \in 1 .. L : parents[j].data = parents[n].data => j = n
  BY <1>2 DEF DataInv, InOnePlace
<1>6. \A b \in Module : \/ b = mp
                        \/ b \in Loaded /\ home[b] = b
                        \/ \E n \in 1 .. L : parents[n].data = b
  BY <1>2 DEF DataInv, InSomePlace
<1>7. module # Main => k # 0 /\ parents[k].data = Main
  <2> SUFFICES ASSUME module # Main
               PROVE  k # 0 /\ parents[k].data = Main
    OBVIOUS
  <2>1. PICK n \in 1 .. L : /\ parents[n].data = Main
                            /\ \A j \in 1 .. L : j > n => parents[j].virt # Main
    BY <1>2 DEF DataInv, MainAtHand
  <2>2. parents[n].virt = Main
    BY <1>1, <1>4, <2>1
  <2>3. n <= k /\ k \in 1 .. L /\ ~ (k > n)
    BY <1>2, <1>3, <2>1, <2>2
  <2>4. n = k
    BY <1>2, <1>3, <2>3
  <2> QED
    BY <2>1, <2>3, <2>4
<1>8. module = Main => mp = Main
  BY DEF DataInv, MainAtHand
<1>9. /\ mp' = IF m # Main THEN home[m] ELSE Main
      /\ home' = IF m # Main THEN [home EXCEPT ![m] = None] ELSE home
      /\ parents' = Append(others, [virt |-> module, data |-> mp])
  BY <1>1, <1>7 DEF SwapIn
<1>10. /\ others \in Seq(P) /\ Len(others) = L
       /\ \A n \in 1 .. L : /\ others[n].virt = parents[n].virt
                            /\ others[n].data = IF m = Main /\ n = k THEN None
                                                 ELSE parents[n].data
  <2>1. CASE m = Main /\ k # 0
    <3> DEFINE v == [parents[k] EXCEPT !.data = None]
    <3>1. k \in 1 .. L /\ v \in P /\ v.virt = parents[k].virt /\ v.data = None
      BY <1>1, <1>2, <1>3, <2>1
    <3>2. others = [parents EXCEPT ![k] = v]
      BY <2>1
    <3> HIDE DEF k, v, others, P
    <3>3. others \in Seq(P) /\ Len(others) = L
      BY <1>2, <3>1, <3>2, ExceptSeq
    <3>4. \A n \in 1 .. L : others[n] = IF n = k THEN v ELSE parents[n]
      BY <1>2, <3>2
    <3> QED
      BY <2>1, <3>1, <3>3, <3>4
  <2>2. CASE ~ (m = Main /\ k # 0)
    <3>1. others = parents
      BY <2>2
    <3>2. \A n \in 1 .. L : ~ (m = Main /\ n = k)
      BY <1>2, <2>2
    <3> QED
      BY <3>1, <3>2
  <2> QED
    BY <2>1, <2>2
<1> HIDE DEF k, others
<1>11. /\ DOMAIN parents' = 1 .. L + 1
       /\ \A n \in 1 .. L : parents'[n] = others[n]
       /\ parents'[L + 1] = [virt |-> module, data |-> mp]
  <2>1. [virt |-> module, data |-> mp] \in P
    OBVIOUS
  <2> HIDE DEF P
  <2>2. /\ parents' \in Seq(P) /\ Len(parents') = L + 1
        /\ \A n \in 1 .. L : parents'[n] = others[n]
        /\ parents'[L + 1] = [virt |-> module, data |-> mp]
    BY <1>9, <1>10, <2>1, AppendProperties
  <2> QED
    BY <2>2, LenProperties
<1> DEFINE gone(n) == m = Main /\ n = k
<1>12. PICK q :
       /\ q = parents'
       /\ \A n \in 1 .. L : /\ q[n].virt = parents[n].virt
                            /\ gone(n) => q[n].data = None
                            /\ ~ gone(n) => q[n].data = parents[n].data
       /\ q[L + 1].virt = module /\ q[L + 1].data = mp
  BY <1>2, <1>10, <1>11
<1>13. DOMAIN q = 1 .. L + 1 /\ 1 .. L + 1 = (1 .. L) \cup {L + 1} /\ L + 1 \notin 1 .. L
  BY <1>2, <1>11, <1>12
<1>14. \A l \in Loaded : home'[l] = IF l = m THEN None ELSE home[l]
  BY <1>1, <1>9
<1> HIDE DEF L, P
<1>15. InPlace(m, mp', home', q)
  <2>1. mp' \in {m, None}
    BY <1>1, <1>4, <1>9
  <2>2. \A n \in 1 .. L : q[n].data \in {q[n].virt, None}
    BY <1>2, <1>4, <1>12
  <2>3. q[L + 1].data \in {q[L + 1].virt, None}
    BY <1>4, <1>12
  <2>4. m \in Loaded => home'[m] = None
    BY <1>14
  <2> QED
    BY <1>4, <1>12, <1>13, <1>14, <2>1, <2>2, <2>3, <2>4 DEF InPlace
<1>16. m # Main => mp' = home[m] /\ m \in Loaded
  BY <1>1, <1>9
<1>17. m = Main => mp' = Main /\ gone(k) /\ k \in 1 .. L /\ parents[k].data = Main
  BY <1>3, <1>7, <1>9
<1>18. InOnePlace(mp', home', q)
  <2>1. ASSUME NEW l \in Loaded, home'[l] # None
        PROVE  home'[l] # mp'
    BY <1>1, <1>4, <1>14, <1>16, <1>17, <2>1
  <2>2. ASSUME NEW n \in 1 .. L, q[n].data # None
        PROVE  /\ q[n].data = parents[n].data /\ ~ gone(n)
               /\ q[n].data # mp'
               /\ \A l \in Loaded : home'[l] # q[n].data
    <3>1. q[n].data = parents[n].data /\ ~ gone(n)
      BY <1>2, <1>12, <2>2
    <3>2. \A l \in Loaded : home'[l] # q[n].data
      BY <1>5, <1>14, <2>2, <3>1
    <3>3. q[n].data # mp'
      <4>1. CASE m = Main
        <5>1. n # k
          BY <1>17, <3>1, <4>1
        <5> QED
          BY <1>1, <1>5, <1>17, <2>2, <3>1, <4>1, <5>1
      <4>2. CASE m # Main
        BY <1>5, <1>16, <2>2, <3>1, <4>2
      <4> QED
        BY <4>1, <4>2
    <3> QED
      BY <3>1, <3>2, <3>3
  <2>3. ASSUME mp # None
        PROVE  /\ mp # mp'
               /\ \A l \in Loaded : home'[l] # mp
               /\ \A n \in 1 .. L : q[n].data # mp
    <3>1. mp = module /\ mp # mp'
      BY <1>1, <1>4, <1>15, <2>3 DEF InPlace
    <3>2. \A l \in Loaded : home'[l] # mp
      BY <1>5, <1>14, <2>3
    <3>3. \A n \in 1 .. L : q[n].data # mp
      BY <1>2, <1>5, <1>12, <2>3
    <3> QED
      BY <3>1, <3>2, <3>3
  <2>4. ASSUME NEW n \in 1 .. L, NEW j \in 1 .. L, q[n].data # None, q[j].data = q[n].data
        PROVE  j = n
    BY <1>5, <2>2, <2>4
  <2>5. ASSUME NEW n \in 1 .. L + 1, q[n].data # None
        PROVE  /\ q[n].data # mp'
               /\ \A l \in Loaded : home'[l] # q[n].data
               /\ \A j \in 1 .. L + 1 : q[j].data = q[n].data => j = n
    BY <1>12, <1>13, <2>2, <2>3, <2>4, <2>5
  <2> QED
    BY <1>12, <1>13, <2>1, <2>5 DEF InOnePlace
<1>19. InSomePlace(mp', home', q)
  <2> SUFFICES ASSUME NEW b \in Module
               PROVE  \/ b = mp'
                      \/ b \in Loaded /\ home'[b] = b
                      \/ \E n \in 1 .. L + 1 : q[n].data = b
    BY <1>12, <1>13 DEF InSomePlace
  <2>1. CASE b = mp
    BY <1>12, <1>13, <2>1
  <2>2. CASE b \in Loaded /\ home[b] = b
    BY <1>1, <1>14, <1>16, <2>2
  <2>3. ASSUME NEW n \in 1 .. L, parents[n].data = b
        PROVE  b = mp' \/ \E j \in 1 .. L + 1 : q[j].data = b
    <3>1. CASE gone(n)
      BY <1>17, <2>3, <3>1
    <3>2. CASE ~ gone(n)
      BY <1>2, <1>12, <1>13, <2>3, <3>2
    <3> QED
      BY <3>1, <3>2
  <2> QED
    BY <1>6, <2>1, <2>2, <2>3
<1>20. MainAtHand(m, mp', q)
  <2>1. CASE m = Main
    BY <1>17, <2>1 DEF MainAtHand
  <2>2. CASE m # Main /\ module = Main
    <3>1. q[L + 1].data = Main /\ \A j \in 1 .. L + 1 : ~ (j > L + 1)
      BY <1>2, <1>8, <1>12, <1>13, <2>2
    <3> QED
      BY <1>12, <1>13, <2>2, <3>1 DEF MainAtHand
  <2>3. CASE m # Main /\ module # Main
    <3>1. k \in 1 .. L /\ q[k].data = Main
      BY <1>2, <1>3, <1>7, <1>12, <2>3
    <3>2. \A j \in 1 .. L : j > k => q[j].virt # Main
      BY <1>2, <1>3, <1>12
    <3>3. \A j \in 1 .. L + 1 : j > k => q[j].virt # Main
      BY <1>12, <1>13, <2>3, <3>2
    <3> QED
      BY <1>12, <1>13, <2>3, <3>1, <3>3 DEF MainAtHand
  <2> QED
    BY <2>1, <2>2, <2>3
<1> QED
  BY <1>12, <1>15, <1>18, <1>19, <1>20 DEF DataInv

\* A call into m enters a context that leaving it turns back into the caller's.
LEMMA EnterContext ==
  ASSUME IInv, NEW m \in Module, Mcall(m), floor' \in 1 .. MAX_FRAMES
  PROVE  Here' \in Context /\ Restorable' /\ Last(calls') \in Saved
         /\ calls' = Append(calls, Last(calls')) /\ Last(calls').floor = floor
<1> DEFINE P == [virt : Module, data : Block]
           c == [callee |-> m, entering |-> m # module, slot |-> ParkedMain,
                 module |-> module, pc |-> pc, floor |-> floor]
           left == IF m # Main \/ ParkedMain # 0 THEN mp ELSE None
           others == IF m = Main /\ ParkedMain # 0
                     THEN [parents EXCEPT ![ParkedMain].data = None] ELSE parents
           e == [virt |-> module, data |-> left]
<1>1. /\ module \in Module /\ mp \in Block /\ home \in [Loaded -> Block]
      /\ parents \in Seq(P) /\ floor \in 1 .. MAX_FRAMES
      /\ calls \in Seq(Saved) /\ pc \in Pc /\ Here \in Context
  BY HereTyped DEF IInv, Flags
<1>2. ParkedMain \in Nat /\ (ParkedMain # 0 => ParkedMain \in 1 .. Len(parents))
  BY <1>1, ParkedMainFound
<1>3. c \in Saved
  BY <1>1, <1>2 DEF Saved
<1>4. calls' = Append(calls, c) /\ module' = m
  BY DEF Mcall
<1>5. Last(calls') = c
  <2> HIDE DEF c
  <2> QED BY <1>1, <1>3, <1>4, AppendProperties DEF Last
<1>6. m = module => UNCHANGED dataVars
  BY DEF Mcall
<1>7. m # module => SwapIn(m)
  BY DEF Mcall
<1>8. Block = Module \cup {None} /\ Module = {Main} \cup Loaded /\ Main \notin Loaded
  BY CallConstants DEF Block, Module
<1>9. Len(parents) \in Nat /\ DOMAIN parents = 1 .. Len(parents)
  BY <1>1, LenProperties
<1>10. \A i \in 1 .. Len(parents) : parents[i] \in P
  BY <1>1, ElementOfSeq
<1>11. others \in Seq(P) /\ e \in P
  <2>1. left \in Block BY <1>1, <1>8
  <2>2. e \in P BY <1>1, <2>1
  <2>3. CASE m = Main /\ ParkedMain # 0
    <3> DEFINE k == ParkedMain
               v == [parents[k] EXCEPT !.data = None]
    <3>1. k \in 1 .. Len(parents) BY <1>2, <2>3
    <3>2. v \in P
      <4>1. parents[k] \in P BY <1>10, <3>1
      <4> QED BY <1>8, <4>1
    <3>3. others = [parents EXCEPT ![k] = v] BY <2>3
    <3> HIDE DEF k, v, others, P
    <3> QED BY <1>1, <2>2, <3>1, <3>2, <3>3, ExceptSeq
  <2>4. CASE ~(m = Main /\ ParkedMain # 0) BY <1>1, <2>2, <2>4
  <2> QED BY <2>3, <2>4
<1>12. m # module => parents' = Append(others, e)
  BY <1>7 DEF SwapIn
<1>13. m # module => /\ parents' \in Seq(P) /\ parents' # <<>>
                     /\ Last(parents') = e /\ Front(parents') = others
  <2> SUFFICES ASSUME m # module
               PROVE  /\ parents' \in Seq(P) /\ parents' # <<>>
                      /\ Last(parents') = e /\ Front(parents') = others
    OBVIOUS
  <2> HIDE DEF e, others, P
  <2>1. parents' = Append(others, e) BY <1>12
  <2>2. /\ parents' \in Seq(P) /\ parents' # <<>> /\ Len(parents') = Len(others) + 1
        /\ \A i \in 1 .. Len(others) : parents'[i] = others[i]
        /\ parents'[Len(others) + 1] = e
    BY <1>11, <2>1, AppendProperties
  <2>3. /\ Front(parents') \in Seq(P) /\ Len(Front(parents')) = Len(parents') - 1
        /\ \A i \in 1 .. Len(parents') - 1 : Front(parents')[i] = parents'[i]
        /\ Last(parents') = parents'[Len(parents')]
    BY <2>2, FrontProperties
  <2>4. Len(others) \in Nat BY <1>11, LenProperties
  <2>5. Len(Front(parents')) = Len(others) BY <2>2, <2>3, <2>4
  <2>6. \A i \in 1 .. Len(others) : Front(parents')[i] = others[i]
    BY <2>2, <2>3, <2>4
  <2>7. Front(parents') = others BY <1>11, <2>3, <2>5, <2>6, SeqEqual
  <2>8. Last(parents') = e BY <2>2, <2>3
  <2> QED BY <2>2, <2>7, <2>8
<1>14. Here' \in Context
  <2>1. CASE m = module
    <3>1. DataInv(module', mp', home', parents')
      BY <1>1, <1>4, <1>6, <2>1, HereTyped DEF dataVars
    <3> QED BY <1>1, <1>4, <1>6, <2>1, <3>1 DEF Here, Context, Contexts, dataVars
  <2>2. CASE m # module
    <3>1. parents' \in Seq(P) BY <1>13, <2>2
    <3>2. mp' \in Block
      <4>1. CASE m # Main BY <1>1, <1>7, <1>8, <2>2, <4>1 DEF SwapIn
      <4>2. CASE m = Main /\ ParkedMain # 0
        <5>1. parents[ParkedMain] \in P BY <1>2, <1>10, <4>2
        <5> QED BY <1>7, <2>2, <4>2, <5>1 DEF SwapIn
      <4>3. CASE m = Main /\ ParkedMain = 0 BY <1>1, <1>7, <2>2, <4>3 DEF SwapIn
      <4> QED BY <4>1, <4>2, <4>3
    <3>3. home' \in [Loaded -> Block]
      <4>1. None \in Block BY <1>8
      <4> QED BY <1>1, <1>7, <2>2, <4>1 DEF SwapIn
    <3>4. DataInv(module', mp', home', parents')
      BY <1>1, <1>4, <1>7, <2>2, HereTyped, EnterData
    <3> QED BY <1>4, <3>1, <3>2, <3>3, <3>4 DEF Here, Context, Contexts
  <2> QED BY <2>1, <2>2
<1>15. RestoredTo(Here', c) = Here
  <2> DEFINE x == [module |-> module', mp |-> mp', home |-> home', parents |-> parents', floor |-> floor']
  <2>0. Here' = x BY DEF Here
  <2>1. CASE m = module
    BY <1>6, <2>0, <2>1 DEF RestoredTo, Here, dataVars
  <2>2. CASE m # module /\ m # Main
    <3>1. m \in Loaded BY <1>8, <2>2
    <3>2. mp' = home[m] /\ home' = [home EXCEPT ![m] = None] /\ Last(parents').data = mp
          /\ Front(parents') = parents
      BY <1>7, <1>13, <2>2 DEF SwapIn
    <3>3. [home' EXCEPT ![m] = mp'] = home
      BY <1>1, <3>1, <3>2
    <3> QED BY <2>0, <2>2, <3>2, <3>3 DEF RestoredTo, Here
  <2>3. CASE m # module /\ m = Main /\ ParkedMain = 0
    <3>1. mp' = mp /\ home' = home /\ Front(parents') = parents
      BY <1>7, <1>13, <2>3 DEF SwapIn
    <3> QED BY <2>0, <2>3, <3>1 DEF RestoredTo, Here
  <2>4. CASE m # module /\ m = Main /\ ParkedMain # 0
    <3> DEFINE k == ParkedMain
    <3>1. mp' = parents[k].data /\ home' = home /\ Last(parents').data = mp
          /\ Front(parents') = [parents EXCEPT ![k].data = None]
      BY <1>7, <1>13, <2>4 DEF SwapIn
    <3>2. k \in 1 .. Len(parents) /\ parents[k] \in P BY <1>2, <1>10, <2>4
    <3>3. [Front(parents') EXCEPT ![k].data = mp'] = parents
      <4> HIDE DEF k
      <4> DEFINE t == [parents EXCEPT ![k].data = None]
                 u == [t EXCEPT ![k].data = parents[k].data]
      <4>1. parents \in [1 .. Len(parents) -> P] BY <1>1, LenProperties
      <4>2. [[parents[k] EXCEPT !.data = None] EXCEPT !.data = parents[k].data] = parents[k]
        BY <3>2
      <4>3. u = parents BY <3>2, <4>1, <4>2
      <4> QED BY <3>1, <4>3
    <3> QED BY <2>0, <2>4, <3>1, <3>3 DEF RestoredTo, Here
  <2> QED BY <2>1, <2>2, <2>3, <2>4
<1>16. Restorable'
  <2> HIDE DEF c, P, left, others, e
  <2>1. PICK s \in Seq(Context) : Remembers(s, calls, Here) BY DEF IInv, Restorable
  <2>2. Remembers(Append(s, Here'), calls', Here')
    BY <1>1, <1>3, <1>4, <1>14, <1>15, <2>1, RememberEnter
  <2>3. Append(s, Here') \in Seq(Context) BY <1>14, <2>1, AppendProperties
  <2> QED BY <2>2, <2>3 DEF Restorable
<1>17. c.floor = floor OBVIOUS
<1> QED BY <1>3, <1>4, <1>5, <1>14, <1>16, <1>17

\* ret: the frame popped returns to one that the floor, the old one or that of the call
\* it ends, does not reach.
LEMMA RetPops ==
  ASSUME IInv, stack[current].site # None
  PROVE  LET below == stack[current].prev
             popped == SubSeq(stack, 1, current - 1)
         IN  /\ ~BelowCall(below) => /\ StackInv(popped, below, floor, calls)
                                     /\ SubSeq(popped, 1, floor - 1) = SubSeq(stack, 1, floor - 1)
                                     /\ below >= floor
             /\ \A f \in 1 .. floor - 1, cs \in Seq(Saved) :
                  StackInv(stack, current, f, cs) => StackInv(popped, below, f, cs)
<1> DEFINE below == stack[current].prev
           popped == SubSeq(stack, 1, current - 1)
<1>0. StackInv(stack, current, floor, calls) /\ calls \in Seq(Saved)
  BY DEF IInv, FramesInv
<1>1. /\ WellBuilt(stack) /\ current \in 1 .. Len(stack) /\ Len(stack) \in Nat
      /\ floor \in 1 .. current /\ stack[current] # Pending
  BY <1>0 DEF StackInv, WellBuilt
<1>2. current # 1
  BY <1>1 DEF WellBuilt, Entry
<1>3. current \in 2 .. Len(stack)
  BY <1>1, <1>2
<1>4. below \in 1 .. current - 1 /\ stack[below] # Pending
  BY <1>1, <1>3 DEF WellBuilt
<1> HIDE DEF below
<1>5. current - 1 \in 1 .. Len(stack) /\ below \in Nat
  BY <1>3, <1>4
<1>6. ASSUME NEW f, NEW cs \in Seq(Saved), StackInv(stack, current, f, cs), f <= below
      PROVE  StackInv(popped, below, f, cs)
  <2>1. Len(cs) \in Nat BY LenProperties
  <2> QED BY <1>4, <1>5, <1>6, <2>1, Truncate
<1>7. ASSUME ~BelowCall(below)
      PROVE  /\ StackInv(popped, below, floor, calls)
             /\ SubSeq(popped, 1, floor - 1) = SubSeq(stack, 1, floor - 1)
             /\ below >= floor
  <2>1. below >= floor
    <3>1. CASE calls = <<>>
      <4>1. floor = 1 BY <3>1, IInvContext DEF ContextIsRestored
      <4> QED BY <1>4, <4>1
    <3>2. CASE calls # <<>>
      BY <1>1, <1>5, <1>7, <3>2 DEF BelowCall
    <3> QED BY <3>1, <3>2
  <2>2. floor <= below /\ floor <= current - 1 BY <1>1, <1>3, <1>4, <2>1
  <2>3. StackInv(popped, below, floor, calls) BY <1>0, <1>6, <2>2
  <2>4. SubSeq(popped, 1, floor - 1) = SubSeq(stack, 1, floor - 1)
    BY <1>0, <1>5, <2>2, PoppedKeeps DEF FramesInv
  <2> QED BY <2>1, <2>3, <2>4
<1>8. ASSUME NEW f \in 1 .. floor - 1, NEW cs \in Seq(Saved), StackInv(stack, current, f, cs)
      PROVE  StackInv(popped, below, f, cs)
  <2>1. KeptAbove(stack, f) BY <1>8 DEF StackInv
  <2>2. current \in f + 1 .. Len(stack) BY <1>1
  <2>3. below >= f BY <1>1, <2>1, <2>2 DEF KeptAbove, below
  <2>4. f <= below BY <1>5, <2>3
  <2> QED BY <1>6, <1>8, <2>4
<1> QED BY <1>7, <1>8 DEF below

\* One step of the interpreter.
LEMMA NextIInv ==
  ASSUME IInv, Next
  PROVE  /\ IInv'
         /\ Interpreting /\ calls' = calls =>
              /\ current' >= floor
              /\ SubSeq(stack', 1, floor - 1) = SubSeq(stack, 1, floor - 1)
<1> DEFINE Good ==
      /\ Here' \in Context /\ Restorable' /\ calls' \in Seq(Saved)
      /\ StackInv(stack', current', floor', calls')
      /\ Flags'
      /\ Interpreting /\ calls' = calls =>
           /\ current' >= floor
           /\ SubSeq(stack', 1, floor - 1) = SubSeq(stack, 1, floor - 1)
<1> SUFFICES Good
  BY DEF IInv, FramesInv
<1>0. /\ StackInv(stack, current, floor, calls) /\ Flags /\ calls \in Seq(Saved)
      /\ Here \in Context
      /\ current \in Nat /\ floor \in Nat /\ current >= floor
  <2>1. StackInv(stack, current, floor, calls) /\ Flags /\ calls \in Seq(Saved)
        /\ Here \in Context
    BY DEF IInv, FramesInv
  <2>2. current \in 1 .. Len(stack) /\ floor \in 1 .. current /\ Len(stack) \in Nat
    BY <2>1, LenProperties DEF StackInv, WellBuilt
  <2> QED BY <2>1, <2>2
<1>1. ASSUME UNCHANGED <<module, dataVars, frameVars, floor, calls>>, Flags' PROVE Good
  BY <1>0, <1>1, ContextKept DEF frameVars
<1>2. CASE Other
  BY <1>0, <1>1, <1>2 DEF Other, Flags
<1>3. CASE Fault
  BY <1>0, <1>1, <1>3 DEF Fault, Flags
<1>4. CASE Returned
  BY <1>0, <1>1, <1>4 DEF Returned, vars, Flags
<1>5. CASE AllocFrame
  <2>1. CASE Len(stack) < MAX_FRAMES
    <3>1. /\ stack' = Append(stack, Pending) /\ current' = current
          /\ UNCHANGED <<module, dataVars, floor, calls>>
      BY <1>5, <2>1 DEF AllocFrame
    <3>2. StackInv(stack', current', floor', calls')
      BY <1>0, <2>1, <3>1, PushPending
    <3>3. Flags' BY <1>0, <1>5, <2>1 DEF AllocFrame, Flags
    <3>4. SubSeq(stack', 1, floor - 1) = SubSeq(stack, 1, floor - 1)
      <4> DEFINE D == Frame \cup {Pending}
      <4>1. stack \in Seq(D) /\ Pending \in D /\ floor \in 1 .. Len(stack) /\ Len(stack) \in Nat
        BY <1>0 DEF StackInv, WellBuilt
      <4> HIDE DEF D
      <4>2. /\ stack' \in Seq(D) /\ Len(stack') = Len(stack) + 1
            /\ \A i \in 1 .. Len(stack) : stack'[i] = stack[i]
        BY <3>1, <4>1, AppendProperties
      <4>3. floor - 1 \in Nat /\ floor - 1 <= Len(stack) /\ floor - 1 <= Len(stack')
        BY <4>1, <4>2
      <4>4. \A i \in 1 .. floor - 1 : stack'[i] = stack[i] BY <4>1, <4>2
      <4> QED BY <4>1, <4>2, <4>3, <4>4, SameBelow
    <3> QED BY <1>0, <3>1, <3>2, <3>3, <3>4, ContextKept
  <2>2. CASE ~(Len(stack) < MAX_FRAMES)
    BY <1>0, <1>1, <1>5, <2>2 DEF AllocFrame, Flags, frameVars
  <2> QED BY <2>1, <2>2
<1>6. CASE Call
  <2>1. module \in Module BY <1>0, HereTyped
  <2>2. Activate(module) /\ UNCHANGED <<module, dataVars, floor, calls>>
    BY <1>6 DEF Call
  <2>3. /\ StackInv(stack', Len(stack'), floor, calls) /\ current' = Len(stack')
        /\ floor <= current'
        /\ SubSeq(stack', 1, floor - 1) = SubSeq(stack, 1, floor - 1)
    BY <2>1, <2>2, ActivateStep
  <2>4. StackInv(stack', current', floor', calls') BY <2>2, <2>3
  <2>5. Flags' BY <1>0, <1>6 DEF Call, Flags
  <2>6. current' >= floor BY <2>3
  <2> QED BY <2>2, <2>3, <2>4, <2>5, <2>6, ContextKept
<1>7. CASE \E m \in Module : Mcall(m)
  <2>1. PICK m \in Module : Mcall(m) BY <1>7
  <2>2. Activate(m) /\ floor' = Len(stack) BY <2>1 DEF Mcall
  <2>3. /\ StackInv(stack', Len(stack'), floor, calls)
        /\ Len(stack') = Len(stack) /\ current' = Len(stack')
        /\ KeptAbove(stack', Len(stack')) /\ floor < Len(stack')
    BY <2>2, ActivateStep
  <2>4. Len(stack) \in 1 .. MAX_FRAMES BY <1>0 DEF StackInv, WellBuilt
  <2>5. Here' \in Context /\ Restorable' /\ Last(calls') \in Saved
        /\ calls' = Append(calls, Last(calls')) /\ Last(calls').floor = floor
    BY <2>1, <2>2, <2>4, EnterContext
  <2>6. StackInv(stack', Len(stack'), Len(stack'), Append(calls, Last(calls')))
    BY <1>0, <2>3, <2>5, EnterCall
  <2>7. StackInv(stack', current', floor', calls') BY <2>2, <2>3, <2>5, <2>6
  <2>8. calls' \in Seq(Saved) /\ calls' # calls
    <3>1. /\ Append(calls, Last(calls')) \in Seq(Saved)
          /\ Len(Append(calls, Last(calls'))) = Len(calls) + 1
          /\ Len(calls) \in Nat
      BY <1>0, <2>5, AppendProperties, LenProperties
    <3>2. Len(calls') = Len(calls) + 1 BY <2>5, <3>1
    <3>3. Len(calls') # Len(calls) BY <3>1, <3>2
    <3> QED BY <2>5, <3>1, <3>3
  <2>9. Flags' BY <1>0, <2>1 DEF Mcall, Flags
  <2> QED BY <2>5, <2>7, <2>8, <2>9
<1>8. CASE Ret
  <2> DEFINE below == stack[current].prev
             popped == SubSeq(stack, 1, current - 1)
  <2>1. CASE stack[current].site = None
    BY <1>0, <1>1, <1>8, <2>1 DEF Ret, Flags
  <2>2. CASE stack[current].site # None
    <3>1. /\ stack' = popped /\ current' = below /\ pc' \in Pc
          /\ UNCHANGED <<outcome, error, abandoned>>
          /\ IF BelowCall(current') THEN Leave ELSE UNCHANGED <<module, dataVars, floor, calls>>
      BY <1>8, <2>2 DEF Ret
    <3>2. Flags' BY <1>0, <3>1 DEF Flags
    <3>3. /\ ~BelowCall(below) => /\ StackInv(popped, below, floor, calls)
                                  /\ SubSeq(popped, 1, floor - 1) = SubSeq(stack, 1, floor - 1)
                                  /\ below >= floor
          /\ \A f \in 1 .. floor - 1, cs \in Seq(Saved) :
               StackInv(stack, current, f, cs) => StackInv(popped, below, f, cs)
      BY <2>2, RetPops
    <3> HIDE DEF below, popped
    <3>4. CASE BelowCall(below)
      <4>1. calls # <<>> /\ Leave BY <3>1, <3>4 DEF BelowCall
      <4>2. /\ Here' \in Context /\ Restorable'
            /\ calls' \in Seq(Saved) /\ calls' # calls
            /\ StackInv(stack, current, floor', calls')
            /\ floor' \in 1 .. floor - 1
        BY <4>1, LeaveStep
      <4>3. StackInv(stack', current', floor', calls') BY <3>1, <3>3, <4>2
      <4> QED BY <3>2, <4>2, <4>3
    <3>5. CASE ~BelowCall(below)
      <4>1. UNCHANGED <<module, dataVars, floor, calls>> BY <3>1, <3>5
      <4>2. StackInv(stack', current', floor', calls') BY <3>1, <3>3, <3>5, <4>1
      <4>3. current' >= floor /\ SubSeq(stack', 1, floor - 1) = SubSeq(stack, 1, floor - 1)
        BY <3>1, <3>3, <3>5
      <4> QED BY <3>2, <4>1, <4>2, <4>3, ContextKept
    <3> QED BY <3>4, <3>5
  <2> QED BY <2>1, <2>2
<1>9. ASSUME calls # <<>>, Leave, UNCHANGED frameVars, Flags' PROVE Good
  <2>1. /\ Here' \in Context /\ Restorable'
        /\ calls' \in Seq(Saved) /\ calls' # calls
        /\ StackInv(stack, current, floor', calls')
    BY <1>9, LeaveStep
  <2>2. StackInv(stack', current', floor', calls') BY <1>9, <2>1 DEF frameVars
  <2> QED BY <1>9, <2>1, <2>2
<1>10. CASE Exit
  <2>1. CASE calls = <<>> /\ outcome' = "ok"
             /\ UNCHANGED <<module, pc, dataVars, floor, calls, abandoned>>
    BY <1>0, <1>1, <1>10, <2>1 DEF Exit, Flags
  <2>2. CASE calls # <<>> /\ Leave /\ pc' \in Pc /\ UNCHANGED outcome
             /\ abandoned' = abandoned \cup {"exit"}
    <3>1. Flags' /\ UNCHANGED frameVars BY <1>0, <1>10, <2>2 DEF Exit, Flags
    <3> QED BY <1>9, <2>2, <3>1
  <2> QED BY <1>10, <2>1, <2>2 DEF Exit
<1>11. CASE Propagate
  <2>1. calls # <<>> /\ Leave /\ UNCHANGED frameVars BY <1>11 DEF Propagate
  <2>2. Flags'
    <3>1. Last(calls) \in Saved BY <1>0, <2>1, FrontProperties
    <3>2. Last(calls).pc \in Pc BY <3>1 DEF Saved
    <3> QED BY <1>0, <1>11, <3>2 DEF Propagate, Flags
  <2> QED BY <1>9, <2>1, <2>2
<1>12. ASSUME NEW kind \in {"nil", "other"}, Raised(kind),
              UNCHANGED <<module, dataVars, floor, calls, abandoned>>
       PROVE  Good
  <2>1. /\ StackInv(stack', current', floor, calls)
        /\ SubSeq(stack', 1, floor - 1) = SubSeq(stack, 1, floor - 1)
        /\ pc' \in Pc
        /\ error' \in {None, "nil", "other"}
        /\ outcome' \in {"running", "ok", "fault"}
    BY <1>12, RaisedStep
  <2>2. Flags' BY <1>0, <1>12, <2>1 DEF Flags
  <2>3. current' >= floor
    <3>1. current' \in 1 .. Len(stack') /\ floor \in 1 .. current' /\ Len(stack') \in Nat
      BY <2>1, LenProperties DEF StackInv, WellBuilt
    <3> QED BY <3>1
  <2>4. StackInv(stack', current', floor', calls') BY <1>12, <2>1
  <2> QED BY <1>12, <2>1, <2>2, <2>3, <2>4, ContextKept
<1>13. CASE Raise
  BY <1>12, <1>13 DEF Raise
<1>14. CASE RunMatches
  <2>1. CASE error = "nil"
    BY <1>12, <1>14, <2>1 DEF RunMatches
  <2>2. CASE error # "nil"
    BY <1>0, <1>1, <1>14, <2>2 DEF RunMatches, Flags
  <2> QED BY <2>1, <2>2
<1> QED
  BY <1>2, <1>3, <1>4, <1>5, <1>6, <1>7, <1>8, <1>10, <1>11, <1>13, <1>14 DEF Next

-----------------------------------------------------------------------------
(* Whose code runs on a frame, as long as every nested call comes back. *)

\* Where the frames of nested calls begin.
LEMMA FloorsInOrder ==
  ASSUME NEW st, NEW cu, NEW fl, NEW cs \in Seq(Saved), StackInv(st, cu, fl, cs)
  PROVE  /\ Len(st) \in Nat /\ fl \in Nat /\ fl <= Len(st) /\ Len(cs) \in Nat
         /\ \A n \in 1 .. Len(cs) : cs[n].floor \in 1 .. fl - 1
<1>1. Len(st) \in 1 .. MAX_FRAMES /\ cu \in 1 .. Len(st) /\ fl \in 1 .. cu
  BY DEF StackInv, WellBuilt
<1>2. Len(st) \in Nat
  BY <1>1
<1>3. fl \in Nat /\ fl <= Len(st)
  BY <1>1, <1>2
<1>4. \A n \in 1 .. Len(cs) : cs[n].floor \in 1 .. fl - 1
  BY DEF StackInv
<1> QED
  BY <1>2, <1>3, <1>4, LenProperties

\* Every frame in use of stack st is one of stack su.
FramesOf(st, su) ==
  \A j \in 1 .. Len(st) :
    st[j] # Pending => j \in 1 .. Len(su) /\ su[j] # Pending /\ st[j].owner = su[j].owner

\* Popping frames, and allocating one, changes no owner.
LEMMA OwnersStay ==
  ASSUME NEW cu, NEW fl, NEW mo, NEW cs \in Seq(Saved), NEW su, StackInv(su, cu, fl, cs),
         OwnersInv(su, fl, mo, cs), NEW st, Len(st) \in Nat, fl - 1 <= Len(st), FramesOf(st, su)
  PROVE  OwnersInv(st, fl, mo, cs)
<1>1. /\ Len(su) \in Nat /\ fl \in Nat /\ Len(cs) \in Nat
      /\ \A n \in 1 .. Len(cs) : cs[n].floor \in 1 .. fl - 1
  BY FloorsInOrder
<1>2. BuiltFor(st, fl, Len(st), mo)
  <2> SUFFICES ASSUME NEW j \in fl .. Len(st), st[j] # Pending
               PROVE  st[j].owner = mo
    BY DEF BuiltFor
  <2>1. j \in 1 .. Len(st) \/ j = 0
    BY <1>1
  <2>2. fl # 0
    BY DEF StackInv
  <2>3. j \in 1 .. Len(st)
    BY <1>1, <2>1, <2>2
  <2>4. j \in 1 .. Len(su) /\ su[j] # Pending /\ st[j].owner = su[j].owner
    BY <2>3 DEF FramesOf
  <2>5. j \in fl .. Len(su)
    BY <1>1, <2>3, <2>4
  <2> QED
    BY <2>4, <2>5 DEF OwnersInv, BuiltFor
<1>3. ASSUME NEW n \in 1 .. Len(cs)
      PROVE  BuiltFor(st, cs[n].floor, (IF n < Len(cs) THEN cs[n + 1].floor ELSE fl) - 1,
                      cs[n].module)
  <2> DEFINE b == (IF n < Len(cs) THEN cs[n + 1].floor ELSE fl) - 1
  <2>1. BuiltFor(su, cs[n].floor, b, cs[n].module)
    BY DEF OwnersInv
  <2>2. n < Len(cs) => n + 1 \in 1 .. Len(cs)
    BY <1>1
  <2>3. b \in Int /\ b <= fl - 1
    BY <1>1, <2>2
  <2> HIDE DEF b
  <2>4. cs[n].floor \in 1 .. fl - 1
    BY <1>1
  <2>5. \A j \in cs[n].floor .. b : j \in 1 .. Len(st)
    BY <1>1, <2>3, <2>4
  <2>6. BuiltFor(st, cs[n].floor, b, cs[n].module)
    BY <2>1, <2>5 DEF BuiltFor, FramesOf
  <2> QED
    BY <2>6 DEF b
<1> QED
  BY <1>2, <1>3 DEF OwnersInv

\* The frames that are left of a stack, or that it has with one allocated.
LEMMA CutFrames ==
  ASSUME NEW S, NEW su \in Seq(S), NEW n \in Nat, n <= Len(su)
  PROVE  /\ FramesOf(SubSeq(su, 1, n), su) /\ Len(SubSeq(su, 1, n)) = n
         /\ \A j \in 1 .. n : SubSeq(su, 1, n)[j] = su[j]
<1> DEFINE st == SubSeq(su, 1, n)
<1>1. Len(su) \in Nat /\ \A i \in 1 .. n : su[i] \in S
  BY LenProperties, ElementOfSeq
<1>2. /\ Len(st) = IF 1 <= n THEN n - 1 + 1 ELSE 0
      /\ \A i \in 1 .. n - 1 + 1 : st[i] = su[1 + i - 1]
  BY <1>1, SubSeqProperties
<1> HIDE DEF st
<1>3. Len(st) = n /\ \A i \in 1 .. n : st[i] = su[i]
  <2>1. Len(st) = n
    BY <1>2
  <2>2. ASSUME NEW i \in 1 .. n
        PROVE  st[i] = su[i]
    <3>1. i \in 1 .. n - 1 + 1 /\ 1 + i - 1 = i
      OBVIOUS
    <3> QED
      BY <1>2, <3>1
  <2> QED
    BY <2>1, <2>2
<1>4. FramesOf(st, su)
  BY <1>1, <1>3 DEF FramesOf
<1> QED
  BY <1>3, <1>4 DEF st

\* Activating a frame for module m changes the owner of no other.
LEMMA OwnersActivate ==
  ASSUME IInv, NEW m \in Module, Activate(m), OwnersInv(stack, floor, module, calls)
  PROVE  /\ m = module => OwnersInv(stack', floor, m, calls)
         /\ \A c \in Saved : c.floor = floor /\ c.module = module =>
              OwnersInv(stack', Len(stack), m, Append(calls, c))
<1> DEFINE N == Len(calls)
<1>0. StackInv(stack, current, floor, calls) /\ calls \in Seq(Saved)
  BY DEF IInv, FramesInv
<1>1. /\ Len(stack) \in Nat /\ floor \in Nat /\ N \in Nat
      /\ \A n \in 1 .. N : calls[n].floor \in 1 .. floor - 1
  BY <1>0, FloorsInOrder
<1>2. /\ stack \in Seq(Frame \cup {Pending}) /\ floor <= current /\ current \in Nat
      /\ Len(stack) > current /\ Len(stack) \in 1 .. Len(stack)
  <2>1. /\ stack \in Seq(Frame \cup {Pending}) /\ current \in 1 .. Len(stack)
        /\ floor \in 1 .. current
    BY <1>0 DEF StackInv, WellBuilt
  <2> QED
    BY <1>1, <2>1 DEF Activate
<1>3. floor < Len(stack)
  BY <1>1, <1>2
<1>4. /\ Len(stack') = Len(stack) /\ stack'[Len(stack)].owner = m
      /\ \A j \in 1 .. Len(stack) : j # Len(stack) => stack'[j] = stack[j]
  <2>1. stack \in [1 .. Len(stack) -> Frame \cup {Pending}]
    BY <1>2, LenProperties
  <2>2. stack' = [stack EXCEPT ![Len(stack)] = [owner |-> m, site |-> pc, prev |-> current]]
    BY DEF Activate
  <2>3. Len(stack') = Len(stack)
    BY <1>0, ActivateStep
  <2> QED
    BY <1>2, <2>1, <2>2, <2>3
<1>5. BuiltFor(stack', floor, Len(stack) - 1, module)
  <2>1. \A j \in floor .. Len(stack) - 1 : j \in floor .. Len(stack) /\ stack'[j] = stack[j]
    <3>1. floor \in 1 .. current
      BY <1>0 DEF StackInv
    <3> QED
      BY <1>1, <1>4, <3>1
  <2> QED
    BY <2>1 DEF OwnersInv, BuiltFor
<1>6. ASSUME NEW n \in 1 .. N
      PROVE  BuiltFor(stack', calls[n].floor, (IF n < N THEN calls[n + 1].floor ELSE floor) - 1,
                      calls[n].module)
  <2> DEFINE b == (IF n < N THEN calls[n + 1].floor ELSE floor) - 1
  <2>1. BuiltFor(stack, calls[n].floor, b, calls[n].module)
    BY DEF OwnersInv
  <2>2. n < N => n + 1 \in 1 .. N
    BY <1>1
  <2>3. b \in Int /\ b <= floor - 1
    BY <1>1, <2>2
  <2> HIDE DEF b
  <2>4. calls[n].floor \in 1 .. floor - 1
    BY <1>1
  <2>5. \A j \in calls[n].floor .. b : stack'[j] = stack[j]
    BY <1>1, <1>3, <1>4, <2>3, <2>4
  <2>6. BuiltFor(stack', calls[n].floor, b, calls[n].module)
    BY <2>1, <2>5 DEF BuiltFor
  <2> QED
    BY <2>6 DEF b
<1>7. ASSUME m = module
      PROVE  OwnersInv(stack', floor, m, calls)
  <2>1. \A j \in floor .. Len(stack) : j \in floor .. Len(stack) - 1 \/ j = Len(stack)
    BY <1>1
  <2>2. BuiltFor(stack', floor, Len(stack'), m)
    BY <1>4, <1>5, <1>7, <2>1 DEF BuiltFor
  <2> QED
    BY <1>6, <2>2 DEF OwnersInv
<1>8. ASSUME NEW c \in Saved, c.floor = floor, c.module = module
      PROVE  OwnersInv(stack', Len(stack), m, Append(calls, c))
  <2> DEFINE cs == Append(calls, c)
  <2>1. /\ Len(cs) = N + 1 /\ cs[N + 1] = c
        /\ \A n \in 1 .. N : cs[n] = calls[n]
    BY <1>0, AppendProperties
  <2> HIDE DEF cs, N
  <2>2. \A j \in Len(stack) .. Len(stack') : j = Len(stack)
    BY <1>1, <1>4
  <2>3. BuiltFor(stack', Len(stack), Len(stack'), m)
    BY <1>4, <2>2 DEF BuiltFor
  <2>4. ASSUME NEW n \in 1 .. N + 1
        PROVE  BuiltFor(stack', cs[n].floor,
                        (IF n < N + 1 THEN cs[n + 1].floor ELSE Len(stack)) - 1, cs[n].module)
    <3>1. CASE n = N + 1
      <4>1. ~ (n < N + 1)
        BY <1>1, <3>1
      <4> QED
        BY <1>5, <1>8, <2>1, <3>1, <4>1
    <3>2. CASE n # N + 1 /\ n < N
      <4>1. n \in 1 .. N /\ n + 1 \in 1 .. N /\ n < N + 1
        BY <1>1, <3>2
      <4>2. BuiltFor(stack', calls[n].floor, calls[n + 1].floor - 1, calls[n].module)
        BY <1>6, <3>2, <4>1
      <4> QED
        BY <2>1, <4>1, <4>2
    <3>3. CASE n # N + 1 /\ ~ (n < N)
      <4>1. n \in 1 .. N /\ n + 1 = N + 1 /\ n < N + 1
        BY <1>1, <3>3
      <4>2. BuiltFor(stack', calls[n].floor, floor - 1, calls[n].module)
        BY <1>6, <3>3, <4>1
      <4> QED
        BY <1>8, <2>1, <4>1, <4>2
    <3> QED
      BY <3>1, <3>2, <3>3
  <2>5. OwnersInv(stack', Len(stack), m, cs)
    BY <2>1, <2>3, <2>4 DEF OwnersInv
  <2> QED
    BY <2>5 DEF cs
<1> QED
  BY <1>7, <1>8

\* A nested call that returns takes all its frames with it.
LEMMA OwnersLeave ==
  ASSUME NEW S, NEW su \in Seq(S), NEW cu, NEW fl, NEW cs \in Seq(Saved), cs # <<>>, NEW mo,
         StackInv(su, cu, fl, cs), OwnersInv(su, fl, mo, cs)
  PROVE  OwnersInv(SubSeq(su, 1, fl - 1), Last(cs).floor, Last(cs).module, Front(cs))
<1> DEFINE N == Len(cs)
           st == SubSeq(su, 1, fl - 1)
           ds == Front(cs)
<1>1. /\ Len(su) \in Nat /\ fl \in Nat /\ fl <= Len(su)
      /\ \A n \in 1 .. N : cs[n].floor \in 1 .. fl - 1
  BY FloorsInOrder
<1>2. /\ N \in Nat \ {0} /\ Len(ds) = N - 1 /\ Last(cs) = cs[N]
      /\ \A n \in 1 .. N - 1 : ds[n] = cs[n]
  BY FrontProperties
<1>3. fl - 1 \in Nat /\ fl - 1 <= Len(su)
  <2>1. cs[N].floor \in 1 .. fl - 1
    BY <1>1, <1>2
  <2> QED
    BY <1>1, <2>1
<1>4. Len(st) = fl - 1 /\ \A j \in 1 .. fl - 1 : st[j] = su[j]
  BY <1>3, CutFrames
<1> HIDE DEF N, st, ds
<1>5. ASSUME NEW n \in 1 .. N, NEW b \in Int, b <= fl - 1,
             BuiltFor(su, cs[n].floor, b, cs[n].module)
      PROVE  BuiltFor(st, cs[n].floor, b, cs[n].module)
  <2>1. cs[n].floor \in 1 .. fl - 1
    BY <1>1
  <2>2. \A j \in cs[n].floor .. b : st[j] = su[j]
    BY <1>1, <1>4, <1>5, <2>1
  <2> QED
    BY <1>5, <2>2 DEF BuiltFor
<1>6. \A n \in 1 .. N :
        BuiltFor(su, cs[n].floor, (IF n < N THEN cs[n + 1].floor ELSE fl) - 1, cs[n].module)
  BY DEF OwnersInv, N
<1>7. BuiltFor(st, Last(cs).floor, Len(st), Last(cs).module)
  <2>1. N \in 1 .. N /\ ~ (N < N)
    BY <1>2
  <2>2. BuiltFor(su, cs[N].floor, fl - 1, cs[N].module)
    BY <1>6, <2>1
  <2>3. fl - 1 \in Int /\ fl - 1 <= fl - 1
    BY <1>3
  <2> QED
    BY <1>2, <1>4, <1>5, <2>1, <2>2, <2>3
<1>8. ASSUME NEW n \in 1 .. N - 1
      PROVE  BuiltFor(st, ds[n].floor,
                      (IF n < N - 1 THEN ds[n + 1].floor ELSE Last(cs).floor) - 1, ds[n].module)
  <2>1. n \in 1 .. N /\ n + 1 \in 1 .. N /\ n < N
    BY <1>2
  <2>2. BuiltFor(su, cs[n].floor, cs[n + 1].floor - 1, cs[n].module)
    BY <1>6, <2>1
  <2>3. cs[n + 1].floor - 1 \in Int /\ cs[n + 1].floor - 1 <= fl - 1
    BY <1>1, <2>1
  <2>4. BuiltFor(st, cs[n].floor, cs[n + 1].floor - 1, cs[n].module)
    BY <1>5, <2>1, <2>2, <2>3
  <2>5. (IF n < N - 1 THEN ds[n + 1].floor ELSE Last(cs).floor) = cs[n + 1].floor
    <3>1. CASE n < N - 1
      <4>1. n + 1 \in 1 .. N - 1
        BY <1>2, <3>1
      <4> QED
        BY <1>2, <3>1, <4>1
    <3>2. CASE ~ (n < N - 1)
      <4>1. n + 1 = N
        BY <1>2, <3>2
      <4> QED
        BY <1>2, <3>2, <4>1
    <3> QED
      BY <3>1, <3>2
  <2> QED
    BY <1>2, <2>4, <2>5
<1>9. OwnersInv(st, Last(cs).floor, Last(cs).module, ds)
  BY <1>2, <1>7, <1>8 DEF OwnersInv
<1> QED
  BY <1>9 DEF st, ds

\* An exception pops frames of the executing call only.
LEMMA RaisedFrames ==
  ASSUME IInv, NEW kind, Raised(kind)
  PROVE  FramesOf(stack', stack) /\ Len(stack') \in Nat /\ floor - 1 <= Len(stack')
<1>1. /\ stack \in Seq(Frame \cup {Pending}) /\ Len(stack) \in Nat
      /\ floor \in Nat /\ floor <= Len(stack) /\ WellBuilt(stack) /\ current \in DOMAIN stack
  <2>1. StackInv(stack, current, floor, calls) /\ calls \in Seq(Saved)
    BY DEF IInv, FramesInv
  <2> QED
    BY <2>1, FloorsInOrder, LenProperties DEF StackInv, WellBuilt
<1>2. CASE stack' = stack
  BY <1>1, <1>2 DEF FramesOf
<1>3. ASSUME NEW k \in Handling, k # current, stack' = SubSeq(stack, 1, CalleeOf(k) - 1)
      PROVE  FramesOf(stack', stack) /\ Len(stack') \in Nat /\ floor - 1 <= Len(stack')
  <2> DEFINE j == CalleeOf(k)
  <2>1. k \in Active /\ k >= floor
    BY DEF Handling, Walked
  <2>2. j \in DOMAIN stack /\ k < j
    BY <1>1, <1>3, <2>1, ActiveHasCallee
  <2>3. k \in DOMAIN stack /\ DOMAIN stack = 1 .. Len(stack)
    BY <1>1, <2>1, LenProperties DEF Active
  <2> HIDE DEF j
  <2>4. j - 1 \in Nat /\ j - 1 <= Len(stack) /\ floor - 1 <= j - 1
    BY <1>1, <2>1, <2>2, <2>3
  <2>5. stack' = SubSeq(stack, 1, j - 1)
    BY <1>3 DEF j
  <2>6. FramesOf(SubSeq(stack, 1, j - 1), stack) /\ Len(SubSeq(stack, 1, j - 1)) = j - 1
    BY <1>1, <2>4, CutFrames
  <2> QED
    BY <2>4, <2>5, <2>6
<1>4. \/ stack' = stack
      \/ \E k \in Handling : k # current /\ stack' = SubSeq(stack, 1, CalleeOf(k) - 1)
  BY DEF Raised, Unwound, frameVars
<1> QED
  BY <1>2, <1>3, <1>4

\* One step of the interpreter changes the owner of no frame that stays.
LEMMA NextOwners ==
  ASSUME IInv, FrameOwnersInv, Next, abandoned' = {}
  PROVE  OwnersInv(stack', floor', module', calls')
<1>0. /\ StackInv(stack, current, floor, calls) /\ calls \in Seq(Saved)
      /\ stack \in Seq(Frame \cup {Pending}) /\ Len(stack) \in Nat /\ Len(stack) < MAX_FRAMES + 1
      /\ current \in Nat /\ current <= Len(stack) /\ floor \in Nat /\ floor <= current /\ floor # 0
  <2>1. StackInv(stack, current, floor, calls) /\ calls \in Seq(Saved)
    BY DEF IInv, FramesInv
  <2>2. /\ stack \in Seq(Frame \cup {Pending}) /\ Len(stack) \in 1 .. MAX_FRAMES
        /\ current \in 1 .. Len(stack) /\ floor \in 1 .. current
    BY <2>1 DEF StackInv, WellBuilt
  <2> QED
    BY <2>1, <2>2, CallConstants
<1>1. abandoned = {}
  BY DEF Next, Other, AllocFrame, Call, Ret, Exit, Raise, Fault, Propagate, RunMatches, Returned,
         Mcall, vars
<1>2. OwnersInv(stack, floor, module, calls)
  BY <1>1 DEF FrameOwnersInv
<1>3. ASSUME UNCHANGED <<stack, floor, module, calls>>
      PROVE  OwnersInv(stack', floor', module', calls')
  BY <1>2, <1>3
<1>4. ASSUME UNCHANGED <<floor, module, calls>>, FramesOf(stack', stack),
             Len(stack') \in Nat, floor - 1 <= Len(stack')
      PROVE  OwnersInv(stack', floor', module', calls')
  <2>1. OwnersInv(stack', floor, module, calls)
    BY <1>0, <1>2, <1>4, OwnersStay
  <2> QED
    BY <1>4, <2>1
<1>5. CASE AllocFrame
  <2>1. CASE Len(stack) < MAX_FRAMES
    <3>1. stack' = Append(stack, Pending) /\ UNCHANGED <<floor, module, calls>>
      BY <1>5, <2>1 DEF AllocFrame
    <3>2. /\ Len(stack') = Len(stack) + 1 /\ stack'[Len(stack) + 1] = Pending
          /\ \A j \in 1 .. Len(stack) : stack'[j] = stack[j]
      <4> DEFINE D == Frame \cup {Pending}
      <4>1. stack \in Seq(D) /\ Pending \in D
        BY <1>0
      <4> HIDE DEF D
      <4> QED
        BY <3>1, <4>1, AppendProperties
    <3>3. FramesOf(stack', stack)
      <4>1. \A j \in 1 .. Len(stack') : j \in 1 .. Len(stack) \/ j = Len(stack) + 1
        BY <1>0, <3>2
      <4> QED
        BY <3>2, <4>1 DEF FramesOf
    <3>4. Len(stack') \in Nat /\ floor - 1 <= Len(stack')
      BY <1>0, <3>2
    <3> QED
      BY <1>4, <3>1, <3>3, <3>4
  <2>2. CASE ~ (Len(stack) < MAX_FRAMES)
    BY <1>3, <1>5, <2>2 DEF AllocFrame
  <2> QED
    BY <2>1, <2>2
<1>6. CASE Call
  <2>1. module \in Module
    BY HereTyped DEF IInv
  <2>2. Activate(module) /\ UNCHANGED <<module, floor, calls>>
    BY <1>6 DEF Call
  <2>3. OwnersInv(stack', floor, module, calls)
    BY <1>2, <2>1, <2>2, OwnersActivate
  <2> QED
    BY <2>2, <2>3
<1>7. ASSUME NEW m \in Module, Mcall(m)
      PROVE  OwnersInv(stack', floor', module', calls')
  <2> DEFINE c == [callee |-> m, entering |-> m # module, slot |-> ParkedMain,
                   module |-> module, pc |-> pc, floor |-> floor]
  <2>1. /\ Activate(m) /\ calls' = Append(calls, c) /\ module' = m /\ floor' = Len(stack)
    BY <1>7 DEF Mcall
  <2>2. Len(stack) \in 1 .. MAX_FRAMES
    BY <1>0, CallConstants
  <2>3. /\ Last(calls') \in Saved /\ calls' = Append(calls, Last(calls'))
    BY <1>7, <2>1, <2>2, EnterContext
  <2>4. Last(calls') = c
    <3>1. Len(Append(calls, c)) = Len(calls) + 1 /\ Append(calls, c)[Len(calls) + 1] = c
      BY <1>0
    <3> QED
      BY <2>1, <3>1 DEF Last
  <2>5. c \in Saved /\ c.floor = floor /\ c.module = module
    BY <2>3, <2>4
  <2> HIDE DEF c
  <2>6. OwnersInv(stack', Len(stack), m, Append(calls, c))
    BY <1>2, <2>1, <2>5, OwnersActivate
  <2> QED
    BY <2>1, <2>6
<1>8. CASE Ret
  <2>1. CASE stack[current].site = None
    BY <1>3, <1>8, <2>1 DEF Ret, frameVars
  <2>2. CASE stack[current].site # None
    <3> DEFINE below == stack[current].prev
               popped == SubSeq(stack, 1, current - 1)
    <3>1. /\ stack' = popped /\ current' = below
          /\ IF BelowCall(below) THEN Leave ELSE UNCHANGED <<module, dataVars, floor, calls>>
      BY <1>8, <2>2 DEF Ret
    <3>2. current - 1 \in Nat /\ current - 1 <= Len(stack)
      BY <1>0
    <3>3. CASE ~ BelowCall(below)
      <4>1. FramesOf(popped, stack) /\ Len(popped) = current - 1
        BY <1>0, <3>2, CutFrames
      <4> HIDE DEF popped, below
      <4>2. Len(popped) \in Nat /\ floor - 1 <= Len(popped)
        BY <1>0, <3>2, <4>1
      <4> QED
        BY <1>4, <3>1, <3>3, <4>1, <4>2
    <3>4. CASE BelowCall(below)
      <4>1. calls # <<>> /\ below < floor
        BY <3>4 DEF BelowCall
      <4>2. current = floor
        <5>1. KeptAbove(stack, floor) /\ stack[current] # Pending
          BY <1>0 DEF StackInv
        <5>2. current \in 1 .. Len(stack) /\ WellBuilt(stack) /\ current # 1
          BY <1>0, <2>2 DEF WellBuilt, StackInv, Entry
        <5>3. below \in Nat
          BY <1>0, <5>1, <5>2 DEF WellBuilt
        <5>4. current \in floor + 1 .. Len(stack) => below >= floor
          BY <5>1 DEF KeptAbove
        <5> HIDE DEF below
        <5> QED
          BY <1>0, <4>1, <5>3, <5>4
      <4>3. Leave /\ stack' = SubSeq(stack, 1, floor - 1)
        BY <3>1, <3>4, <4>2
      <4>4. OwnersInv(SubSeq(stack, 1, floor - 1), Last(calls).floor, Last(calls).module,
                      Front(calls))
        BY <1>0, <1>2, <4>1, OwnersLeave
      <4> QED
        BY <4>3, <4>4 DEF Leave
    <3> QED
      BY <3>3, <3>4
  <2> QED
    BY <2>1, <2>2
<1>9. ASSUME NEW kind, Raised(kind), UNCHANGED <<module, floor, calls>>
      PROVE  OwnersInv(stack', floor', module', calls')
  BY <1>4, <1>9, RaisedFrames
<1>10. CASE Raise \/ RunMatches
  BY <1>3, <1>9, <1>10 DEF Raise, RunMatches, frameVars
<1>11. CASE Other \/ Fault \/ Returned
  BY <1>3, <1>11 DEF Other, Fault, Returned, vars, frameVars
<1>12. CASE Exit \/ Propagate
  BY <1>3, <1>12 DEF Exit, Propagate, frameVars
<1> QED
  BY <1>5, <1>6, <1>7, <1>8, <1>10, <1>11, <1>12 DEF Next

-----------------------------------------------------------------------------
(* The theorems. *)

\* The invariant on which the others rest: the saved bases of the frames, the floors of the
\* nested calls and the contexts the host stack will restore stay consistent.
THEOREM Invariance == Spec => []IInv
<1>1. Init => IInv
  BY InitIInv
<1>2. IInv /\ [Next]_vars => IInv'
  <2> SUFFICES ASSUME IInv, [Next]_vars PROVE IInv'
    OBVIOUS
  <2>1. CASE Next BY <2>1, NextIInv
  <2>2. CASE UNCHANGED vars
    BY <2>2 DEF IInv, vars, dataVars, frameVars, Here, Flags, FramesInv, Restorable
  <2> QED BY <2>1, <2>2
<1> QED BY <1>1, <1>2, PTL DEF Spec

\* Every state of the interpreter is of the form run expects: a frame in use and a floor
\* that are frames of the stack, module data that is a block or taken.
THEOREM TypeCorrect == Spec => []TypeOK
<1>1. IInv => TypeOK
  BY IInvTypeOK
<1> QED BY <1>1, Invariance, PTL

\* However run_nested_module_call is left, on every nesting of calls and for any number of
\* modules, the code below it continues in the context it called from.
THEOREM ContextRestored == Spec => []ContextIsRestored
<1>1. IInv => ContextIsRestored
  BY IInvContext
<1> QED BY <1>1, Invariance, PTL

\* Swapping the data of modules in and out, however calls nest, re-enter a module or end,
\* neither loses a block nor leaves it in two places.
THEOREM DataNeitherLostNorDoubled == Spec => []DataInOnePlace
<1>1. IInv => DataInOnePlace
  <2> SUFFICES ASSUME IInv, NEW b \in Module
               PROVE  Cardinality(Holders(b)) = 1
    BY DEF DataInOnePlace
  <2>1. DataInv(module, mp, home, parents)
    BY HereTyped DEF IInv
  <2>2. /\ Main \notin Loaded /\ Module = {Main} \cup Loaded /\ b # None
    BY CallConstants DEF Module
  <2> DEFINE used == {<<"vm">> : x \in {y \in {mp} : y = b}}
             kept == {<<"home", m>> : m \in {l \in Loaded : home[l] = b}}
             lent == {<<"parent", n>> : n \in {k \in DOMAIN parents : parents[k].data = b}}
  <2>3. Holders(b) = used \cup kept \cup lent
    BY DEF Holders
  <2>4. \E x : Holders(b) = {x}
    <3>1. CASE b = mp
      <4>1. kept = {} /\ lent = {}
        BY <2>1, <2>2, <3>1 DEF DataInv, InOnePlace
      <4>2. used = {<<"vm">>}
        BY <3>1
      <4> QED
        BY <2>3, <4>1, <4>2
    <3>2. CASE b \in Loaded /\ home[b] = b
      <4>1. b # mp /\ lent = {}
        BY <2>1, <2>2, <3>2 DEF DataInv, InOnePlace
      <4>2. \A l \in Loaded : home[l] = b => l = b
        BY <2>1, <2>2 DEF DataInv, InPlace
      <4>3. used = {} /\ kept = {<<"home", b>>}
        BY <3>2, <4>1, <4>2
      <4> QED
        BY <2>3, <4>1, <4>3
    <3>3. ASSUME NEW n \in DOMAIN parents, parents[n].data = b
          PROVE  Holders(b) = {<<"parent", n>>}
      <4>1. b # mp /\ kept = {}
        BY <2>1, <2>2, <3>3 DEF DataInv, InOnePlace
      <4>2. \A k \in DOMAIN parents : parents[k].data = b => k = n
        BY <2>1, <2>2, <3>3 DEF DataInv, InOnePlace
      <4>3. used = {} /\ lent = {<<"parent", n>>}
        BY <3>3, <4>1, <4>2
      <4> QED
        BY <2>3, <4>1, <4>3
    <3> QED
      BY <2>1, <3>1, <3>2, <3>3 DEF DataInv, InSomePlace
  <2> QED
    BY <2>4, FS_Singleton
<1> QED BY <1>1, Invariance, PTL

\* A module runs on its own data; without any only when it has been entered again while a
\* call into it is going on, which then keeps the data.
THEOREM ModulesRunOnTheirData == Spec => []RunsOnOwnData
<1>1. IInv => RunsOnOwnData
  <2> SUFFICES ASSUME IInv, mp # module
               PROVE  /\ module # Main /\ mp = None
                      /\ \E n \in DOMAIN parents :
                            parents[n] = [virt |-> module, data |-> module]
    BY DEF RunsOnOwnData
  <2>1. /\ DataInv(module, mp, home, parents) /\ module \in Module
        /\ parents \in Seq([virt : Module, data : Block])
    BY HereTyped DEF IInv
  <2>2. mp = None /\ module # Main
    BY <2>1 DEF DataInv, InPlace, MainAtHand
  <2>3. module # None
    BY <2>1, CallConstants
  <2>4. PICK n \in DOMAIN parents : parents[n].data = module
    BY <2>1, <2>2, <2>3 DEF DataInv, InPlace, InSomePlace
  <2>5. parents[n] \in [virt : Module, data : Block] /\ parents[n].data = parents[n].virt
    BY <2>1, <2>3, <2>4, LenProperties, ElementOfSeq DEF DataInv, InPlace
  <2>6. parents[n] = [virt |-> module, data |-> module]
    BY <2>4, <2>5
  <2> QED
    BY <2>2, <2>6
<1> QED BY <1>1, Invariance, PTL

\* Neither ret nor an exception in a nested call touches a frame of its callers.
THEOREM FramesKept == Spec => CallersFramesKept
<1>1. IInv /\ [Next]_vars =>
        [Interpreting /\ calls' = calls =>
           /\ current' >= floor
           /\ SubSeq(stack', 1, floor - 1) = SubSeq(stack, 1, floor - 1)]_vars
  BY NextIInv
<1> QED BY <1>1, Invariance, PTL DEF Spec, CallersFramesKept

\* As long as every nested call has come back through ret, code runs on a frame that was
\* built for its own module.
THEOREM FramesMatchModules == Spec => []FrameMatchesModule
<1>1. Init => FrameOwnersInv
  <2> SUFFICES ASSUME Init
               PROVE  OwnersInv(stack, floor, module, calls)
    BY DEF FrameOwnersInv
  <2>1. stack = <<Entry>> /\ floor = 1 /\ module = Main /\ calls = <<>>
    BY DEF Init, Entry
  <2>2. Len(stack) = 1 /\ stack[1].owner = Main /\ Len(calls) = 0
    BY <2>1 DEF Entry
  <2> QED
    BY <2>1, <2>2 DEF OwnersInv, BuiltFor
<1>2. IInv /\ FrameOwnersInv /\ [Next]_vars => FrameOwnersInv'
  <2> SUFFICES ASSUME IInv, FrameOwnersInv, [Next]_vars, abandoned' = {}
               PROVE  OwnersInv(stack', floor', module', calls')
    BY DEF FrameOwnersInv, OwnersInv, BuiltFor
  <2>1. CASE Next
    BY <2>1, NextOwners
  <2>2. CASE UNCHANGED vars
    BY <2>2 DEF vars, frameVars, FrameOwnersInv
  <2> QED
    BY <2>1, <2>2
<1>3. IInv /\ FrameOwnersInv => FrameMatchesModule
  <2> SUFFICES ASSUME IInv, OwnersInv(stack, floor, module, calls)
               PROVE  stack[current].owner = module
    BY DEF FrameMatchesModule, FrameOwnersInv
  <2>1. current \in 1 .. Len(stack) /\ floor \in 1 .. current /\ stack[current] # Pending
    BY DEF IInv, FramesInv, StackInv
  <2>2. current \in floor .. Len(stack)
    <3>1. Len(stack) \in 1 .. MAX_FRAMES
      BY DEF IInv, FramesInv, StackInv, WellBuilt
    <3> QED
      BY <2>1, <3>1
  <2> QED
    BY <2>1, <2>2 DEF OwnersInv, BuiltFor
<1> QED BY <1>1, <1>2, <1>3, Invariance, PTL DEF Spec

=============================================================================
