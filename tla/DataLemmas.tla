----------------------------- MODULE DataLemmas -----------------------------
(***************************************************************************)
(* What the proofs of several components need to know of their data: the   *)
(* positions of a queue under Tail and Append, as the connections, pumps   *)
(* and event channels of the bridge are all modelled, sums over a finite   *)
(* set, and numbers: counting up to one, what is computed step by step,    *)
(* powers of two and quotients.                                            *)
(***************************************************************************)
EXTENDS Integers, Sequences, FiniteSets, SequenceTheorems, FiniteSetTheorems, TLAPS

(***************************************************************************)
(* Queues                                                                  *)
(***************************************************************************)
\* Taking the head of a queue: what remains are the old elements, one position earlier.
LEMMA Popped ==
    ASSUME NEW S, NEW q \in Seq(S), q # <<>>
    PROVE  /\ Tail(q) \in Seq(S)
           /\ Head(q) = q[1] /\ Head(q) \in S
           /\ DOMAIN q = 1..Len(q) /\ Len(q) \in Nat /\ 1 \in DOMAIN q
           /\ Len(Tail(q)) = Len(q) - 1
           /\ \A i \in DOMAIN Tail(q) :
                 i \in Nat /\ i > 0 /\ i + 1 \in DOMAIN q /\ Tail(q)[i] = q[i + 1]
           /\ \A i \in DOMAIN q :
                 /\ i \in Nat
                 /\ i = 1 \/ (i - 1 \in DOMAIN Tail(q) /\ Tail(q)[i - 1] = q[i])
  <1>1. Len(q) \in Nat /\ Len(q) > 0 /\ DOMAIN q = 1..Len(q)
    BY EmptySeq, LenProperties
  <1>2. /\ Head(q) = q[1] /\ Head(q) \in S
        /\ Tail(q) \in Seq(S) /\ Len(Tail(q)) = Len(q) - 1
        /\ \A i \in 1..Len(Tail(q)) : Tail(q)[i] = q[i + 1]
    BY HeadTailProperties
  <1>3. DOMAIN Tail(q) = 1..(Len(q) - 1)
    BY <1>2, LenProperties
  <1> QED
    BY <1>1, <1>2, <1>3

\* Writing to the end of a queue: the old elements keep their positions.
LEMMA Pushed ==
    ASSUME NEW S, NEW q \in Seq(S), NEW e \in S
    PROVE  /\ Append(q, e) \in Seq(S)
           /\ DOMAIN q = 1..Len(q) /\ Len(q) \in Nat
           /\ Len(Append(q, e)) = Len(q) + 1
           /\ DOMAIN Append(q, e) = 1..(Len(q) + 1)
           /\ Append(q, e)[Len(q) + 1] = e
           /\ \A i \in DOMAIN q : i \in DOMAIN Append(q, e) /\ i < Len(q) + 1 /\ Append(q, e)[i] = q[i]
           /\ \A i \in DOMAIN Append(q, e) : i \in Nat /\ (i \in DOMAIN q \/ i = Len(q) + 1)
  <1>1. DOMAIN q = 1..Len(q) /\ Len(q) \in Nat
    BY LenProperties
  <1>2. /\ Append(q, e) \in Seq(S)
        /\ Len(Append(q, e)) = Len(q) + 1
        /\ \A i \in 1..Len(q) : Append(q, e)[i] = q[i]
        /\ Append(q, e)[Len(q) + 1] = e
    BY AppendProperties
  <1>3. DOMAIN Append(q, e) = 1..(Len(q) + 1)
    BY <1>2, LenProperties
  <1> QED
    BY <1>1, <1>2, <1>3

\* Appending several elements at once.
LEMMA Joined ==
    ASSUME NEW S, NEW q \in Seq(S), NEW r \in Seq(S)
    PROVE  /\ q \o r \in Seq(S)
           /\ DOMAIN q = 1..Len(q) /\ Len(q) \in Nat
           /\ DOMAIN r = 1..Len(r) /\ Len(r) \in Nat
           /\ Len(q \o r) = Len(q) + Len(r)
           /\ \A i \in DOMAIN q : i \in Int /\ i \in DOMAIN (q \o r) /\ (q \o r)[i] = q[i]
           /\ \A i \in DOMAIN r :
                 i > 0 /\ Len(q) + i \in DOMAIN (q \o r) /\ (q \o r)[Len(q) + i] = r[i]
           /\ \A i \in DOMAIN (q \o r) :
                 /\ i \in Int
                 /\ i \in DOMAIN q \/ (i > Len(q) /\ i - Len(q) \in DOMAIN r)
  <1>1. /\ DOMAIN q = 1..Len(q) /\ Len(q) \in Nat
        /\ DOMAIN r = 1..Len(r) /\ Len(r) \in Nat
    BY LenProperties
  <1>2. /\ q \o r \in Seq(S)
        /\ Len(q \o r) = Len(q) + Len(r)
        /\ \A i \in 1..(Len(q) + Len(r)) :
              (q \o r)[i] = IF i <= Len(q) THEN q[i] ELSE r[i - Len(q)]
    BY ConcatProperties
  <1>3. DOMAIN (q \o r) = 1..(Len(q) + Len(r))
    BY <1>2, LenProperties
  <1> QED
    BY <1>1, <1>2, <1>3

(***************************************************************************)
(* Sums over a finite set, which the community modules fold in the order   *)
(* of CHOOSE: they have a value, and it does not depend on that order.     *)
(***************************************************************************)
\* A set holds every subset of a finite set that all smaller ones lead to.
LEMMA SetInduction ==
    ASSUME NEW S, IsFiniteSet(S), NEW T,
           \A s \in SUBSET S : (\A r \in SUBSET s : r # s => r \in T) => s \in T
    PROVE  \A s \in SUBSET S : s \in T
  <1> SUFFICES ASSUME ~(\A s \in SUBSET S : s \in T) PROVE FALSE
    OBVIOUS
  <1> DEFINE U == (SUBSET S) \ T
  <1>1. U # {} /\ U \subseteq FiniteSubsetsOf(S)
    BY FS_Subset DEF FiniteSubsetsOf
  <1>2. \E x \in U : \A y \in U : <<y, x>> \notin StrictSubsetOrdering(S)
    <2> HIDE DEF U
    <2>1. IsWellFoundedOn(StrictSubsetOrdering(S), FiniteSubsetsOf(S))
      BY FS_StrictSubsetOrderingWellFounded
    <2> QED BY <2>1, <1>1, WFMin
  <1>3. PICK x \in U : \A y \in U : <<y, x>> \notin StrictSubsetOrdering(S)
    BY <1>2
  <1>4. ASSUME NEW r \in SUBSET x, r # x PROVE r \in T
    <2>1. r \in SUBSET S /\ x \in SUBSET S
      BY <1>4
    <2>2. <<r, x>> \in StrictSubsetOrdering(S)
      BY <1>4, <2>1, Z3 DEF StrictSubsetOrdering
    <2> QED BY <1>3, <2>1, <2>2
  <1> QED
    BY <1>4

Picked(s) == CHOOSE x \in s : TRUE

\* f holds the sums of cnt over the subsets of S, added up as a fold does.
Sums(f, cnt, S) ==
    f = [s \in SUBSET S |-> IF s = {} THEN 0 ELSE cnt[Picked(s)] + f[s \ {Picked(s)}]]

\* What is added are numbers, the same numbers.
Numbers(cnt, S) == \A x \in S : cnt[x] \in Nat
SameOn(cnt, cnt2, S) == \A x \in S : cnt[x] = cnt2[x]

\* Where two of them are both defined they agree, if what they add agrees.
LEMMA SumsAgree ==
    ASSUME NEW S, IsFiniteSet(S), NEW t \in SUBSET S, NEW u \in SUBSET S,
           NEW cnt, NEW cnt2, SameOn(cnt, cnt2, t \cap u),
           NEW f, NEW h, Sums(f, cnt, t), Sums(h, cnt2, u)
    PROVE  \A s \in SUBSET (t \cap u) : f[s] = h[s]
  <1> DEFINE W == t \cap u
             T == {s \in SUBSET W : f[s] = h[s]}
  <1>1. IsFiniteSet(W)
    BY FS_Subset
  <1>2. ASSUME NEW s \in SUBSET W, \A r \in SUBSET s : r # s => r \in T
        PROVE  s \in T
    <2>1. CASE s = {}
      BY <2>1 DEF Sums
    <2>2. CASE s # {}
      <3>1. Picked(s) \in s
        BY <2>2 DEF Picked
      <3>2. s \ {Picked(s)} \in T
        BY <3>1, <1>2
      <3>3. f[s] = cnt[Picked(s)] + f[s \ {Picked(s)}]
        BY <2>2 DEF Sums
      <3>4. h[s] = cnt2[Picked(s)] + h[s \ {Picked(s)}]
        BY <2>2 DEF Sums
      <3>5. cnt[Picked(s)] = cnt2[Picked(s)]
        BY <3>1 DEF SameOn
      <3> QED BY <3>2, <3>3, <3>4, <3>5
    <2> QED BY <2>1, <2>2
  <1>3. \A s \in SUBSET W : (\A r \in SUBSET s : r # s => r \in T) => s \in T
    BY <1>2
  <1> HIDE DEF T, W
  <1>4. \A s \in SUBSET W : s \in T
    BY <1>1, <1>3, SetInduction
  <1> QED
    BY <1>4 DEF T, W

\* There are such sums, and they are numbers.
LEMMA SumsExist ==
    ASSUME NEW S, IsFiniteSet(S), NEW cnt, Numbers(cnt, S)
    PROVE  \E f \in [SUBSET S -> Nat] : Sums(f, cnt, S)
  <1> DEFINE T == {t \in SUBSET S : \E f \in [SUBSET t -> Nat] : Sums(f, cnt, t)}
  <1>1. ASSUME NEW s \in SUBSET S, \A r \in SUBSET s : r # s => r \in T
        PROVE  s \in T
    <2> DEFINE F(r) == CHOOSE f \in [SUBSET r -> Nat] : Sums(f, cnt, r)
    <2>1. \A r \in SUBSET s : r # s => F(r) \in [SUBSET r -> Nat] /\ Sums(F(r), cnt, r)
      BY <1>1
    <2> HIDE DEF F
    <2>2. CASE s = {}
      <3> DEFINE h == [r \in SUBSET s |-> 0]
      <3>1. h \in [SUBSET s -> Nat] /\ Sums(h, cnt, s)
        BY <2>2 DEF Sums
      <3> QED BY <3>1
    <2>3. CASE s # {}
      <3> DEFINE Below(r) == r \ {Picked(r)}
                 At(r) == IF r = s THEN cnt[Picked(s)] + F(Below(s))[Below(s)] ELSE F(r)[r]
                 h == [r \in SUBSET s |-> At(r)]
      <3>1. \A r \in SUBSET s : r # {} => Below(r) \in SUBSET r /\ Below(r) # r /\ Picked(r) \in r
        BY DEF Picked
      <3>2. \A r \in SUBSET s : r # s => F(r)[r] \in Nat
        BY <2>1
      <3>3. At(s) \in Nat
        <4>1. F(Below(s))[Below(s)] \in Nat /\ cnt[Picked(s)] \in Nat
          BY <2>3, <3>1, <3>2 DEF Numbers
        <4> QED BY <4>1, <2>3
      <3>4. h \in [SUBSET s -> Nat]
        BY <3>2, <3>3
      <3>5. ASSUME NEW r \in SUBSET s, r # {}
            PROVE  h[r] = cnt[Picked(r)] + h[Below(r)]
        <4>1. Below(r) \in SUBSET s /\ Below(r) # s
          BY <3>1, <3>5
        <4>2. h[Below(r)] = F(Below(r))[Below(r)]
          BY <4>1
        <4>3. CASE r = s
          BY <4>2, <4>3
        <4>4. CASE r # s
          <5>1. Sums(F(r), cnt, r) /\ Sums(F(Below(r)), cnt, Below(r))
            BY <2>1, <4>1, <4>4
          <5>2. F(r)[r] = cnt[Picked(r)] + F(r)[Below(r)]
            BY <5>1, <3>5 DEF Sums
          <5>3. F(r)[Below(r)] = F(Below(r))[Below(r)]
            <6>1. Below(r) \in SUBSET (r \cap Below(r)) /\ r \in SUBSET S /\ Below(r) \in SUBSET S
              BY <4>1
            <6> DEFINE b == Below(r)
                       fr == F(r)
                       fb == F(b)
            <6>2. /\ b \in SUBSET S /\ b \in SUBSET (r \cap b) /\ Sums(fr, cnt, r) /\ Sums(fb, cnt, b)
                  /\ SameOn(cnt, cnt, r \cap b)
              BY <5>1, <6>1 DEF SameOn
            <6> HIDE DEF b, fr, fb
            <6>3. \A q \in SUBSET (r \cap b) : fr[q] = fb[q]
              BY <6>2, SumsAgree
            <6>4. fr[b] = fb[b]
              BY <6>2, <6>3
            <6> QED BY <6>4 DEF b, fr, fb
          <5>4. h[r] = F(r)[r]
            BY <4>4
          <5> QED BY <4>2, <5>2, <5>3, <5>4
        <4> QED BY <4>3, <4>4
      <3>6. h[{}] = 0
        <4>1. Sums(F({}), cnt, {}) /\ {} \in SUBSET s
          BY <2>1, <2>3
        <4> QED BY <4>1, <2>3 DEF Sums
      <3>7. Sums(h, cnt, s)
        <4>1. \A r \in SUBSET s : h[r] = IF r = {} THEN 0 ELSE cnt[Picked(r)] + h[Below(r)]
          BY <3>5, <3>6
        <4>2. h = [r \in SUBSET s |-> h[r]]
          OBVIOUS
        <4> HIDE DEF h
        <4> QED BY <4>1, <4>2 DEF Sums
      <3> HIDE DEF h
      <3> QED BY <3>4, <3>7
    <2> QED BY <2>2, <2>3
  <1> HIDE DEF T
  <1>2. \A s \in SUBSET S : (\A r \in SUBSET s : r # s => r \in T) => s \in T
    BY <1>1
  <1>3. S \in T
    BY <1>2, SetInduction
  <1> QED
    BY <1>3 DEF T

Additive(f, cnt, S) == \A s \in SUBSET S : \A x \in s : f[s] = cnt[x] + f[s \ {x}]

\* Any element may be the one that is added last.
LEMMA SumsAdditive ==
    ASSUME NEW S, IsFiniteSet(S), NEW cnt, Numbers(cnt, S),
           NEW f \in [SUBSET S -> Nat], Sums(f, cnt, S)
    PROVE  Additive(f, cnt, S)
  <1> DEFINE T == {s \in SUBSET S : \A x \in s : f[s] = cnt[x] + f[s \ {x}]}
  <1>1. ASSUME NEW s \in SUBSET S, \A r \in SUBSET s : r # s => r \in T
        PROVE  s \in T
    <2>1. SUFFICES ASSUME NEW x \in s PROVE f[s] = cnt[x] + f[s \ {x}]
      OBVIOUS
    <2> DEFINE y == Picked(s)
    <2>2. y \in s
      BY DEF Picked
    <2>3. f[s] = cnt[y] + f[s \ {y}]
      BY <2>1 DEF Sums
    <2> HIDE DEF y
    <2>4. CASE x = y
      BY <2>3, <2>4
    <2>5. CASE x # y
      <3>1. s \ {y} \in T /\ x \in s \ {y} /\ s \ {x} \in T /\ y \in s \ {x}
        BY <1>1, <2>2, <2>5
      <3>2. f[s \ {y}] = cnt[x] + f[(s \ {y}) \ {x}] /\ f[s \ {x}] = cnt[y] + f[(s \ {x}) \ {y}]
        BY <3>1
      <3>3. (s \ {y}) \ {x} = (s \ {x}) \ {y}
        OBVIOUS
      <3> DEFINE rest == f[(s \ {y}) \ {x}]
      <3>4. rest \in Nat /\ cnt[x] \in Nat /\ cnt[y] \in Nat
        BY <2>2 DEF Numbers
      <3>5. f[s \ {y}] = cnt[x] + rest /\ f[s \ {x}] = cnt[y] + rest
        BY <3>2, <3>3
      <3> HIDE DEF rest
      <3>6. cnt[y] + (cnt[x] + rest) = cnt[x] + (cnt[y] + rest)
        BY <3>4
      <3> QED BY <2>3, <3>5, <3>6
    <2> QED BY <2>4, <2>5
  <1> HIDE DEF T
  <1>2. \A s \in SUBSET S : (\A r \in SUBSET s : r # s => r \in T) => s \in T
    BY <1>1
  <1>3. \A s \in SUBSET S : s \in T
    BY <1>2, SetInduction
  <1> QED
    BY <1>3 DEF T, Additive

\* Elements that count nothing may be left out.
LEMMA SumsIgnore ==
    ASSUME NEW S, IsFiniteSet(S), NEW cnt, Numbers(cnt, S),
           NEW f \in [SUBSET S -> Nat], Sums(f, cnt, S),
           NEW K \in SUBSET S, \A x \in S \ K : cnt[x] = 0
    PROVE  f[S] = f[K]
  <1> DEFINE T == {s \in SUBSET S : f[s] = f[s \cap K]}
  <1>1. ASSUME NEW s \in SUBSET S, \A r \in SUBSET s : r # s => r \in T
        PROVE  s \in T
    <2>1. CASE s \subseteq K
      <3>1. s \cap K = s
        BY <2>1
      <3> QED BY <3>1
    <2>2. CASE ~(s \subseteq K)
      <3>1. PICK x \in s : x \notin K
        BY <2>2
      <3>2. f[s] = cnt[x] + f[s \ {x}]
        <4>1. Additive(f, cnt, S)
          BY SumsAdditive
        <4> QED BY <4>1 DEF Additive
      <3>3. f[s \ {x}] = f[(s \ {x}) \cap K]
        <4>1. s \ {x} \in SUBSET s /\ s \ {x} # s
          OBVIOUS
        <4> QED BY <1>1, <4>1
      <3>4. (s \ {x}) \cap K = s \cap K
        BY <3>1
      <3>5. cnt[x] = 0 /\ f[s \ {x}] \in Nat
        BY <3>1
      <3>6. cnt[x] + f[s \ {x}] = f[s \ {x}]
        BY <3>5
      <3>7. f[s] = f[s \cap K]
        BY <3>2, <3>3, <3>4, <3>6
      <3> QED BY <3>7
    <2> QED BY <2>1, <2>2
  <1> HIDE DEF T
  <1>2. \A s \in SUBSET S : (\A r \in SUBSET s : r # s => r \in T) => s \in T
    BY <1>1
  <1>3. S \in T
    BY <1>2, SetInduction
  <1>4. S \cap K = K
    OBVIOUS
  <1> QED
    BY <1>3, <1>4 DEF T

\* The sum of cnt over its domain.
Total(cnt) == (CHOOSE f : Sums(f, cnt, DOMAIN cnt))[DOMAIN cnt]

LEMMA TotalIs ==
    ASSUME NEW S, IsFiniteSet(S), NEW cnt \in [S -> Nat]
    PROVE  \E f \in [SUBSET S -> Nat] : Sums(f, cnt, S) /\ Total(cnt) = f[S]
  <1>0. Numbers(cnt, S) /\ SameOn(cnt, cnt, S \cap S)
    BY DEF Numbers, SameOn
  <1>1. PICK f \in [SUBSET S -> Nat] : Sums(f, cnt, S)
    BY <1>0, SumsExist
  <1> DEFINE g == CHOOSE h : Sums(h, cnt, S)
  <1>2. Sums(g, cnt, S) /\ DOMAIN cnt = S
    BY <1>1
  <1>3. Total(cnt) = g[S]
    BY <1>2 DEF Total
  <1> HIDE DEF g
  <1>4. g[S] = f[S]
    <2>1. S \in SUBSET S /\ S \in SUBSET (S \cap S)
      OBVIOUS
    <2> QED BY <1>0, <1>1, <1>2, <2>1, SumsAgree
  <1> QED BY <1>1, <1>3, <1>4

\* A sum after two of the numbers have changed.
LEMMA TotalChanges ==
    ASSUME NEW S, IsFiniteSet(S), NEW cnt \in [S -> Nat], NEW cnt2 \in [S -> Nat],
           NEW x \in S, NEW y \in S, x # y,
           \A z \in S : z # x /\ z # y => cnt2[z] = cnt[z]
    PROVE  /\ Total(cnt) \in Nat /\ Total(cnt2) \in Nat
           /\ Total(cnt2) - Total(cnt) = (cnt2[x] + cnt2[y]) - (cnt[x] + cnt[y])
  <1>1. PICK f \in [SUBSET S -> Nat] : Sums(f, cnt, S) /\ Total(cnt) = f[S]
    BY TotalIs
  <1>2. PICK h \in [SUBSET S -> Nat] : Sums(h, cnt2, S) /\ Total(cnt2) = h[S]
    BY TotalIs
  <1> DEFINE U == S \ {x}
             R == (S \ {x}) \ {y}
  <1>3. U \in SUBSET S /\ y \in U /\ R = U \ {y} /\ S \in SUBSET S
    OBVIOUS
  <1>4. Numbers(cnt, S) /\ Numbers(cnt2, S)
    BY DEF Numbers
  <1>5. Additive(f, cnt, S) /\ Additive(h, cnt2, S)
    BY <1>1, <1>2, <1>4, SumsAdditive
  <1>6. f[S] = cnt[x] + (cnt[y] + f[R])
    <2>1. f[S] = cnt[x] + f[U]
      BY <1>3, <1>5 DEF Additive
    <2>2. f[U] = cnt[y] + f[R]
      <3> HIDE DEF U, R
      <3> QED BY <1>3, <1>5 DEF Additive
    <2> QED BY <2>1, <2>2
  <1>7. h[S] = cnt2[x] + (cnt2[y] + h[R])
    <2>1. h[S] = cnt2[x] + h[U]
      BY <1>3, <1>5 DEF Additive
    <2>2. h[U] = cnt2[y] + h[R]
      <3> HIDE DEF U, R
      <3> QED BY <1>3, <1>5 DEF Additive
    <2> QED BY <2>1, <2>2
  <1>8. f[R] = h[R]
    <2>1. R \in SUBSET S /\ IsFiniteSet(R) /\ Numbers(cnt, R)
          /\ SameOn(cnt, cnt, R \cap S) /\ SameOn(cnt, cnt2, R \cap S)
          /\ R \in SUBSET (R \cap S) /\ S \in SUBSET S
      BY FS_Subset DEF Numbers, SameOn
    <2> HIDE DEF R
    <2>2. PICK fr \in [SUBSET R -> Nat] : Sums(fr, cnt, R)
      BY <2>1, SumsExist
    <2>3. fr[R] = f[R]
      BY <1>1, <2>1, <2>2, SumsAgree
    <2>4. fr[R] = h[R]
      BY <1>2, <2>1, <2>2, SumsAgree
    <2> QED BY <2>3, <2>4
  <1> DEFINE rest == f[R]
  <1>9. rest \in Nat /\ cnt[x] \in Nat /\ cnt[y] \in Nat /\ cnt2[x] \in Nat /\ cnt2[y] \in Nat
    BY <1>3
  <1>10. Total(cnt) = cnt[x] + (cnt[y] + rest) /\ Total(cnt2) = cnt2[x] + (cnt2[y] + rest)
    BY <1>1, <1>2, <1>6, <1>7, <1>8
  <1> HIDE DEF U, R, rest
  <1> QED BY <1>9, <1>10

\* The same sum over fewer elements, when the others count nothing.
LEMMA TotalWithin ==
    ASSUME NEW S, IsFiniteSet(S), NEW cnt \in [S -> Nat],
           NEW K \in SUBSET S, \A x \in S \ K : cnt[x] = 0, NEW g, Sums(g, cnt, K)
    PROVE  Total(cnt) = g[K]
  <1>1. PICK f \in [SUBSET S -> Nat] : Sums(f, cnt, S) /\ Total(cnt) = f[S]
    BY TotalIs
  <1>2. Numbers(cnt, S) /\ SameOn(cnt, cnt, S \cap K) /\ S \in SUBSET S
    BY DEF Numbers, SameOn
  <1>3. f[S] = f[K]
    BY <1>1, <1>2, SumsIgnore, SMTT(60)
  <1>4. K \in SUBSET (S \cap K)
    OBVIOUS
  <1>5. f[K] = g[K]
    BY <1>1, <1>2, <1>4, SumsAgree
  <1> QED BY <1>1, <1>3, <1>5

(***************************************************************************)
(* Numbers                                                                 *)
(***************************************************************************)
\* A set that has 0 and with a number the next one has every number up to n.
LEMMA CountingUp ==
    ASSUME NEW T, NEW n \in Nat, 0 \in T, \A k \in 0..n - 1 : k \in T => k + 1 \in T
    PROVE  \A k \in 0..n : k \in T
<1> SUFFICES ASSUME ~(\A k \in 0..n : k \in T) PROVE FALSE
  OBVIOUS
<1>1. IsFiniteSet(0..n)
  BY FS_Interval
<1> DEFINE Up == {s \in SUBSET (0..n) : 0 \in s /\ (\A k \in s : k # 0 => k - 1 \in s) => s \subseteq T}
<1>2. ASSUME NEW s \in SUBSET (0..n), \A r \in SUBSET s : r # s => r \in Up
      PROVE  s \in Up
  <2> SUFFICES ASSUME 0 \in s, \A k \in s : k # 0 => k - 1 \in s, NEW x \in s PROVE x \in T
    OBVIOUS
  <2>1. CASE x = 0
    BY <2>1
  <2>2. CASE x # 0
    <3> DEFINE r == {k \in s : k < x}
    <3>1. r \in SUBSET s /\ r # s /\ 0 \in r /\ x - 1 \in r
      BY <2>2
    <3>2. \A k \in r : k # 0 => k - 1 \in r
      OBVIOUS
    <3>3. r \in Up
      BY <1>2, <3>1
    <3>4. x - 1 \in T
      BY <3>1, <3>2, <3>3
    <3> QED BY <2>2, <3>4
  <2> QED BY <2>1, <2>2
<1>3. \A s \in SUBSET (0..n) : s \in Up
  <2>1. \A s \in SUBSET (0..n) : (\A r \in SUBSET s : r # s => r \in Up) => s \in Up
    BY <1>2
  <2> HIDE DEF Up
  <2> QED BY <1>1, <2>1, SetInduction, ZenonT(60)
<1>4. 0..n \in Up
  BY <1>3
<1>5. 0 \in 0..n /\ \A k \in 0..n : k # 0 => k - 1 \in 0..n
  OBVIOUS
<1> QED BY <1>4, <1>5

\* What is defined step by step, from base on: step[k] leads to the k-th from the one before.
Stepwise(f, n, S, base, step) ==
    f \in [0..n -> S] /\ f[0] = base /\ \A k \in 1..n : f[k] = step[k][f[k - 1]]

LEMMA StepByStep ==
    ASSUME NEW n \in Nat, NEW S, NEW base \in S, NEW step, step \in [1..n -> [S -> S]]
    PROVE  \E f : Stepwise(f, n, S, base, step)
<1> DEFINE Upto(m) == \E f \in [0..m -> S] : f[0] = base /\ \A k \in 1..m : f[k] = step[k][f[k - 1]]
           T == {m \in 0..n : Upto(m)}
<1>1. 0 \in T
  <2>1. /\ [k \in 0..0 |-> base] \in [0..0 -> S] /\ [k \in 0..0 |-> base][0] = base
        /\ 1..0 = {}
    OBVIOUS
  <2>2. Upto(0)
    BY <2>1
  <2> QED BY <2>2
<1>2. ASSUME NEW m \in 0..n - 1, m \in T PROVE m + 1 \in T
  <2>1. PICK f \in [0..m -> S] : f[0] = base /\ \A k \in 1..m : f[k] = step[k][f[k - 1]]
    BY <1>2
  <2> DEFINE g == [k \in 0..m + 1 |-> IF k = m + 1 THEN step[k][f[m]] ELSE f[k]]
  <2>2. step[m + 1] \in [S -> S] /\ f[m] \in S
    OBVIOUS
  <2>3. g \in [0..m + 1 -> S] /\ g[0] = base
    BY <2>1, <2>2
  <2>4. ASSUME NEW k \in 1..m + 1 PROVE g[k] = step[k][g[k - 1]]
    <3>1. CASE k = m + 1
      BY <3>1
    <3>2. CASE k # m + 1
      BY <2>1, <3>2
    <3> QED BY <3>1, <3>2
  <2>5. Upto(m + 1)
    BY <2>3, <2>4
  <2> QED BY <2>5
<1>3. \A k \in 0..n - 1 : k \in T => k + 1 \in T
  BY <1>2
<1> HIDE DEF T
<1>4. \A k \in 0..n : k \in T
  BY <1>1, <1>3, CountingUp
<1>5. n \in T
  BY <1>4
<1> QED BY <1>5 DEF T, Stepwise

\* Powers of two, from the subsets of a set.
LEMMA Powers ==
    /\ 2^0 = 1
    /\ \A n \in Nat : 2^n \in Nat \ {0} /\ n < 2^n
    /\ \A m, n \in Nat : 2^(m + n) = 2^m * 2^n
    /\ \A m, n \in Nat : m <= n => 2^m <= 2^n
<1>1. 2^0 = 1 /\ 2^1 = 2
  OBVIOUS
<1>2. ASSUME NEW n \in Nat PROVE 2^n \in Nat \ {0}
  <2>1. IsFiniteSet(1..n) /\ Cardinality(1..n) = n
    BY FS_Interval
  <2>2. IsFiniteSet(SUBSET (1..n)) /\ Cardinality(SUBSET (1..n)) = 2^n
    BY <2>1, FS_SUBSET
  <2>3. SUBSET (1..n) # {}
    OBVIOUS
  <2> QED BY <2>2, <2>3, FS_CardinalityType, FS_EmptySet
<1>3. ASSUME NEW m \in Nat, NEW n \in Nat PROVE 2^(m + n) = 2^m * 2^n
  <2> DEFINE low == 1..m
             high == m + 1..m + n
             join == [p \in (SUBSET low) \X (SUBSET high) |-> p[1] \cup p[2]]
  <2>1. /\ IsFiniteSet(low) /\ Cardinality(low) = m
        /\ IsFiniteSet(high) /\ Cardinality(high) = n
        /\ IsFiniteSet(1..m + n) /\ Cardinality(1..m + n) = m + n
    <3>1. \A a, b \in Int : /\ IsFiniteSet(a..b)
                            /\ Cardinality(a..b) = IF a > b THEN 0 ELSE b - a + 1
      BY FS_Interval
    <3>2. Cardinality(low) = m
      BY <3>1
    <3>3. Cardinality(high) = n
      BY <3>1
    <3>4. Cardinality(1..m + n) = m + n
      <4>1. \A b \in Nat : Cardinality(1..b) = b
        BY <3>1
      <4>2. m + n \in Nat
        OBVIOUS
      <4> QED BY <4>1, <4>2
    <3> QED BY <3>1, <3>2, <3>3, <3>4
  <2>2. /\ IsFiniteSet(SUBSET low) /\ Cardinality(SUBSET low) = 2^m
        /\ IsFiniteSet(SUBSET high) /\ Cardinality(SUBSET high) = 2^n
        /\ Cardinality(SUBSET (1..m + n)) = 2^(m + n)
    BY <2>1, FS_SUBSET
  <2>3. /\ IsFiniteSet((SUBSET low) \X (SUBSET high))
        /\ Cardinality((SUBSET low) \X (SUBSET high)) = 2^m * 2^n
    BY <2>2, FS_Product
  <2>4. low \cup high = 1..m + n /\ low \cap high = {}
    OBVIOUS
  <2> HIDE DEF low, high
  <2>5. join \in Bijection((SUBSET low) \X (SUBSET high), SUBSET (1..m + n))
    <3>1. join \in [(SUBSET low) \X (SUBSET high) -> SUBSET (1..m + n)]
      BY <2>4
    <3>2. ASSUME NEW p \in (SUBSET low) \X (SUBSET high), NEW q \in (SUBSET low) \X (SUBSET high),
                 join[p] = join[q]
          PROVE  p = q
      <4>1. p[1] = join[p] \cap low /\ p[2] = join[p] \cap high
        BY <2>4
      <4>2. q[1] = join[q] \cap low /\ q[2] = join[q] \cap high
        BY <2>4
      <4> HIDE DEF join
      <4>3. p[1] = q[1] /\ p[2] = q[2]
        BY <3>2, <4>1, <4>2
      <4> QED BY <4>3
    <3>3. ASSUME NEW s \in SUBSET (1..m + n)
          PROVE  \E p \in (SUBSET low) \X (SUBSET high) : join[p] = s
      <4>1. <<s \cap low, s \cap high>> \in (SUBSET low) \X (SUBSET high)
        OBVIOUS
      <4>2. join[<<s \cap low, s \cap high>>] = s
        BY <2>4, <4>1
      <4> QED BY <4>1, <4>2
    <3> HIDE DEF join
    <3> QED BY <3>1, <3>2, <3>3 DEF Bijection, Injection, Surjection, IsInjective
  <2> HIDE DEF join
  <2> QED BY <2>2, <2>3, <2>5, FS_Bijection DEF ExistsBijection
<1>4. ASSUME NEW n \in Nat PROVE n < 2^n
  <2> DEFINE T == {k \in Nat : k < 2^k}
  <2>1. 0 \in T
    BY <1>1
  <2>2. ASSUME NEW k \in 0..n - 1, k \in T PROVE k + 1 \in T
    <3>1. 2^(k + 1) = 2^k * 2
      <4>1. k \in Nat
        OBVIOUS
      <4>2. \A j \in Nat : 2^(k + j) = 2^k * 2^j
        BY <1>3, <4>1
      <4>3. 2^(k + 1) = 2^k * 2^1
        BY <4>2
      <4> QED BY <1>1, <4>3
    <3> QED BY <1>2, <2>2, <3>1
  <2>3. \A k \in 0..n - 1 : k \in T => k + 1 \in T
    BY <2>2
  <2> HIDE DEF T
  <2>4. \A k \in 0..n : k \in T
    BY <2>1, <2>3, CountingUp
  <2> QED BY <2>4 DEF T
<1>5. ASSUME NEW m \in Nat, NEW n \in Nat, m <= n PROVE 2^m <= 2^n
  <2>1. PICK d \in Nat : n = m + d
    <3>1. n - m \in Nat /\ n = m + (n - m)
      BY <1>5
    <3> QED BY <3>1
  <2>2. 2^n = 2^m * 2^d /\ 2^m \in Nat \ {0} /\ 2^d \in Nat \ {0}
    BY <1>2, <1>3, <2>1
  <2>3. \A a, b \in Nat \ {0} : a <= a * b
    OBVIOUS
  <2> QED BY <2>2, <2>3
<1> QED BY <1>1, <1>2, <1>3, <1>4, <1>5

\* Dividing by what was multiplied with.
LEMMA Quotients ==
    ASSUME NEW b \in Nat \ {0}, NEW q \in Int, NEW d \in 0..b - 1
    PROVE  /\ (d + b * q) \div b = q
           /\ (d + b * q) % b = d
  OBVIOUS
=============================================================================
