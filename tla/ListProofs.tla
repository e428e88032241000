----------------------------- MODULE ListProofs -----------------------------
(***************************************************************************)
(* What the loops over lists compute, for lists of any length: the filters *)
(* of the sources, deduplicateResources and model.MergeProjects.  Each is  *)
(* a FoldLeft; the lemmas turn it into the sequence g of what the loop has *)
(* after each of its rounds, and its properties follow by induction.       *)
(***************************************************************************)
EXTENDS PersonaSources, WellFoundedInduction, FiniteSetTheorems, TLAPS

-----------------------------------------------------------------------------
(* Induction, with the property as a set.                                  *)

Less == {ss \in Nat \X Nat : ss[1] < ss[2]}

LEMMA LessWF == IsWellFoundedOn(Less, Nat)
BY NatLessThanWellFounded DEF OpToRel, Less

LEMMA SetInduction ==
    ASSUME NEW S, 0 \in S, \A n \in Nat : n \in S => n + 1 \in S
    PROVE  Nat \subseteq S
<1>. DEFINE T == Nat \ S
<1>1. SUFFICES ASSUME T # {} PROVE FALSE
  OBVIOUS
<1>2. T \subseteq Nat
  OBVIOUS
<1>3. \E x \in T : \A y \in T : ~ (<<y, x>> \in Less)
  <2>. HIDE DEF T
  <2>. QED  BY <1>1, <1>2, WFMin, LessWF
<1>4. PICK x \in T : \A y \in T : ~ (<<y, x>> \in Less)
  BY <1>3
<1>5. x \in Nat /\ x # 0 /\ x - 1 \in Nat /\ x - 1 \in T
  BY <1>4
<1>6. <<x - 1, x>> \in Less
  BY <1>5 DEF Less
<1>. QED  BY <1>4, <1>5, <1>6

LEMMA BoundedInduction ==
    ASSUME NEW n \in Nat, NEW S, 0 \in S, \A k \in 1..n : k - 1 \in S => k \in S
    PROVE  \A k \in 0..n : k \in S
<1>. DEFINE T == {k \in Nat : k <= n => k \in S}
<1>1. 0 \in T
  OBVIOUS
<1>2. ASSUME NEW k \in Nat, k \in T PROVE k + 1 \in T
  <2>. SUFFICES ASSUME k + 1 <= n PROVE k + 1 \in S
    OBVIOUS
  <2>1. k + 1 \in 1..n /\ (k + 1) - 1 = k
    OBVIOUS
  <2>. QED  BY <1>2, <2>1
<1>3. Nat \subseteq T
  <2>. HIDE DEF T
  <2>. QED  BY <1>1, <1>2, SetInduction
<1>. QED  BY <1>3

LEMMA TypedRounds ==
    ASSUME NEW n \in Nat, NEW A, NEW g, g[0] \in A,
           \A k \in 1..n : g[k - 1] \in A => g[k] \in A
    PROVE  \A k \in 0..n : g[k] \in A
<1>. DEFINE T == {k \in 0..n : g[k] \in A}
<1>1. 0 \in T
  OBVIOUS
<1>2. ASSUME NEW k \in 1..n, k - 1 \in T PROVE k \in T
  BY <1>2
<1>3. \A k \in 0..n : k \in T
  <2>. HIDE DEF T
  <2>. QED  BY <1>1, <1>2, BoundedInduction
<1>. QED  BY <1>3

-----------------------------------------------------------------------------
(* FoldLeft, whose step at index i is step[<<_, i>>].                      *)

LEMMA MaxOfLast ==
    ASSUME NEW n \in Nat, NEW s \in SUBSET (1..n), n \in s
    PROVE  Max(s) = n
<1>1. n \in s /\ \A y \in s : n >= y
  OBVIOUS
<1>2. Max(s) \in s /\ \A y \in s : Max(s) >= y
  BY <1>1, Zenon DEF Max
<1>3. Max(s) \in 1..n
  BY <1>2
<1>4. Max(s) >= n /\ n >= Max(s)
  BY <1>1, <1>2
<1>. QED  BY <1>3, <1>4

IsFold(f, A, n, base, step) ==
    /\ f \in [SUBSET (1..n) -> A]
    /\ \A s \in SUBSET (1..n) :
          f[s] = IF s = {} THEN base ELSE step[<<f[s \ {Max(s)}], Max(s)>>]

LEMMA FoldExists ==
    ASSUME NEW A, NEW base \in A, NEW m \in Nat, NEW step \in [A \X (1..m) -> A]
    PROVE  \E f : IsFold(f, A, m, base, step)
<1>. DEFINE S == {n \in Nat : n <= m => \E f : IsFold(f, A, n, base, step)}
<1>1. 0 \in S
  <2>1. IsFold([s \in SUBSET (1..0) |-> base], A, 0, base, step)
    <3>1. \A s \in SUBSET (1..0) : s = {}
      OBVIOUS
    <3>. QED  BY <3>1 DEF IsFold
  <2>. QED  BY <2>1
<1>2. ASSUME NEW n \in Nat, n \in S PROVE n + 1 \in S
  <2>. SUFFICES ASSUME n + 1 <= m PROVE \E f : IsFold(f, A, n + 1, base, step)
    OBVIOUS
  <2>1. PICK f : IsFold(f, A, n, base, step)
    BY <1>2
  <2>. DEFINE last == n + 1
              g == [s \in SUBSET (1..last) |->
                      IF last \in s THEN step[<<f[s \ {last}], last>>] ELSE f[s]]
  <2>2. last \in 1..m /\ last \in Nat
    OBVIOUS
  <2>3. \A s \in SUBSET (1..last) : s \ {last} \in SUBSET (1..n)
    OBVIOUS
  <2>4. \A s \in SUBSET (1..last) : last \notin s => s \in SUBSET (1..n)
    OBVIOUS
  <2>. HIDE DEF last
  <2>5. g \in [SUBSET (1..last) -> A]
    BY <2>1, <2>2, <2>3, <2>4 DEF IsFold
  <2>6. ASSUME NEW s \in SUBSET (1..last)
        PROVE  g[s] = IF s = {} THEN base ELSE step[<<g[s \ {Max(s)}], Max(s)>>]
    <3>1. CASE last \in s
      <4>1. Max(s) = last
        BY <2>2, <3>1, MaxOfLast
      <4>2. g[s \ {last}] = f[s \ {last}]
        BY <2>3
      <4>. QED  BY <3>1, <4>1, <4>2
    <3>2. CASE last \notin s
      <4>1. s \in SUBSET (1..n) /\ s \ {Max(s)} \in SUBSET (1..n)
        BY <2>4, <3>2
      <4>2. g[s \ {Max(s)}] = f[s \ {Max(s)}] /\ g[s] = f[s]
        BY <2>4, <3>2, <4>1
      <4>. QED  BY <2>1, <4>1, <4>2 DEF IsFold
    <3>. QED  BY <3>1, <3>2
  <2>7. IsFold(g, A, last, base, step)
    BY <2>5, <2>6 DEF IsFold
  <2>. QED  BY <2>7 DEF last
<1>3. Nat \subseteq S
  <2>. HIDE DEF S
  <2>. QED  BY <1>1, <1>2, SetInduction
<1>. QED  BY <1>3

(* The prefixes of a list, from which a fold goes on.                      *)
LEMMA Prefix ==
    ASSUME NEW n \in Nat, NEW k \in 1..n
    PROVE  /\ Max(1..k) = k /\ (1..k) \ {k} = 1..(k - 1) /\ (1..k) # {}
           /\ (1..k) \in SUBSET (1..n) /\ k - 1 \in 0..n
<1>1. Max(1..k) = k
  BY MaxOfLast
<1>2. \A j : (j \in (1..k) \ {k}) <=> (j \in 1..(k - 1))
  OBVIOUS
<1>3. k \in 1..k /\ k - 1 \in 0..n
  OBVIOUS
<1>. QED  BY <1>1, <1>2, <1>3

LEMMA MaxIsIn ==
    ASSUME NEW n \in Nat, NEW s \in SUBSET (1..n), s # {}
    PROVE  Max(s) \in 1..n
<1>. DEFINE S == {m \in 0..n : \A u \in SUBSET (1..m) : u # {} => Max(u) \in 1..n}
<1>1. 0 \in S
  <2>1. \A u \in SUBSET (1..0) : u = {}
    OBVIOUS
  <2>2. \A u \in SUBSET (1..0) : u # {} => Max(u) \in 1..n
    BY <2>1, Zenon
  <2>3. 0 \in 0..n
    OBVIOUS
  <2>. QED  BY <2>2, <2>3, Zenon
<1>2. ASSUME NEW m \in 1..n, m - 1 \in S PROVE m \in S
  <2>1. ASSUME NEW u \in SUBSET (1..m), u # {} PROVE Max(u) \in 1..n
    <3>1. CASE m \in u
      BY <3>1, MaxOfLast
    <3>2. CASE m \notin u
      <4>1. u \in SUBSET (1..(m - 1))
        BY <3>2
      <4>. QED  BY <1>2, <2>1, <4>1
    <3>. QED  BY <3>1, <3>2
  <2>. QED  BY <2>1
<1>3. n \in S
  <2>. HIDE DEF S
  <2>. QED  BY <1>1, <1>2, BoundedInduction
<1>. QED  BY <1>3

-----------------------------------------------------------------------------
(* The loops that filter.                                                  *)

OnlyLoop(g, X, q, S) ==
    /\ g \in [0..Len(q) -> Seq(X)]
    /\ g[0] = <<>> /\ g[Len(q)] = Only(q, S)
    /\ \A k \in 1..Len(q) :
          g[k] = IF q[k] \in S THEN Append(g[k - 1], q[k]) ELSE g[k - 1]

LEMMA OnlyRounds ==
    ASSUME NEW X, NEW q \in Seq(X), NEW S
    PROVE  \E g : OnlyLoop(g, X, q, S)
<1>. DEFINE n == Len(q)
            A == Seq(X)
            step == [p \in A \X (1..n) |->
                        IF q[p[2]] \in S THEN Append(p[1], q[p[2]]) ELSE p[1]]
            Loop(f) == f = [s \in SUBSET DOMAIN q |->
                              IF s = {} THEN <<>>
                              ELSE IF q[Max(s)] \in S THEN Append(f[s \ {Max(s)}], q[Max(s)])
                                   ELSE f[s \ {Max(s)}]]
<1>1. Only(q, S) = (CHOOSE f : Loop(f))[DOMAIN q]
  BY Zenon DEF Only, FoldLeft, MapThenFoldSet
<1>2. step \in [A \X (1..n) -> A] /\ DOMAIN q = 1..n /\ n \in Nat /\ <<>> \in A
  OBVIOUS
<1>3. \A s \in SUBSET (1..n) : s # {} => Max(s) \in 1..n
  BY <1>2, MaxIsIn
<1>4. \E f : Loop(f)
  <2>1. PICK f : IsFold(f, A, n, <<>>, step)
    BY <1>2, FoldExists
  <2>2. f \in [SUBSET (1..n) -> A] /\ DOMAIN f = SUBSET (1..n)
    BY <2>1 DEF IsFold
  <2>3. ASSUME NEW s \in SUBSET (1..n)
        PROVE  f[s] = IF s = {} THEN <<>>
                      ELSE IF q[Max(s)] \in S THEN Append(f[s \ {Max(s)}], q[Max(s)])
                           ELSE f[s \ {Max(s)}]
    <3>1. f[s \ {Max(s)}] \in A
      BY <2>2
    <3>2. f[s] = IF s = {} THEN <<>> ELSE step[<<f[s \ {Max(s)}], Max(s)>>]
      BY <2>1 DEF IsFold
    <3>3. CASE s # {}
      <4>1. <<f[s \ {Max(s)}], Max(s)>> \in A \X (1..n)
        BY <1>3, <3>1, <3>3
      <4>. QED  BY <3>2, <3>3, <4>1
    <3>. QED  BY <3>2, <3>3
  <2>. QED  BY <1>2, <2>2, <2>3, Zenon
<1>5. PICK f : Loop(f) /\ Only(q, S) = f[DOMAIN q]
  <2>. HIDE DEF Loop
  <2>. QED  BY <1>1, <1>4, Zenon
<1>. DEFINE g == [k \in 0..n |-> f[1..k]]
<1>6. g[0] = <<>> /\ g[n] = Only(q, S)
  <2>1. (1..0) = {} /\ {} \in SUBSET (1..n) /\ f[{}] = <<>>
    BY <1>2, <1>5
  <2>. QED  BY <1>2, <1>5, <2>1
<1>7. ASSUME NEW k \in 1..n
      PROVE  g[k] = IF q[k] \in S THEN Append(g[k - 1], q[k]) ELSE g[k - 1]
  <2>1. /\ Max(1..k) = k /\ (1..k) \ {k} = 1..(k - 1) /\ (1..k) # {}
        /\ (1..k) \in SUBSET (1..n) /\ k - 1 \in 0..n
    BY <1>2, Prefix
  <2>2. f[1..k] = IF q[Max(1..k)] \in S
                  THEN Append(f[(1..k) \ {Max(1..k)}], q[Max(1..k)])
                  ELSE f[(1..k) \ {Max(1..k)}]
    BY <1>2, <1>5, <2>1
  <2>3. g[k] = f[1..k] /\ g[k - 1] = f[1..(k - 1)]
    BY <2>1
  <2>. QED  BY <2>1, <2>2, <2>3
<1>. HIDE DEF g
<1>8. ASSUME NEW k \in 1..n, g[k - 1] \in A PROVE g[k] \in A
  <2>1. q[k] \in X
    OBVIOUS
  <2>2. Append(g[k - 1], q[k]) \in A
    BY <1>8, <2>1
  <2>. HIDE DEF A, n
  <2>. QED  BY <1>7, <1>8, <2>2
<1>9. \A k \in 0..n : g[k] \in A
  <2>. HIDE DEF A
  <2>. QED  BY <1>2, <1>6, <1>8, TypedRounds
<1>10. DOMAIN g = 0..n /\ g = [k \in 0..n |-> g[k]]
  BY DEF g
<1>. QED  BY <1>6, <1>7, <1>9, <1>10 DEF OnlyLoop

LEMMA ToSetIsRange == \A q : ToSet(q) = Range(q)
BY Zenon DEF ToSet, Range

LEMMA RangeOfList == ASSUME NEW S, NEW q \in Seq(S) PROVE Range(q) \subseteq S
BY DEF Range

LEMMA AppendFacts ==
    ASSUME NEW X, NEW q \in Seq(X), NEW x \in X
    PROVE  /\ Append(q, x) \in Seq(X) /\ Range(Append(q, x)) = Range(q) \cup {x}
           /\ IsInjective(q) /\ x \notin Range(q) => IsInjective(Append(q, x))
<1>. DEFINE a == Append(q, x)
<1>1. /\ a \in Seq(X) /\ Len(a) = Len(q) + 1 /\ a[Len(q) + 1] = x
      /\ \A i \in 1..Len(q) : a[i] = q[i]
      /\ DOMAIN q = 1..Len(q) /\ DOMAIN a = 1..(Len(q) + 1) /\ Len(q) \in Nat
  OBVIOUS
<1>. HIDE DEF a
<1>2. Range(a) = Range(q) \cup {x}
  <2>1. \A y \in Range(a) : y \in Range(q) \cup {x}
    BY <1>1 DEF Range
  <2>2. \A y \in Range(q) : y \in Range(a)
    BY <1>1 DEF Range
  <2>3. x \in Range(a)
    BY <1>1 DEF Range
  <2>. QED  BY <2>1, <2>2, <2>3
<1>3. ASSUME IsInjective(q), x \notin Range(q) PROVE IsInjective(a)
  <2>. SUFFICES ASSUME NEW i \in DOMAIN a, NEW j \in DOMAIN a, a[i] = a[j] PROVE i = j
    BY Zenon DEF IsInjective
  <2>1. \A k \in 1..Len(q) : a[k] # x
    BY <1>1, <1>3 DEF Range
  <2>2. CASE i = Len(q) + 1 \/ j = Len(q) + 1
    BY <1>1, <2>1, <2>2
  <2>3. CASE i \in 1..Len(q) /\ j \in 1..Len(q)
    BY <1>1, <1>3, <2>3 DEF IsInjective
  <2>. QED  BY <1>1, <2>2, <2>3
<1>. QED  BY <1>1, <1>2, <1>3 DEF a

LEMMA ConcatFacts ==
    ASSUME NEW X, NEW q \in Seq(X), NEW r \in Seq(X)
    PROVE  /\ q \o r \in Seq(X) /\ Range(q \o r) = Range(q) \cup Range(r)
           /\ q # <<>> => q \o r # <<>>
           /\ IsInjective(q) /\ IsInjective(r) /\ Range(q) \cap Range(r) = {}
                => IsInjective(q \o r)
<1>. DEFINE m == Len(q)
            n == Len(r)
            c == q \o r
<1>1. /\ m \in Nat /\ n \in Nat /\ DOMAIN q = 1..m /\ DOMAIN r = 1..n
      /\ q = <<>> <=> m = 0
  OBVIOUS
<1>2. c \in Seq(X) /\ Len(c) = m + n /\ DOMAIN c = 1..(m + n)
  OBVIOUS
<1>3. \A k \in 1..m : c[k] = q[k]
  OBVIOUS
<1>4. ASSUME NEW k \in 1..(m + n), k \notin 1..m PROVE k - m \in 1..n /\ c[k] = r[k - m]
  BY <1>1, <1>4
<1>5. ASSUME NEW k \in 1..n PROVE m + k \in 1..(m + n) /\ c[m + k] = r[k]
  BY <1>1, <1>5
<1>. HIDE DEF c, m, n
<1>6. Range(c) = Range(q) \cup Range(r)
  <2>1. \A y \in Range(c) : y \in Range(q) \cup Range(r)
    BY <1>1, <1>2, <1>3, <1>4 DEF Range
  <2>2. \A y \in Range(q) : y \in Range(c)
    BY <1>1, <1>2, <1>3 DEF Range
  <2>3. \A y \in Range(r) : y \in Range(c)
    BY <1>1, <1>2, <1>5 DEF Range
  <2>. QED  BY <2>1, <2>2, <2>3
<1>7. q # <<>> => c # <<>>
  <2>1. c = <<>> => Len(c) = 0
    OBVIOUS
  <2>. QED  BY <1>1, <1>2, <2>1
<1>8. ASSUME IsInjective(q), IsInjective(r), Range(q) \cap Range(r) = {}
      PROVE  IsInjective(c)
  <2>. SUFFICES ASSUME NEW i \in DOMAIN c, NEW j \in DOMAIN c, c[i] = c[j] PROVE i = j
    BY Zenon DEF IsInjective
  <2>1. CASE i \in 1..m /\ j \in 1..m
    BY <1>1, <1>3, <1>8, <2>1 DEF IsInjective
  <2>2. CASE i \notin 1..m /\ j \notin 1..m
    <3>1. i - m = j - m
      BY <1>1, <1>2, <1>4, <1>8, <2>2 DEF IsInjective
    <3>. QED  BY <1>1, <1>2, <3>1
  <2>3. ASSUME NEW k \in DOMAIN c, NEW l \in DOMAIN c, k \in 1..m, l \notin 1..m
        PROVE  c[k] # c[l]
    BY <1>1, <1>2, <1>3, <1>4, <1>8, <2>3 DEF Range
  <2>. QED  BY <2>1, <2>2, <2>3
<1>. QED  BY <1>2, <1>6, <1>7, <1>8 DEF c

(* A filter keeps of a list what is in S, and repeats nothing.             *)
THEOREM OnlyFacts ==
    ASSUME NEW X, NEW q \in Seq(X), NEW S
    PROVE  /\ Only(q, S) \in Seq(X) /\ Range(Only(q, S)) = Range(q) \cap S
           /\ IsInjective(q) => IsInjective(Only(q, S))
<1>1. PICK g : OnlyLoop(g, X, q, S)
  BY OnlyRounds
<1>. DEFINE n == Len(q)
            Seen(k) == {q[i] : i \in 1..k}
            T == {k \in 0..n : /\ Range(g[k]) = Seen(k) \cap S
                               /\ IsInjective(q) => IsInjective(g[k])}
<1>2. n \in Nat /\ DOMAIN q = 1..n
  OBVIOUS
<1>3. 0 \in T
  <2>1. DOMAIN g[0] = {} /\ Seen(0) = {} /\ 0 \in 0..n
    BY <1>1 DEF OnlyLoop
  <2>2. Range(g[0]) = {} /\ IsInjective(g[0])
    BY <2>1 DEF Range, IsInjective
  <2>. QED  BY <2>1, <2>2
<1>4. ASSUME NEW k \in 1..n, k - 1 \in T PROVE k \in T
  <2>1. Seen(k) = Seen(k - 1) \cup {q[k]}
    <3>1. \A y \in Seen(k) : y \in Seen(k - 1) \cup {q[k]}
      BY <1>2
    <3>2. \A y \in Seen(k - 1) \cup {q[k]} : y \in Seen(k)
      BY <1>2
    <3>. QED  BY <3>1, <3>2
  <2>2. IsInjective(q) => q[k] \notin Seen(k - 1)
    BY <1>2 DEF IsInjective
  <2>3. g[k - 1] \in Seq(X) /\ q[k] \in X /\ k \in 0..n
    BY <1>1, <1>2 DEF OnlyLoop
  <2>4. Range(g[k - 1]) = Seen(k - 1) \cap S /\ (IsInjective(q) => IsInjective(g[k - 1]))
    BY <1>4
  <2>. HIDE DEF Seen
  <2>5. CASE q[k] \in S
    <3>1. g[k] = Append(g[k - 1], q[k])
      BY <1>1, <2>5 DEF OnlyLoop
    <3>2. /\ Range(g[k]) = Range(g[k - 1]) \cup {q[k]}
          /\ IsInjective(g[k - 1]) /\ q[k] \notin Range(g[k - 1]) => IsInjective(g[k])
      BY <2>3, <3>1, AppendFacts
    <3>. QED  BY <2>1, <2>2, <2>3, <2>4, <2>5, <3>2
  <2>6. CASE q[k] \notin S
    BY <1>1, <2>1, <2>3, <2>4, <2>6 DEF OnlyLoop
  <2>. QED  BY <2>5, <2>6
<1>5. n \in T
  <2>1. n \in 0..n
    BY <1>2
  <2>. HIDE DEF T, n
  <2>. QED  BY <1>2, <1>3, <1>4, <2>1, BoundedInduction
<1>6. Seen(n) = Range(q)
  BY <1>2 DEF Range
<1>7. Only(q, S) = g[n] /\ g[n] \in Seq(X)
  BY <1>1, <1>2 DEF OnlyLoop
<1>. QED  BY <1>5, <1>6, <1>7

-----------------------------------------------------------------------------
(* deduplicateResources.                                                   *)

(* The rounds of deduplicateResources.                                     *)
UnseenLoop(g, X, q) ==
    /\ g \in [0..Len(q) -> Seq(X)]
    /\ g[0] = <<>> /\ g[Len(q)] = DeduplicateResources(q)
    /\ \A k \in 1..Len(q) : g[k] = AddUnseen(g[k - 1], q[k])

LEMMA UnseenRounds ==
    ASSUME NEW X, NEW q \in Seq(X),
           \A a \in Seq(X), x \in X : AddUnseen(a, x) \in Seq(X)
    PROVE  \E g : UnseenLoop(g, X, q)
<1>. DEFINE n == Len(q)
            A == Seq(X)
            step == [p \in A \X (1..n) |-> AddUnseen(p[1], q[p[2]])]
            Loop(f) == f = [s \in SUBSET DOMAIN q |->
                              IF s = {} THEN <<>>
                              ELSE AddUnseen(f[s \ {Max(s)}], q[Max(s)])]
<1>1. DeduplicateResources(q) = (CHOOSE f : Loop(f))[DOMAIN q]
  BY Zenon DEF DeduplicateResources, FoldLeft, MapThenFoldSet
<1>2. DOMAIN q = 1..n /\ n \in Nat /\ <<>> \in A
  OBVIOUS
<1>3. step \in [A \X (1..n) -> A]
  <2>1. \A p \in A \X (1..n) : p[1] \in A /\ q[p[2]] \in X
    BY <1>2
  <2>. QED  BY <2>1
<1>4. \A s \in SUBSET (1..n) : s # {} => Max(s) \in 1..n
  BY <1>2, MaxIsIn
<1>5. \E f : Loop(f)
  <2>1. PICK f : IsFold(f, A, n, <<>>, step)
    BY <1>2, <1>3, FoldExists
  <2>2. f \in [SUBSET (1..n) -> A] /\ DOMAIN f = SUBSET (1..n)
    BY <2>1 DEF IsFold
  <2>3. ASSUME NEW s \in SUBSET (1..n)
        PROVE  f[s] = IF s = {} THEN <<>> ELSE AddUnseen(f[s \ {Max(s)}], q[Max(s)])
    <3>1. f[s \ {Max(s)}] \in A
      BY <2>2
    <3>2. f[s] = IF s = {} THEN <<>> ELSE step[<<f[s \ {Max(s)}], Max(s)>>]
      BY <2>1 DEF IsFold
    <3>3. CASE s # {}
      <4>1. <<f[s \ {Max(s)}], Max(s)>> \in A \X (1..n)
        BY <1>4, <3>1, <3>3
      <4>. QED  BY <3>2, <3>3, <4>1
    <3>. QED  BY <3>2, <3>3
  <2>. QED  BY <1>2, <2>2, <2>3, Zenon
<1>6. PICK f : Loop(f) /\ DeduplicateResources(q) = f[DOMAIN q]
  <2>. HIDE DEF Loop
  <2>. QED  BY <1>1, <1>5, Zenon
<1>. DEFINE g == [k \in 0..n |-> f[1..k]]
<1>7. g[0] = <<>> /\ g[n] = DeduplicateResources(q)
  <2>1. (1..0) = {} /\ {} \in SUBSET (1..n) /\ f[{}] = <<>>
    BY <1>2, <1>6
  <2>2. g[0] = f[1..0] /\ g[n] = f[1..n]
    BY <1>2
  <2>. HIDE DEF g, Loop
  <2>. QED  BY <1>2, <1>6, <2>1, <2>2
<1>8. ASSUME NEW k \in 1..n PROVE g[k] = AddUnseen(g[k - 1], q[k])
  <2>1. /\ Max(1..k) = k /\ (1..k) \ {k} = 1..(k - 1) /\ (1..k) # {}
        /\ (1..k) \in SUBSET (1..n) /\ k - 1 \in 0..n
    BY <1>2, Prefix
  <2>2. f[1..k] = AddUnseen(f[(1..k) \ {Max(1..k)}], q[Max(1..k)])
    BY <1>2, <1>6, <2>1
  <2>3. g[k] = f[1..k] /\ g[k - 1] = f[1..(k - 1)]
    BY <2>1
  <2>. QED  BY <2>1, <2>2, <2>3
<1>. HIDE DEF g
<1>9. ASSUME NEW k \in 1..n, g[k - 1] \in A PROVE g[k] \in A
  <2>1. q[k] \in X
    BY <1>2
  <2>. QED  BY <1>8, <1>9, <2>1
<1>10. \A k \in 0..n : g[k] \in A
  <2>. HIDE DEF A
  <2>. QED  BY <1>2, <1>7, <1>9, TypedRounds
<1>11. DOMAIN g = 0..n /\ g = [k \in 0..n |-> g[k]]
  BY DEF g
<1>. QED  BY <1>7, <1>8, <1>10, <1>11 DEF UnseenLoop

Ids(S) == {r.id : r \in S}

(* deduplicateResources keeps one record of each id, and adds none.        *)
THEOREM DedupFacts ==
    ASSUME NEW X, NEW q \in Seq(X)
    PROVE  LET u == DeduplicateResources(q)
           IN  /\ u \in Seq(X) /\ Range(u) \subseteq Range(q)
               /\ Ids(Range(u)) = Ids(Range(q))
               /\ \A i, j \in DOMAIN u : u[i].id = u[j].id => i = j
<1>1. \A a \in Seq(X), x \in X : AddUnseen(a, x) \in Seq(X)
  BY DEF AddUnseen
<1>2. PICK g : UnseenLoop(g, X, q)
  BY <1>1, UnseenRounds
<1>. DEFINE n == Len(q)
            Seen(k) == {q[i] : i \in 1..k}
            Distinct(u) == \A i, j \in DOMAIN u : u[i].id = u[j].id => i = j
            Kept(u, S) == Range(u) \subseteq S /\ Ids(Range(u)) = Ids(S) /\ Distinct(u)
            T == {k \in 0..n : Kept(g[k], Seen(k))}
<1>3. n \in Nat /\ DOMAIN q = 1..n
  OBVIOUS
<1>4. 0 \in T
  <2>1. DOMAIN g[0] = {} /\ Seen(0) = {} /\ 0 \in 0..n
    BY <1>2 DEF UnseenLoop
  <2>2. Range(g[0]) = {}
    BY <2>1 DEF Range
  <2>. QED  BY <2>1, <2>2 DEF Ids
<1>5. ASSUME NEW k \in 1..n, k - 1 \in T PROVE k \in T
  <2>1. Seen(k) = Seen(k - 1) \cup {q[k]}
    <3>1. \A y \in Seen(k) : y \in Seen(k - 1) \cup {q[k]}
      BY <1>3
    <3>2. \A y \in Seen(k - 1) \cup {q[k]} : y \in Seen(k)
      BY <1>3
    <3>. QED  BY <3>1, <3>2
  <2>2. g[k - 1] \in Seq(X) /\ q[k] \in X /\ k \in 0..n
    BY <1>2, <1>3 DEF UnseenLoop
  <2>3. Kept(g[k - 1], Seen(k - 1))
    BY <1>5
  <2>. HIDE DEF Seen
  <2>4. CASE \E i \in DOMAIN g[k - 1] : g[k - 1][i].id = q[k].id
    <3>1. g[k] = g[k - 1]
      BY <1>2, <2>4 DEF UnseenLoop, AddUnseen
    <3>2. q[k].id \in Ids(Range(g[k - 1]))
      BY <2>4 DEF Ids, Range
    <3>3. Ids(Seen(k)) = Ids(Seen(k - 1)) \cup {q[k].id}
      BY <2>1 DEF Ids
    <3>. QED  BY <2>1, <2>2, <2>3, <3>1, <3>2, <3>3
  <2>5. CASE ~ \E i \in DOMAIN g[k - 1] : g[k - 1][i].id = q[k].id
    <3>. DEFINE a == g[k - 1]
                b == Append(a, q[k])
    <3>1. g[k] = b
      BY <1>2, <2>5 DEF UnseenLoop, AddUnseen
    <3>2. /\ Len(b) = Len(a) + 1 /\ b[Len(a) + 1] = q[k]
          /\ \A i \in 1..Len(a) : b[i] = a[i]
          /\ DOMAIN a = 1..Len(a) /\ DOMAIN b = 1..(Len(a) + 1) /\ Len(a) \in Nat
      BY <2>2
    <3>3. Range(b) = Range(a) \cup {q[k]}
      BY <2>2, AppendFacts
    <3>4. Kept(a, Seen(k - 1)) /\ \A i \in DOMAIN a : a[i].id # q[k].id
      BY <2>3, <2>5
    <3>. HIDE DEF a, b
    <3>5. Distinct(b)
      BY <3>2, <3>4
    <3>6. Range(b) \subseteq Seen(k) /\ Ids(Range(b)) = Ids(Seen(k))
      BY <2>1, <3>3, <3>4 DEF Ids
    <3>. QED  BY <2>2, <3>1, <3>5, <3>6
  <2>. QED  BY <2>4, <2>5
<1>6. n \in T
  <2>1. n \in 0..n
    BY <1>3
  <2>. HIDE DEF T, n
  <2>. QED  BY <1>3, <1>4, <1>5, <2>1, BoundedInduction
<1>7. Seen(n) = Range(q)
  BY <1>3 DEF Range
<1>8. DeduplicateResources(q) = g[n] /\ g[n] \in Seq(X)
  BY <1>2, <1>3 DEF UnseenLoop
<1>. QED  BY <1>6, <1>7, <1>8

(* Where an id stands for one record, every record is kept, once.          *)
LEMMA DedupKeepsAll ==
    ASSUME NEW X, NEW q \in Seq(X), \A r, t \in X : r.id = t.id => r = t
    PROVE  /\ DeduplicateResources(q) \in Seq(X)
           /\ Range(DeduplicateResources(q)) = Range(q)
           /\ IsInjective(DeduplicateResources(q))
<1>. DEFINE u == DeduplicateResources(q)
<1>1. /\ u \in Seq(X) /\ Range(u) \subseteq Range(q) /\ Ids(Range(u)) = Ids(Range(q))
      /\ \A i, j \in DOMAIN u : u[i].id = u[j].id => i = j
  BY DedupFacts
<1>. HIDE DEF u
<1>2. IsInjective(u)
  BY <1>1 DEF IsInjective
<1>3. ASSUME NEW r \in Range(q) PROVE r \in Range(u)
  <2>1. PICK t \in Range(u) : t.id = r.id
    BY <1>1 DEF Ids
  <2>2. Range(q) \subseteq X
    BY DEF Range
  <2>. QED  BY <1>1, <2>1, <2>2
<1>. QED  BY <1>1, <1>2, <1>3 DEF u

-----------------------------------------------------------------------------
(* model.MergeProjects.                                                    *)

MergeList(list, q) == FoldLeft(MergeOne, list, q)

(* The rounds of either loop of model.MergeProjects.                       *)
MergeLoop(g, X, list, q) ==
    /\ g \in [0..Len(q) -> Seq(X)]
    /\ g[0] = list /\ g[Len(q)] = MergeList(list, q)
    /\ \A k \in 1..Len(q) : g[k] = MergeOne(g[k - 1], q[k])

LEMMA MergeRounds ==
    ASSUME NEW X, NEW list \in Seq(X), NEW q \in Seq(X),
           \A a \in Seq(X), x \in X : MergeOne(a, x) \in Seq(X)
    PROVE  \E g : MergeLoop(g, X, list, q)
<1>. DEFINE n == Len(q)
            A == Seq(X)
            step == [p \in A \X (1..n) |-> MergeOne(p[1], q[p[2]])]
            Loop(f) == f = [s \in SUBSET DOMAIN q |->
                              IF s = {} THEN list
                              ELSE MergeOne(f[s \ {Max(s)}], q[Max(s)])]
<1>1. MergeList(list, q) = (CHOOSE f : Loop(f))[DOMAIN q]
  BY Zenon DEF MergeList, FoldLeft, MapThenFoldSet
<1>2. DOMAIN q = 1..n /\ n \in Nat /\ list \in A
  OBVIOUS
<1>3. step \in [A \X (1..n) -> A]
  <2>1. \A p \in A \X (1..n) : p[1] \in A /\ q[p[2]] \in X
    BY <1>2
  <2>. QED  BY <2>1
<1>4. \A s \in SUBSET (1..n) : s # {} => Max(s) \in 1..n
  BY <1>2, MaxIsIn
<1>5. \E f : Loop(f)
  <2>1. PICK f : IsFold(f, A, n, list, step)
    BY <1>2, <1>3, FoldExists
  <2>2. f \in [SUBSET (1..n) -> A] /\ DOMAIN f = SUBSET (1..n)
    BY <2>1 DEF IsFold
  <2>3. ASSUME NEW s \in SUBSET (1..n)
        PROVE  f[s] = IF s = {} THEN list ELSE MergeOne(f[s \ {Max(s)}], q[Max(s)])
    <3>1. f[s \ {Max(s)}] \in A
      BY <2>2
    <3>2. f[s] = IF s = {} THEN list ELSE step[<<f[s \ {Max(s)}], Max(s)>>]
      BY <2>1 DEF IsFold
    <3>3. CASE s # {}
      <4>1. <<f[s \ {Max(s)}], Max(s)>> \in A \X (1..n)
        BY <1>4, <3>1, <3>3
      <4>. QED  BY <3>2, <3>3, <4>1
    <3>. QED  BY <3>2, <3>3
  <2>. QED  BY <1>2, <2>2, <2>3, Zenon
<1>6. PICK f : Loop(f) /\ MergeList(list, q) = f[DOMAIN q]
  <2>. HIDE DEF Loop
  <2>. QED  BY <1>1, <1>5, Zenon
<1>. DEFINE g == [k \in 0..n |-> f[1..k]]
<1>7. g[0] = list /\ g[n] = MergeList(list, q)
  <2>1. (1..0) = {} /\ {} \in SUBSET (1..n) /\ f[{}] = list
    BY <1>2, <1>6
  <2>2. g[0] = f[1..0] /\ g[n] = f[1..n]
    BY <1>2
  <2>. HIDE DEF g, Loop
  <2>. QED  BY <1>2, <1>6, <2>1, <2>2
<1>8. ASSUME NEW k \in 1..n PROVE g[k] = MergeOne(g[k - 1], q[k])
  <2>1. /\ Max(1..k) = k /\ (1..k) \ {k} = 1..(k - 1) /\ (1..k) # {}
        /\ (1..k) \in SUBSET (1..n) /\ k - 1 \in 0..n
    BY <1>2, Prefix
  <2>2. f[1..k] = MergeOne(f[(1..k) \ {Max(1..k)}], q[Max(1..k)])
    BY <1>2, <1>6, <2>1
  <2>3. g[k] = f[1..k] /\ g[k - 1] = f[1..(k - 1)]
    BY <2>1
  <2>. QED  BY <2>1, <2>2, <2>3
<1>. HIDE DEF g
<1>9. ASSUME NEW k \in 1..n, g[k - 1] \in A PROVE g[k] \in A
  <2>1. q[k] \in X
    BY <1>2
  <2>. QED  BY <1>8, <1>9, <2>1
<1>10. \A k \in 0..n : g[k] \in A
  <2>. HIDE DEF A
  <2>. QED  BY <1>2, <1>7, <1>9, TypedRounds
<1>11. DOMAIN g = 0..n /\ g = [k \in 0..n |-> g[k]]
  BY DEF g
<1>. QED  BY <1>7, <1>8, <1>10, <1>11 DEF MergeLoop

Projects(U, V, D) == [uid : U, slug : V, detections : Seq(D)]

(* The detections of a project, and of a list of projects.                 *)
PairsOf(e) == {[uid |-> e.uid, by |-> e.detections[k]] : k \in DOMAIN e.detections}
Pairs(list) == UNION {PairsOf(list[i]) : i \in DOMAIN list}

PerProject(list) == \A i, j \in DOMAIN list : list[i].uid = list[j].uid => i = j
Filled(list) == \A i \in DOMAIN list : list[i].uid # "" /\ list[i].detections # <<>>
InEntriesOnce(list) == \A i \in DOMAIN list : IsInjective(list[i].detections)

(* No detection of a project is twice in the list, in one entry or in two. *)
Once(list) ==
    /\ InEntriesOnce(list)
    /\ \A i, j \in DOMAIN list : i # j => PairsOf(list[i]) \cap PairsOf(list[j]) = {}

LEMMA PairsIn ==
    ASSUME NEW list, NEW d
    PROVE  d \in Pairs(list) <=> \E i \in DOMAIN list : d \in PairsOf(list[i])
BY Zenon DEF Pairs

LEMMA PairsOfIn ==
    ASSUME NEW U, NEW V, NEW D, NEW e \in Projects(U, V, D), NEW d
    PROVE  d \in PairsOf(e) <=>
             d \in [uid : U, by : D] /\ d.uid = e.uid /\ d.by \in Range(e.detections)
<1>1. e.detections \in Seq(D) /\ e.uid \in U
  BY DEF Projects
<1>2. \A k \in DOMAIN e.detections : e.detections[k] \in D
  BY <1>1
<1>. QED  BY <1>1, <1>2 DEF PairsOf, Range

(* A list of one entry per project has no detection in two entries.        *)
LEMMA PerProjectOnce ==
    ASSUME NEW U, NEW V, NEW D, NEW list \in Seq(Projects(U, V, D)), PerProject(list),
           InEntriesOnce(list)
    PROVE  Once(list)
<1>1. ASSUME NEW i \in DOMAIN list, NEW j \in DOMAIN list, i # j,
             NEW d \in PairsOf(list[i]), d \in PairsOf(list[j])
      PROVE  FALSE
  <2>1. list[i] \in Projects(U, V, D) /\ list[j] \in Projects(U, V, D)
    OBVIOUS
  <2>2. d.uid = list[i].uid /\ d.uid = list[j].uid
    BY <1>1, <2>1, PairsOfIn
  <2>. QED  BY <1>1, <2>2 DEF PerProject
<1>. QED  BY <1>1 DEF Once

LEMMA AbsorbFacts ==
    ASSUME NEW U, NEW V, NEW D, NEW e \in Projects(U, V, D), NEW p \in Projects(U, V, D)
    PROVE  LET a == Absorb(e, p)
           IN  /\ a \in Projects(U, V, D) /\ a.uid = e.uid
               /\ e.detections # <<>> => a.detections # <<>>
               /\ e.uid # p.uid => a = e
               /\ e.uid = p.uid =>
                    /\ PairsOf(a) = PairsOf(e) \cup PairsOf(p)
                    /\ IsInjective(e.detections) /\ IsInjective(p.detections)
                       /\ PairsOf(e) \cap PairsOf(p) = {} => IsInjective(a.detections)
<1>1. CASE e.uid # p.uid
  BY <1>1 DEF Absorb
<1>2. CASE e.uid = p.uid
  <2>. DEFINE a == Absorb(e, p)
              c == e.detections \o p.detections
  <2>1. a = [e EXCEPT !.detections = c]
    BY <1>2 DEF Absorb
  <2>2. e.detections \in Seq(D) /\ p.detections \in Seq(D) /\ e.uid \in U
    BY DEF Projects
  <2>3. /\ c \in Seq(D) /\ Range(c) = Range(e.detections) \cup Range(p.detections)
        /\ e.detections # <<>> => c # <<>>
        /\ IsInjective(e.detections) /\ IsInjective(p.detections)
              /\ Range(e.detections) \cap Range(p.detections) = {} => IsInjective(c)
    BY <2>2, ConcatFacts
  <2>. HIDE DEF c
  <2>4. a \in Projects(U, V, D) /\ a.uid = e.uid /\ a.detections = c
    BY <2>1, <2>3 DEF Projects
  <2>. HIDE DEF a
  <2>5. PairsOf(a) = PairsOf(e) \cup PairsOf(p)
    BY <1>2, <2>3, <2>4, PairsOfIn
  <2>6. ASSUME NEW y \in Range(e.detections) \cap Range(p.detections)
        PROVE  PairsOf(e) \cap PairsOf(p) # {}
    <3>1. y \in D
      BY <2>2, <2>6 DEF Range
    <3>2. [uid |-> e.uid, by |-> y] \in PairsOf(e) \cap PairsOf(p)
      BY <1>2, <2>2, <2>6, <3>1, PairsOfIn
    <3>. QED  BY <3>2
  <2>. QED  BY <1>2, <2>3, <2>4, <2>5, <2>6 DEF a
<1>. QED  BY <1>1, <1>2

(* What one round, for p, makes of the list.                               *)
AfterRound(m, list, p) ==
    /\ Pairs(m) = Pairs(list) \cup PairsOf(p)
    /\ PerProject(list) => PerProject(m)
    /\ Filled(list) /\ p.uid # "" /\ p.detections # <<>> => Filled(m)
    /\ InEntriesOnce(list) /\ IsInjective(p.detections)
          /\ Pairs(list) \cap PairsOf(p) = {} => InEntriesOnce(m)

LEMMA MergeOneFacts ==
    ASSUME NEW U, NEW V, NEW D, NEW list \in Seq(Projects(U, V, D)),
           NEW p \in Projects(U, V, D)
    PROVE  /\ MergeOne(list, p) \in Seq(Projects(U, V, D))
           /\ AfterRound(MergeOne(list, p), list, p)
<1>. DEFINE X == Projects(U, V, D)
<1>1. list \in Seq(X) /\ p \in X /\ DOMAIN list = 1..Len(list) /\ Len(list) \in Nat
      /\ \A i \in DOMAIN list : list[i] \in X
  OBVIOUS
<1>2. CASE \E i \in DOMAIN list : list[i].uid = p.uid
  <2>. DEFINE m == [i \in DOMAIN list |-> Absorb(list[i], p)]
  <2>1. MergeOne(list, p) = m
    BY <1>2, Zenon DEF MergeOne
  <2>2. ASSUME NEW i \in DOMAIN list
        PROVE  /\ m[i] \in X /\ m[i].uid = list[i].uid
               /\ list[i].detections # <<>> => m[i].detections # <<>>
               /\ list[i].uid # p.uid => m[i] = list[i]
               /\ list[i].uid = p.uid =>
                    /\ PairsOf(m[i]) = PairsOf(list[i]) \cup PairsOf(p)
                    /\ IsInjective(list[i].detections) /\ IsInjective(p.detections)
                          /\ PairsOf(list[i]) \cap PairsOf(p) = {}
                        => IsInjective(m[i].detections)
    <3>1. m[i] = Absorb(list[i], p) /\ list[i] \in X
      BY <1>1
    <3>. HIDE DEF m
    <3>. QED  BY <1>1, <3>1, AbsorbFacts
  <2>3. m \in [DOMAIN list -> X] /\ DOMAIN m = DOMAIN list
    BY <2>2
  <2>. HIDE DEF m
  <2>4. m \in Seq(X)
    BY <1>1, <2>3
  <2>5. Pairs(m) = Pairs(list) \cup PairsOf(p)
    <3>1. ASSUME NEW d \in Pairs(m) PROVE d \in Pairs(list) \cup PairsOf(p)
      <4>1. PICK i \in DOMAIN m : d \in PairsOf(m[i])
        BY PairsIn
      <4>2. d \in PairsOf(list[i]) \cup PairsOf(p)
        BY <2>2, <2>3, <4>1
      <4>. QED  BY <2>3, <4>2, PairsIn
    <3>2. ASSUME NEW d \in Pairs(list) PROVE d \in Pairs(m)
      <4>1. PICK i \in DOMAIN list : d \in PairsOf(list[i])
        BY PairsIn
      <4>2. d \in PairsOf(m[i])
        BY <2>2, <4>1
      <4>. QED  BY <2>3, <4>2, PairsIn
    <3>3. ASSUME NEW d \in PairsOf(p) PROVE d \in Pairs(m)
      <4>1. PICK i \in DOMAIN list : list[i].uid = p.uid
        BY <1>2
      <4>2. d \in PairsOf(m[i])
        BY <2>2, <3>3, <4>1
      <4>. QED  BY <2>3, <4>2, PairsIn
    <3>. QED  BY <3>1, <3>2, <3>3
  <2>6. PerProject(list) => PerProject(m)
    BY <2>2, <2>3 DEF PerProject
  <2>7. Filled(list) => Filled(m)
    BY <2>2, <2>3 DEF Filled
  <2>8. ASSUME InEntriesOnce(list), IsInjective(p.detections), Pairs(list) \cap PairsOf(p) = {},
               NEW i \in DOMAIN m
        PROVE  IsInjective(m[i].detections)
    <3>1. PairsOf(list[i]) \subseteq Pairs(list)
      BY <2>3, <2>8, PairsIn
    <3>. QED  BY <2>2, <2>3, <2>8, <3>1 DEF InEntriesOnce
  <2>. QED  BY <2>1, <2>4, <2>5, <2>6, <2>7, <2>8 DEF InEntriesOnce, AfterRound
<1>3. CASE ~ \E i \in DOMAIN list : list[i].uid = p.uid
  <2>. DEFINE m == Append(list, p)
  <2>1. MergeOne(list, p) = m
    BY <1>3, Zenon DEF MergeOne, AddProject
  <2>2. /\ m \in Seq(X) /\ DOMAIN m = 1..(Len(list) + 1) /\ m[Len(list) + 1] = p
        /\ \A i \in DOMAIN list : m[i] = list[i]
    BY <1>1
  <2>. HIDE DEF m
  <2>3. \A i \in DOMAIN m : i \in DOMAIN list \/ i = Len(list) + 1
    BY <1>1, <2>2
  <2>4. DOMAIN list \subseteq DOMAIN m /\ Len(list) + 1 \in DOMAIN m
    BY <1>1, <2>2
  <2>5. Pairs(m) = Pairs(list) \cup PairsOf(p)
    <3>1. ASSUME NEW d \in Pairs(m) PROVE d \in Pairs(list) \cup PairsOf(p)
      <4>1. PICK i \in DOMAIN m : d \in PairsOf(m[i])
        BY PairsIn
      <4>. QED  BY <2>2, <2>3, <4>1, PairsIn
    <3>2. ASSUME NEW d \in Pairs(list) PROVE d \in Pairs(m)
      <4>1. PICK i \in DOMAIN list : d \in PairsOf(list[i])
        BY PairsIn
      <4>. QED  BY <2>2, <2>4, <4>1, PairsIn
    <3>3. ASSUME NEW d \in PairsOf(p) PROVE d \in Pairs(m)
      BY <2>2, <2>4, <3>3, PairsIn
    <3>. QED  BY <3>1, <3>2, <3>3
  <2>6. PerProject(list) => PerProject(m)
    BY <1>3, <2>2, <2>3 DEF PerProject
  <2>7. Filled(list) /\ p.uid # "" /\ p.detections # <<>> => Filled(m)
    BY <2>2, <2>3 DEF Filled
  <2>8. InEntriesOnce(list) /\ IsInjective(p.detections) => InEntriesOnce(m)
    BY <2>2, <2>3 DEF InEntriesOnce
  <2>. QED  BY <2>1, <2>2, <2>5, <2>6, <2>7, <2>8 DEF AfterRound
<1>. QED  BY <1>2, <1>3

(* A loop of MergeProjects: one entry per project, no detection lost or    *)
(* added, none twice unless it was twice in what is merged.                *)
AfterLoop(m, list, q) ==
    /\ Pairs(m) = Pairs(list) \cup Pairs(q)
    /\ PerProject(list) => PerProject(m)
    /\ Filled(list) /\ Filled(q) => Filled(m)
    /\ InEntriesOnce(list) /\ Once(q) /\ Pairs(list) \cap Pairs(q) = {} => InEntriesOnce(m)

LEMMA MergeListFacts ==
    ASSUME NEW U, NEW V, NEW D, NEW list \in Seq(Projects(U, V, D)),
           NEW q \in Seq(Projects(U, V, D))
    PROVE  /\ MergeList(list, q) \in Seq(Projects(U, V, D))
           /\ AfterLoop(MergeList(list, q), list, q)
<1>. DEFINE X == Projects(U, V, D)
            n == Len(q)
            Seen(k) == UNION {PairsOf(q[i]) : i \in 1..k}
            Disjoint == Once(q) /\ Pairs(list) \cap Pairs(q) = {}
            Good(m, k) ==
                /\ Pairs(m) = Pairs(list) \cup Seen(k)
                /\ PerProject(list) => PerProject(m)
                /\ Filled(list) /\ Filled(q) => Filled(m)
                /\ InEntriesOnce(list) /\ Disjoint => InEntriesOnce(m)
<1>1. \A a \in Seq(X), x \in X : MergeOne(a, x) \in Seq(X)
  BY MergeOneFacts
<1>2. PICK g : MergeLoop(g, X, list, q)
  <2>. HIDE DEF X
  <2>1. list \in Seq(X) /\ q \in Seq(X)
    BY DEF X
  <2>. QED  BY <1>1, <2>1, MergeRounds
<1>. DEFINE T == {k \in 0..n : Good(g[k], k)}
<1>3. n \in Nat /\ DOMAIN q = 1..n /\ \A k \in 1..n : q[k] \in X
  OBVIOUS
<1>4. 0 \in T
  <2>1. g[0] = list /\ Seen(0) = {} /\ 0 \in 0..n
    BY <1>2, <1>3 DEF MergeLoop
  <2>. QED  BY <2>1
<1>5. ASSUME NEW k \in 1..n, k - 1 \in T PROVE k \in T
  <2>1. \A d : d \in Seen(k) <=> d \in Seen(k - 1) \cup PairsOf(q[k])
    <3>1. \A i \in 1..k : i \in 1..(k - 1) \/ i = k
      BY <1>3
    <3>2. 1..(k - 1) \subseteq 1..k /\ k \in 1..k
      BY <1>3
    <3>. QED  BY <3>1, <3>2, Zenon
  <2>2. g[k - 1] \in Seq(X) /\ q[k] \in X /\ k \in 0..n /\ g[k] = MergeOne(g[k - 1], q[k])
    BY <1>2, <1>3 DEF MergeLoop
  <2>3. Good(g[k - 1], k - 1)
    BY <1>5
  <2>4. /\ Pairs(g[k]) = Pairs(g[k - 1]) \cup PairsOf(q[k])
        /\ PerProject(g[k - 1]) => PerProject(g[k])
        /\ Filled(g[k - 1]) /\ q[k].uid # "" /\ q[k].detections # <<>> => Filled(g[k])
        /\ InEntriesOnce(g[k - 1]) /\ IsInjective(q[k].detections)
              /\ Pairs(g[k - 1]) \cap PairsOf(q[k]) = {} => InEntriesOnce(g[k])
    <3>1. AfterRound(g[k], g[k - 1], q[k])
      BY <2>2, MergeOneFacts
    <3>. QED  BY <3>1 DEF AfterRound
  <2>5. ASSUME Disjoint, NEW d \in PairsOf(q[k])
        PROVE  d \notin Pairs(list) \cup Seen(k - 1)
    <3>1. d \in Pairs(q)
      BY <1>3, PairsIn
    <3>2. ASSUME NEW i \in 1..(k - 1), d \in PairsOf(q[i]) PROVE FALSE
      <4>1. i \in DOMAIN q /\ k \in DOMAIN q /\ i # k
        BY <1>3
      <4>. QED  BY <2>5, <3>2, <4>1 DEF Once
    <3>3. d \notin Seen(k - 1)
      BY <3>2, Zenon
    <3>. QED  BY <2>5, <3>1, <3>3
  <2>. HIDE DEF Seen
  <2>6. Pairs(g[k]) = Pairs(list) \cup Seen(k)
    BY <2>1, <2>3, <2>4
  <2>7. Filled(list) /\ Filled(q) => Filled(g[k])
    BY <1>3, <2>3, <2>4 DEF Filled
  <2>8. InEntriesOnce(list) /\ Disjoint => InEntriesOnce(g[k])
    <3>. SUFFICES ASSUME InEntriesOnce(list), Disjoint PROVE InEntriesOnce(g[k])
      OBVIOUS
    <3>1. IsInjective(q[k].detections)
      BY <1>3 DEF Once, InEntriesOnce
    <3>2. Pairs(g[k - 1]) \cap PairsOf(q[k]) = {}
      BY <2>3, <2>5
    <3>. QED  BY <2>3, <2>4, <3>1, <3>2
  <2>. QED  BY <2>2, <2>3, <2>4, <2>6, <2>7, <2>8
<1>6. n \in T
  <2>1. n \in 0..n
    BY <1>3
  <2>. HIDE DEF T, n
  <2>. QED  BY <1>3, <1>4, <1>5, <2>1, BoundedInduction
<1>7. Seen(n) = Pairs(q)
  BY <1>3, Zenon DEF Pairs
<1>8. MergeList(list, q) = g[n] /\ g[n] \in Seq(X)
  BY <1>2, <1>3 DEF MergeLoop
<1>. QED  BY <1>6, <1>7, <1>8 DEF AfterLoop

(* MergeProjects: the same, whatever its two lists are.                    *)
Merged(m, dst, src) ==
    /\ PerProject(m)
    /\ Pairs(m) = Pairs(dst) \cup Pairs(src)
    /\ Filled(dst) /\ Filled(src) => Filled(m)
    /\ Once(dst) /\ Once(src) /\ Pairs(dst) \cap Pairs(src) = {} => Once(m)

(* mergeProjects loses, adds and repeats no detection, and leaves one entry *)
(* per UID, whatever duplicates either list has.                           *)
THEOREM MergeProjectsFacts ==
    ASSUME NEW U, NEW V, NEW D, NEW dst \in Seq(Projects(U, V, D)),
           NEW src \in Seq(Projects(U, V, D))
    PROVE  /\ MergeProjects(dst, src) \in Seq(Projects(U, V, D))
           /\ Merged(MergeProjects(dst, src), dst, src)
<1>. DEFINE X == Projects(U, V, D)
            first == MergeList(<<>>, dst)
            m == MergeProjects(dst, src)
<1>1. m = MergeList(first, src)
  BY Zenon DEF MergeProjects, MergeList
<1>2. /\ <<>> \in Seq(X) /\ PerProject(<<>>) /\ Filled(<<>>) /\ InEntriesOnce(<<>>)
      /\ Pairs(<<>>) = {}
  BY DEF PerProject, Filled, InEntriesOnce, Pairs
<1>3. /\ first \in Seq(X) /\ PerProject(first) /\ Pairs(first) = Pairs(dst)
      /\ Filled(dst) => Filled(first)
      /\ Once(dst) => InEntriesOnce(first)
  <2>1. first \in Seq(X) /\ AfterLoop(first, <<>>, dst)
    BY <1>2, MergeListFacts
  <2>. HIDE DEF first
  <2>. QED  BY <1>2, <2>1 DEF AfterLoop, Once
<1>. HIDE DEF first
<1>4. /\ m \in Seq(X) /\ PerProject(m) /\ Pairs(m) = Pairs(dst) \cup Pairs(src)
      /\ Filled(dst) /\ Filled(src) => Filled(m)
      /\ Once(dst) /\ Once(src) /\ Pairs(dst) \cap Pairs(src) = {} => InEntriesOnce(m)
  <2>1. m \in Seq(X) /\ AfterLoop(m, first, src)
    BY <1>1, <1>3, MergeListFacts
  <2>. HIDE DEF m
  <2>. QED  BY <1>3, <2>1 DEF AfterLoop
<1>. HIDE DEF m
<1>5. InEntriesOnce(m) => Once(m)
  BY <1>4, PerProjectOnce
<1>. QED  BY <1>4, <1>5 DEF m, Merged
-----------------------------------------------------------------------------
(* model.MergeProjects: the order of the groups.                           *)

(* The rounds of AllDetections.                                            *)
DetectionLoop(g, Y, q, u) ==
    /\ g \in [0..Len(q) -> Seq(Y)]
    /\ g[0] = <<>> /\ g[Len(q)] = AllDetections(q, u)
    /\ \A k \in 1..Len(q) :
          g[k] = IF q[k].uid = u THEN g[k - 1] \o q[k].detections ELSE g[k - 1]

LEMMA DetectionRounds ==
    ASSUME NEW Y, NEW q, NEW n \in Nat, DOMAIN q = 1..n, Len(q) = n, NEW u,
           \A k \in 1..n : q[k].detections \in Seq(Y)
    PROVE  \E g : DetectionLoop(g, Y, q, u)
<1>. DEFINE A == Seq(Y)
            After(x, k) == IF q[k].uid = u THEN x \o q[k].detections ELSE x
            step == [p \in A \X (1..n) |-> After(p[1], p[2])]
            Loop(f) == f = [s \in SUBSET DOMAIN q |->
                              IF s = {} THEN <<>> ELSE After(f[s \ {Max(s)}], Max(s))]
<1>1. AllDetections(q, u) = (CHOOSE f : Loop(f))[DOMAIN q]
  BY Zenon DEF AllDetections, FoldLeft, MapThenFoldSet
<1>2. DOMAIN q = 1..n /\ n \in Nat /\ <<>> \in A /\ Len(q) = n
  OBVIOUS
<1>0. ASSUME NEW x \in A, NEW k \in 1..n PROVE After(x, k) \in A
  <2>1. q[k].detections \in A /\ \A y \in A : x \o y \in A
    OBVIOUS
  <2>. HIDE DEF A
  <2>. QED  BY <2>1
<1>3. step \in [A \X (1..n) -> A]
  <2>. HIDE DEF A, After
  <2>. QED  BY <1>0
<1>4. \A s \in SUBSET (1..n) : s # {} => Max(s) \in 1..n
  BY <1>2, MaxIsIn
<1>5. \E f : Loop(f)
  <2>1. PICK f : IsFold(f, A, n, <<>>, step)
    BY <1>2, <1>3, FoldExists
  <2>2. f \in [SUBSET (1..n) -> A] /\ DOMAIN f = SUBSET (1..n)
    BY <2>1 DEF IsFold
  <2>3. ASSUME NEW s \in SUBSET (1..n)
        PROVE  f[s] = IF s = {} THEN <<>> ELSE After(f[s \ {Max(s)}], Max(s))
    <3>1. f[s \ {Max(s)}] \in A
      BY <2>2
    <3>2. f[s] = IF s = {} THEN <<>> ELSE step[<<f[s \ {Max(s)}], Max(s)>>]
      BY <2>1 DEF IsFold
    <3>3. CASE s # {}
      <4>1. <<f[s \ {Max(s)}], Max(s)>> \in A \X (1..n)
        BY <1>4, <3>1, <3>3
      <4>. HIDE DEF After
      <4>. QED  BY <3>2, <3>3, <4>1
    <3>. QED  BY <3>2, <3>3
  <2>. HIDE DEF After
  <2>. QED  BY <1>2, <2>2, <2>3, Zenon
<1>6. PICK f : Loop(f) /\ AllDetections(q, u) = f[DOMAIN q]
  <2>. HIDE DEF Loop
  <2>. QED  BY <1>1, <1>5, Zenon
<1>. DEFINE g == [k \in 0..n |-> f[1..k]]
<1>7. g[0] = <<>> /\ g[n] = AllDetections(q, u)
  <2>1. (1..0) = {} /\ {} \in SUBSET (1..n) /\ f[{}] = <<>>
    BY <1>2, <1>6
  <2>2. g[0] = f[1..0] /\ g[n] = f[1..n]
    BY <1>2
  <2>. HIDE DEF g, Loop
  <2>. QED  BY <1>2, <1>6, <2>1, <2>2
<1>8. ASSUME NEW k \in 1..n
      PROVE  g[k] = IF q[k].uid = u THEN g[k - 1] \o q[k].detections ELSE g[k - 1]
  <2>1. /\ Max(1..k) = k /\ (1..k) \ {k} = 1..(k - 1) /\ (1..k) # {}
        /\ (1..k) \in SUBSET (1..n) /\ k - 1 \in 0..n
    BY <1>2, Prefix
  <2>2. f[1..k] = After(f[(1..k) \ {Max(1..k)}], Max(1..k))
    <3>. HIDE DEF After
    <3>. QED  BY <1>2, <1>6, <2>1
  <2>3. g[k] = f[1..k] /\ g[k - 1] = f[1..(k - 1)]
    BY <2>1
  <2>. QED  BY <2>1, <2>2, <2>3
<1>. HIDE DEF g
<1>9. ASSUME NEW k \in 1..n, g[k - 1] \in A PROVE g[k] \in A
  <2>1. g[k] = After(g[k - 1], k)
    BY <1>8
  <2>. HIDE DEF A, After
  <2>. QED  BY <1>0, <1>9, <2>1
<1>10. \A k \in 0..n : g[k] \in A
  <2>. HIDE DEF A
  <2>. QED  BY <1>2, <1>7, <1>9, TypedRounds
<1>11. DOMAIN g = 0..n /\ g = [k \in 0..n |-> g[k]]
  BY DEF g
<1>. QED  BY <1>2, <1>7, <1>8, <1>10, <1>11 DEF DetectionLoop

(* E is D and one more project.                                            *)
OneMoreProject(E, D, p) ==
    /\ Len(E) = Len(D) + 1 /\ E[Len(D) + 1] = p
    /\ \A i \in 1..Len(D) : E[i] = D[i]

LEMMA ProjectLists ==
    ASSUME NEW U, NEW V, NEW Y, NEW q \in Seq(Projects(U, V, Y))
    PROVE  /\ Len(q) \in Nat /\ DOMAIN q = 1..Len(q)
           /\ \A k \in 1..Len(q) : q[k] \in Projects(U, V, Y)
           /\ \A k \in 1..Len(q) : q[k].detections \in Seq(Y)
<1>1. Len(q) \in Nat /\ DOMAIN q = 1..Len(q) /\ \A k \in 1..Len(q) : q[k] \in Projects(U, V, Y)
  OBVIOUS
<1>2. \A p \in Projects(U, V, Y) : p.detections \in Seq(Y)
  BY DEF Projects
<1>. QED  BY <1>1, <1>2

LEMMA DetectionsSoFar ==
    ASSUME NEW U, NEW V, NEW Y, NEW D \in Seq(Projects(U, V, Y)), NEW u
    PROVE  /\ AllDetections(D, u) \in Seq(Y)
           /\ (\A i \in DOMAIN D : D[i].uid # u) => AllDetections(D, u) = <<>>
<1>. DEFINE n == Len(D)
<1>1. /\ n \in Nat /\ DOMAIN D = 1..n
      /\ \A k \in 1..n : D[k].detections \in Seq(Y)
  BY ProjectLists
<1>2. PICK g : DetectionLoop(g, Y, D, u)
  <2>. HIDE DEF n
  <2>1. Len(D) = n
    BY DEF n
  <2>. QED  BY <1>1, <2>1, DetectionRounds
<1>3. AllDetections(D, u) \in Seq(Y)
  BY <1>1, <1>2 DEF DetectionLoop
<1>4. ASSUME \A i \in DOMAIN D : D[i].uid # u PROVE AllDetections(D, u) = <<>>
  <2>. DEFINE None == {<<>>}
  <2>1. \A k \in 0..n : g[k] \in None
    <3>1. g[0] \in None /\ \A k \in 1..n : g[k] = g[k - 1]
      BY <1>1, <1>2, <1>4 DEF DetectionLoop
    <3>. HIDE DEF n, None
    <3>. QED  BY <1>1, <3>1, TypedRounds
  <2>2. n \in 0..n /\ g[n] = AllDetections(D, u)
    BY <1>1, <1>2 DEF DetectionLoop
  <2>. QED  BY <2>1, <2>2
<1>. QED  BY <1>3, <1>4

LEMMA OneMoreDetected ==
    ASSUME NEW U, NEW V, NEW Y, NEW D \in Seq(Projects(U, V, Y)),
           NEW E \in Seq(Projects(U, V, Y)), NEW p, OneMoreProject(E, D, p), NEW u
    PROVE  AllDetections(E, u) = IF p.uid = u THEN AllDetections(D, u) \o p.detections
                                 ELSE AllDetections(D, u)
<1>. DEFINE n == Len(D)
            m == n + 1
<1>1. /\ n \in Nat /\ DOMAIN D = 1..n /\ DOMAIN E = 1..m /\ Len(E) = m /\ m \in Nat
      /\ \A k \in 1..n : D[k].detections \in Seq(Y) /\ E[k] = D[k]
      /\ \A k \in 1..m : E[k].detections \in Seq(Y)
      /\ E[m] = p
  <2>1. /\ n \in Nat /\ DOMAIN D = 1..n /\ DOMAIN E = 1..Len(E)
        /\ \A k \in 1..n : D[k].detections \in Seq(Y)
        /\ \A k \in 1..Len(E) : E[k].detections \in Seq(Y)
    BY ProjectLists
  <2>2. Len(E) = m /\ E[m] = p /\ \A k \in 1..n : E[k] = D[k]
    BY DEF OneMoreProject
  <2>. HIDE DEF n
  <2>. QED  BY <2>1, <2>2
<1>2. PICK g : DetectionLoop(g, Y, D, u)
  <2>. HIDE DEF n
  <2>1. Len(D) = n
    BY DEF n
  <2>. QED  BY <1>1, <2>1, DetectionRounds
<1>3. PICK h : DetectionLoop(h, Y, E, u)
  <2>. HIDE DEF m
  <2>. QED  BY <1>1, DetectionRounds
<1>4. /\ g[0] = <<>> /\ g[n] = AllDetections(D, u)
      /\ \A k \in 1..n : g[k] = IF D[k].uid = u THEN g[k - 1] \o D[k].detections ELSE g[k - 1]
  BY <1>2 DEF DetectionLoop
<1>5. /\ h[0] = <<>> /\ h[m] = AllDetections(E, u)
      /\ \A k \in 1..m : h[k] = IF E[k].uid = u THEN h[k - 1] \o E[k].detections ELSE h[k - 1]
  BY <1>1, <1>3 DEF DetectionLoop
<1>. DEFINE T == {k \in 0..n : g[k] = h[k]}
<1>6. 0 \in T
  BY <1>1, <1>4, <1>5
<1>7. ASSUME NEW k \in 1..n, k - 1 \in T PROVE k \in T
  <2>1. k \in 1..m /\ k \in 0..n /\ E[k] = D[k]
    BY <1>1
  <2>2. g[k - 1] = h[k - 1]
    BY <1>7
  <2>. QED  BY <1>4, <1>5, <2>1, <2>2
<1>8. n \in T
  <2>1. n \in 0..n
    BY <1>1
  <2>. HIDE DEF T, n
  <2>. QED  BY <1>1, <1>6, <1>7, <2>1, BoundedInduction
<1>9. m \in 1..m /\ m - 1 = n
  BY <1>1
<1>. HIDE DEF n, m
<1>10. h[m] = IF p.uid = u THEN h[n] \o p.detections ELSE h[n]
  BY <1>1, <1>5, <1>9
<1>. QED  BY <1>4, <1>5, <1>8, <1>10

(* Where the groups m of D begin.                                          *)
Begins(pos, m, D) ==
    /\ pos \in [DOMAIN m -> DOMAIN D]
    /\ \A k, l \in DOMAIN m : k < l => pos[k] < pos[l]
    /\ \A i \in DOMAIN D : i \in Firsts(D) <=> \E k \in DOMAIN m : pos[k] = i
    /\ \A i \in DOMAIN D : \E k \in DOMAIN m : m[k].uid = D[i].uid
    /\ \A k \in DOMAIN m : m[k] = GroupAt(D, pos[k])

LEMMA FirstsIn ==
    ASSUME NEW D, NEW i
    PROVE  i \in Firsts(D) <=> i \in DOMAIN D /\ \A j \in 1..(i - 1) : D[j].uid # D[i].uid
BY DEF Firsts

LEMMA GroupAtFacts ==
    ASSUME NEW U, NEW V, NEW Y, NEW D \in Seq(Projects(U, V, Y)), NEW i \in DOMAIN D
    PROVE  /\ GroupAt(D, i) \in Projects(U, V, Y)
           /\ GroupAt(D, i).uid = D[i].uid /\ GroupAt(D, i).slug = D[i].slug
           /\ GroupAt(D, i).detections = AllDetections(D, D[i].uid)
           /\ GroupAt(D, i) = [uid |-> D[i].uid, slug |-> D[i].slug,
                               detections |-> AllDetections(D, D[i].uid)]
<1>1. D[i] \in Projects(U, V, Y)
  OBVIOUS
<1>2. AllDetections(D, D[i].uid) \in Seq(Y)
  BY DetectionsSoFar
<1>. DEFINE e == D[i]
            d == AllDetections(D, D[i].uid)
<1>3. GroupAt(D, i) = [e EXCEPT !.detections = d]
  BY DEF GroupAt
<1>. HIDE DEF e, d
<1>4. /\ e \in Projects(U, V, Y) /\ d \in Seq(Y)
  BY <1>1, <1>2 DEF e, d
<1>5. /\ GroupAt(D, i) \in Projects(U, V, Y)
      /\ GroupAt(D, i) = [uid |-> e.uid, slug |-> e.slug, detections |-> d]
  BY <1>3, <1>4 DEF Projects
<1>. QED  BY <1>5 DEF e, d

LEMMA BeginsStep ==
    ASSUME NEW U, NEW V, NEW Y, NEW m \in Seq(Projects(U, V, Y)),
           NEW D \in Seq(Projects(U, V, Y)), NEW E \in Seq(Projects(U, V, Y)),
           NEW p, OneMoreProject(E, D, p), NEW pos, Begins(pos, m, D)
    PROVE  \E q : Begins(q, MergeOne(m, p), E)
<1>. DEFINE X == Projects(U, V, Y)
            n == Len(D)
            l == Len(m)
<1>1. /\ n \in Nat /\ l \in Nat /\ DOMAIN D = 1..n /\ DOMAIN m = 1..l
      /\ DOMAIN E = 1..(n + 1) /\ E[n + 1] = p /\ p \in X
      /\ \A i \in 1..n : E[i] = D[i]
  BY DEF OneMoreProject
<1>2. /\ pos \in [1..l -> 1..n]
      /\ \A k, j \in 1..l : k < j => pos[k] < pos[j]
      /\ \A i \in 1..n : i \in Firsts(D) <=> \E k \in 1..l : pos[k] = i
      /\ \A i \in 1..n : \E k \in 1..l : m[k].uid = D[i].uid
      /\ \A k \in 1..l : m[k] = GroupAt(D, pos[k])
  BY <1>1 DEF Begins
<1>3. \A u : AllDetections(E, u) = IF p.uid = u THEN AllDetections(D, u) \o p.detections
                                   ELSE AllDetections(D, u)
  BY OneMoreDetected
<1>4. ASSUME NEW i \in 1..n PROVE i \in Firsts(E) <=> i \in Firsts(D)
  <2>1. i \in 1..n /\ i \in 1..(n + 1) /\ \A j \in 1..(i - 1) : j \in 1..n
    BY <1>1
  <2>2. E[i] = D[i] /\ \A j \in 1..(i - 1) : E[j] = D[j]
    BY <1>1, <2>1
  <2>3. i \in DOMAIN D /\ i \in DOMAIN E
    BY <1>1, <2>1
  <2>4. \A j \in 1..(i - 1) : E[j].uid # E[i].uid <=> D[j].uid # D[i].uid
    BY <2>2
  <2>5. i \in Firsts(E) <=> \A j \in 1..(i - 1) : E[j].uid # E[i].uid
    BY <2>3, FirstsIn, Zenon
  <2>6. i \in Firsts(D) <=> \A j \in 1..(i - 1) : D[j].uid # D[i].uid
    BY <2>3, FirstsIn, Zenon
  <2>. QED  BY <2>4, <2>5, <2>6, Zenon
<1>5. ASSUME NEW k \in 1..l
      PROVE  /\ m[k].uid = D[pos[k]].uid /\ pos[k] \in 1..n /\ E[pos[k]] = D[pos[k]]
             /\ m[k] = [uid |-> D[pos[k]].uid, slug |-> D[pos[k]].slug,
                        detections |-> AllDetections(D, D[pos[k]].uid)]
             /\ GroupAt(E, pos[k]) = [uid |-> D[pos[k]].uid, slug |-> D[pos[k]].slug,
                                      detections |-> AllDetections(E, D[pos[k]].uid)]
  <2>1. pos[k] \in 1..n /\ m[k] = GroupAt(D, pos[k])
    BY <1>2
  <2>2. pos[k] \in DOMAIN D /\ pos[k] \in DOMAIN E /\ E[pos[k]] = D[pos[k]]
    BY <1>1, <2>1
  <2>. QED  BY <2>1, <2>2, GroupAtFacts
<1>6. CASE \E i \in DOMAIN m : m[i].uid = p.uid
  <2>. DEFINE w == [i \in DOMAIN m |-> Absorb(m[i], p)]
  <2>1. MergeOne(m, p) = w
    BY <1>6, Zenon DEF MergeOne
  <2>2. n + 1 \notin Firsts(E)
    <3>1. PICK k \in 1..l : m[k].uid = p.uid
      BY <1>1, <1>6
    <3>2. pos[k] \in 1..n /\ E[pos[k]] = D[pos[k]] /\ D[pos[k]].uid = p.uid /\ E[n + 1] = p
      BY <1>1, <1>5, <3>1, Zenon
    <3>3. pos[k] \in 1..((n + 1) - 1) /\ E[pos[k]].uid = E[n + 1].uid
      BY <1>1, <3>2
    <3>. QED  BY <3>3, FirstsIn
  <2>3. ASSUME NEW k \in 1..l PROVE w[k] = GroupAt(E, pos[k]) /\ w[k].uid = m[k].uid
    <3>1. w[k] = Absorb(m[k], p)
      BY <1>1
    <3>. HIDE DEF w
    <3>2. CASE m[k].uid = p.uid
      <4>1. w[k] = [m[k] EXCEPT !.detections = m[k].detections \o p.detections]
        BY <3>1, <3>2 DEF Absorb
      <4>. DEFINE u == D[pos[k]].uid
                  v == D[pos[k]].slug
                  b == AllDetections(D, u)
                  c == p.detections
      <4>2. m[k] = [uid |-> u, slug |-> v, detections |-> b] /\ m[k].uid = u
        BY <1>5, Zenon
      <4>3. GroupAt(E, pos[k]) = [uid |-> u, slug |-> v, detections |-> b \o c]
        BY <1>3, <1>5, <3>2, Zenon
      <4>. HIDE DEF u, v, b, c
      <4>4. PICK e : e = m[k]
        OBVIOUS
      <4>5. w[k] = [e EXCEPT !.detections = e.detections \o c]
        BY <4>1, <4>4 DEF c
      <4>6. e = [uid |-> u, slug |-> v, detections |-> b]
        BY <4>2, <4>4
      <4>7. w[k] = [uid |-> u, slug |-> v, detections |-> b \o c]
        BY <4>5, <4>6
      <4>. QED  BY <4>2, <4>3, <4>7
    <3>3. CASE m[k].uid # p.uid
      <4>1. w[k] = m[k]
        BY <3>1, <3>3 DEF Absorb
      <4>. QED  BY <1>3, <1>5, <3>3, <4>1
    <3>. QED  BY <3>2, <3>3
  <2>4. DOMAIN w = 1..l
    BY <1>1
  <2>. HIDE DEF w
  <2>5. \A i \in 1..(n + 1) : i \in Firsts(E) <=> \E k \in 1..l : pos[k] = i
    <3>1. \A i \in 1..(n + 1) : i \in 1..n \/ i = n + 1
      BY <1>1
    <3>2. \A k \in 1..l : pos[k] # n + 1
      BY <1>1, <1>2
    <3>. QED  BY <1>2, <1>4, <2>2, <3>1, <3>2
  <2>6. \A i \in 1..(n + 1) : \E k \in 1..l : w[k].uid = E[i].uid
    <3>1. \A i \in 1..(n + 1) : i \in 1..n \/ i = n + 1
      BY <1>1
    <3>2. \E k \in 1..l : w[k].uid = E[n + 1].uid
      BY <1>1, <1>6, <2>3
    <3>3. \A i \in 1..n : \E k \in 1..l : w[k].uid = E[i].uid
      BY <1>1, <1>2, <2>3
    <3>. QED  BY <3>1, <3>2, <3>3
  <2>7. pos \in [1..l -> 1..(n + 1)]
    BY <1>1, <1>2
  <2>8. Begins(pos, w, E)
    BY <1>1, <1>2, <2>3, <2>4, <2>5, <2>6, <2>7 DEF Begins
  <2>. QED  BY <2>1, <2>8
<1>7. CASE ~ \E i \in DOMAIN m : m[i].uid = p.uid
  <2>. DEFINE w == Append(m, p)
              q == [k \in 1..(l + 1) |-> IF k = l + 1 THEN n + 1 ELSE pos[k]]
  <2>1. MergeOne(m, p) = w
    BY <1>7, Zenon DEF MergeOne, AddProject
  <2>2. /\ DOMAIN w = 1..(l + 1) /\ w[l + 1] = p
        /\ \A k \in 1..l : w[k] = m[k]
    BY <1>1
  <2>3. \A i \in 1..n : D[i].uid # p.uid
    BY <1>1, <1>2, <1>7
  <2>4. q[l + 1] = n + 1 /\ \A k \in 1..l : q[k] = pos[k]
    BY <1>1
  <2>5. q \in [1..(l + 1) -> 1..(n + 1)]
    <3>1. \A k \in 1..(l + 1) : k = l + 1 \/ k \in 1..l
      BY <1>1
    <3>2. \A k \in 1..l : pos[k] \in 1..(n + 1)
      BY <1>1, <1>2
    <3>3. n + 1 \in 1..(n + 1)
      BY <1>1
    <3>. QED  BY <3>1, <3>2, <3>3
  <2>. HIDE DEF w, q
  <2>6. n + 1 \in Firsts(E)
    <3>1. n + 1 \in DOMAIN E /\ \A j \in 1..((n + 1) - 1) : j \in 1..n
      BY <1>1
    <3>2. \A j \in 1..((n + 1) - 1) : E[j].uid # E[n + 1].uid
      BY <1>1, <2>3, <3>1
    <3>. QED  BY <3>1, <3>2, FirstsIn
  <2>7. GroupAt(E, n + 1) = p
    <3>1. n + 1 \in DOMAIN E /\ E[n + 1] = p
      BY <1>1
    <3>2. AllDetections(E, p.uid) = p.detections
      <4>1. AllDetections(D, p.uid) = <<>>
        BY <1>1, <2>3, DetectionsSoFar
      <4>2. p.detections \in Seq(Y)
        BY <1>1 DEF Projects
      <4>. QED  BY <1>3, <4>1, <4>2
    <3>3. GroupAt(E, n + 1) = [uid |-> p.uid, slug |-> p.slug, detections |-> p.detections]
      BY <3>1, <3>2, GroupAtFacts
    <3>. QED  BY <1>1, <3>3 DEF Projects
  <2>8. ASSUME NEW k \in 1..l PROVE m[k] = GroupAt(E, pos[k])
    <3>1. m[k].uid # p.uid
      BY <1>1, <1>7
    <3>. QED  BY <1>3, <1>5, <3>1
  <2>9. \A k \in 1..(l + 1) : k \in 1..l \/ k = l + 1
    BY <1>1
  <2>10. 1..l \subseteq 1..(l + 1) /\ l + 1 \in 1..(l + 1)
    BY <1>1
  <2>11. \A k \in 1..(l + 1) : w[k] = GroupAt(E, q[k])
    BY <2>2, <2>4, <2>7, <2>8, <2>9
  <2>12. \A k, j \in 1..(l + 1) : k < j => q[k] < q[j]
    <3>. SUFFICES ASSUME NEW k \in 1..(l + 1), NEW j \in 1..(l + 1), k < j PROVE q[k] < q[j]
      OBVIOUS
    <3>1. k \in 1..l
      BY <1>1
    <3>2. CASE j = l + 1
      <4>1. pos[k] \in 1..n
        BY <1>2, <3>1
      <4>2. q[k] = pos[k] /\ q[j] = n + 1
        BY <2>4, <3>1, <3>2
      <4>. QED  BY <1>1, <4>1, <4>2
    <3>3. CASE j \in 1..l
      BY <1>2, <2>4, <3>1, <3>3
    <3>. QED  BY <2>9, <3>2, <3>3
  <2>13. \A i \in 1..(n + 1) : i \in 1..n \/ i = n + 1
    BY <1>1
  <2>14. \A i \in 1..(n + 1) : i \in Firsts(E) <=> \E k \in 1..(l + 1) : q[k] = i
    <3>1. ASSUME NEW i \in 1..n
          PROVE  i \in Firsts(E) <=> \E k \in 1..(l + 1) : q[k] = i
      <4>1. i # n + 1
        BY <1>1
      <4>2. (\E k \in 1..(l + 1) : q[k] = i) <=> \E k \in 1..l : pos[k] = i
        BY <2>4, <2>9, <2>10, <4>1
      <4>. QED  BY <1>2, <1>4, <4>2
    <3>. QED  BY <2>4, <2>6, <2>10, <2>13, <3>1
  <2>15. \A i \in 1..(n + 1) : \E k \in 1..(l + 1) : w[k].uid = E[i].uid
    <3>1. \A i \in 1..n : \E k \in 1..(l + 1) : w[k].uid = E[i].uid
      BY <1>1, <1>2, <2>2, <2>10
    <3>. QED  BY <1>1, <2>2, <2>10, <2>13, <3>1
  <2>16. Begins(q, w, E)
    <3>. HIDE DEF n, l
    <3>. QED  BY <1>1, <2>2, <2>5, <2>11, <2>12, <2>14, <2>15 DEF Begins
  <2>. QED  BY <2>1, <2>16
<1>. QED  BY <1>6, <1>7

(* The first loop of MergeProjects leaves a list without duplicates alone. *)
LEMMA AlreadyMerged ==
    ASSUME NEW U, NEW V, NEW Y, NEW m \in Seq(Projects(U, V, Y)), PerProject(m)
    PROVE  MergeList(<<>>, m) = m
<1>. DEFINE X == Projects(U, V, Y)
            n == Len(m)
            Start(k) == [i \in 1..k |-> m[i]]
<1>1. /\ n \in Nat /\ DOMAIN m = 1..n /\ \A k \in 1..n : m[k] \in X
  BY ProjectLists
<1>2. PICK g : MergeLoop(g, X, <<>>, m)
  <2>1. \A a \in Seq(X), x \in X : MergeOne(a, x) \in Seq(X)
    BY MergeOneFacts
  <2>2. <<>> \in Seq(X) /\ m \in Seq(X)
    OBVIOUS
  <2>. HIDE DEF X
  <2>. QED  BY <2>1, <2>2, MergeRounds
<1>3. /\ g[0] = <<>> /\ g[n] = MergeList(<<>>, m)
      /\ \A k \in 1..n : g[k] = MergeOne(g[k - 1], m[k])
  BY <1>2 DEF MergeLoop
<1>. DEFINE T == {k \in 0..n : g[k] = Start(k)}
<1>4. 0 \in T
  <2>1. Start(0) = <<>> /\ 0 \in 0..n
    BY <1>1
  <2>. QED  BY <1>3, <2>1
<1>5. ASSUME NEW k \in 1..n, k - 1 \in T PROVE k \in T
  <2>. DEFINE a == Start(k - 1)
              p == m[k]
  <2>1. g[k] = MergeOne(a, p) /\ k \in 0..n
    BY <1>1, <1>3, <1>5
  <2>2. /\ DOMAIN a = 1..(k - 1) /\ Len(a) = k - 1 /\ k - 1 \in Nat
        /\ \A i \in 1..(k - 1) : a[i] = m[i] /\ i \in 1..n /\ i # k
    BY <1>1
  <2>3. ~ \E i \in DOMAIN a : a[i].uid = p.uid
    BY <1>1, <2>2 DEF PerProject
  <2>4. MergeOne(a, p) = Append(a, p)
    <3>. HIDE DEF a, p
    <3>. QED  BY <2>3, Zenon DEF MergeOne, AddProject
  <2>5. a \in Seq(X)
    <3>1. \A i \in 1..(k - 1) : m[i] \in X
      BY <1>1, <2>2
    <3>. HIDE DEF X
    <3>. QED  BY <2>2, <3>1
  <2>6. Append(a, p) = Start(k)
    <3>1. p \in X
      BY <1>1
    <3>2. PICK b : b = Append(a, p)
      OBVIOUS
    <3>3. /\ b \in Seq(X) /\ Len(b) = Len(a) + 1 /\ b[Len(a) + 1] = p
          /\ \A i \in 1..Len(a) : b[i] = a[i]
      <4>. HIDE DEF a, p, X
      <4>. QED  BY <2>5, <3>1, <3>2
    <3>4. Len(b) = k /\ b[k] = p /\ \A i \in 1..(k - 1) : b[i] = m[i]
      <4>. HIDE DEF X
      <4>. QED  BY <2>2, <3>3
    <3>5. b = [i \in 1..k |-> b[i]]
      <4>1. b = [i \in 1..Len(b) |-> b[i]]
        BY <3>3
      <4>. QED  BY <3>4, <4>1
    <3>6. \A i \in 1..k : b[i] = m[i]
      <4>1. \A i \in 1..k : i = k \/ i \in 1..(k - 1)
        BY <2>2
      <4>. QED  BY <3>4, <4>1
    <3>. QED  BY <3>2, <3>5, <3>6
  <2>. QED  BY <2>1, <2>4, <2>6
<1>6. n \in T
  <2>1. n \in 0..n
    BY <1>1
  <2>. HIDE DEF T, n
  <2>. QED  BY <1>1, <1>4, <1>5, <2>1, BoundedInduction
<1>7. Start(n) = m
  <2>1. m = [i \in DOMAIN m |-> m[i]]
    OBVIOUS
  <2>. HIDE DEF n
  <2>. QED  BY <1>1, <2>1
<1>. QED  BY <1>3, <1>6, <1>7

(* The second loop goes on grouping.                                       *)
LEMMA BeginsLoop ==
    ASSUME NEW U, NEW V, NEW Y, NEW m \in Seq(Projects(U, V, Y)),
           NEW D \in Seq(Projects(U, V, Y)), NEW r \in Seq(Projects(U, V, Y)),
           NEW pos, Begins(pos, m, D)
    PROVE  \E q : Begins(q, MergeList(m, r), D \o r)
<1>. DEFINE X == Projects(U, V, Y)
            l == Len(D)
            n == Len(r)
            c == D \o r
            Start(k) == [i \in 1..(l + k) |-> c[i]]
<1>1. /\ n \in Nat /\ l \in Nat /\ DOMAIN r = 1..n /\ DOMAIN D = 1..l
      /\ Len(c) = l + n /\ DOMAIN c = 1..(l + n)
      /\ \A i \in 1..l : c[i] = D[i]
      /\ \A i \in 1..n : c[l + i] = r[i] /\ r[i] \in X
      /\ \A i \in 1..(l + n) : c[i] \in X
      /\ c \in Seq(X)
  <2>1. c \in Seq(X)
    <3>. HIDE DEF X
    <3>1. D \in Seq(X) /\ r \in Seq(X)
      BY DEF X
    <3>. QED  BY <3>1
  <2>2. /\ n \in Nat /\ l \in Nat /\ DOMAIN r = 1..n /\ DOMAIN D = 1..l
        /\ Len(c) = l + n /\ DOMAIN c = 1..(l + n)
        /\ \A i \in 1..l : c[i] = D[i]
        /\ \A i \in 1..n : c[l + i] = r[i] /\ r[i] \in X
    OBVIOUS
  <2>. HIDE DEF c, X, n, l
  <2>. QED  BY <2>1, <2>2
<1>2. PICK g : MergeLoop(g, X, m, r)
  <2>1. \A a \in Seq(X), x \in X : MergeOne(a, x) \in Seq(X)
    BY MergeOneFacts
  <2>2. m \in Seq(X) /\ r \in Seq(X)
    OBVIOUS
  <2>. HIDE DEF X
  <2>. QED  BY <2>1, <2>2, MergeRounds
<1>3. /\ g[0] = m /\ g[n] = MergeList(m, r) /\ \A k \in 0..n : g[k] \in Seq(X)
      /\ \A k \in 1..n : g[k] = MergeOne(g[k - 1], r[k])
  BY <1>2 DEF MergeLoop
<1>. HIDE DEF c
<1>4. ASSUME NEW k \in 0..n
      PROVE  /\ Start(k) \in Seq(X) /\ Len(Start(k)) = l + k
             /\ \A i \in 1..(l + k) : Start(k)[i] = c[i]
  <2>1. l + k \in Nat /\ \A i \in 1..(l + k) : c[i] \in X
    BY <1>1
  <2>. HIDE DEF X, n, l
  <2>. QED  BY <2>1
<1>. DEFINE T == {k \in 0..n : \E q : Begins(q, g[k], Start(k))}
<1>5. 0 \in T
  <2>1. Start(0) = D
    <3>1. D = [i \in DOMAIN D |-> D[i]] /\ l + 0 = l
      BY <1>1
    <3>2. Start(0) = [i \in 1..l |-> D[i]]
      BY <1>1
    <3>. QED  BY <1>1, <3>1, <3>2
  <2>2. 0 \in 0..n
    BY <1>1
  <2>. HIDE DEF Start
  <2>. QED  BY <1>3, <2>1, <2>2
<1>6. ASSUME NEW k \in 1..n, k - 1 \in T PROVE k \in T
  <2>. DEFINE A == Start(k - 1)
              B == Start(k)
  <2>1. k \in 0..n /\ k - 1 \in 0..n /\ l + k = (l + (k - 1)) + 1
    BY <1>1
  <2>2. /\ A \in Seq(X) /\ B \in Seq(X) /\ Len(A) = l + (k - 1) /\ Len(B) = l + k
        /\ \A i \in 1..(l + (k - 1)) : A[i] = c[i]
        /\ \A i \in 1..(l + k) : B[i] = c[i]
    BY <1>4, <2>1
  <2>. HIDE DEF A, B, Start
  <2>3. OneMoreProject(B, A, r[k])
    <3>1. c[l + k] = r[k] /\ l + k \in 1..(l + k)
      BY <1>1
    <3>2. \A i \in 1..(l + (k - 1)) : i \in 1..(l + k)
      BY <1>1
    <3>. QED  BY <2>1, <2>2, <3>1, <3>2 DEF OneMoreProject
  <2>4. PICK q : Begins(q, g[k - 1], A)
    BY <1>6 DEF A
  <2>5. g[k - 1] \in Seq(X) /\ g[k] = MergeOne(g[k - 1], r[k])
    BY <1>3, <2>1
  <2>6. \E w : Begins(w, g[k], B)
    BY <2>2, <2>3, <2>4, <2>5, BeginsStep
  <2>. QED  BY <2>1, <2>6 DEF B
<1>7. n \in T
  <2>1. n \in 0..n
    BY <1>1
  <2>. HIDE DEF T, n
  <2>. QED  BY <1>1, <1>5, <1>6, <2>1, BoundedInduction
<1>8. Start(n) = c
  <2>1. c = [i \in DOMAIN c |-> c[i]]
    BY <1>1
  <2>. HIDE DEF n, l
  <2>. QED  BY <1>1, <2>1
<1>9. PICK q : Begins(q, g[n], Start(n))
  BY <1>7
<1>. QED  BY <1>3, <1>8, <1>9 DEF c

LEMMA CountUpTo ==
    ASSUME NEW k \in Nat, NEW pos, \A i, j \in 1..k : i < j => pos[i] < pos[j],
           \A i \in 1..k : pos[i] \in Nat
    PROVE  Cardinality({pos[i] : i \in 1..k}) = k
<1>. DEFINE S == {pos[i] : i \in 1..k}
            f == [i \in 1..k |-> pos[i]]
<1>1. f \in Injection(1..k, S)
  <2>1. \A i, j \in 1..k : pos[i] = pos[j] => i = j
    OBVIOUS
  <2>. QED  BY <2>1 DEF Injection, IsInjective
<1>2. f \in Surjection(1..k, S)
  BY DEF Surjection
<1>3. ExistsBijection(1..k, S)
  BY <1>1, <1>2 DEF ExistsBijection, Bijection
<1>4. IsFiniteSet(1..k) /\ Cardinality(1..k) = k
  <2>1. /\ IsFiniteSet(1..k) /\ Cardinality(1..k) = IF 1 > k THEN 0 ELSE k - 1 + 1
    BY FS_Interval
  <2>. QED  BY <2>1
<1>. HIDE DEF S
<1>5. Cardinality(S) = k
  BY <1>3, <1>4, FS_Bijection
<1>. QED  BY <1>5 DEF S

LEMMA BeginsIsGrouping ==
    ASSUME NEW U, NEW V, NEW Y, NEW m \in Seq(Projects(U, V, Y)),
           NEW D \in Seq(Projects(U, V, Y)), NEW pos, Begins(pos, m, D)
    PROVE  IsGrouping(m, D) /\ PerProject(m)
<1>. DEFINE n == Len(D)
            l == Len(m)
<1>1. n \in Nat /\ l \in Nat /\ DOMAIN D = 1..n /\ DOMAIN m = 1..l
  OBVIOUS
<1>2. /\ pos \in [1..l -> 1..n]
      /\ \A k, j \in 1..l : k < j => pos[k] < pos[j]
      /\ \A i \in 1..n : i \in Firsts(D) <=> \E k \in 1..l : pos[k] = i
      /\ \A k \in 1..l : m[k] = GroupAt(D, pos[k])
  BY <1>1 DEF Begins
<1>3. \A k \in 1..l : pos[k] \in 1..n /\ pos[k] \in Nat
  BY <1>1, <1>2
<1>4. Firsts(D) = {pos[k] : k \in 1..l}
  <2>1. \A i \in Firsts(D) : i \in 1..n
    BY <1>1, FirstsIn
  <2>. HIDE DEF n, l
  <2>2. \A i \in Firsts(D) : \E k \in 1..l : i = pos[k]
    BY <1>2, <2>1
  <2>3. \A k \in 1..l : pos[k] \in Firsts(D)
    BY <1>2, <1>3
  <2>. QED  BY <2>2, <2>3
<1>5. Cardinality(Firsts(D)) = l
  <2>1. l \in Nat /\ (\A i, j \in 1..l : i < j => pos[i] < pos[j]) /\ \A i \in 1..l : pos[i] \in Nat
    BY <1>1, <1>2, <1>3
  <2>. HIDE DEF l
  <2>2. Cardinality({pos[i] : i \in 1..l}) = l
    BY <2>1, CountUpTo
  <2>. QED  BY <1>4, <2>2
<1>6. ASSUME NEW k \in 1..l
      PROVE  Cardinality({j \in Firsts(D) : j <= pos[k]}) = k
  <2>1. k \in Nat /\ \A i \in 1..k : i \in 1..l
    BY <1>1
  <2>2. \A i \in 1..l : pos[i] <= pos[k] <=> i \in 1..k
    BY <1>1, <1>2, <1>3
  <2>3. {j \in Firsts(D) : j <= pos[k]} = {pos[i] : i \in 1..k}
    BY <1>4, <2>1, <2>2
  <2>4. \A i, j \in 1..k : i < j => pos[i] < pos[j]
    BY <1>2, <2>1
  <2>5. \A i \in 1..k : pos[i] \in Nat
    BY <1>3, <2>1
  <2>. QED  BY <2>1, <2>3, <2>4, <2>5, CountUpTo
<1>7. ASSUME NEW i \in Firsts(D)
      PROVE  m[Cardinality({j \in Firsts(D) : j <= i})] = GroupAt(D, i)
  <2>1. PICK k \in 1..l : pos[k] = i
    BY <1>4
  <2>. QED  BY <1>2, <1>6, <2>1
<1>8. IsGrouping(m, D)
  BY <1>5, <1>7 DEF IsGrouping
<1>9. ASSUME NEW k \in 1..l, NEW j \in 1..l, k < j, m[k].uid = m[j].uid PROVE FALSE
  <2>1. /\ pos[k] \in DOMAIN D /\ pos[j] \in DOMAIN D /\ pos[j] \in Firsts(D)
        /\ pos[k] \in 1..(pos[j] - 1)
    BY <1>1, <1>2, <1>3, <1>4, <1>9
  <2>2. m[k].uid = D[pos[k]].uid /\ m[j].uid = D[pos[j]].uid
    BY <1>2, <2>1, GroupAtFacts
  <2>. QED  BY <1>9, <2>1, <2>2, FirstsIn
<1>10. PerProject(m)
  <2>1. \A k, j \in 1..l : k = j \/ k < j \/ j < k
    BY <1>1
  <2>. QED  BY <1>1, <1>9, <2>1 DEF PerProject
<1>. QED  BY <1>8, <1>10

(* That groups is the grouping by UID of everything delivered.             *)
Groups(m, D) == \E pos : Begins(pos, m, D)

LEMMA NothingGrouped == Groups(<<>>, <<>>)
<1>1. PICK e : e = <<>>
  OBVIOUS
<1>2. DOMAIN e = {} /\ e \in [{} -> {}]
  BY <1>1
<1>3. Begins(e, e, e)
  BY <1>2, FirstsIn DEF Begins
<1>. QED  BY <1>1, <1>3 DEF Groups

LEMMA GroupsAre ==
    ASSUME NEW U, NEW V, NEW Y, NEW m \in Seq(Projects(U, V, Y)),
           NEW D \in Seq(Projects(U, V, Y)), Groups(m, D)
    PROVE  IsGrouping(m, D) /\ PerProject(m)
BY BeginsIsGrouping DEF Groups

LEMMA LoopGroups ==
    ASSUME NEW U, NEW V, NEW Y, NEW m \in Seq(Projects(U, V, Y)),
           NEW D \in Seq(Projects(U, V, Y)), NEW r \in Seq(Projects(U, V, Y)),
           Groups(m, D)
    PROVE  Groups(MergeList(m, r), D \o r) /\ MergeList(m, r) \in Seq(Projects(U, V, Y))
BY BeginsLoop, MergeListFacts DEF Groups

(* Merging into a grouping goes on grouping.                               *)
LEMMA MergeGroups ==
    ASSUME NEW U, NEW V, NEW Y, NEW m \in Seq(Projects(U, V, Y)),
           NEW D \in Seq(Projects(U, V, Y)), NEW r \in Seq(Projects(U, V, Y)),
           Groups(m, D)
    PROVE  Groups(MergeProjects(m, r), D \o r)
<1>1. PerProject(m)
  BY GroupsAre
<1>2. MergeList(<<>>, m) = m
  BY <1>1, AlreadyMerged
<1>3. MergeProjects(m, r) = MergeList(m, r)
  BY <1>2, Zenon DEF MergeProjects, MergeList
<1>. QED  BY <1>3, LoopGroups

(* model.MergeProjects of any two lists groups the two together: projects  *)
(* in order of first appearance, each with the slug it had there and all   *)
(* its detections, of either list, in order.                               *)
THEOREM MergeProjectsGroups ==
    ASSUME NEW U, NEW V, NEW Y, NEW dst \in Seq(Projects(U, V, Y)),
           NEW src \in Seq(Projects(U, V, Y))
    PROVE  IsGrouping(MergeProjects(dst, src), dst \o src)
<1>. DEFINE X == Projects(U, V, Y)
            first == MergeList(<<>>, dst)
<1>1. <<>> \in Seq(X) /\ <<>> \o dst = dst /\ dst \o src \in Seq(X)
  <2>. HIDE DEF X
  <2>1. dst \in Seq(X) /\ src \in Seq(X)
    BY DEF X
  <2>. QED  BY <2>1
<1>2. Groups(first, dst) /\ first \in Seq(X)
  <2>1. PICK e : e = <<>>
    OBVIOUS
  <2>2. e \in Seq(X) /\ e \o dst = dst /\ Groups(e, e)
    BY <1>1, <2>1, NothingGrouped
  <2>3. Groups(MergeList(e, dst), e \o dst) /\ MergeList(e, dst) \in Seq(X)
    <3>1. e \in Seq(X) /\ Groups(e, e)
      BY <2>2
    <3>. QED  BY <3>1, LoopGroups
  <2>4. first = MergeList(e, dst)
    BY <2>1
  <2>. HIDE DEF first, X
  <2>. QED  BY <2>2, <2>3, <2>4
<1>. HIDE DEF first
<1>3. Groups(MergeList(first, src), dst \o src) /\ MergeList(first, src) \in Seq(X)
  BY <1>2, LoopGroups
<1>4. MergeProjects(dst, src) = MergeList(first, src)
  BY Zenon DEF MergeProjects, MergeList, first
<1>. QED  BY <1>1, <1>3, <1>4, GroupsAre
=============================================================================
