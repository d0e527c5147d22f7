----------------------------- MODULE GamesProofs -----------------------------
(***************************************************************************)
(* The programs of lab05, which talk through pipes and FIFOs, for all      *)
(* numbers of players, workers, children and clients, all cards, letters   *)
(* and draws, and any capacity of a pipe.  First sums over finite sets,    *)
(* which the library does not have: they are introduced by well-founded    *)
(* induction on the sizes of sets; then what is in a pipe, and rings of    *)
(* processes.  Then an inductive invariant for each program, named by its  *)
(* letter (LInv for lotto, and so on): where everyone is, and what is on   *)
(* its way to it.  Each has the lemmas XInitially, one per action, XNext,  *)
(* XStutter and XImplies.  After the games come all of them together, and  *)
(* then the two programs with provinces (VInv, WInv).                      *)
(***************************************************************************)
EXTENDS MCProvinces, TLAPS, FiniteSetTheorems, WellFoundedInduction, SequenceTheorems

-----------------------------------------------------------------------------
(* Sums over finite sets. *)

\* The sum of f over D, as the models fold it.
SumOver(f, D) == MapThenFoldSet(+, 0, LAMBDA x : f[x], LAMBDA s : CHOOSE x \in s : TRUE, D)

\* A set of natural numbers has a least element.
LEMMA Least ==
    ASSUME NEW X \in SUBSET Nat, X # {}
    PROVE  \E m \in X : \A n \in X : m <= n
<1>1. IsWellFoundedOn(OpToRel(<, Nat), Nat)
  BY NatLessThanWellFounded, Zenon
<1>2. PICK m \in X : \A n \in X : <<n, m>> \notin OpToRel(<, Nat)
  BY <1>1, WFMin, Zenon
<1>3. \A n \in X : ~(n < m)
  BY <1>2 DEF OpToRel
<1> QED
  BY <1>3

\* Of sets of parts of a finite set, one is such that none of it with an element less is there.
LEMMA Smallest ==
    ASSUME NEW D, IsFiniteSet(D), NEW X \in SUBSET SUBSET D, X # {}
    PROVE  \E s \in X : \A x \in s : s \ {x} \notin X
<1> DEFINE sizes == {Cardinality(s) : s \in X}
<1>1. \A s \in X : IsFiniteSet(s) /\ Cardinality(s) \in Nat
  BY FS_Subset, FS_CardinalityType
<1>2. sizes \in SUBSET Nat /\ sizes # {}
  BY <1>1
<1>3. PICK m \in sizes : \A n \in sizes : m <= n
  <2> HIDE DEF sizes
  <2> QED
    BY <1>2, Least
<1>4. PICK s \in X : m = Cardinality(s)
  BY <1>3
<1>5. ASSUME NEW x \in s, s \ {x} \in X PROVE FALSE
  <2>1. Cardinality(s \ {x}) = m - 1
    BY <1>1, <1>4, FS_RemoveElement
  <2>2. m <= m - 1
    BY <2>1, <1>3, <1>5
  <2> QED
    BY <2>2, <1>2
<1> QED
  BY <1>4, <1>5

\* What is given by recursion over the subsets of D: the sums of f.
chosen(s)     == CHOOSE x \in s : TRUE
Part(g, f, s) == IF s = {} THEN 0 ELSE f[chosen(s)] + g[s \ {chosen(s)}]
Sums(g, f, D) == g = [s \in SUBSET D |-> Part(g, f, s)]
SumsOfSmall(g, f, D, n) == \A s \in SUBSET D : Cardinality(s) < n => g[s] = Part(g, f, s)

\* What is chosen from a set is in it.
LEMMA Chosen ==
    ASSUME NEW s, s # {}
    PROVE  chosen(s) \in s
  BY DEF chosen

\* Sums of the sets of less than n elements give those of the sets of n.
LEMMA SumsUpTo ==
    ASSUME NEW D, IsFiniteSet(D), NEW f, \A x \in D : f[x] \in Int,
           NEW n \in Nat, NEW g \in [SUBSET D -> Int], SumsOfSmall(g, f, D, n)
    PROVE  \E h \in [SUBSET D -> Int] : SumsOfSmall(h, f, D, n + 1)
<1> DEFINE h == [s \in SUBSET D |-> Part(g, f, s)]
<1>1. \A s \in SUBSET D : IsFiniteSet(s) /\ Cardinality(s) \in Nat
  BY FS_Subset, FS_CardinalityType
<1>2. \A s \in SUBSET D : s # {} => /\ chosen(s) \in s
                                    /\ s \ {chosen(s)} \in SUBSET D
                                    /\ Cardinality(s \ {chosen(s)}) = Cardinality(s) - 1
  BY <1>1, FS_RemoveElement, Chosen
<1>3. h \in [SUBSET D -> Int]
  <2> SUFFICES ASSUME NEW s \in SUBSET D PROVE Part(g, f, s) \in Int
    OBVIOUS
  <2>1. CASE s = {}
    BY <2>1 DEF Part
  <2>2. CASE s # {}
    <3>1. f[chosen(s)] \in Int /\ g[s \ {chosen(s)}] \in Int
      BY <2>2, <1>2
    <3> QED
      BY <3>1, <2>2 DEF Part
  <2> QED
    BY <2>1, <2>2
<1>4. ASSUME NEW s \in SUBSET D, Cardinality(s) < n + 1
      PROVE  h[s] = Part(h, f, s)
  <2>1. CASE s = {}
    BY <2>1 DEF Part
  <2>2. CASE s # {}
    <3> DEFINE t == s \ {chosen(s)}
    <3>1. t \in SUBSET D /\ Cardinality(t) < n
      BY <2>2, <1>1, <1>2, <1>4
    <3>2. g[t] = h[t]
      BY <3>1 DEF SumsOfSmall
    <3>3. Part(g, f, s) = Part(h, f, s)
      BY <3>2, <2>2 DEF Part
    <3> QED
      BY <3>3
  <2> QED
    BY <2>1, <2>2
<1> QED
  BY <1>3, <1>4 DEF SumsOfSmall

\* So there are sums of all subsets of a finite set.
LEMMA SumsExist ==
    ASSUME NEW D, IsFiniteSet(D), NEW f, \A x \in D : f[x] \in Int
    PROVE  \E g \in [SUBSET D -> Int] : Sums(g, f, D)
<1> DEFINE Reached(n) == \E g \in [SUBSET D -> Int] : SumsOfSmall(g, f, D, n)
           Missed == {n \in Nat : ~Reached(n)}
<1>1. \A s \in SUBSET D : IsFiniteSet(s) /\ Cardinality(s) \in Nat
  BY FS_Subset, FS_CardinalityType
<1>2. Reached(0)
  <2> DEFINE g == [s \in SUBSET D |-> 0]
  <2>1. g \in [SUBSET D -> Int]
    OBVIOUS
  <2>2. \A s \in SUBSET D : ~(Cardinality(s) < 0)
    BY <1>1
  <2> QED
    BY <2>1, <2>2 DEF SumsOfSmall
<1>3. ASSUME NEW n \in Nat, Reached(n) PROVE Reached(n + 1)
  BY <1>3, SumsUpTo
<1>4. Missed = {}
  <2> HIDE DEF Reached
  <2>1. SUFFICES ASSUME Missed # {} PROVE FALSE
    OBVIOUS
  <2>2. PICK m \in Missed : \A n \in Missed : m <= n
    BY <2>1, Least
  <2>3. m # 0 /\ m - 1 \in Nat
    BY <2>2, <1>2
  <2>4. Reached(m - 1)
    BY <2>2, <2>3
  <2> QED
    BY <2>2, <2>3, <2>4, <1>3
<1>5. Cardinality(D) + 1 \in Nat
  BY <1>1
<1>6. PICK g \in [SUBSET D -> Int] : SumsOfSmall(g, f, D, Cardinality(D) + 1)
  BY <1>4, <1>5
<1>7. \A s \in SUBSET D : Cardinality(s) < Cardinality(D) + 1
  BY <1>1, FS_Subset
<1>8. g = [s \in SUBSET D |-> Part(g, f, s)]
  BY <1>6, <1>7 DEF SumsOfSmall
<1> QED
  BY <1>6, <1>8 DEF Sums

\* The sums of f are numbers.
LEMMA SumsAreNumbers ==
    ASSUME NEW D, IsFiniteSet(D), NEW f, \A x \in D : f[x] \in Int, NEW g, Sums(g, f, D)
    PROVE  g \in [SUBSET D -> Int]
<1> DEFINE X == {s \in SUBSET D : g[s] \notin Int}
<1>1. SUFFICES ASSUME X # {} PROVE FALSE
  BY DEF Sums
<1>2. PICK s \in X : \A x \in s : s \ {x} \notin X
  BY <1>1, Smallest
<1>3. g[s] = Part(g, f, s)
  BY <1>2 DEF Sums
<1>4. s # {}
  BY <1>2, <1>3 DEF Part
<1>5. g[s \ {chosen(s)}] \in Int /\ f[chosen(s)] \in Int
  BY <1>2, <1>4, Chosen
<1> QED
  BY <1>2, <1>3, <1>4, <1>5 DEF Part

\* The fold that the model sums with gives the sum of the whole set.
LEMMA SumIs ==
    ASSUME NEW D, IsFiniteSet(D), NEW f, \A x \in D : f[x] \in Int
    PROVE  \E g \in [SUBSET D -> Int] : Sums(g, f, D) /\ SumOver(f, D) = g[D]
<1> DEFINE g == CHOOSE k : Sums(k, f, D)
<1>1. \E h : Sums(h, f, D)
  BY SumsExist
<1>2. Sums(g, f, D)
  BY <1>1
<1>3. SumOver(f, D) = g[D]
  BY DEF SumOver, MapThenFoldSet, Sums, Part, chosen
<1> QED
  BY <1>2, <1>3, SumsAreNumbers

\* A sum of integers is one.
LEMMA SumType ==
    ASSUME NEW D, IsFiniteSet(D), NEW f, \A x \in D : f[x] \in Int
    PROVE  SumOver(f, D) \in Int
<1>1. PICK g \in [SUBSET D -> Int] : Sums(g, f, D) /\ SumOver(f, D) = g[D]
  BY SumIs
<1> QED
  BY <1>1

\* A sum changes by what one of its parts changes.
LEMMA SumChange ==
    ASSUME NEW D, IsFiniteSet(D), NEW f, \A x \in D : f[x] \in Int, NEW e, \A x \in D : e[x] \in Int, NEW i \in D, NEW d \in Int,
           e[i] = f[i] + d, \A x \in D \ {i} : e[x] = f[x]
    PROVE  SumOver(e, D) = SumOver(f, D) + d
<1>1. PICK g \in [SUBSET D -> Int] : Sums(g, f, D) /\ SumOver(f, D) = g[D]
  BY SumIs
<1>2. PICK h \in [SUBSET D -> Int] : Sums(h, e, D) /\ SumOver(e, D) = h[D]
  BY SumIs
<1> DEFINE more(s) == IF i \in s THEN d ELSE 0
           X == {s \in SUBSET D : h[s] # g[s] + more(s)}
<1>3. X = {}
  <2>1. SUFFICES ASSUME X # {} PROVE FALSE
    OBVIOUS
  <2>2. PICK s \in X : \A x \in s : s \ {x} \notin X
    BY <2>1, Smallest
  <2>3. g[s] = Part(g, f, s) /\ h[s] = Part(h, e, s)
    BY <1>1, <1>2, <2>2 DEF Sums
  <2>4. s # {}
    BY <2>2, <2>3 DEF Part
  <2> DEFINE c == chosen(s)
             t == s \ {c}
  <2>5. c \in s /\ c \in D
    BY <2>4, <2>2, Chosen
  <2> HIDE DEF c
  <2>6. h[t] = g[t] + more(t)
    BY <2>5, <2>2
  <2>7. g[s] = f[c] + g[t] /\ h[s] = e[c] + h[t]
    BY <2>3, <2>4 DEF Part, c
  <2>8. f[c] \in Int /\ e[c] \in Int /\ g[t] \in Int /\ h[t] \in Int
    BY <2>5, <2>2
  <2>9. CASE c = i
    <3>1. e[c] = f[c] + d /\ more(t) = 0 /\ more(s) = d
      BY <2>9, <2>5
    <3> QED
      BY <3>1, <2>6, <2>7, <2>8, <2>2
  <2>10. CASE c # i
    <3>1. e[c] = f[c] /\ more(t) = more(s)
      BY <2>10, <2>5
    <3>2. more(s) \in Int
      OBVIOUS
    <3> QED
      BY <3>1, <3>2, <2>6, <2>7, <2>8, <2>2
  <2> QED
    BY <2>9, <2>10
<1>4. h[D] = g[D] + more(D)
  BY <1>3
<1> QED
  BY <1>1, <1>2, <1>4

\* Nothing but zeros sums up to zero.
LEMMA SumZero ==
    ASSUME NEW D, IsFiniteSet(D), NEW f, \A x \in D : f[x] \in Int, \A x \in D : f[x] = 0
    PROVE  SumOver(f, D) = 0
<1>1. PICK g \in [SUBSET D -> Int] : Sums(g, f, D) /\ SumOver(f, D) = g[D]
  BY SumIs
<1> DEFINE X == {s \in SUBSET D : g[s] # 0}
<1>2. X = {}
  <2>1. SUFFICES ASSUME X # {} PROVE FALSE
    OBVIOUS
  <2>2. PICK s \in X : \A x \in s : s \ {x} \notin X
    BY <2>1, Smallest
  <2>3. g[s] = Part(g, f, s)
    BY <1>1, <2>2 DEF Sums
  <2>4. s # {}
    BY <2>2, <2>3 DEF Part
  <2>5. g[s \ {chosen(s)}] = 0 /\ f[chosen(s)] = 0
    BY <2>2, <2>4, Chosen
  <2> QED
    BY <2>2, <2>3, <2>4, <2>5 DEF Part
<1> QED
  BY <1>1, <1>2

\* Functions equal on a set have the same sum there.
LEMMA SumSame ==
    ASSUME NEW D, IsFiniteSet(D), NEW f, \A x \in D : f[x] \in Int, NEW e, \A x \in D : e[x] = f[x]
    PROVE  SumOver(e, D) = SumOver(f, D)
<1>1. CASE D = {}
  BY <1>1, SumZero
<1>2. CASE D # {}
  <2>1. PICK i \in D : TRUE
    BY <1>2
  <2>2. (\A x \in D : e[x] \in Int) /\ 0 \in Int /\ e[i] = f[i] + 0 /\ \A x \in D \ {i} : e[x] = f[x]
    OBVIOUS
  <2>3. SumOver(e, D) = SumOver(f, D) + 0 /\ SumOver(f, D) \in Int
    BY <2>2, SumChange, SumType
  <2> QED
    BY <2>3
<1> QED
  BY <1>1, <1>2

\* The sum of what is the same everywhere.
LEMMA SumAlike ==
    ASSUME NEW D, IsFiniteSet(D), NEW f, NEW c \in Nat, \A x \in D : f[x] = c
    PROVE  SumOver(f, D) = c * Cardinality(D)
<1>1. \A x \in D : f[x] \in Int
  OBVIOUS
<1>2. PICK g \in [SUBSET D -> Int] : Sums(g, f, D) /\ SumOver(f, D) = g[D]
  BY <1>1, SumIs
<1> DEFINE X == {s \in SUBSET D : g[s] # c * Cardinality(s)}
<1>3. X = {}
  <2>1. SUFFICES ASSUME X # {} PROVE FALSE
    OBVIOUS
  <2>2. PICK s \in X : \A x \in s : s \ {x} \notin X
    BY <2>1, Smallest
  <2>3. g[s] = Part(g, f, s) /\ IsFiniteSet(s)
    BY <1>2, <2>2, FS_Subset DEF Sums
  <2>4. s # {}
    BY <2>2, <2>3, FS_EmptySet DEF Part
  <2> DEFINE t == s \ {chosen(s)}
  <2>5. g[t] = c * Cardinality(t) /\ f[chosen(s)] = c
    BY <2>2, <2>4, Chosen
  <2>6. Cardinality(t) = Cardinality(s) - 1 /\ Cardinality(s) \in Nat
    BY <2>3, <2>4, Chosen, FS_RemoveElement, FS_CardinalityType
  <2>7. g[s] = c + g[t]
    BY <2>3, <2>4, <2>5 DEF Part
  <2> HIDE DEF t
  <2>8. c + c * (Cardinality(s) - 1) = c * Cardinality(s)
    BY <2>6
  <2> QED
    BY <2>2, <2>5, <2>6, <2>7, <2>8
<1> QED
  BY <1>2, <1>3

\* A sequence of two.
LEMMA TwoOf ==
    ASSUME NEW a, NEW b
    PROVE  Append(<<a>>, b) = <<a, b>>
<1> DEFINE Two == {a, b}
<1>1. <<a>> \in Seq(Two) /\ b \in Two /\ Len(<<a>>) = 1
  OBVIOUS
<1>2. /\ Append(<<a>>, b) \in Seq(Two) /\ Len(Append(<<a>>, b)) = 2
      /\ Append(<<a>>, b)[1] = a /\ Append(<<a>>, b)[2] = b
  BY <1>1, AppendProperties
<1>3. <<a, b>> \in Seq(Two) /\ Len(<<a, b>>) = 2
  OBVIOUS
<1>4. \A i \in 1..2 : i = 1 \/ i = 2
  OBVIOUS
<1>5. \A i \in 1..Len(Append(<<a>>, b)) : Append(<<a>>, b)[i] = <<a, b>>[i]
  BY <1>2, <1>4
<1> HIDE DEF Two
<1> QED
  BY <1>2, <1>3, <1>5, SeqEqual

-----------------------------------------------------------------------------
(* Marks in a pipe. *)

\* The places in a pipe of what is in A.
Places(s, A) == {k \in DOMAIN s : s[k] \in A}

\* There are finitely many of them.
LEMMA PlacesFinite ==
    ASSUME NEW Msg, NEW s \in Seq(Msg), NEW A
    PROVE  IsFiniteSet(Places(s, A)) /\ Cardinality(Places(s, A)) \in Nat
<1>1. DOMAIN s = 1..Len(s) /\ Len(s) \in Nat
  BY LenProperties
<1>2. IsFiniteSet(DOMAIN s)
  BY <1>1, FS_Interval
<1>3. IsFiniteSet(Places(s, A))
  BY <1>2, FS_Subset DEF Places
<1> QED
  BY <1>3, FS_CardinalityType

\* What is written is counted.
LEMMA PlacesAppend ==
    ASSUME NEW Msg, NEW s \in Seq(Msg), NEW m \in Msg, NEW A
    PROVE  Cardinality(Places(Append(s, m), A)) = Cardinality(Places(s, A)) + (IF m \in A THEN 1 ELSE 0)
<1> DEFINE n == Len(s)
           t == Append(s, m)
<1>1. n \in Nat /\ DOMAIN s = 1..n /\ DOMAIN t = 1..(n + 1) /\ t[n + 1] = m /\ \A k \in 1..n : t[k] = s[k]
  <2>1. n \in Nat /\ DOMAIN s = 1..n
    BY LenProperties
  <2>2. t \in Seq(Msg) /\ Len(t) = n + 1
    BY AppendProperties
  <2>3. DOMAIN t = 1..(n + 1)
    BY <2>2, LenProperties
  <2>4. t[n + 1] = m /\ \A k \in 1..n : t[k] = s[k]
    BY AppendProperties
  <2> QED
    BY <2>1, <2>3, <2>4
<1> HIDE DEF n, t
<1>2. IsFiniteSet(Places(s, A)) /\ Cardinality(Places(s, A)) \in Nat
  BY PlacesFinite
<1>3. CASE m \in A
  <2>1. Places(t, A) = Places(s, A) \union {n + 1} /\ n + 1 \notin Places(s, A)
    BY <1>1, <1>3 DEF Places
  <2> QED
    BY <2>1, <1>2, <1>3, FS_AddElement DEF t
<1>4. CASE m \notin A
  <2>1. Places(t, A) = Places(s, A)
    BY <1>1, <1>4 DEF Places
  <2> QED
    BY <2>1, <1>2, <1>4 DEF t
<1> QED
  BY <1>3, <1>4

\* A set of places, each moved on by one, has as many elements.
LEMMA Shifted ==
    ASSUME NEW A \in SUBSET Nat, IsFiniteSet(A)
    PROVE  Cardinality({k + 1 : k \in A}) = Cardinality(A)
<1> DEFINE A2 == {k + 1 : k \in A}
           up == [k \in A |-> k + 1]
<1>1. up \in Bijection(A, A2)
  <2>1. up \in [A -> A2]
    OBVIOUS
  <2>2. \A a, b \in A : up[a] = up[b] => a = b
    OBVIOUS
  <2>3. \A c \in A2 : \E a \in A : up[a] = c
    OBVIOUS
  <2> HIDE DEF up, A2
  <2> QED
    BY <2>1, <2>2, <2>3 DEF Bijection, Injection, Surjection, IsInjective
<1>2. ExistsBijection(A, A2)
  BY <1>1 DEF ExistsBijection
<1> QED
  BY <1>2, FS_Bijection

\* What is read is no longer counted.
LEMMA PlacesTail ==
    ASSUME NEW Msg, NEW s \in Seq(Msg), s # <<>>, NEW A
    PROVE  Cardinality(Places(Tail(s), A)) = Cardinality(Places(s, A)) - (IF Head(s) \in A THEN 1 ELSE 0)
<1> DEFINE n == Len(s)
           t == Tail(s)
           A2 == {k + 1 : k \in Places(t, A)}
<1>1. n \in Nat \ {0} /\ DOMAIN s = 1..n /\ DOMAIN t = 1..(n - 1) /\ Head(s) = s[1] /\ \A k \in 1..(n - 1) : t[k] = s[k + 1]
  <2>1. n \in Nat /\ DOMAIN s = 1..n /\ n # 0
    BY LenProperties, EmptySeq
  <2>2. t \in Seq(Msg) /\ Len(t) = n - 1 /\ \A k \in 1..Len(t) : t[k] = s[k + 1]
    BY HeadTailProperties
  <2>3. DOMAIN t = 1..(n - 1)
    BY <2>2, LenProperties
  <2> QED
    BY <2>1, <2>2, <2>3
<1>2. t \in Seq(Msg)
  BY HeadTailProperties
<1> HIDE DEF n, t
<1>3. IsFiniteSet(Places(s, A)) /\ Cardinality(Places(s, A)) \in Nat
  BY PlacesFinite
<1>4. Places(t, A) \in SUBSET Nat /\ IsFiniteSet(Places(t, A))
  <2>1. Places(t, A) \in SUBSET Nat
    BY <1>1 DEF Places
  <2>2. IsFiniteSet(Places(t, A))
    BY <1>2, PlacesFinite
  <2> QED
    BY <2>1, <2>2
<1>5. Cardinality(A2) = Cardinality(Places(t, A))
  BY <1>4, Shifted
<1>6. A2 = Places(s, A) \ {1}
  <2>1. \A k \in A2 : k \in Places(s, A) /\ k # 1
    BY <1>1 DEF Places
  <2>2. ASSUME NEW k \in Places(s, A), k # 1 PROVE k \in A2
    <3>1. k - 1 \in Places(t, A) /\ k = (k - 1) + 1
      BY <1>1, <2>2 DEF Places
    <3> QED
      BY <3>1
  <2> QED
    BY <2>1, <2>2
<1> HIDE DEF A2
<1>7. CASE Head(s) \in A
  <2>1. 1 \in Places(s, A)
    BY <1>1, <1>7 DEF Places
  <2> QED
    BY <2>1, <1>3, <1>5, <1>6, <1>7, FS_RemoveElement DEF t
<1>8. CASE Head(s) \notin A
  <2>1. 1 \notin Places(s, A)
    BY <1>1, <1>8 DEF Places
  <2>2. A2 = Places(s, A)
    BY <2>1, <1>6
  <2> QED
    BY <2>2, <1>3, <1>5, <1>8 DEF t
<1> QED
  BY <1>7, <1>8

\* Nothing is in an empty pipe.
LEMMA PlacesNone ==
    ASSUME NEW A
    PROVE  Cardinality(Places(<<>>, A)) = 0
  BY FS_EmptySet DEF Places

\* The places of what bears the mark i.
Marked(s, i) == {k \in DOMAIN s : s[k][1] = i}

\* They are places of what is in a set.
LEMMA MarkedPlaces ==
    ASSUME NEW Msg, NEW s \in Seq(Msg), NEW i
    PROVE  Marked(s, i) = Places(s, {m \in Msg : m[1] = i})
  BY ElementOfSeq, LenProperties DEF Marked, Places

\* Finitely many places bear the mark i.
LEMMA MarkedFinite ==
    ASSUME NEW Msg, NEW s \in Seq(Msg), NEW i
    PROVE  IsFiniteSet(Marked(s, i)) /\ Cardinality(Marked(s, i)) \in Nat
<1> DEFINE A == {x \in Msg : x[1] = i}
<1>1. Marked(s, i) = Places(s, A)
  BY MarkedPlaces
<1> HIDE DEF A
<1> QED
  BY <1>1, PlacesFinite

\* What is written has its mark counted.
LEMMA MarkedAppend ==
    ASSUME NEW Msg, NEW s \in Seq(Msg), NEW m \in Msg, NEW i
    PROVE  Cardinality(Marked(Append(s, m), i)) = Cardinality(Marked(s, i)) + (IF m[1] = i THEN 1 ELSE 0)
<1> DEFINE A == {x \in Msg : x[1] = i}
<1>1. Append(s, m) \in Seq(Msg)
  BY AppendProperties
<1>2. Marked(s, i) = Places(s, A) /\ Marked(Append(s, m), i) = Places(Append(s, m), A)
  BY <1>1, MarkedPlaces
<1>3. m \in A <=> m[1] = i
  OBVIOUS
<1> HIDE DEF A
<1> QED
  BY <1>2, <1>3, PlacesAppend

\* What is read has its mark no longer counted.
LEMMA MarkedTail ==
    ASSUME NEW Msg, NEW s \in Seq(Msg), s # <<>>, NEW i
    PROVE  Cardinality(Marked(Tail(s), i)) = Cardinality(Marked(s, i)) - (IF Head(s)[1] = i THEN 1 ELSE 0)
<1> DEFINE A == {x \in Msg : x[1] = i}
<1>1. Tail(s) \in Seq(Msg) /\ Head(s) \in Msg
  BY HeadTailProperties
<1>2. Marked(s, i) = Places(s, A) /\ Marked(Tail(s), i) = Places(Tail(s), A)
  BY <1>1, MarkedPlaces
<1>3. Head(s) \in A <=> Head(s)[1] = i
  BY <1>1
<1> HIDE DEF A
<1> QED
  BY <1>2, <1>3, PlacesTail

\* Nothing in an empty pipe is marked.
LEMMA MarkedNone ==
    ASSUME NEW i
    PROVE  Cardinality(Marked(<<>>, i)) = 0
  BY FS_EmptySet DEF Marked

\* Remainders of small numbers.
LEMMA Small ==
    ASSUME NEW n \in Nat, n # 0, NEW a \in Nat
    PROVE  /\ a < n => a % n = a
           /\ n <= a /\ a < n + n => a % n = a - n
  OBVIOUS

-----------------------------------------------------------------------------
(* Rings. *)

\* Who sits before p in a ring of n.
before(p, n) == IF p = 0 THEN n - 1 ELSE p - 1

\* The next one and the one before in a ring of n, as the remainders of the code give them.
LEMMA InRing ==
    ASSUME NEW n \in Nat, n # 0, NEW p \in 0..(n - 1)
    PROVE  /\ (p + 1) % n \in 0..(n - 1)
           /\ before(p, n) \in 0..(n - 1)
           /\ (p + n - 1) % n = before(p, n)
           /\ (before(p, n) + 1) % n = p
<1>1. CASE p = 0
  <2>1. p + n - 1 = n - 1 /\ n - 1 \in Nat /\ n - 1 < n /\ before(p, n) = n - 1 /\ before(p, n) + 1 = n
    BY <1>1 DEF before
  <2>2. (n - 1) % n = n - 1 /\ n % n = n - n
    BY <2>1, Small
  <2>3. (p + 1) % n \in 0..(n - 1)
    OBVIOUS
  <2> QED
    BY <1>1, <2>1, <2>2, <2>3
<1>2. CASE p # 0
  <2>1. p + n - 1 \in Nat /\ n <= p + n - 1 /\ p + n - 1 < n + n /\ before(p, n) = p - 1 /\ before(p, n) + 1 = p /\ p \in Nat /\ p < n
    BY <1>2 DEF before
  <2>2. (p + n - 1) % n = (p + n - 1) - n /\ p % n = p
    BY <2>1, Small
  <2>3. (p + 1) % n \in 0..(n - 1)
    OBVIOUS
  <2>4. (p + n - 1) - n = p - 1 /\ p - 1 \in 0..(n - 1)
    BY <1>2
  <2> QED
    BY <1>2, <2>1, <2>2, <2>3, <2>4
<1> QED
  BY <1>1, <1>2

-----------------------------------------------------------------------------
(* What is in a pipe. *)

\* What is in a sequence, and that it is there once.
Simple(s) == \A j, k \in DOMAIN s : s[j] = s[k] => j = k

\* An empty pipe has nothing twice.
LEMMA SimpleNone == Range(<<>>) = {} /\ Simple(<<>>)
  BY DEF Range, Simple

\* What was not in a pipe can be written to it.
LEMMA SimpleAppend ==
    ASSUME NEW Msg, NEW s \in Seq(Msg), NEW m \in Msg
    PROVE  /\ Range(Append(s, m)) = Range(s) \union {m}
           /\ Simple(s) /\ m \notin Range(s) => Simple(Append(s, m))
<1> DEFINE n == Len(s)
           t == Append(s, m)
<1>1. n \in Nat /\ DOMAIN s = 1..n /\ DOMAIN t = 1..(n + 1) /\ t[n + 1] = m /\ \A k \in 1..n : t[k] = s[k]
  <2>1. n \in Nat /\ DOMAIN s = 1..n
    BY LenProperties
  <2>2. t \in Seq(Msg) /\ Len(t) = n + 1
    BY AppendProperties
  <2>3. DOMAIN t = 1..(n + 1)
    BY <2>2, LenProperties
  <2>4. t[n + 1] = m /\ \A k \in 1..n : t[k] = s[k]
    BY AppendProperties
  <2> QED
    BY <2>1, <2>3, <2>4
<1> HIDE DEF n, t
<1>2. DOMAIN t = DOMAIN s \union {n + 1} /\ n + 1 \notin DOMAIN s
  BY <1>1
<1>3. Range(t) = Range(s) \union {m}
  <2>1. \A k \in DOMAIN s : k \in DOMAIN t /\ t[k] = s[k]
    BY <1>1
  <2>2. n + 1 \in DOMAIN t /\ t[n + 1] = m
    BY <1>1
  <2>3. \A x \in Range(t) : x \in Range(s) \union {m}
    BY <1>2, <2>1, <2>2 DEF Range
  <2>4. \A x \in Range(s) : x \in Range(t)
    BY <2>1 DEF Range
  <2>5. m \in Range(t)
    BY <2>2 DEF Range
  <2> QED
    BY <2>3, <2>4, <2>5
<1>4. ASSUME Simple(s), m \notin Range(s) PROVE Simple(t)
  BY <1>1, <1>2, <1>4 DEF Range, Simple
<1> QED
  BY <1>3, <1>4 DEF t

\* What is read from a pipe that has nothing twice is in it no more.
LEMMA SimpleTail ==
    ASSUME NEW Msg, NEW s \in Seq(Msg), s # <<>>
    PROVE  /\ Range(s) = Range(Tail(s)) \union {Head(s)} /\ Head(s) \in Msg
           /\ Simple(s) => Simple(Tail(s)) /\ Head(s) \notin Range(Tail(s))
<1> DEFINE n == Len(s)
           t == Tail(s)
<1>1. n \in Nat \ {0} /\ DOMAIN s = 1..n /\ DOMAIN t = 1..(n - 1) /\ Head(s) = s[1] /\ \A k \in 1..(n - 1) : t[k] = s[k + 1]
  <2>1. n \in Nat /\ DOMAIN s = 1..n /\ n # 0
    BY LenProperties, EmptySeq
  <2>2. t \in Seq(Msg) /\ Len(t) = n - 1 /\ \A k \in 1..Len(t) : t[k] = s[k + 1]
    BY HeadTailProperties
  <2>3. DOMAIN t = 1..(n - 1)
    BY <2>2, LenProperties
  <2> QED
    BY <2>1, <2>2, <2>3
<1>2. Head(s) \in Msg
  BY HeadTailProperties
<1> HIDE DEF n, t
<1>3. Range(s) = Range(t) \union {Head(s)}
  <2>1. \A x \in Range(t) : x \in Range(s)
    BY <1>1 DEF Range
  <2>2. Head(s) \in Range(s)
    BY <1>1 DEF Range
  <2>3. ASSUME NEW k \in DOMAIN s, k # 1 PROVE s[k] \in Range(t)
    <3>1. k - 1 \in DOMAIN t /\ t[k - 1] = s[k]
      BY <1>1, <2>3
    <3> QED
      BY <3>1 DEF Range
  <2>4. \A x \in Range(s) : x \in Range(t) \/ x = Head(s)
    BY <1>1, <2>3 DEF Range
  <2> QED
    BY <2>1, <2>2, <2>4
<1>4. ASSUME Simple(s) PROVE Simple(t) /\ Head(s) \notin Range(t)
  <2>1. \A k \in DOMAIN t : k + 1 \in DOMAIN s /\ t[k] = s[k + 1] /\ k + 1 # 1
    BY <1>1
  <2>2. 1 \in DOMAIN s /\ Head(s) = s[1]
    BY <1>1
  <2>3. Head(s) \notin Range(t)
    BY <1>4, <2>1, <2>2 DEF Range, Simple
  <2>4. \A j, k \in DOMAIN t : t[j] = t[k] => j + 1 = k + 1
    BY <1>4, <2>1 DEF Simple
  <2>5. \A j, k \in DOMAIN t : j + 1 = k + 1 => j = k
    BY <1>1
  <2> QED
    BY <2>3, <2>4, <2>5 DEF Simple
<1> QED
  BY <1>2, <1>3, <1>4 DEF t

\* A pipe that has nothing twice is as long as what is in it.
LEMMA SimpleCount ==
    ASSUME NEW Msg, NEW s \in Seq(Msg), Simple(s)
    PROVE  Cardinality(Range(s)) = Len(s)
<1>1. DOMAIN s = 1..Len(s) /\ Len(s) \in Nat
  BY LenProperties
<1>2. IsFiniteSet(1..Len(s)) /\ Cardinality(1..Len(s)) = Len(s)
  BY <1>1, FS_Interval
<1> DEFINE at == [k \in 1..Len(s) |-> s[k]]
<1>3. at \in Bijection(1..Len(s), Range(s))
  <2>1. at \in [1..Len(s) -> Range(s)]
    BY <1>1 DEF Range
  <2>2. \A a, b \in 1..Len(s) : at[a] = at[b] => a = b
    BY <1>1 DEF Simple
  <2>3. \A c \in Range(s) : \E a \in 1..Len(s) : at[a] = c
    BY <1>1 DEF Range
  <2> HIDE DEF at
  <2> QED
    BY <2>1, <2>2, <2>3 DEF Bijection, Injection, Surjection, IsInjective
<1>4. ExistsBijection(1..Len(s), Range(s))
  BY <1>3 DEF ExistsBijection
<1> QED
  BY <1>2, <1>4, FS_Bijection

\* A set all of whose elements are equal has one element at most.
LEMMA AtMostOne ==
    ASSUME NEW D, \A a, b \in D : a = b
    PROVE  IsFiniteSet(D) /\ Cardinality(D) = IF D = {} THEN 0 ELSE 1
<1>1. CASE D = {}
  BY <1>1, FS_EmptySet
<1>2. CASE D # {}
  <2>1. PICK a \in D : TRUE
    BY <1>2
  <2>2. D = {a}
    BY <2>1
  <2> QED
    BY <2>2, FS_Singleton
<1> QED
  BY <1>1, <1>2

\* All cards are dealt: so many hands of so many cards are all cards.
LEMMA AllDealt ==
    ASSUME NEW n \in Nat, NEW m \in Nat, NEW h, \A p \in 0..(n - 1) : h[p] \subseteq 0..(n * m - 1) /\ Cardinality(h[p]) = m,
           \A p, q \in 0..(n - 1) : p # q => h[p] \intersect h[q] = {}
    PROVE  \A c \in 0..(n * m - 1) : \E p \in 0..(n - 1) : c \in h[p]
<1> DEFINE D == 0..(n * m - 1)
           U(k) == UNION {h[q] : q \in 0..(k - 1)}
           Missed == {k \in 0..n : Cardinality(U(k)) # k * m}
<1>1. n * m \in Nat /\ IsFiniteSet(D) /\ Cardinality(D) = n * m
  <2>1. n * m \in Nat
    OBVIOUS
  <2>2. n * m - 1 \in Int /\ 0 \in Int
    BY <2>1
  <2>3. IsFiniteSet(0..(n * m - 1)) /\ Cardinality(0..(n * m - 1)) = IF 0 > n * m - 1 THEN 0 ELSE (n * m - 1) - 0 + 1
    BY <2>2, FS_Interval
  <2>4. (IF 0 > n * m - 1 THEN 0 ELSE (n * m - 1) - 0 + 1) = n * m
    BY <2>1
  <2> QED
    BY <2>1, <2>3, <2>4
<1> HIDE DEF D
<1>2. \A k \in 0..n : U(k) \subseteq D /\ IsFiniteSet(U(k))
  <2>1. \A k \in 0..n : U(k) \subseteq D
    BY DEF D
  <2>2. \A k \in 0..n : IsFiniteSet(U(k))
    <3> HIDE DEF U
    <3> QED
      BY <1>1, <2>1, FS_Subset
  <2> QED
    BY <2>1, <2>2
<1>3. Cardinality(U(0)) = 0
  BY FS_EmptySet
<1>4. ASSUME NEW k \in 0..(n - 1), Cardinality(U(k)) = k * m PROVE Cardinality(U(k + 1)) = (k + 1) * m
  <2>1. U(k + 1) = U(k) \union h[k]
    OBVIOUS
  <2>2. U(k) \intersect h[k] = {}
    OBVIOUS
  <2>3. IsFiniteSet(h[k]) /\ Cardinality(h[k]) = m
    BY <1>1, FS_Subset DEF D
  <2>4. IsFiniteSet(U(k))
    <3>1. k \in 0..n
      OBVIOUS
    <3> QED
      BY <1>2, <3>1
  <2> HIDE DEF U
  <2>5. Cardinality(U(k + 1)) = k * m + m
    <3>1. Cardinality(U(k) \intersect h[k]) = 0
      BY <2>2, FS_EmptySet
    <3>2. Cardinality(U(k) \union h[k]) = Cardinality(U(k)) + Cardinality(h[k]) - Cardinality(U(k) \intersect h[k])
      BY <2>3, <2>4, FS_Union
    <3>3. PICK km \in Nat : km = k * m
      OBVIOUS
    <3>4. Cardinality(U(k)) = km
      BY <1>4, <3>3
    <3>5. Cardinality(U(k) \union h[k]) = km + m
      BY <2>3, <3>1, <3>2, <3>4
    <3> QED
      BY <2>1, <3>3, <3>5
  <2>6. (k + 1) * m = k * m + m
    OBVIOUS
  <2> QED
    BY <2>5, <2>6
<1>5. Missed = {}
  <2> HIDE DEF U
  <2>1. SUFFICES ASSUME Missed # {} PROVE FALSE
    OBVIOUS
  <2>2. Missed \in SUBSET Nat
    OBVIOUS
  <2>3. PICK k \in Missed : \A j \in Missed : k <= j
    <3> HIDE DEF Missed
    <3> QED
      BY <2>1, <2>2, Least
  <2>4. k # 0
    BY <1>3, <2>3
  <2>5. k - 1 \in 0..(n - 1) /\ k - 1 \notin Missed /\ k - 1 \in 0..n /\ (k - 1) + 1 = k
    BY <2>3, <2>4
  <2>6. Cardinality(U(k - 1)) = (k - 1) * m
    BY <2>5
  <2>7. Cardinality(U((k - 1) + 1)) = ((k - 1) + 1) * m
    BY <1>4, <2>5, <2>6
  <2> QED
    BY <2>3, <2>5, <2>7
<1>6. Cardinality(U(n)) = n * m /\ U(n) \subseteq D
  <2>1. n \in 0..n
    OBVIOUS
  <2> QED
    BY <1>2, <1>5, <2>1
<1>7. U(n) = D
  <2> HIDE DEF U
  <2> QED
    BY <1>1, <1>6, FS_Subset
<1> QED
  BY <1>7 DEF D

-----------------------------------------------------------------------------
(* Lotto. *)

\* What the variables of lotto are.
LType ==
    /\ DOMAIN pc = 0..Few /\ week \in [0..Few -> Int]
    /\ won \in [L!Player -> Int] /\ DOMAIN bet = L!Player
    /\ rps \subseteq L!Player
    /\ total_bet \in Int /\ total_reward \in Int
    /\ content \in [L!Edges -> Seq(Draws)]
    /\ DOMAIN readers = L!Edges /\ DOMAIN writers = L!Edges
    /\ pc[Few] = "collect" => winning \in Draws

\* The pipe to a player is read by that player at most, and what nobody can read is gone.
LReaders ==
    /\ \A p \in L!Player : readers[L!to_player(p)] \subseteq {p}
    /\ \A p \in L!Player : pc[p] = "ended" => readers[L!to_player(p)] = {}
    /\ \A e \in L!Edges : readers[e] = {} => content[e] = <<>>

\* A bet is on its way, or its answer is, or neither.
LPlaces ==
    \A p \in L!Player :
        LET from == content[L!from_player(p)]
            to   == content[L!to_player(p)]
        IN  /\ pc[p] \in {"bet", "await", "leave", "ended"}
            /\ pc[p] \in {"bet", "leave"} => from = <<>> /\ to = <<>>
            /\ pc[p] = "await" => /\ bet[p] \in Draws
                                  /\ from = <<>> \/ to = <<>>
                                  /\ from = <<>> \/ from = <<bet[p]>>
                                  /\ to = <<>> \/ \E w \in Draws : to = <<w>>

\* What the totalisator asked for and paid out is what the players were asked and told.
LBooks ==
    /\ total_bet = 3 * SumOver(L!Asked, L!Player)
    /\ total_reward = SumOver(L!PaidOut, L!Player)

\* The inductive invariant of lotto.
LInv == LType /\ LReaders /\ LPlaces /\ LBooks

\* What the totalisator sums up is SumOver.
LEMMA LTotal == \A f : L!Total(f) = SumOver(f, L!Player)
  BY DEF L!Total, SumOver, L!MapThenFoldSet, MapThenFoldSet

\* Lotto's Cardinality is that of the other modules.
LEMMA LCounts == \A x : L!Cardinality(x) = Cardinality(x)
  BY DEF L!Cardinality, Cardinality

\* The books are what the property asks for.
LEMMA LImplies == LInv => L!BooksAgree
  BY LTotal DEF LInv, LBooks, LPlaces, L!BooksAgree, L!BET_PRICE

\* Players, and the pipes between them and the totalisator.
LEMMA LPlayers ==
    /\ IsFiniteSet(L!Player) /\ L!Player \subseteq 0..Few /\ Few \notin L!Player /\ Few \in 0..Few
    /\ \A p \in L!Player : L!to_player(p) \in L!Edges /\ L!from_player(p) \in L!Edges
    /\ \A p, q \in L!Player : /\ L!to_player(p) # L!from_player(q)
                              /\ L!to_player(p) = L!to_player(q) => p = q
                              /\ L!from_player(p) = L!from_player(q) => p = q
    /\ \A e \in L!Edges : \E p \in L!Player : e = L!to_player(p) \/ e = L!from_player(p)
<1>1. Few \in Nat /\ 0 \in Int /\ Few - 1 \in Int
  BY GamesAssumption DEF GamesAssumption
<1>2. IsFiniteSet(0..(Few - 1))
  BY <1>1, FS_Interval
<1> QED
  BY <1>1, <1>2 DEF L!Player, L!Edges, L!to_player, L!from_player, L!Totalisator

\* What is on the books of one player is a number.
LEMMA LNumbers ==
    ASSUME LType, LPlaces, LReaders, NEW p \in L!Player
    PROVE  L!Asked[p] \in Int /\ L!Unread(p) \in Int /\ L!PaidOut[p] \in Int
<1>1. content[L!to_player(p)] \in Seq(Draws) /\ week[p] \in Int /\ won[p] \in Int
  BY LPlayers DEF LType
<1>2. L!Unread(p) \in Int
  <2>1. CASE content[L!to_player(p)] = <<>>
    BY <2>1 DEF L!Unread, L!Readable
  <2>2. CASE content[L!to_player(p)] # <<>>
    <3>1. pc[p] = "await"
      BY <2>2, LPlayers DEF LPlaces, LReaders
    <3>2. bet[p] \in Draws /\ Head(content[L!to_player(p)]) \in Draws
      BY <3>1, <2>2, <1>1 DEF LPlaces
    <3> QED
      BY <3>2, <2>2, GamesAssumption, LCounts DEF L!Unread, L!Readable, L!compare, GamesAssumption
  <2> QED
    BY <2>1, <2>2
<1> QED
  BY <1>1, <1>2 DEF L!Asked, L!PaidOut

\* No bets, and books of nothing.
LEMMA LInitially == L!Init => LInv
<1> SUFFICES ASSUME L!Init PROVE LInv
  OBVIOUS
<1> USE DEF L!Init
<1>1. /\ content = [e \in L!Edges |-> <<>>]
      /\ writers = [e \in L!Edges |-> {e[1]}] /\ readers = [e \in L!Edges |-> {e[2]}]
  BY DEF L!PipesInit
<1>2. LType
  <2>1. DOMAIN pc = 0..Few
    OBVIOUS
  <2>3. pc[Few] = "draw"
    BY LPlayers DEF L!Totalisator
  <2>2. content \in [L!Edges -> Seq(Draws)]
    BY <1>1
  <2> QED
    BY <1>1, <2>1, <2>2, <2>3 DEF LType
<1>3. LReaders
  BY <1>1, LPlayers DEF L!to_player, L!Totalisator, LReaders
<1>4. LPlaces
  BY <1>1, LPlayers DEF L!Totalisator, LPlaces
<1>5. LBooks
  <2>1. \A p \in L!Player : L!Asked[p] = 0 /\ L!PaidOut[p] = 0
    BY <1>1, LPlayers DEF L!Asked, L!PaidOut, L!Unread, L!Readable
  <2> HIDE DEF L!Init
  <2>4. IsFiniteSet(L!Player) /\ (\A p \in L!Player : L!Asked[p] = 0) /\ \A p \in L!Player : L!PaidOut[p] = 0
    BY <2>1, LPlayers
  <2>2. SumOver(L!Asked, L!Player) = 0
    BY <2>4, SumZero
  <2>3. SumOver(L!PaidOut, L!Player) = 0
    BY <2>4, SumZero
  <2> QED
    BY <2>2, <2>3 DEF LBooks, L!Init
<1> QED
  BY <1>2, <1>3, <1>4, <1>5 DEF LInv

\* What closing does: pipes lose their content or keep it, and those that a player still
\* reads keep it.
LEMMA LClose ==
    ASSUME LType, LReaders, NEW q, NEW X, NEW Y, L!Close(q, X, Y)
    PROVE  /\ content' \in [L!Edges -> Seq(Draws)]
           /\ DOMAIN readers' = L!Edges /\ DOMAIN writers' = L!Edges
           /\ LReaders!1' /\ LReaders!3'
           /\ \A e \in L!Edges : content'[e] = content[e] \/ content'[e] = <<>>
           /\ \A e \in L!Edges : readers'[e] \subseteq readers[e]
           /\ \A p \in L!Player : p # q => content'[L!to_player(p)] = content[L!to_player(p)]
<1>1. \A e \in L!Edges : /\ content'[e] = IF readers'[e] = {} THEN <<>> ELSE content[e]
                         /\ readers'[e] = IF e \in X THEN readers[e] \ {q} ELSE readers[e]
  BY DEF L!Close, LType
<1>2. DOMAIN content' = L!Edges /\ DOMAIN readers' = L!Edges /\ DOMAIN writers' = L!Edges
      /\ content' = [e \in L!Edges |-> IF readers'[e] = {} THEN <<>> ELSE content[e]]
  BY DEF L!Close, LType
<1>3. content' \in [L!Edges -> Seq(Draws)]
  BY <1>2 DEF LType
<1>4. \A p \in L!Player : L!to_player(p) \in L!Edges
  BY LPlayers
<1>5. ASSUME NEW p \in L!Player, p # q PROVE content'[L!to_player(p)] = content[L!to_player(p)]
  <2>1. readers[L!to_player(p)] \subseteq {p} /\ L!to_player(p) \in L!Edges
    BY <1>4 DEF LReaders
  <2>2. readers'[L!to_player(p)] = readers[L!to_player(p)]
    BY <2>1, <1>1, <1>5
  <2> QED
    BY <2>1, <2>2, <1>1 DEF LReaders
<1> QED
  BY <1>1, <1>2, <1>3, <1>4, <1>5 DEF LReaders

\* Steps that leave the books of every player as they are.
LEMMA LBooksSame ==
    ASSUME LBooks, UNCHANGED <<total_bet, total_reward>>,
           \A p \in L!Player : L!Asked[p]' = L!Asked[p] /\ L!PaidOut[p]' = L!PaidOut[p]
    PROVE  LBooks'
  BY DEF L!Asked, L!PaidOut, LBooks

\* Books stay right in a step that neither pays, nor reads an answer, nor changes a bet that
\* one is for.
LEMMA LUnmoved ==
    ASSUME LType, LReaders, LPlaces, LBooks, UNCHANGED <<total_bet, total_reward, week, won>>,
           \A p \in L!Player : content'[L!to_player(p)] = content[L!to_player(p)],
           \A p \in L!Player : bet'[p] = bet[p] \/ content[L!to_player(p)] = <<>>
    PROVE  LBooks'
<1>1. ASSUME NEW p \in L!Player
      PROVE  L!Asked[p]' = L!Asked[p] /\ L!PaidOut[p]' = L!PaidOut[p]
  BY DEF L!Unread, L!Readable, L!Asked, L!PaidOut
<1> QED
  BY <1>1, LBooksSame

\* Who resigns has neither a bet nor an answer on its way.
LEMMA LResign ==
    ASSUME LInv, NEW p \in L!Player, L!Resign(p)
    PROVE  LInv'
<1> USE DEF LInv
<1>1. pc[p] = "bet" /\ pc' = [pc EXCEPT ![p] = "leave"] /\ p # Few
      /\ UNCHANGED <<pipes, week, bet, won, turn, any, rps, winning, total_bet, total_reward>>
  BY LPlayers DEF L!Resign, L!Go, L!pipes, pipes
<1>2. LType' /\ LReaders'
  BY <1>1 DEF LType, LReaders, pipes
<1>3. LPlaces'
  BY <1>1, LPlayers DEF LType, LPlaces, pipes
<1>4. LBooks'
  BY <1>1, LUnmoved DEF pipes
<1> QED
  BY <1>2, <1>3, <1>4

\* The bet is on its way to the totalisator.
LEMMA LBet ==
    ASSUME LInv, NEW p \in L!Player, L!Bet(p)
    PROVE  LInv'
<1> USE DEF LInv
<1> DEFINE from == L!from_player(p)
<1>1. /\ pc[p] = "bet" /\ p # Few /\ p \in 0..Few /\ from \in L!Edges
      /\ UNCHANGED <<readers, writers, week, won, turn, any, rps, winning, total_bet, total_reward>>
  BY LPlayers DEF L!Bet
<1>2. CASE L!Broken(from)
  <2>1. pc' = [pc EXCEPT ![p] = "leave"] /\ UNCHANGED <<content, bet>>
    BY <1>2 DEF L!Bet, L!Go
  <2>2. LType' /\ LReaders'
    BY <1>1, <2>1 DEF LType, LReaders
  <2>3. LPlaces'
    BY <1>1, <2>1, LPlayers DEF LType, LPlaces
  <2>4. LBooks'
    BY <1>1, <2>1, LUnmoved
  <2> QED
    BY <2>2, <2>3, <2>4
<1>3. CASE ~L!Broken(from)
  <2>1. PICK n \in Draws : /\ bet' = [bet EXCEPT ![p] = n]
                           /\ content' = [content EXCEPT ![from] = Append(@, n)]
    BY <1>3 DEF L!Bet, L!Put
  <2>2. pc' = [pc EXCEPT ![p] = "await"] /\ readers[from] # {}
    BY <1>3 DEF L!Bet, L!Go, L!Broken
  <2>3. content[from] = <<>> /\ content[L!to_player(p)] = <<>>
    BY <1>1 DEF LPlaces
  <2>4. content'[from] = <<n>> /\ \A e \in L!Edges : e # from => content'[e] = content[e]
    BY <1>1, <2>1, <2>3 DEF LType
  <2>5. LType'
    BY <1>1, <2>1, <2>2 DEF LType
  <2>6. LReaders'
    BY <1>1, <2>2, <2>4, LPlayers DEF LType, LReaders
  <2>7. \A q \in L!Player : /\ content'[L!to_player(q)] = content[L!to_player(q)]
                            /\ q # p => content'[L!from_player(q)] = content[L!from_player(q)]
    BY <2>4, LPlayers
  <2>8. \A q \in L!Player : q # p => bet'[q] = bet[q] /\ pc'[q] = pc[q]
    BY <2>1, <2>2, LPlayers DEF LType
  <2>9. LPlaces'
    <3>1. bet'[p] = n /\ pc'[p] = "await"
      BY <2>1, <2>2, <1>1 DEF LType
    <3> QED
      BY <3>1, <2>3, <2>4, <2>7, <2>8 DEF LPlaces
  <2>10. LBooks'
    BY <1>1, <2>3, <2>7, <2>8, LUnmoved
  <2> QED
    BY <2>5, <2>6, <2>9, <2>10
<1> QED
  BY <1>2, <1>3

\* The player reads what its answer was worth, and the books know.
LEMMA LAwait ==
    ASSUME LInv, NEW p \in L!Player, L!Await(p)
    PROVE  LInv'
<1> USE DEF LInv
<1> DEFINE to == L!to_player(p)
           prize == Prize[L!compare(Head(content[to]), bet[p])]
<1>1. /\ pc[p] = "await" /\ content[to] # <<>> /\ p # Few /\ p \in 0..Few /\ to \in L!Edges
      /\ content' = [content EXCEPT ![to] = Tail(@)]
      /\ won' = [won EXCEPT ![p] = @ + prize]
      /\ week' = [week EXCEPT ![p] = @ + 1]
      /\ pc' = [pc EXCEPT ![p] = IF week[p] = Weeks THEN "leave" ELSE "bet"]
      /\ UNCHANGED <<readers, writers, bet, turn, any, rps, winning, total_bet, total_reward>>
  BY LPlayers DEF L!Await, L!Readable, L!Take, L!Go
<1>2. PICK w \in Draws : content[to] = <<w>> /\ content[L!from_player(p)] = <<>> /\ bet[p] \in Draws
  BY <1>1 DEF LPlaces
<1>3. content'[to] = <<>> /\ \A e \in L!Edges : e # to => content'[e] = content[e]
  BY <1>1, <1>2 DEF LType
<1>4. prize \in Int
  BY <1>2, GamesAssumption, LCounts DEF L!compare, GamesAssumption
<1> HIDE DEF prize
<1>5. LType'
  <2>1. content' \in [L!Edges -> Seq(Draws)]
    BY <1>1, <1>3 DEF LType
  <2>2. week' \in [0..Few -> Int]
    BY <1>1 DEF LType
  <2>3. won' \in [L!Player -> Int]
    BY <1>1, <1>4 DEF LType
  <2>4. DOMAIN pc' = 0..Few /\ pc'[Few] = pc[Few]
    BY <1>1, LPlayers DEF LType
  <2> QED
    BY <1>1, <2>1, <2>2, <2>3, <2>4 DEF LType
<1>6. LReaders'
  BY <1>1, <1>3, LPlayers DEF LType, LReaders
<1>7. \A q \in L!Player : /\ content'[L!from_player(q)] = content[L!from_player(q)]
                          /\ q # p => content'[L!to_player(q)] = content[L!to_player(q)]
  BY <1>3, LPlayers
<1>8. LPlaces'
  BY <1>1, <1>2, <1>3, <1>7, LPlayers DEF LType, LPlaces
<1>9. LBooks'
  <2>1. ASSUME NEW q \in L!Player, q # p
        PROVE  L!Asked[q]' = L!Asked[q] /\ L!PaidOut[q]' = L!PaidOut[q]
    <3>0. content'[L!to_player(q)] = content[L!to_player(q)] /\ bet' = bet
      BY <2>1, <1>1, <1>7
    <3>1. L!Unread(q)' = L!Unread(q)
      BY <3>0 DEF L!Unread, L!Readable
    <3>2. won'[q] = won[q] /\ week'[q] = week[q]
      BY <2>1, <1>1, LPlayers DEF LType
    <3> QED
      BY <3>1, <3>2, <2>1, <1>7 DEF L!Asked, L!PaidOut
  <2>2. L!Asked[p]' = L!Asked[p]
    <3>1. Len(content[to]) = 1 /\ Len(content'[to]) = 0
      BY <1>2, <1>3
    <3>2. week'[p] = week[p] + 1 /\ week[p] \in Int
      BY <1>1 DEF LType
    <3>3. L!Asked[p] = week[p] - 1 + Len(content[to])
      BY DEF L!Asked
    <3>4. L!Asked[p]' = week'[p] - 1 + Len(content'[to])
      BY DEF L!Asked
    <3> QED
      BY <3>1, <3>2, <3>3, <3>4
  <2>3. L!PaidOut[p]' = L!PaidOut[p]
    BY <1>1, <1>3, <1>4 DEF L!Unread, L!Readable, prize, LType, L!PaidOut
  <2> QED
    BY <2>1, <2>2, <2>3, <1>1, LBooksSame
<1> QED
  BY <1>5, <1>6, <1>8, <1>9

\* A process that closes pipes: the books stay as they are, and so do the places of others.
LEMMA LCloses ==
    ASSUME LInv, NEW q \in 0..Few, NEW X, NEW Y, L!Close(q, X, Y), NEW place,
           q \in L!Player => content[L!to_player(q)] = <<>> /\ readers'[L!to_player(q)] = {} /\ place = "ended",
           pc' = [pc EXCEPT ![q] = place], place # "collect", rps' \subseteq rps,
           UNCHANGED <<week, bet, won, winning, total_bet, total_reward>>
    PROVE  LInv'
<1> USE DEF LInv
<1>1. /\ content' \in [L!Edges -> Seq(Draws)]
      /\ DOMAIN readers' = L!Edges /\ DOMAIN writers' = L!Edges
      /\ LReaders!1' /\ LReaders!3'
      /\ \A e \in L!Edges : content'[e] = content[e] \/ content'[e] = <<>>
      /\ \A e \in L!Edges : readers'[e] \subseteq readers[e]
      /\ \A p \in L!Player : p # q => content'[L!to_player(p)] = content[L!to_player(p)]
  BY LClose
<1>2. \A p \in 0..Few : pc'[p] = IF p = q THEN place ELSE pc[p]
  BY DEF LType
<1>3. LType'
  BY <1>1, <1>2, LPlayers DEF LType
<1>4. LReaders'
  <2>1. ASSUME NEW p \in L!Player, pc'[p] = "ended" PROVE readers'[L!to_player(p)] = {}
    <3>1. CASE p = q
      BY <3>1
    <3>2. CASE p # q
      <4>1. L!to_player(p) \in L!Edges /\ p \in 0..Few
        BY LPlayers
      <4>2. pc[p] = "ended"
        BY <3>2, <2>1, <1>2, <4>1
      <4>3. readers[L!to_player(p)] = {} /\ readers'[L!to_player(p)] \subseteq readers[L!to_player(p)]
        BY <4>1, <4>2, <1>1 DEF LReaders
      <4> QED
        BY <4>3
    <3> QED
      BY <3>1, <3>2
  <2> QED
    BY <2>1, <1>1 DEF LReaders
<1>5. \A p \in L!Player : content'[L!to_player(p)] = content[L!to_player(p)]
  <2>1. ASSUME q \in L!Player PROVE content'[L!to_player(q)] = content[L!to_player(q)]
    BY <2>1, <1>1, LPlayers
  <2> QED
    BY <2>1, <1>1
<1>6. LPlaces'
  <2>1. \A p \in L!Player : content'[L!from_player(p)] = content[L!from_player(p)] \/ content'[L!from_player(p)] = <<>>
    BY <1>1, LPlayers
  <2> QED
    BY <2>1, <1>2, <1>5, LPlayers DEF LPlaces
<1>7. LBooks'
  BY <1>5, LUnmoved
<1> QED
  BY <1>3, <1>4, <1>6, <1>7

\* What was on its way to a player who leaves is of nobody: there was nothing.
LEMMA LLeave ==
    ASSUME LInv, NEW p \in L!Player, L!Leave(p)
    PROVE  LInv'
<1>1. p \in 0..Few /\ p # Few /\ L!to_player(p) \in L!Edges
  BY LPlayers
<1>2. content[L!to_player(p)] = <<>>
  BY DEF L!Leave, LInv, LPlaces, L!Eof
<1>3. L!Close(p, DOMAIN readers, DOMAIN writers) /\ pc' = [pc EXCEPT ![p] = "ended"]
      /\ UNCHANGED <<week, bet, won, turn, any, rps, winning, total_bet, total_reward>>
  BY DEF L!Leave, L!Exit, L!Go
<1>4. readers'[L!to_player(p)] = {}
  BY <1>1, <1>3 DEF L!Close, LInv, LType, LReaders
<1> QED
  BY <1>1, <1>2, <1>3, <1>4, LCloses

\* Steps of the totalisator that touch no pipe.
LEMMA LTurns ==
    ASSUME LInv, pc'[Few] = "collect" => winning' \in Draws, DOMAIN pc' = 0..Few, \A p \in L!Player : pc'[p] = pc[p],
           week' \in [0..Few -> Int], \A p \in L!Player : week'[p] = week[p],
           UNCHANGED <<pipes, bet, won, rps, total_bet, total_reward>>
    PROVE  LInv'
<1> USE DEF LInv
<1>1. (\A p \in L!Player : pc'[p] = pc[p]) /\ DOMAIN pc' = 0..Few
  OBVIOUS
<1>2. UNCHANGED <<content, readers, writers>>
  BY DEF pipes
<1>3. LType' /\ LReaders' /\ LPlaces'
  <2>1. LType'
    BY <1>1, <1>2 DEF LType
  <2>2. LReaders'
    BY <1>1, <1>2 DEF LReaders
  <2>3. LPlaces'
    BY <1>1, <1>2 DEF LPlaces
  <2> QED
    BY <2>1, <2>2, <2>3
<1>4. ASSUME NEW p \in L!Player
      PROVE  L!Asked[p]' = L!Asked[p] /\ L!PaidOut[p]' = L!PaidOut[p]
  BY <1>2 DEF L!Unread, L!Readable, L!Asked, L!PaidOut
<1>5. LBooks'
  BY <1>4, LBooksSame
<1> QED
  BY <1>3, <1>5

\* The totalisator goes on.
LEMMA LGoes ==
    ASSUME LInv, NEW place, pc' = [pc EXCEPT ![Few] = place]
    PROVE  pc'[Few] = place /\ DOMAIN pc' = 0..Few /\ \A p \in L!Player : pc'[p] = pc[p]
  BY LPlayers DEF LInv, LType

\* The draw changes no books.
LEMMA LDraw == LInv /\ L!Draw => LInv'
<1> SUFFICES ASSUME LInv, L!Draw PROVE LInv'
  OBVIOUS
<1>1. pc' = [pc EXCEPT ![Few] = "collect"] /\ winning' \in Draws
      /\ UNCHANGED <<content, readers, writers, week, bet, won, rps, total_bet, total_reward>>
  BY DEF L!Draw, L!Go, L!Totalisator, L!pipes
<1>2. week' \in [0..Few -> Int] /\ \A p \in L!Player : week'[p] = week[p]
  BY <1>1 DEF LInv, LType
<1> QED
  BY <1>1, <1>2, LGoes, LTurns DEF pipes

\* The turn goes to the next player.
LEMMA LSkip == LInv /\ L!Skip => LInv'
<1> SUFFICES ASSUME LInv, L!Skip PROVE LInv'
  OBVIOUS
<1>1. UNCHANGED <<content, readers, writers, pc, week, bet, won, any, rps, winning, total_bet, total_reward>>
  BY DEF L!Skip, L!pipes
<1>2. DOMAIN pc' = 0..Few /\ (\A p \in L!Player : pc'[p] = pc[p]) /\ week' \in [0..Few -> Int] /\ pc' = pc
  BY <1>1 DEF LInv, LType
<1>3. pc[Few] = "collect" => winning' \in Draws
  BY <1>1 DEF LInv, LType
<1> QED
  BY <1>1, <1>2, <1>3, LTurns DEF pipes

\* The week ends and all begin again.
LEMMA LEndWeek == LInv /\ L!EndWeek => LInv'
<1> SUFFICES ASSUME LInv, L!EndWeek PROVE LInv'
  OBVIOUS
<1>1. PICK place : pc' = [pc EXCEPT ![Few] = place] /\ place # "collect"
  <2> DEFINE place == IF ~any \/ week[Few] = Weeks THEN "close" ELSE "draw"
  <2>1. pc' = [pc EXCEPT ![Few] = place]
    BY DEF L!EndWeek, L!Go, L!Totalisator
  <2>2. place # "collect"
    OBVIOUS
  <2> QED
    BY <2>1, <2>2
<1>2. week' = [week EXCEPT ![Few] = @ + 1]
      /\ UNCHANGED <<content, readers, writers, bet, won, turn, any, rps, winning, total_bet, total_reward>>
  BY DEF L!EndWeek, L!pipes
<1>3. week' \in [0..Few -> Int] /\ \A p \in L!Player : week'[p] = week[p]
  BY <1>2, LPlayers DEF LInv, LType
<1> QED
  BY <1>1, <1>2, <1>3, LGoes, LTurns DEF pipes

\* The totalisator closes what nobody reads any more.
LEMMA LFinish == LInv /\ L!Finish => LInv'
<1> SUFFICES ASSUME LInv, L!Finish PROVE LInv'
  OBVIOUS
<1>1. UNCHANGED <<week, bet, won, turn, any, rps, winning, total_bet, total_reward>> /\ Few \in 0..Few /\ Few \notin L!Player
  BY LPlayers DEF L!Finish
<1>2. CASE L!Go(Few, "wait") /\ L!Exit(Few)
  BY <1>1, <1>2, LCloses DEF L!Go, L!Exit
<1>3. CASE L!Go(Few, "ended") /\ UNCHANGED L!pipes
  BY <1>1, <1>3, LGoes, LTurns DEF L!Go, L!pipes, LInv, LType, pipes
<1> QED
  BY <1>2, <1>3 DEF L!Finish, L!Totalisator

\* A player who is gone is no longer asked.
LEMMA LCollectEof == LInv /\ L!CollectEof => LInv'
<1> SUFFICES ASSUME LInv, L!CollectEof PROVE LInv'
  OBVIOUS
<1>1. UNCHANGED <<pc, week, bet, won, winning, total_bet, total_reward>> /\ Few \in 0..Few /\ Few \notin L!Player
      /\ L!Close(Few, {L!from_player(turn)}, {}) /\ rps' \subseteq rps
  BY LPlayers DEF L!CollectEof, L!Totalisator
<1> USE DEF LInv
<1>2. /\ content' \in [L!Edges -> Seq(Draws)]
      /\ DOMAIN readers' = L!Edges /\ DOMAIN writers' = L!Edges
      /\ LReaders!1' /\ LReaders!3'
      /\ \A e \in L!Edges : content'[e] = content[e] \/ content'[e] = <<>>
      /\ \A e \in L!Edges : readers'[e] \subseteq readers[e]
      /\ \A p \in L!Player : p # Few => content'[L!to_player(p)] = content[L!to_player(p)]
  BY <1>1, LClose
<1>3. LType'
  BY <1>1, <1>2 DEF LType
<1>4. LReaders'
  BY <1>1, <1>2, LPlayers DEF LReaders
<1>5. LPlaces'
  BY <1>1, <1>2, LPlayers DEF LPlaces
<1>6. LBooks'
  BY <1>1, <1>2, LUnmoved
<1> QED
  BY <1>3, <1>4, <1>5, <1>6

\* The bet is paid for and its answer, with its reward, is on its way.
LEMMA LCollect == LInv /\ L!Collect => LInv'
<1> SUFFICES ASSUME LInv, L!Collect PROVE LInv'
  OBVIOUS
<1> USE DEF LInv
<1>0. PICK p \in L!Player : p = turn
  BY DEF L!Collect, LType
<1> DEFINE from == L!from_player(p)
           to   == L!to_player(p)
           prize == Prize[L!compare(winning, Head(content[from]))]
<1>1. /\ p \in L!Player /\ from \in L!Edges /\ to \in L!Edges /\ from # to
      /\ pc[Few] = "collect" /\ content[from] # <<>> /\ readers[to] # {}
      /\ UNCHANGED <<readers, writers, pc, week, bet, won, rps, winning>>
      /\ content' = [content EXCEPT ![from] = Tail(@), ![to] = Append(@, winning)]
      /\ total_bet' = total_bet + 3
      /\ total_reward' = total_reward + prize
  BY <1>0, LPlayers DEF L!Collect, L!Readable, L!Writable, L!Broken, L!Totalisator, L!BET_PRICE
<1> HIDE DEF from, to
<1>2. winning \in Draws
  BY <1>1 DEF LType
<1>3. pc[p] = "await"
  BY <1>1 DEF LPlaces, LReaders, from, to
<1>4. content[from] = <<bet[p]>> /\ content[to] = <<>> /\ bet[p] \in Draws
  <2>1. LPlaces
    BY DEF LInv
  <2>2. /\ bet[p] \in Draws
        /\ content[from] = <<>> \/ content[to] = <<>>
        /\ content[from] = <<>> \/ content[from] = <<bet[p]>>
    BY <1>3, <2>1, Zenon DEF LPlaces, from, to
  <2>3. content[from] # <<>>
    BY <1>1
  <2> QED
    BY <2>2, <2>3
<1>5. content'[from] = <<>> /\ content'[to] = <<winning>>
      /\ \A e \in L!Edges : e # from /\ e # to => content'[e] = content[e]
  BY <1>1, <1>4 DEF LType
<1>6. prize \in Int /\ prize = Prize[L!compare(winning, bet[p])]
  BY <1>2, <1>4, GamesAssumption, LCounts DEF L!compare, GamesAssumption
<1> HIDE DEF prize
<1>7. LType'
  <2>1. content' \in [L!Edges -> Seq(Draws)]
    <3>1. content \in [L!Edges -> Seq(Draws)]
      BY DEF LType
    <3>2. content[from] \in Seq(Draws) /\ content[to] \in Seq(Draws)
      BY <1>1, <3>1
    <3>3. Tail(content[from]) \in Seq(Draws)
      BY <1>1, <3>2
    <3>4. Append(content[to], winning) \in Seq(Draws)
      BY <1>2, <3>2
    <3> HIDE DEF LInv
    <3> QED
      BY <1>1, <3>1, <3>3, <3>4
  <2>2. total_bet' \in Int /\ total_reward' \in Int
    BY <1>1, <1>6 DEF LType
  <2> QED
    BY <1>1, <2>1, <2>2 DEF LType
<1>8. LReaders'
  BY <1>1, <1>5 DEF LReaders
<1>9. \A q \in L!Player : q # p => /\ content'[L!from_player(q)] = content[L!from_player(q)]
                                  /\ content'[L!to_player(q)] = content[L!to_player(q)]
  <2>1. ASSUME NEW q \in L!Player, q # p
        PROVE  L!from_player(q) # from /\ L!from_player(q) # to /\ L!to_player(q) # from /\ L!to_player(q) # to
               /\ L!from_player(q) \in L!Edges /\ L!to_player(q) \in L!Edges
    BY <2>1, <1>1, LPlayers DEF from, to
  <2> QED
    BY <2>1, <1>5
<1>10. LPlaces'
  BY <1>1, <1>2, <1>3, <1>4, <1>5, <1>9 DEF LPlaces, from, to
<1>11. /\ L!Asked'[p] = L!Asked[p] + 1 /\ L!PaidOut'[p] = L!PaidOut[p] + prize
       /\ \A q \in L!Player \ {p} : L!Asked'[q] = L!Asked[q] /\ L!PaidOut'[q] = L!PaidOut[q]
  <2>1. L!Asked[p] = week[p] - 1 + Len(content[to]) /\ L!Asked'[p] = week'[p] - 1 + Len(content'[to])
    BY <1>1 DEF L!Asked, to
  <2>2. week[p] \in Int /\ won[p] \in Int
    BY <1>1, LPlayers DEF LType
  <2>3. Len(content[to]) = 0 /\ Len(content'[to]) = 1
    BY <1>4, <1>5
  <2>4. L!PaidOut[p] = won[p] + L!Unread(p) /\ L!PaidOut'[p] = won'[p] + L!Unread(p)'
    BY <1>1 DEF L!PaidOut
  <2>5. L!Unread(p) = 0
    BY <1>4 DEF L!Unread, L!Readable, to
  <2>6. L!Unread(p)' = prize
    <3>1. content'[L!to_player(p)] = <<winning>> /\ bet' = bet
      BY <1>1, <1>5 DEF to
    <3>2. Head(<<winning>>) = winning /\ <<winning>> # <<>>
      OBVIOUS
    <3> QED
      BY <3>1, <3>2, <1>6 DEF L!Unread, L!Readable
  <2>7. ASSUME NEW q \in L!Player \ {p}
        PROVE  L!Asked'[q] = L!Asked[q] /\ L!PaidOut'[q] = L!PaidOut[q]
    <3>1. q \in L!Player /\ content'[L!to_player(q)] = content[L!to_player(q)] /\ bet' = bet /\ week' = week /\ won' = won
      BY <1>1, <1>9
    <3>2. L!Unread(q)' = L!Unread(q)
      BY <3>1 DEF L!Unread, L!Readable
    <3> QED
      BY <3>1, <3>2 DEF L!Asked, L!PaidOut
  <2>8. L!Asked'[p] = L!Asked[p] + 1
    <3>1. week'[p] = week[p]
      BY <1>1
    <3> QED
      BY <3>1, <2>1, <2>2, <2>3
  <2>9. L!PaidOut'[p] = L!PaidOut[p] + prize
    BY <1>1, <1>6, <2>2, <2>4, <2>5, <2>6
  <2> QED
    BY <2>7, <2>8, <2>9
<1>12. (\A q \in L!Player : L!Asked[q] \in Int) /\ (\A q \in L!Player : L!PaidOut[q] \in Int)
  BY LNumbers
<1>13. (\A q \in L!Player : L!Asked'[q] \in Int) /\ (\A q \in L!Player : L!PaidOut'[q] \in Int)
  BY <1>6, <1>11, <1>12
<1>14. SumOver(L!Asked', L!Player) = SumOver(L!Asked, L!Player) + 1
  <2>1. /\ IsFiniteSet(L!Player) /\ 1 \in Int /\ p \in L!Player
        /\ \A q \in L!Player : L!Asked[q] \in Int
        /\ \A q \in L!Player : L!Asked'[q] \in Int
        /\ L!Asked'[p] = L!Asked[p] + 1
        /\ \A q \in L!Player \ {p} : L!Asked'[q] = L!Asked[q]
    BY <1>1, <1>11, <1>12, <1>13, LPlayers
  <2> QED
    BY <2>1, SumChange
<1>15. SumOver(L!PaidOut', L!Player) = SumOver(L!PaidOut, L!Player) + prize
  <2>1. /\ IsFiniteSet(L!Player) /\ prize \in Int /\ p \in L!Player
        /\ \A q \in L!Player : L!PaidOut[q] \in Int
        /\ \A q \in L!Player : L!PaidOut'[q] \in Int
        /\ L!PaidOut'[p] = L!PaidOut[p] + prize
        /\ \A q \in L!Player \ {p} : L!PaidOut'[q] = L!PaidOut[q]
    BY <1>1, <1>6, <1>11, <1>12, <1>13, LPlayers
  <2> QED
    BY <2>1, SumChange
<1>16. LBooks'
  <2>1. SumOver(L!Asked, L!Player) \in Int
    BY <1>12, LPlayers, SumType
  <2>2. total_bet' = 3 * (SumOver(L!Asked, L!Player) + 1)
    BY <2>1, <1>1 DEF LBooks
  <2>3. SumOver(L!Asked, L!Player)' = SumOver(L!Asked', L!Player) /\ SumOver(L!PaidOut, L!Player)' = SumOver(L!PaidOut', L!Player)
    OBVIOUS
  <2>4. total_reward' = SumOver(L!PaidOut, L!Player) + prize
    BY <1>1 DEF LBooks
  <2> QED
    BY <1>14, <1>15, <2>2, <2>3, <2>4 DEF LBooks
<1> QED
  BY <1>7, <1>8, <1>10, <1>16

\* Every step of lotto keeps its invariant.
LEMMA LNext == LInv /\ L!Next => LInv'
<1> SUFFICES ASSUME LInv, L!Next PROVE LInv'
  OBVIOUS
<1>1. ASSUME NEW q \in 0..Few, L!Act(q) PROVE LInv'
  BY <1>1, LDraw, LCollect, LCollectEof, LSkip, LEndWeek, LFinish, LBet, LAwait, LLeave DEF L!Act
<1>2. ASSUME NEW p \in L!Player, L!Resign(p) PROVE LInv'
  BY <1>2, LResign
<1> QED
  BY <1>1, <1>2 DEF L!Next

\* As does a step that changes nothing of it.
LEMMA LStutter == LInv /\ UNCHANGED <<pipes, pc, week, bet, won, turn, any, rps, winning, total_bet, total_reward>> => LInv'
<1> SUFFICES ASSUME LInv, UNCHANGED <<pipes, pc, week, bet, won, turn, any, rps, winning, total_bet, total_reward>>
             PROVE  LInv'
  OBVIOUS
<1>1. UNCHANGED <<content, readers, writers>>
  BY DEF pipes
<1>2. /\ DOMAIN pc' = 0..Few /\ (\A p \in L!Player : pc'[p] = pc[p]) /\ week' \in [0..Few -> Int]
      /\ pc'[Few] = "collect" => winning' \in Draws
  BY DEF LInv, LType
<1> QED
  BY <1>1, <1>2, LTurns

-----------------------------------------------------------------------------
(* Roulette. *)

\* What the variables of roulette are.
RType ==
    /\ DOMAIN pc = 0..Few
    /\ amount \in [R!Player -> Int] /\ due \in [R!Player -> Int] /\ stake \in [R!Player -> Int]
    /\ DOMAIN number = R!Player
    /\ rps \subseteq R!Player
    /\ DOMAIN content = R!Edges

\* A bet is on its way to the croupier, or its answer on the way back.
RBets(p) ==
    LET from == content[R!from_player(p)]
        to   == content[R!to_player(p)]
    IN  IF pc[p] # "await" THEN from = <<>> /\ to = <<>> /\ amount[p] = due[p]
        ELSE \/ /\ from = <<[number |-> number[p], stake |-> stake[p]]>> /\ to = <<>>
                /\ amount[p] = due[p] - stake[p]
             \/ /\ from = <<>>
                /\ \E n : /\ to = <<n>>
                          /\ due[p] = amount[p] + (IF n = number[p] THEN PRIZE_FACTOR * stake[p] ELSE 0)
             \/ from = <<>> /\ to = <<>>

\* The inductive invariant of roulette.
RInv == RType /\ \A p \in R!Player : RBets(p)

\* The balance between bets is what the property asks for.
LEMMA RImplies == RInv => R!PaidAsDue
  BY DEF RInv, RBets, R!PaidAsDue

\* The pipes of the players are different ones, and the croupier is no player.
LEMMA RPlayers ==
    /\ R!Player \subseteq 0..Few /\ Few \notin R!Player /\ Few \in 0..Few
    /\ \A p \in R!Player : R!to_player(p) \in R!Edges /\ R!from_player(p) \in R!Edges
    /\ \A p, q \in R!Player : /\ R!to_player(p) # R!from_player(q)
                              /\ R!to_player(p) = R!to_player(q) => p = q
                              /\ R!from_player(p) = R!from_player(q) => p = q
<1>1. Few \in Nat /\ 0 \in Int /\ Few - 1 \in Int
  BY GamesAssumption DEF GamesAssumption
<1> QED
  BY <1>1 DEF R!Player, R!Edges, R!to_player, R!from_player, R!Croupier

\* No bets, and amounts that are due.
LEMMA RInitially == R!Init => RInv
<1> SUFFICES ASSUME R!Init PROVE RInv
  OBVIOUS
<1>1. content = [e \in R!Edges |-> <<>>]
  BY DEF R!Init, R!PipesInit
<1>2. Money \in Int
  BY GamesAssumption DEF GamesAssumption
<1>3. RType
  BY <1>1, <1>2 DEF RType, R!Init
<1>4. ASSUME NEW p \in R!Player PROVE RBets(p)
  BY <1>1, RPlayers DEF R!Init, R!Croupier, RBets
<1> QED
  BY <1>3, <1>4 DEF RInv

\* Steps of p alone, and steps that leave the bets of the others alone.
LEMMA RAlone ==
    ASSUME RInv, NEW p \in R!Player, RBets(p)',
           \A q \in R!Player \ {p} : /\ (pc'[q] = "await") = (pc[q] = "await")
                                     /\ amount'[q] = amount[q] /\ due'[q] = due[q]
                                     /\ number'[q] = number[q] /\ stake'[q] = stake[q]
                                     /\ content'[R!from_player(q)] = content[R!from_player(q)]
                                     /\ content'[R!to_player(q)] = content[R!to_player(q)]
    PROVE  \A q \in R!Player : RBets(q)'
<1>1. ASSUME NEW q \in R!Player \ {p} PROVE RBets(q)'
  BY <1>1 DEF RBets, RInv
<1> QED
  BY <1>1

\* The stake is paid at once, and the bet on its way.
LEMMA RBet ==
    ASSUME RInv, NEW p \in R!Player, R!Bet(p)
    PROVE  RInv'
<1> USE DEF RInv
<1> DEFINE from == R!from_player(p)
<1>1. /\ pc[p] = "bet" /\ pc' = [pc EXCEPT ![p] = "await"] /\ p \in 0..Few
      /\ from \in R!Edges /\ amount[p] \in Int
      /\ UNCHANGED <<readers, writers, turn, any, rps, lucky_number, due>>
  BY RPlayers DEF R!Bet, R!Go, RType
<1>2. PICK s \in 1..amount[p], n \in R!Lucky :
         /\ amount' = [amount EXCEPT ![p] = @ - s]
         /\ stake'  = [stake EXCEPT ![p] = s]
         /\ number' = [number EXCEPT ![p] = n]
         /\ content' = [content EXCEPT ![from] = Append(@, [number |-> n, stake |-> s])]
  BY DEF R!Bet, R!Put
<1>3. s \in Int /\ amount[p] = due[p] /\ content[from] = <<>> /\ content[R!to_player(p)] = <<>>
  <2>1. RBets(p) /\ pc[p] # "await"
    BY <1>1
  <2> QED
    BY <2>1, <1>1, <1>2 DEF RBets
<1>4. RType'
  BY <1>1, <1>2, <1>3 DEF RType
<1>5. content'[from] = <<[number |-> n, stake |-> s]>> /\ \A e \in R!Edges : e # from => content'[e] = content[e]
  BY <1>1, <1>2, <1>3 DEF RType
<1>6. /\ pc'[p] = "await" /\ amount'[p] = amount[p] - s /\ stake'[p] = s /\ number'[p] = n
      /\ \A q \in R!Player \ {p} : pc'[q] = pc[q] /\ amount'[q] = amount[q] /\ stake'[q] = stake[q] /\ number'[q] = number[q]
  BY <1>1, <1>2, RPlayers DEF RType
<1>7. RBets(p)'
  BY <1>1, <1>3, <1>5, <1>6, RPlayers DEF RBets
<1>8. \A q \in R!Player \ {p} : content'[R!from_player(q)] = content[R!from_player(q)] /\ content'[R!to_player(q)] = content[R!to_player(q)]
  BY <1>5, RPlayers
<1>9. \A q \in R!Player : RBets(q)'
  BY <1>1, <1>6, <1>7, <1>8, RAlone
<1> QED
  BY <1>4, <1>9

\* The player pays itself what the croupier has counted as due.
LEMMA RSettle ==
    ASSUME RInv, NEW p \in R!Player, R!Settle(p)
    PROVE  RInv'
<1> USE DEF RInv
<1> DEFINE to == R!to_player(p)
           pays == PRIZE_FACTOR * stake[p]
<1>1. /\ pc[p] = "await" /\ content[to] # <<>> /\ pc' = [pc EXCEPT ![p] = "bet"] /\ p \in 0..Few
      /\ to \in R!Edges
      /\ content' = [content EXCEPT ![to] = Tail(@)]
      /\ amount' = [amount EXCEPT ![p] = IF Head(content[to]) = number[p] THEN @ + pays ELSE @]
      /\ UNCHANGED <<readers, writers, number, stake, turn, any, rps, lucky_number, due>>
  BY RPlayers DEF R!Settle, R!Go, R!Readable, R!Take
<1>2. PICK n : /\ content[to] = <<n>> /\ content[R!from_player(p)] = <<>>
               /\ due[p] = amount[p] + (IF n = number[p] THEN pays ELSE 0)
  BY <1>1 DEF RBets
<1>3. pays \in Int /\ amount[p] \in Int /\ due[p] \in Int
  BY GamesAssumption DEF GamesAssumption, RType
<1> HIDE DEF pays
<1>4. content'[to] = <<>> /\ \A e \in R!Edges : e # to => content'[e] = content[e]
  BY <1>1, <1>2 DEF RType
<1>5. Head(content[to]) = n
  BY <1>2
<1>6. amount'[p] = due[p]
  BY <1>1, <1>2, <1>3, <1>5 DEF RType
<1>7. RType'
  BY <1>1, <1>3 DEF RType
<1>8. RBets(p)'
  BY <1>1, <1>2, <1>4, <1>6, RPlayers DEF RType, RBets
<1>9. \A q \in R!Player \ {p} : /\ content'[R!from_player(q)] = content[R!from_player(q)] /\ content'[R!to_player(q)] = content[R!to_player(q)]
                                /\ pc'[q] = pc[q] /\ amount'[q] = amount[q]
  BY <1>1, <1>4, RPlayers DEF RType
<1>10. \A q \in R!Player : RBets(q)'
  BY <1>1, <1>8, <1>9, RAlone
<1> QED
  BY <1>7, <1>10

\* Steps that touch pipes only as closing them does, and no bet.
LEMMA RCloses ==
    ASSUME RInv, DOMAIN pc' = 0..Few, rps' \subseteq rps, DOMAIN content' = R!Edges,
           \A e \in R!Edges : content'[e] = content[e] \/ content'[e] = <<>>,
           \A p \in R!Player : (pc'[p] = "await") = (pc[p] = "await"),
           UNCHANGED <<amount, number, stake, due>>
    PROVE  RInv'
<1>1. RType'
  BY DEF RInv, RType
<1>2. ASSUME NEW p \in R!Player PROVE RBets(p)'
  BY RPlayers DEF RBets, RInv
<1> QED
  BY <1>1, <1>2 DEF RInv

\* What closing descriptors leaves in the pipes: the same, or nothing.
LEMMA RClose ==
    ASSUME RInv, NEW q, NEW X, NEW Y, R!Close(q, X, Y)
    PROVE  DOMAIN content' = R!Edges /\ \A e \in R!Edges : content'[e] = content[e] \/ content'[e] = <<>>
  BY DEF R!Close, RInv, RType

\* Between bets nothing is on its way, so nothing is lost by leaving.
LEMMA RLeaves ==
    ASSUME RInv, NEW p \in R!Player, R!Resign(p) \/ R!Leave(p)
    PROVE  RInv'
<1>1. pc[p] \in {"bet", "leave"} /\ p \in 0..Few /\ UNCHANGED <<amount, number, stake, turn, any, rps, lucky_number, due>>
  BY RPlayers DEF R!Resign, R!Leave
<1>2. DOMAIN pc' = 0..Few /\ \A q \in R!Player : (pc'[q] = "await") = (pc[q] = "await")
  BY <1>1, RPlayers DEF R!Resign, R!Leave, R!Go, RInv, RType
<1>3. DOMAIN content' = R!Edges /\ \A e \in R!Edges : content'[e] = content[e] \/ content'[e] = <<>>
  BY RClose DEF R!Resign, R!Leave, R!Exit, R!pipes, RInv, RType
<1> QED
  BY <1>1, <1>2, <1>3, RCloses

\* The croupier's steps but for its answers.
LEMMA RCroupier ==
    ASSUME RInv, R!Spin \/ R!AnswerEof \/ R!Skip \/ R!EndRound \/ R!Finish
    PROVE  RInv'
<1>1. rps' \subseteq rps /\ UNCHANGED <<amount, number, stake, due>>
  BY DEF R!Spin, R!AnswerEof, R!Skip, R!EndRound, R!Finish
<1>2. DOMAIN pc' = 0..Few /\ \A q \in R!Player : pc'[q] = pc[q]
  BY RPlayers DEF R!Spin, R!AnswerEof, R!Skip, R!EndRound, R!Finish, R!Go, R!Croupier, RInv, RType
<1>3. DOMAIN content' = R!Edges /\ \A e \in R!Edges : content'[e] = content[e] \/ content'[e] = <<>>
  BY RClose DEF R!Spin, R!AnswerEof, R!Skip, R!EndRound, R!Finish, R!Exit, R!pipes, RInv, RType
<1> QED
  BY <1>1, <1>2, <1>3, RCloses

\* The croupier counts as due what the number is worth for the bet it reads.
LEMMA RAnswer == RInv /\ R!Answer => RInv'
<1> SUFFICES ASSUME RInv, R!Answer PROVE RInv'
  OBVIOUS
<1> USE DEF RInv
<1>0. PICK p \in R!Player : p = turn
  BY DEF R!Answer, RType
<1> DEFINE from == R!from_player(p)
           to   == R!to_player(p)
           b    == Head(content[from])
<1>1. /\ p \in R!Player /\ from \in R!Edges /\ to \in R!Edges /\ from # to
      /\ content[from] # <<>>
      /\ UNCHANGED <<readers, writers, pc, amount, number, stake, rps, lucky_number>>
      /\ content' = [content EXCEPT ![from] = Tail(@), ![to] = Append(@, lucky_number)]
      /\ due' = [due EXCEPT ![p] = (@ - b.stake) +
                  (IF b.number = lucky_number THEN PRIZE_FACTOR * b.stake ELSE 0)]
  BY <1>0, RPlayers DEF R!Answer, R!Readable
<1> HIDE DEF from, to
<1>2. /\ pc[p] = "await" /\ content[from] = <<[number |-> number[p], stake |-> stake[p]]>> /\ content[to] = <<>>
      /\ amount[p] = due[p] - stake[p]
  BY <1>1 DEF RBets, from, to
<1>3. b.stake = stake[p] /\ b.number = number[p]
  BY <1>2
<1>4. content'[from] = <<>> /\ content'[to] = <<lucky_number>>
      /\ \A e \in R!Edges : e # from /\ e # to => content'[e] = content[e]
  <2>1. content'[to] = Append(<<>>, lucky_number)
    BY <1>1, <1>2 DEF RType
  <2>2. content'[from] = Tail(<<[number |-> number[p], stake |-> stake[p]]>>)
    BY <1>1, <1>2 DEF RType
  <2>3. content'[to] = <<lucky_number>> /\ content'[from] = <<>>
    BY <2>1, <2>2
  <2> QED
    BY <2>3, <1>1 DEF RType
<1> DEFINE pays == PRIZE_FACTOR * stake[p]
<1>5. pays \in Int /\ amount[p] \in Int /\ due[p] \in Int /\ stake[p] \in Int
  BY <1>1, GamesAssumption DEF GamesAssumption, RType
<1>6. due'[p] = (due[p] - stake[p]) + (IF number[p] = lucky_number THEN pays ELSE 0)
      /\ \A q \in R!Player \ {p} : due'[q] = due[q]
  BY <1>1, <1>3 DEF RType
<1> HIDE DEF pays, b
<1>7. due'[p] = amount'[p] + (IF lucky_number = number'[p] THEN pays ELSE 0)
  BY <1>1, <1>2, <1>5, <1>6
<1>8. RType'
  <2>1. due' \in [R!Player -> Int]
    BY <1>1, <1>5, <1>6 DEF RType
  <2> QED
    BY <2>1, <1>1 DEF RType
<1>9. RBets(p)'
  <2>1. content'[R!from_player(p)] = <<>> /\ content'[R!to_player(p)] = <<lucky_number>>
    BY <1>4 DEF from, to
  <2>2. pc'[p] = "await" /\ UNCHANGED <<pc, number, stake>>
    BY <1>1, <1>2
  <2>3. due'[p] = amount'[p] + (IF lucky_number = number'[p] THEN PRIZE_FACTOR * stake'[p] ELSE 0)
    BY <1>1, <1>7 DEF pays
  <2> QED
    BY <2>1, <2>2, <2>3 DEF RBets
<1>10. \A q \in R!Player \ {p} : content'[R!from_player(q)] = content[R!from_player(q)] /\ content'[R!to_player(q)] = content[R!to_player(q)]
  <2>1. ASSUME NEW q \in R!Player \ {p}
        PROVE  R!from_player(q) # from /\ R!from_player(q) # to /\ R!to_player(q) # from /\ R!to_player(q) # to
               /\ R!from_player(q) \in R!Edges /\ R!to_player(q) \in R!Edges
    BY <2>1, <1>1, RPlayers DEF from, to
  <2> QED
    BY <2>1, <1>4
<1>11. \A q \in R!Player : RBets(q)'
  <2>1. ASSUME NEW q \in R!Player \ {p} PROVE RBets(q)'
    <3>1. RBets(q)
      BY <2>1
    <3>2. /\ content'[R!from_player(q)] = content[R!from_player(q)]
          /\ content'[R!to_player(q)] = content[R!to_player(q)]
          /\ due'[q] = due[q] /\ UNCHANGED <<pc, amount, number, stake>>
      BY <1>1, <1>6, <1>10, <2>1
    <3> HIDE DEF RInv
    <3> QED
      BY <3>1, <3>2 DEF RBets
  <2> QED
    BY <2>1, <1>9
<1> QED
  BY <1>8, <1>11

\* Every step of roulette keeps its invariant.
LEMMA RNext == RInv /\ R!Next => RInv'
<1> SUFFICES ASSUME RInv, R!Next PROVE RInv'
  OBVIOUS
<1>1. ASSUME NEW q \in 0..Few, R!Act(q) PROVE RInv'
  BY <1>1, RCroupier, RAnswer, RBet, RSettle, RLeaves DEF R!Act
<1>2. ASSUME NEW p \in R!Player, R!Resign(p) PROVE RInv'
  BY <1>2, RLeaves
<1> QED
  BY <1>1, <1>2 DEF R!Next

\* As does a step that changes nothing of it.
LEMMA RStutter == RInv /\ UNCHANGED <<pipes, pc, amount, number, stake, turn, any, rps, lucky_number, due>> => RInv'
  BY DEF RInv, RType, RBets, pipes

-----------------------------------------------------------------------------
(* PipeCards. *)

\* What the server has done with player p in this round.
CAnnounced(p) == \/ pc[Many] = "announce" /\ p < turn
                 \/ pc[Many] = "collect" /\ p >= turn
CCollected(p) == \/ pc[Many] = "collect" /\ p < turn
                 \/ pc[Many] = "pay" /\ p >= turn

\* What the variables of the card game are.
CType ==
    /\ DOMAIN pc = 0..Many /\ turn \in C!Player /\ open \subseteq C!Player
    /\ scores \in [C!Player -> Int] /\ told \in [C!Player -> Int]
    /\ DOMAIN content = C!Edges /\ DOMAIN readers = C!Edges /\ DOMAIN writers = C!Edges

\* A pipe is read by its one reader at most, and what nobody can read is gone.
CPipes ==
    /\ \A p \in C!Player : /\ readers[C!to_player(p)] \subseteq {p}
                           /\ readers[C!from_player(p)] \subseteq {Many}
                           /\ pc[p] = "ended" => readers[C!to_player(p)] = {}
                           /\ pc[p] # "ended" => p \in writers[C!from_player(p)]
    /\ \A e \in C!Edges : readers[e] = {} => content[e] = <<>>

\* Where p is, its card, and what is on its way to it, as long as the server has not found p gone.
CPlace(p) ==
    LET from == content[C!from_player(p)]
        to   == content[C!to_player(p)]
    IN  IF CAnnounced(p)
        THEN \/ pc[p] = "round" /\ from = <<>> /\ (to = <<-1>> \/ (to = <<>> /\ 0 \notin open))
             \/ /\ pc[p] = "points" /\ from = <<>>
                /\ (\E k \in C!Points : to = <<k, -1>>) \/ (to = <<-1>> /\ 0 \notin open)
             \/ pc[p] = "card" /\ from = <<>> /\ to = <<>>
             \/ pc[p] = "points" /\ (\E c : from = <<c>>) /\ to = <<>>
             \/ pc[p] = "leave" /\ from = <<>> /\ (to = <<>> \/ to = <<-1>>)
             \/ pc[p] = "ended" /\ (from = <<>> \/ \E c : from = <<c>>) /\ to = <<>>
        ELSE IF CCollected(p)
        THEN pc[p] \in {"points", "ended"} /\ from = <<>> /\ to = <<>>
        ELSE /\ from = <<>>
             /\ \/ pc[p] = "round" /\ to = <<>> /\ 0 \in open
                \/ pc[p] = "points" /\ (\E k \in C!Points : to = <<k>>) /\ 0 \in open
                \/ pc[p] = "points" /\ to = <<>> /\ 0 \notin open
                \/ pc[p] = "leave" /\ to = <<>> /\ 0 \in open
                \/ pc[p] = "ended" /\ to = <<>>

\* A score is what its player was told and has yet to be told.
CTold(p) == 0 \in open => scores[p] = told[p] + C!Untold(p)

\* The inductive invariant of the card game, until ERR kills the group.
CPlaying ==
    /\ CType /\ CPipes
    /\ \A p \in open : CPlace(p) /\ CTold(p)
    /\ \A p \in C!Player \ open : pc[p] = "ended"
CKilled == open \subseteq C!Player /\ \A q \in 0..Many : pc[q] = "killed"
CInv == CPlaying \/ CKilled

\* The pipes of the players are different ones, and the server is no player.
LEMMA CPlayers ==
    /\ Many \in Nat \ {0} /\ IsFiniteSet(C!Player)
    /\ C!Player = 0..(Many - 1) /\ C!Player \subseteq 0..Many /\ Many \notin C!Player /\ Many \in 0..Many /\ 0 \in C!Player
    /\ \A p \in C!Player : C!to_player(p) \in C!Edges /\ C!from_player(p) \in C!Edges
    /\ \A p, q \in C!Player : /\ C!to_player(p) # C!from_player(q)
                              /\ C!to_player(p) = C!to_player(q) => p = q
                              /\ C!from_player(p) = C!from_player(q) => p = q
<1>1. Many \in Nat \ {0} /\ 0 \in Int /\ Many - 1 \in Int
  BY GamesAssumption DEF GamesAssumption
<1>2. IsFiniteSet(0..(Many - 1))
  BY <1>1, FS_Interval
<1> QED
  BY <1>1, <1>2 DEF C!Player, C!Edges, C!to_player, C!from_player, C!Server

\* new_round is no number of points.
LEMMA CPoints == -1 \notin C!Points /\ C!new_round = -1 /\ 0 \in C!Points /\ C!Points \subseteq Int
  BY GamesAssumption DEF GamesAssumption, C!Points, C!new_round

\* What a player has yet to be told is the first thing in its pipe.
LEMMA CUntold ==
    ASSUME NEW p
    PROVE  /\ content[C!to_player(p)] = <<>> => C!Untold(p) = 0
           /\ \A k \in C!Points : content[C!to_player(p)] = <<k>> \/ content[C!to_player(p)] = <<k, -1>> => C!Untold(p) = k
           /\ content[C!to_player(p)] = <<-1>> => C!Untold(p) = 0
  BY CPoints DEF C!Untold, C!Readable, C!FirstOf

\* Places and pipes are what the property asks for.
LEMMA CImplies == CInv => C!InStep
<1>1. CASE CKilled
  BY <1>1, CPlayers DEF CKilled, C!InStep, CInv
<1>2. CASE CPlaying
  <2>1. ASSUME NEW p \in open, pc[p] = "round", content[C!to_player(p)] # <<>>
        PROVE  C!FirstOf(p) = -1
    BY <1>2, <2>1 DEF CPlaying, CPlace, C!FirstOf
  <2>2. ASSUME NEW p \in open, 0 \in open, pc[p] = "points", content[C!to_player(p)] # <<>>
        PROVE  C!FirstOf(p) \in C!Points
    BY <1>2, <2>2 DEF CPlaying, CPlace, C!FirstOf
  <2>3. open \subseteq C!Player
    BY <1>2 DEF CPlaying, CType
  <2> QED
    BY <1>2, <2>1, <2>2, <2>3, CPoints DEF C!InStep, CPlaying, CTold, C!Readable
<1> QED
  BY <1>1, <1>2 DEF CInv

\* All wait for the first round, and nothing is on its way.
LEMMA CInitially == C!Init => CInv
<1> SUFFICES ASSUME C!Init PROVE CPlaying
  BY DEF CInv
<1>1. /\ content = [e \in C!Edges |-> <<>>]
      /\ writers = [e \in C!Edges |-> {e[1]}] /\ readers = [e \in C!Edges |-> {e[2]}]
  BY DEF C!Init, C!PipesInit
<1>2. /\ turn = 0 /\ open = C!Player /\ pc[Many] = "announce"
      /\ \A p \in C!Player : pc[p] = "round" /\ scores[p] = 0 /\ told[p] = 0
  BY CPlayers DEF C!Init, C!Server
<1>3. CType
  BY <1>1, <1>2, CPlayers DEF CType, C!Init
<1>4. CPipes
  BY <1>1, <1>2, CPlayers DEF C!to_player, C!from_player, C!Server, CPipes
<1>5. ASSUME NEW p \in C!Player PROVE CPlace(p) /\ CTold(p)
  <2>1. ~CAnnounced(p) /\ ~CCollected(p)
    BY <1>2, CPlayers DEF CAnnounced, CCollected
  <2>2. content[C!from_player(p)] = <<>> /\ content[C!to_player(p)] = <<>>
    BY <1>1, CPlayers
  <2>3. C!Untold(p) = 0
    BY <2>2, CUntold
  <2> QED
    BY <1>2, <2>1, <2>2, <2>3, CPlayers DEF CPlace, CTold
<1> QED
  BY <1>2, <1>3, <1>4, <1>5 DEF CPlaying

\* Nobody moves who is killed.
LEMMA CKilledStay == CKilled /\ C!Next => CKilled'
<1> SUFFICES ASSUME CKilled, C!Next PROVE FALSE
  OBVIOUS
<1>1. pc[Many] = "killed" /\ \A p \in C!Player : pc[p] = "killed"
  BY CPlayers DEF CKilled
<1>2. ASSUME NEW q \in 0..Many, C!Act(q) PROVE FALSE
  BY <1>1, <1>2 DEF C!Act, C!Announce, C!Collect, C!Pay, C!PayNobody, C!PayAbsent, C!Kill, C!Finish,
                    C!AwaitRound, C!Play, C!AwaitPoints, C!Leave, C!Server
<1> QED
  BY <1>1, <1>2 DEF C!Next, C!Resign

\* A player that nothing happens to.
LEMMA CSame ==
    ASSUME NEW p, CPlace(p), CTold(p), pc'[p] = pc[p], scores'[p] = scores[p], told'[p] = told[p],
           content'[C!from_player(p)] = content[C!from_player(p)],
           content'[C!to_player(p)] = content[C!to_player(p)],
           CAnnounced(p)' = CAnnounced(p), CCollected(p)' = CCollected(p), (0 \in open') = (0 \in open)
    PROVE  CPlace(p)' /\ CTold(p)'
<1>1. C!Untold(p)' = C!Untold(p)
  BY DEF C!Untold, C!Readable, C!FirstOf
<1>2. CTold(p)'
  BY <1>1 DEF CTold
<1>3. CPlace(p)'
  BY DEF CPlace
<1> QED
  BY <1>2, <1>3

\* A step of p: the other players stay where they are.
LEMMA COthers ==
    ASSUME CPlaying, NEW p \in C!Player, UNCHANGED <<turn, open, scores>>,
           \A q \in 0..Many : q # p => pc'[q] = pc[q],
           \A q \in C!Player : q # p => /\ told'[q] = told[q]
                                      /\ content'[C!from_player(q)] = content[C!from_player(q)]
                                      /\ content'[C!to_player(q)] = content[C!to_player(q)],
           CType', CPipes', p \in open => CPlace(p)' /\ CTold(p)', p \notin open => pc'[p] = "ended"
    PROVE  CPlaying'
<1>1. \A q : CAnnounced(q)' = CAnnounced(q) /\ CCollected(q)' = CCollected(q)
  BY CPlayers DEF CAnnounced, CCollected
<1>2. ASSUME NEW q \in open, q # p PROVE CPlace(q)' /\ CTold(q)'
  BY <1>1, <1>2, CPlayers, CSame DEF CPlaying, CType
<1>3. \A q \in C!Player \ open : pc'[q] = "ended"
  BY CPlayers DEF CPlaying
<1> QED
  BY <1>2, <1>3 DEF CPlaying

\* A step of p that takes at most what is in its pipe and puts at most a card.
LEMMA CPlayerMoves ==
    ASSUME CPlaying, NEW p \in open, NEW place, pc' = [pc EXCEPT ![p] = place],
           place # "ended", UNCHANGED <<readers, writers, turn, open, scores>>,
           pc[p] # "ended", DOMAIN content' = C!Edges, readers[C!from_player(p)] # {} \/ content' [C!from_player(p)] = <<>>,
           content'[C!to_player(p)] = <<>> \/ content[C!to_player(p)] # <<>>,
           \A e \in C!Edges : e # C!from_player(p) /\ e # C!to_player(p) => content'[e] = content[e],
           told' \in [C!Player -> Int], \A q \in C!Player : q # p => told'[q] = told[q],
           CPlace(p)' /\ CTold(p)'
    PROVE  CPlaying'
<1>0. p \in C!Player
  BY DEF CPlaying, CType
<1>1. \A q \in 0..Many : pc'[q] = IF q = p THEN place ELSE pc[q]
  BY DEF CPlaying, CType
<1>2. CType'
  BY <1>0 DEF CPlaying, CType
<1>3. CPipes'
  <2>1. \A q \in C!Player : (pc'[q] = "ended") = (pc[q] = "ended")
    BY <1>1, CPlayers
  <2>2. ASSUME NEW e \in C!Edges, readers'[e] = {} PROVE content'[e] = <<>>
    <3>1. CASE e = C!from_player(p)
      BY <3>1, <2>2
    <3>2. CASE e = C!to_player(p)
      BY <3>2, <2>2 DEF CPlaying, CPipes
    <3>3. CASE e # C!from_player(p) /\ e # C!to_player(p)
      BY <3>3, <2>2 DEF CPlaying, CPipes
    <3> QED
      BY <3>1, <3>2, <3>3
  <2> QED
    BY <2>1, <2>2 DEF CPlaying, CPipes
<1>4. \A q \in C!Player : q # p => /\ content'[C!from_player(q)] = content[C!from_player(q)]
                                 /\ content'[C!to_player(q)] = content[C!to_player(q)]
  BY <1>0, CPlayers
<1> QED
  BY <1>0, <1>1, <1>2, <1>3, <1>4, COthers

\* What the server has done with a player depends on its place and turn.
LEMMA CStages == \A p : /\ pc[Many]' = pc[Many] /\ turn' = turn => CAnnounced(p)' = CAnnounced(p) /\ CCollected(p)' = CCollected(p)
  BY DEF CAnnounced, CCollected

\* The step of a player is one of a player who is in the game.
LEMMA CPresent ==
    ASSUME CPlaying, NEW p \in C!Player, pc[p] # "ended"
    PROVE  p \in open /\ CPlace(p) /\ CTold(p)
  BY DEF CPlaying

\* The player reads new_round, or the points of a player 0 that has left.
LEMMA CAwaitRound ==
    ASSUME CPlaying, NEW p \in C!Player, C!AwaitRound(p)
    PROVE  CPlaying'
<1> DEFINE to == C!to_player(p)
<1>1. /\ pc[p] = "round" /\ content[to] # <<>> /\ content' = [content EXCEPT ![to] = Tail(@)]
      /\ UNCHANGED <<readers, writers, round, cards, turn, open, played, scores, told>>
  BY DEF C!AwaitRound, C!Readable, C!Take
<1>2. p \in open /\ CPlace(p) /\ CTold(p) /\ p \in 0..Many /\ p # Many
  BY <1>1, CPresent, CPlayers
<1>3. CAnnounced(p) /\ content[C!from_player(p)] = <<>> /\ content[to] = <<-1>>
  BY <1>1, <1>2 DEF CPlace
<1>4. pc' = [pc EXCEPT ![p] = "card"]
  BY <1>3, CPoints DEF C!AwaitRound, C!Go
<1>5. DOMAIN content' = C!Edges /\ content'[to] = <<>> /\ \A e \in C!Edges : e # to => content'[e] = content[e]
  BY <1>1, <1>3, CPlayers DEF CPlaying, CType
<1>6. pc'[p] = "card" /\ pc'[Many] = pc[Many]
  BY <1>2, <1>4, CPlayers DEF CPlaying, CType
<1>7. content'[C!from_player(p)] = <<>>
  BY <1>3, <1>5, CPlayers
<1>8. CPlace(p)' /\ CTold(p)'
  <2>1. C!Untold(p)' = 0 /\ C!Untold(p) = 0
    BY <1>3, <1>5, CPoints DEF C!Untold, C!Readable, C!FirstOf
  <2> QED
    BY <2>1, <1>1, <1>2, <1>3, <1>5, <1>6, <1>7, CStages DEF CPlace, CTold
<1>9. told' \in [C!Player -> Int]
  BY <1>1 DEF CPlaying, CType
<1> QED
  BY <1>1, <1>2, <1>4, <1>5, <1>7, <1>8, <1>9, CPlayerMoves

\* A player leaves between the rounds.
LEMMA CResign ==
    ASSUME CPlaying, NEW p \in C!Player, C!Resign(p)
    PROVE  CPlaying'
<1>1. /\ pc[p] = "card" /\ pc' = [pc EXCEPT ![p] = "leave"]
      /\ UNCHANGED <<content, readers, writers, round, cards, turn, open, played, scores, told>>
  BY DEF C!Resign, C!pipes, C!Go
<1>2. p \in open /\ CPlace(p) /\ CTold(p) /\ p \in 0..Many /\ p # Many
  BY <1>1, CPresent, CPlayers
<1>3. CAnnounced(p) /\ content[C!from_player(p)] = <<>> /\ content[C!to_player(p)] = <<>>
  BY <1>1, <1>2 DEF CPlace
<1>4. pc'[p] = "leave" /\ pc'[Many] = pc[Many]
  BY <1>1, <1>2, CPlayers DEF CPlaying, CType
<1>5. CPlace(p)' /\ CTold(p)'
  BY <1>1, <1>2, <1>3, <1>4, CStages DEF C!Untold, C!Readable, CPlace, CTold
<1>6. told' \in [C!Player -> Int] /\ DOMAIN content' = C!Edges
  BY <1>1 DEF CPlaying, CType
<1> QED
  BY <1>1, <1>2, <1>3, <1>5, <1>6, CPlayerMoves

\* The card is on its way to the server.
LEMMA CPlay ==
    ASSUME CPlaying, NEW p \in C!Player, C!Play(p)
    PROVE  CPlaying'
<1> DEFINE from == C!from_player(p)
<1>1. PICK c : content' = [content EXCEPT ![from] = Append(@, c)]
  BY DEF C!Play, C!Put
<1>2. /\ pc[p] = "card" /\ pc' = [pc EXCEPT ![p] = "points"] /\ readers[from] # {}
      /\ UNCHANGED <<readers, writers, round, turn, open, played, scores, told>>
  BY DEF C!Play, C!Writable, C!Broken, C!Go
<1>3. p \in open /\ CPlace(p) /\ CTold(p) /\ p \in 0..Many /\ p # Many /\ from \in C!Edges
  BY <1>2, CPresent, CPlayers
<1>4. CAnnounced(p) /\ content[from] = <<>> /\ content[C!to_player(p)] = <<>>
  BY <1>2, <1>3 DEF CPlace
<1>5. DOMAIN content' = C!Edges /\ content'[from] = <<c>> /\ \A e \in C!Edges : e # from => content'[e] = content[e]
  BY <1>1, <1>3, <1>4 DEF CPlaying, CType
<1>6. pc'[p] = "points" /\ pc'[Many] = pc[Many]
  BY <1>2, <1>3, CPlayers DEF CPlaying, CType
<1>7. content'[C!to_player(p)] = <<>>
  BY <1>4, <1>5, CPlayers
<1>8. CPlace(p)' /\ CTold(p)'
  <2>1. C!Untold(p)' = 0 /\ C!Untold(p) = 0
    BY <1>4, <1>7 DEF C!Untold, C!Readable
  <2> QED
    BY <2>1, <1>2, <1>3, <1>4, <1>5, <1>6, <1>7, CStages DEF CPlace, CTold
<1>9. told' \in [C!Player -> Int]
  BY <1>2 DEF CPlaying, CType
<1> QED
  BY <1>2, <1>3, <1>4, <1>5, <1>7, <1>8, <1>9, CPlayerMoves

\* The player is told what the server has counted for it, or finds the end of file.
LEMMA CAwaitPoints ==
    ASSUME CPlaying, NEW p \in C!Player, C!AwaitPoints(p)
    PROVE  CPlaying'
<1> DEFINE to == C!to_player(p)
<1>1. /\ pc[p] = "points" /\ content[to] # <<>> /\ content' = [content EXCEPT ![to] = Tail(@)]
      /\ told' = [told EXCEPT ![p] = IF Head(content[to]) \in C!Points THEN @ + Head(content[to]) ELSE @]
      /\ UNCHANGED <<readers, writers, cards, turn, open, played, scores>>
  BY DEF C!AwaitPoints, C!Readable, C!Take
<1>2. p \in open /\ CPlace(p) /\ CTold(p) /\ p \in 0..Many /\ p # Many /\ to \in C!Edges
  BY <1>1, CPresent, CPlayers
<1>3. PICK place \in {"leave", "round"} : pc' = [pc EXCEPT ![p] = place]
  BY DEF C!AwaitPoints, C!Go
<1>4. pc'[p] = place /\ pc'[Many] = pc[Many]
  BY <1>2, <1>3, CPlayers DEF CPlaying, CType
<1>5. DOMAIN content' = C!Edges /\ content'[to] = Tail(content[to]) /\ \A e \in C!Edges : e # to => content'[e] = content[e]
  BY <1>1, <1>2 DEF CPlaying, CType
<1>6. told[p] \in Int /\ scores[p] \in Int
  BY <1>2 DEF CPlaying, CType
<1>7. told'[p] = (IF Head(content[to]) \in C!Points THEN told[p] + Head(content[to]) ELSE told[p])
      /\ (\A q \in C!Player : q # p => told'[q] = told[q])
  BY <1>1 DEF CPlaying, CType
<1>8. told' \in [C!Player -> Int]
  <2>1. told'[p] \in Int
    <3>1. CASE Head(content[to]) \in C!Points
      <4> DEFINE k == Head(content[to])
      <4>1. k \in Int
        BY <3>1, CPoints
      <4>2. told'[p] = told[p] + k
        BY <3>1, <1>7
      <4> HIDE DEF k
      <4> QED
        BY <4>1, <4>2, <1>6
    <3>2. CASE Head(content[to]) \notin C!Points
      BY <1>6, <1>7, <3>2
    <3> QED
      BY <3>1, <3>2
  <2> QED
    BY <2>1, <1>1 DEF CPlaying, CType
<1>9. content[C!from_player(p)] = <<>> /\ content'[C!from_player(p)] = <<>>
  BY <1>1, <1>2, <1>5, CPlayers DEF CPlace
<1>10. CPlace(p)' /\ CTold(p)'
  <2>1. CASE \E k \in C!Points : content[to] = <<k, -1>>
    <3>1. PICK k \in C!Points : content[to] = <<k, -1>>
      BY <2>1
    <3>2. CAnnounced(p)
      BY <3>1, <1>1, <1>2 DEF CPlace
    <3>3. content'[to] = <<-1>> /\ Head(content[to]) = k /\ k \in Int
      BY <3>1, <1>5, CPoints
    <3>4. C!Untold(p) = k /\ C!Untold(p)' = 0
      BY <3>1, <3>3, CPoints DEF C!Untold, C!Readable, C!FirstOf
    <3>5. CTold(p)'
      BY <3>3, <3>4, <1>1, <1>2, <1>6, <1>7 DEF CTold
    <3>6. CPlace(p)'
      BY <3>2, <3>3, <1>1, <1>4, <1>9, CStages DEF CPlace
    <3> QED
      BY <3>5, <3>6
  <2>2. CASE content[to] = <<-1>>
    <3>1. CAnnounced(p) /\ 0 \notin open
      BY <2>2, <1>1, <1>2, CPoints DEF CPlace
    <3>2. content'[to] = <<>>
      BY <2>2, <1>5
    <3> QED
      BY <3>1, <3>2, <1>1, <1>4, <1>9, CStages DEF CPlace, CTold
  <2>3. CASE \E k \in C!Points : content[to] = <<k>>
    <3>1. PICK k \in C!Points : content[to] = <<k>>
      BY <2>3
    <3>2. ~CAnnounced(p) /\ ~CCollected(p) /\ 0 \in open
      BY <3>1, <1>1, <1>2, CPoints DEF CPlace
    <3>3. content'[to] = <<>> /\ Head(content[to]) = k /\ k \in Int
      BY <3>1, <1>5, CPoints
    <3>4. C!Untold(p) = k /\ C!Untold(p)' = 0
      BY <3>1, <3>3, CPoints DEF C!Untold, C!Readable, C!FirstOf
    <3>5. CTold(p)'
      BY <3>3, <3>4, <1>1, <1>2, <1>6, <1>7 DEF CTold
    <3>6. CPlace(p)'
      BY <3>2, <3>3, <1>1, <1>4, <1>9, CStages DEF CPlace
    <3> QED
      BY <3>5, <3>6
  <2> QED
    BY <2>1, <2>2, <2>3, <1>1, <1>2 DEF CPlace
<1> QED
  BY <1>1, <1>2, <1>3, <1>5, <1>7, <1>8, <1>9, <1>10, CPlayerMoves

\* What the server's closing of the pipes of player t leaves.
LEMMA CClose ==
    ASSUME CPlaying, NEW t \in C!Player, C!Close(Many, {C!from_player(t)}, {C!to_player(t)})
    PROVE  /\ DOMAIN content' = C!Edges /\ DOMAIN readers' = C!Edges /\ DOMAIN writers' = C!Edges
           /\ \A e \in C!Edges :
                /\ readers'[e] = IF e = C!from_player(t) THEN readers[e] \ {Many} ELSE readers[e]
                /\ writers'[e] = IF e = C!to_player(t) THEN writers[e] \ {Many} ELSE writers[e]
                /\ content'[e] = IF readers'[e] = {} THEN <<>> ELSE content[e]
                /\ e # C!from_player(t) => content'[e] = content[e]
<1>1. \A e \in C!Edges :
        /\ readers'[e] = IF e = C!from_player(t) THEN readers[e] \ {Many} ELSE readers[e]
        /\ writers'[e] = IF e = C!to_player(t) THEN writers[e] \ {Many} ELSE writers[e]
        /\ content'[e] = IF readers'[e] = {} THEN <<>> ELSE content[e]
  BY DEF C!Close, CPlaying, CType
<1>2. DOMAIN content' = C!Edges /\ DOMAIN readers' = C!Edges /\ DOMAIN writers' = C!Edges
  BY DEF C!Close, CPlaying, CType
<1>3. ASSUME NEW e \in C!Edges, e # C!from_player(t) PROVE content'[e] = content[e]
  BY <1>1, <1>3 DEF CPlaying, CPipes
<1> QED
  BY <1>1, <1>2, <1>3

\* What the end of process q leaves in the pipes.
LEMMA CExit ==
    ASSUME CPlaying, NEW q, C!Exit(q)
    PROVE  /\ DOMAIN content' = C!Edges /\ DOMAIN readers' = C!Edges /\ DOMAIN writers' = C!Edges
           /\ \A e \in C!Edges :
                /\ readers'[e] = readers[e] \ {q}
                /\ writers'[e] = writers[e] \ {q}
                /\ content'[e] = IF readers'[e] = {} THEN <<>> ELSE content[e]
                /\ q \notin readers[e] => content'[e] = content[e]
<1>1. \A e \in C!Edges :
        /\ readers'[e] = readers[e] \ {q}
        /\ writers'[e] = writers[e] \ {q}
        /\ content'[e] = IF readers'[e] = {} THEN <<>> ELSE content[e]
  BY DEF C!Exit, C!Close, CPlaying, CType
<1>2. DOMAIN content' = C!Edges /\ DOMAIN readers' = C!Edges /\ DOMAIN writers' = C!Edges
  BY DEF C!Exit, C!Close, CPlaying, CType
<1>3. ASSUME NEW e \in C!Edges, q \notin readers[e] PROVE content'[e] = content[e]
  BY <1>1, <1>3 DEF CPlaying, CPipes
<1> QED
  BY <1>1, <1>2, <1>3

\* Nobody reads what was on its way to a player who leaves.
LEMMA CLeave ==
    ASSUME CPlaying, NEW p \in C!Player, C!Leave(p)
    PROVE  CPlaying'
<1> DEFINE to   == C!to_player(p)
           from == C!from_player(p)
<1>1. /\ C!Exit(p) /\ pc' = [pc EXCEPT ![p] = "ended"]
      /\ pc[p] = "leave" \/ (pc[p] = "points" /\ content[to] = <<>>)
      /\ UNCHANGED <<round, cards, turn, open, played, scores, told>>
  BY DEF C!Leave, C!Go, C!Eof
<1>2. p \in open /\ CPlace(p) /\ CTold(p) /\ p \in 0..Many /\ p # Many /\ to \in C!Edges /\ from \in C!Edges
  BY <1>1, CPresent, CPlayers
<1>3. pc'[p] = "ended" /\ (\A q \in 0..Many : q # p => pc'[q] = pc[q]) /\ DOMAIN pc' = 0..Many
  BY <1>1, <1>2 DEF CPlaying, CType
<1>4. /\ DOMAIN content' = C!Edges /\ DOMAIN readers' = C!Edges /\ DOMAIN writers' = C!Edges
      /\ \A e \in C!Edges :
           /\ readers'[e] = readers[e] \ {p}
           /\ writers'[e] = writers[e] \ {p}
           /\ content'[e] = IF readers'[e] = {} THEN <<>> ELSE content[e]
           /\ p \notin readers[e] => content'[e] = content[e]
  BY <1>1, CExit
<1>5. readers'[to] = {} /\ content'[to] = <<>>
  BY <1>2, <1>4 DEF CPlaying, CPipes
<1>6. content'[from] = content[from] \/ content'[from] = <<>>
  BY <1>2, <1>4
<1>7. CType'
  BY <1>1, <1>3, <1>4 DEF CPlaying, CType
<1>8. CPipes'
  <2>1. ASSUME NEW q \in C!Player
        PROVE  /\ readers'[C!to_player(q)] \subseteq {q}
               /\ readers'[C!from_player(q)] \subseteq {Many}
               /\ pc'[q] = "ended" => readers'[C!to_player(q)] = {}
               /\ pc'[q] # "ended" => q \in writers'[C!from_player(q)]
    BY <1>3, <1>4, <1>5, CPlayers DEF CPlaying, CPipes
  <2>2. \A e \in C!Edges : readers'[e] = {} => content'[e] = <<>>
    BY <1>4
  <2> QED
    BY <2>1, <2>2 DEF CPipes
<1>9. ASSUME NEW q \in C!Player, q # p
      PROVE  /\ content'[C!from_player(q)] = content[C!from_player(q)]
             /\ content'[C!to_player(q)] = content[C!to_player(q)]
  BY <1>2, <1>4, <1>9, CPlayers DEF CPlaying, CPipes
<1>10. CPlace(p)' /\ CTold(p)'
  <2>1. C!Untold(p)' = 0 /\ C!Untold(p) = 0
    BY <1>1, <1>2, <1>5, CPoints DEF C!Untold, C!Readable, C!FirstOf, CPlace
  <2>2. CTold(p)'
    BY <2>1, <1>1, <1>2 DEF CTold
  <2>3. pc'[Many] = pc[Many]
    BY <1>2, <1>3, CPlayers
  <2>4. CPlace(p)'
    BY <2>3, <1>1, <1>2, <1>3, <1>5, <1>6, CStages DEF CPlace
  <2> QED
    BY <2>2, <2>4
<1> QED
  BY <1>1, <1>2, <1>3, <1>7, <1>8, <1>9, <1>10, COthers

\* What going on to the next player means for what the server has done with whom.
LEMMA CGoesOn ==
    ASSUME CPlaying, NEW t \in C!Player, turn = t, NEW after,
           \/ pc[Many] = "announce" /\ after = "collect"
           \/ pc[Many] = "collect" /\ after = "pay"
           \/ pc[Many] = "pay" /\ after \in {"announce", "close"},
           IF turn = Many - 1 THEN turn' = 0 /\ pc' = [pc EXCEPT ![Many] = after]
                              ELSE turn' = turn + 1 /\ UNCHANGED pc
    PROVE  /\ DOMAIN pc' = 0..Many /\ turn' \in C!Player /\ \A q \in C!Player : pc'[q] = pc[q]
           /\ \A q \in C!Player \ {t} : CAnnounced(q)' = CAnnounced(q) /\ CCollected(q)' = CCollected(q)
           /\ pc[Many] = "announce" => ~CAnnounced(t) /\ ~CCollected(t) /\ CAnnounced(t)'
           /\ pc[Many] = "collect" => CAnnounced(t) /\ ~CAnnounced(t)' /\ CCollected(t)'
           /\ pc[Many] = "pay" => ~CAnnounced(t) /\ CCollected(t) /\ ~CAnnounced(t)' /\ ~CCollected(t)'
<1>1. t \in 0..(Many - 1) /\ Many \in Nat
  BY CPlayers
<1>2. CASE turn = Many - 1
  <2>1. turn' = 0 /\ pc' = [pc EXCEPT ![Many] = after]
    BY <1>2
  <2>2. pc'[Many] = after /\ (\A q \in C!Player : pc'[q] = pc[q]) /\ DOMAIN pc' = 0..Many /\ turn' \in C!Player
    BY <2>1, CPlayers DEF CPlaying, CType
  <2>3. \A q \in C!Player : q # t => q < turn /\ ~(q >= turn)
    BY <1>1, <1>2, CPlayers
  <2>4. \A q \in C!Player : q >= 0 /\ ~(q < 0)
    BY CPlayers
  <2>5. ~(t < turn) /\ t >= turn
    BY <1>1
  <2> QED
    BY <2>1, <2>2, <2>3, <2>4, <2>5 DEF CAnnounced, CCollected
<1>3. CASE turn # Many - 1
  <2>1. turn' = t + 1 /\ pc' = pc /\ turn' \in C!Player
    BY <1>1, <1>3, CPlayers
  <2>2. \A q \in C!Player \ {t} : (q < turn') = (q < turn) /\ (q >= turn') = (q >= turn)
    BY <2>1, <1>1, CPlayers
  <2>3. t < turn' /\ ~(t >= turn') /\ ~(t < turn) /\ t >= turn
    BY <2>1, <1>1
  <2> QED
    BY <2>1, <2>2, <2>3 DEF CAnnounced, CCollected, CPlaying, CType
<1> QED
  BY <1>2, <1>3

\* A step of the server for player t.
LEMMA CServes ==
    ASSUME CPlaying, NEW t \in C!Player, UNCHANGED <<open, told>>,
           DOMAIN pc' = 0..Many, turn' \in C!Player, \A q \in C!Player : pc'[q] = pc[q],
           \A q \in C!Player \ {t} : /\ CAnnounced(q)' = CAnnounced(q) /\ CCollected(q)' = CCollected(q)
                                     /\ scores'[q] = scores[q],
           scores' \in [C!Player -> Int], DOMAIN content' = C!Edges, UNCHANGED <<readers, writers>>,
           \A q \in C!Player \ {t} : /\ content'[C!from_player(q)] = content[C!from_player(q)]
                                     /\ content'[C!to_player(q)] = content[C!to_player(q)],
           content'[C!to_player(t)] = content[C!to_player(t)] \/ readers[C!to_player(t)] # {},
           content'[C!from_player(t)] = content[C!from_player(t)] \/ content[C!from_player(t)] # <<>>,
           t \in open => CPlace(t)' /\ CTold(t)'
    PROVE  CPlaying'
<1>1. CType'
  BY DEF CPlaying, CType
<1>2. CPipes'
  <2>1. ASSUME NEW e \in C!Edges, readers'[e] = {} PROVE content'[e] = <<>>
    <3>1. content[e] = <<>>
      BY <2>1 DEF CPlaying, CPipes
    <3>2. PICK q \in C!Player : e = C!to_player(q) \/ e = C!from_player(q)
      BY DEF C!Edges
    <3>3. CASE q # t
      BY <3>1, <3>2, <3>3
    <3>4. CASE q = t
      BY <3>1, <3>2, <3>4, <2>1
    <3> QED
      BY <3>3, <3>4
  <2> QED
    BY <2>1 DEF CPlaying, CPipes
<1>3. ASSUME NEW q \in open PROVE CPlace(q)' /\ CTold(q)'
  <2>1. q \in C!Player /\ CPlace(q) /\ CTold(q)
    BY DEF CPlaying, CType
  <2>2. CASE q # t
    BY <2>1, <2>2, CSame
  <2> QED
    BY <2>2
<1> QED
  BY <1>1, <1>2, <1>3 DEF CPlaying

\* new_round goes to the player whose turn it is, or the end is found.
LEMMA CAnnounce == CPlaying /\ C!Announce => CPlaying'
<1> SUFFICES ASSUME CPlaying, C!Announce PROVE CPlaying'
  OBVIOUS
<1>1. PICK t \in C!Player : t = turn
  BY DEF CPlaying, CType
<1>2. /\ pc[Many] = "announce"
      /\ IF turn = Many - 1 THEN turn' = 0 /\ pc' = [pc EXCEPT ![Many] = "collect"]
                            ELSE turn' = turn + 1 /\ UNCHANGED pc
  BY DEF C!Announce, C!Server, C!NextPlayer, C!Go
<1>3. /\ DOMAIN pc' = 0..Many /\ turn' \in C!Player /\ \A q \in C!Player : pc'[q] = pc[q]
      /\ \A q \in C!Player \ {t} : CAnnounced(q)' = CAnnounced(q) /\ CCollected(q)' = CCollected(q)
      /\ ~CAnnounced(t) /\ ~CCollected(t) /\ CAnnounced(t)'
  BY <1>1, <1>2, CGoesOn
<1>4. UNCHANGED <<readers, writers, open, scores, told>>
  BY DEF C!Announce, C!pipes
<1>5. scores' \in [C!Player -> Int] /\ t \in 0..Many
  BY <1>4, CPlayers DEF CPlaying, CType
<1>6. CASE turn \notin open
  <2>1. UNCHANGED content
    BY <1>6 DEF C!Announce, C!pipes
  <2> QED
    BY <1>1, <1>3, <1>4, <1>5, <1>6, <2>1, CServes DEF CPlaying, CType
<1>7. CASE turn \in open
  <2> DEFINE to == C!to_player(t)
  <2>1. content' = [content EXCEPT ![to] = Append(@, -1)] /\ readers[to] # {}
    BY <1>1, <1>7, CPoints DEF C!Announce, C!Put, C!Writable, C!Broken
  <2>2. to \in C!Edges /\ CPlace(t) /\ CTold(t) /\ pc[t] # "ended"
    BY <1>1, <1>7, <2>1, CPlayers DEF CPlaying, CPipes
  <2>3. content[C!from_player(t)] = <<>>
    BY <1>3, <2>2 DEF CPlace
  <2>4. DOMAIN content' = C!Edges /\ content'[to] = Append(content[to], -1) /\ \A e \in C!Edges : e # to => content'[e] = content[e]
    BY <2>1, <2>2 DEF CPlaying, CType
  <2>5. /\ content'[C!from_player(t)] = <<>>
        /\ \A q \in C!Player \ {t} : /\ content'[C!from_player(q)] = content[C!from_player(q)]
                                     /\ content'[C!to_player(q)] = content[C!to_player(q)]
    BY <2>3, <2>4, CPlayers
  <2>6. CPlace(t)' /\ CTold(t)'
    <3>1. CASE content[to] = <<>>
      <4>1. content'[to] = <<-1>>
        BY <2>4, <3>1
      <4>2. C!Untold(t) = 0 /\ C!Untold(t)' = 0
        BY <3>1, <4>1, CPoints DEF C!Untold, C!Readable, C!FirstOf
      <4>3. CTold(t)'
        BY <4>2, <1>4, <2>2 DEF CTold
      <4>4. CPlace(t)'
        BY <4>1, <3>1, <1>3, <1>4, <2>2, <2>5 DEF CPlace
      <4> QED
        BY <4>3, <4>4
    <3>2. CASE \E k \in C!Points : content[to] = <<k>>
      <4>1. PICK k \in C!Points : content[to] = <<k>>
        BY <3>2
      <4>2. content'[to] = <<k, -1>>
        BY <2>4, <4>1, TwoOf
      <4>3. C!Untold(t) = k /\ C!Untold(t)' = k
        BY <4>1, <4>2, CPoints DEF C!Untold, C!Readable, C!FirstOf
      <4>4. CTold(t)'
        BY <4>3, <1>4, <2>2 DEF CTold
      <4>5. pc[t] = "points"
        BY <4>1, <1>3, <2>2 DEF CPlace
      <4>6. CPlace(t)'
        BY <4>2, <4>5, <1>3, <1>4, <2>2, <2>5 DEF CPlace
      <4> QED
        BY <4>4, <4>6
    <3> QED
      BY <3>1, <3>2, <1>3, <2>2 DEF CPlace
  <2> QED
    BY <1>3, <1>4, <1>5, <2>1, <2>3, <2>4, <2>5, <2>6, CServes
<1> QED
  BY <1>6, <1>7

\* The card of the player whose turn it is, is read, or the player found gone.
LEMMA CCollect == CPlaying /\ C!Collect => CPlaying'
<1> SUFFICES ASSUME CPlaying, C!Collect PROVE CPlaying'
  OBVIOUS
<1>1. PICK t \in C!Player : t = turn
  BY DEF CPlaying, CType
<1>2. /\ pc[Many] = "collect"
      /\ IF turn = Many - 1 THEN turn' = 0 /\ pc' = [pc EXCEPT ![Many] = "pay"]
                            ELSE turn' = turn + 1 /\ UNCHANGED pc
  BY DEF C!Collect, C!Server, C!NextPlayer, C!Go
<1>3. /\ DOMAIN pc' = 0..Many /\ turn' \in C!Player /\ \A q \in C!Player : pc'[q] = pc[q]
      /\ \A q \in C!Player \ {t} : CAnnounced(q)' = CAnnounced(q) /\ CCollected(q)' = CCollected(q)
      /\ CAnnounced(t) /\ ~CAnnounced(t)' /\ CCollected(t)'
  BY <1>1, <1>2, CGoesOn
<1>4. UNCHANGED <<scores, told>>
  BY DEF C!Collect
<1>5. scores' \in [C!Player -> Int] /\ t \in 0..Many
  BY <1>4, CPlayers DEF CPlaying, CType
<1> DEFINE from == C!from_player(t)
           to   == C!to_player(t)
<1>6. CASE turn \notin open
  <2>1. UNCHANGED <<content, readers, writers, open>>
    BY <1>6 DEF C!Collect, C!pipes
  <2> QED
    BY <1>1, <1>3, <1>4, <1>5, <1>6, <2>1, CServes DEF CPlaying, CType
<1>7. CASE turn \in open /\ C!Readable(C!from_player(turn))
  <2>1. content' = [content EXCEPT ![from] = Tail(@)] /\ content[from] # <<>> /\ UNCHANGED <<readers, writers, open>>
    BY <1>1, <1>7 DEF C!Collect, C!Take, C!Readable, C!Eof
  <2>2. from \in C!Edges /\ CPlace(t) /\ CTold(t)
    BY <1>1, <1>7, CPlayers DEF CPlaying
  <2>3. PICK c : content[from] = <<c>> /\ content[to] = <<>> /\ pc[t] \in {"points", "ended"}
    BY <1>3, <2>1, <2>2 DEF CPlace
  <2>4. DOMAIN content' = C!Edges /\ content'[from] = <<>> /\ \A e \in C!Edges : e # from => content'[e] = content[e]
    BY <2>1, <2>2, <2>3 DEF CPlaying, CType
  <2>5. /\ content'[to] = <<>>
        /\ \A q \in C!Player \ {t} : /\ content'[C!from_player(q)] = content[C!from_player(q)]
                                     /\ content'[C!to_player(q)] = content[C!to_player(q)]
    BY <2>3, <2>4, CPlayers
  <2>6. CPlace(t)' /\ CTold(t)'
    <3>1. C!Untold(t) = 0 /\ C!Untold(t)' = 0
      BY <2>3, <2>5 DEF C!Untold, C!Readable, C!FirstOf
    <3>2. CTold(t)'
      BY <3>1, <1>4, <2>1, <2>2 DEF CTold
    <3>3. CPlace(t)'
      BY <1>3, <2>3, <2>4, <2>5 DEF CPlace
    <3> QED
      BY <3>2, <3>3
  <2> QED
    BY <1>3, <1>4, <1>5, <2>1, <2>3, <2>4, <2>5, <2>6, CServes
<1>8. CASE turn \in open /\ ~C!Readable(C!from_player(turn))
  <2>1. /\ content[from] = <<>> /\ writers[from] = {}
        /\ C!Close(Many, {from}, {to}) /\ open' = open \ {t}
    BY <1>1, <1>8 DEF C!Collect, C!Take, C!Readable, C!Eof, C!Server
  <2>2. /\ DOMAIN content' = C!Edges /\ DOMAIN readers' = C!Edges /\ DOMAIN writers' = C!Edges
        /\ \A e \in C!Edges :
             /\ readers'[e] = IF e = from THEN readers[e] \ {Many} ELSE readers[e]
             /\ writers'[e] = IF e = to THEN writers[e] \ {Many} ELSE writers[e]
             /\ content'[e] = IF readers'[e] = {} THEN <<>> ELSE content[e]
             /\ e # from => content'[e] = content[e]
    BY <2>1, CClose
  <2>3. \A e \in C!Edges : content'[e] = content[e]
    BY <2>1, <2>2
  <2>4. pc[t] = "ended"
    BY <2>1 DEF CPlaying, CPipes
  <2>5. CType'
    BY <1>3, <1>4, <1>5, <2>1, <2>2 DEF CPlaying, CType
  <2>6. CPipes'
    <3>1. ASSUME NEW q \in C!Player
          PROVE  /\ readers'[C!to_player(q)] \subseteq {q}
                 /\ readers'[C!from_player(q)] \subseteq {Many}
                 /\ pc'[q] = "ended" => readers'[C!to_player(q)] = {}
                 /\ pc'[q] # "ended" => q \in writers'[C!from_player(q)]
      <4>1. /\ readers[C!to_player(q)] \subseteq {q}
            /\ readers[C!from_player(q)] \subseteq {Many}
            /\ pc[q] = "ended" => readers[C!to_player(q)] = {}
            /\ pc[q] # "ended" => q \in writers[C!from_player(q)]
        BY DEF CPlaying, CPipes
      <4>2. C!to_player(q) \in C!Edges /\ C!from_player(q) \in C!Edges /\ pc'[q] = pc[q] /\ q # Many
        BY <1>3, CPlayers
      <4> QED
        BY <4>1, <4>2, <2>2
    <3>2. \A e \in C!Edges : readers'[e] = {} => content'[e] = <<>>
      BY <2>2
    <3> QED
      BY <3>1, <3>2 DEF CPipes
  <2>7. ASSUME NEW q \in open' PROVE CPlace(q)' /\ CTold(q)'
    <3>1. q \in C!Player \ {t} /\ q \in open /\ CPlace(q) /\ CTold(q)
      BY <2>1, <2>7 DEF CPlaying, CType
    <3>2. content'[C!from_player(q)] = content[C!from_player(q)] /\ content'[C!to_player(q)] = content[C!to_player(q)] /\ pc'[q] = pc[q]
      BY <3>1, <2>3, <1>3, CPlayers
    <3>3. CASE t # 0
      <4>1. (0 \in open') = (0 \in open)
        BY <3>3, <2>1
      <4> QED
        BY <3>1, <3>2, <4>1, <1>3, <1>4, CSame
    <3>4. CASE t = 0
      <4>1. 0 \notin open' /\ CAnnounced(q)
        <5>1. q >= turn
          BY <3>1, <3>4, <1>1, CPlayers
        <5> QED
          BY <5>1, <3>4, <1>2, <2>1 DEF CAnnounced
      <4>2. CAnnounced(q)'
        BY <4>1, <3>1, <1>3
      <4> QED
        BY <3>1, <3>2, <4>1, <4>2 DEF CPlace, CTold
    <3> QED
      BY <3>3, <3>4
  <2>8. \A q \in C!Player \ open' : pc'[q] = "ended"
    BY <1>3, <2>1, <2>4 DEF CPlaying
  <2> QED
    BY <2>5, <2>6, <2>7, <2>8 DEF CPlaying
<1> QED
  BY <1>6, <1>7, <1>8

\* A share is a number of points.
LEMMA CDue ==
    ASSUME open \subseteq C!Player, NEW p
    PROVE  C!Due(p) \in C!Points
<1>1. IsFiniteSet(C!Winners) /\ Cardinality(C!Winners) \in Nat
  BY FS_Subset, FS_CardinalityType, CPlayers DEF C!Winners
<1>2. C!Winners # {} => Cardinality(C!Winners) > 0
  BY <1>1, FS_EmptySet
<1>3. \A k \in Nat : k > 0 => (Many \div k) \in 0..Many
  BY CPlayers
<1>4. C!Cardinality(C!Winners) = Cardinality(C!Winners)
  BY DEF C!Cardinality, Cardinality
<1>5. C!Share \in 0..Many
  BY <1>1, <1>2, <1>3, <1>4, CPlayers DEF C!Share
<1> QED
  BY <1>5, CPlayers DEF C!Due, C!Points

\* The server goes on, and no pipe changes.
LEMMA CPaid ==
    ASSUME CPlaying, C!EndRound(C!AfterRound), pc[Many] = "pay", NEW t \in C!Player, turn = t
    PROVE  /\ DOMAIN pc' = 0..Many /\ turn' \in C!Player /\ \A q \in C!Player : pc'[q] = pc[q]
           /\ \A q \in C!Player \ {t} : CAnnounced(q)' = CAnnounced(q) /\ CCollected(q)' = CCollected(q)
           /\ ~CAnnounced(t) /\ CCollected(t) /\ ~CAnnounced(t)' /\ ~CCollected(t)'
<1>1. PICK after \in {"announce", "close"} : after = C!AfterRound
  BY DEF C!AfterRound
<1>2. IF turn = Many - 1 THEN turn' = 0 /\ pc' = [pc EXCEPT ![Many] = after]
                         ELSE turn' = turn + 1 /\ UNCHANGED pc
  BY <1>1 DEF C!EndRound, C!Go, C!Server
<1> QED
  BY <1>2, CGoesOn

\* The points are counted and on their way.
LEMMA CPay == CPlaying /\ C!Pay => CPlaying'
<1> SUFFICES ASSUME CPlaying, C!Pay PROVE CPlaying'
  OBVIOUS
<1>1. PICK t \in C!Player : t = turn
  BY DEF CPlaying, CType
<1> DEFINE to == C!to_player(t)
           k  == C!Due(t)
<1>2. /\ pc[Many] = "pay" /\ 0 \in open /\ t \in open /\ readers[to] # {}
      /\ content' = [content EXCEPT ![to] = Append(@, k)]
      /\ scores' = [scores EXCEPT ![t] = @ + k]
      /\ C!EndRound(C!AfterRound)
      /\ UNCHANGED <<readers, writers, cards, open, played, told>>
  BY <1>1 DEF C!Pay, C!Server, C!Writable, C!Broken, C!Put
<1>3. /\ DOMAIN pc' = 0..Many /\ turn' \in C!Player /\ \A q \in C!Player : pc'[q] = pc[q]
      /\ \A q \in C!Player \ {t} : CAnnounced(q)' = CAnnounced(q) /\ CCollected(q)' = CCollected(q)
      /\ ~CAnnounced(t) /\ CCollected(t) /\ ~CAnnounced(t)' /\ ~CCollected(t)'
  BY <1>1, <1>2, CPaid
<1>4. k \in C!Points /\ k \in Int
  BY CDue, CPoints DEF CPlaying, CType
<1> HIDE DEF k
<1>5. to \in C!Edges /\ CPlace(t) /\ CTold(t) /\ scores[t] \in Int
  BY <1>2, CPlayers DEF CPlaying, CType
<1>6. pc[t] = "points" /\ content[to] = <<>> /\ content[C!from_player(t)] = <<>>
  BY <1>2, <1>3, <1>5 DEF CPlaying, CPipes, CPlace
<1>7. DOMAIN content' = C!Edges /\ content'[to] = <<k>> /\ \A e \in C!Edges : e # to => content'[e] = content[e]
  BY <1>2, <1>5, <1>6 DEF CPlaying, CType
<1>8. /\ content'[C!from_player(t)] = <<>>
      /\ \A q \in C!Player \ {t} : /\ content'[C!from_player(q)] = content[C!from_player(q)]
                                   /\ content'[C!to_player(q)] = content[C!to_player(q)]
  BY <1>6, <1>7, CPlayers
<1>9. scores' \in [C!Player -> Int] /\ scores'[t] = scores[t] + k /\ \A q \in C!Player \ {t} : scores'[q] = scores[q]
  BY <1>2, <1>4, <1>5 DEF CPlaying, CType
<1>10. CPlace(t)' /\ CTold(t)'
  <2>1. C!Untold(t) = 0 /\ C!Untold(t)' = k
    BY <1>4, <1>6, <1>7 DEF C!Untold, C!Readable, C!FirstOf
  <2>2. told[t] \in Int /\ told'[t] = told[t]
    BY <1>2 DEF CPlaying, CType
  <2>3. CTold(t)'
    BY <2>1, <2>2, <1>2, <1>4, <1>5, <1>9 DEF CTold
  <2>4. CPlace(t)'
    BY <1>2, <1>3, <1>4, <1>6, <1>7, <1>8 DEF CPlace
  <2> QED
    BY <2>3, <2>4
<1> QED
  BY <1>2, <1>3, <1>6, <1>7, <1>8, <1>9, <1>10, CServes

\* Nobody is told when player 0 has left.
LEMMA CUnpaid == CPlaying /\ (C!PayNobody \/ C!PayAbsent) => CPlaying'
<1> SUFFICES ASSUME CPlaying, C!PayNobody \/ C!PayAbsent PROVE CPlaying'
  OBVIOUS
<1>1. PICK t \in C!Player : t = turn
  BY DEF CPlaying, CType
<1>2. /\ pc[Many] = "pay" /\ (0 \notin open \/ t \notin open) /\ C!EndRound(C!AfterRound)
      /\ UNCHANGED <<content, readers, writers, cards, open, played, scores, told>>
  BY <1>1 DEF C!PayNobody, C!PayAbsent, C!Server, C!pipes
<1>3. /\ DOMAIN pc' = 0..Many /\ turn' \in C!Player /\ \A q \in C!Player : pc'[q] = pc[q]
      /\ \A q \in C!Player \ {t} : CAnnounced(q)' = CAnnounced(q) /\ CCollected(q)' = CCollected(q)
      /\ ~CAnnounced(t) /\ CCollected(t) /\ ~CAnnounced(t)' /\ ~CCollected(t)'
  BY <1>1, <1>2, CPaid
<1>4. t \in open => CPlace(t)' /\ CTold(t)'
  <2>1. SUFFICES ASSUME t \in open PROVE CPlace(t)' /\ CTold(t)'
    OBVIOUS
  <2>2. CPlace(t)
    BY <2>1 DEF CPlaying
  <2> QED
    BY <2>1, <2>2, <1>2, <1>3 DEF CPlace, CTold
<1>5. scores' \in [C!Player -> Int] /\ DOMAIN content' = C!Edges
  BY <1>2 DEF CPlaying, CType
<1> QED
  BY <1>2, <1>3, <1>4, <1>5, CServes

\* The server closes what is still open.
LEMMA CFinish == CPlaying /\ C!Finish => CPlaying'
<1> SUFFICES ASSUME CPlaying, C!Finish PROVE CPlaying'
  OBVIOUS
<1>1. /\ pc[Many] \in {"close", "wait"} /\ UNCHANGED <<round, cards, turn, open, played, scores, told>>
      /\ DOMAIN pc' = 0..Many /\ pc'[Many] \in {"wait", "ended"} /\ \A q \in C!Player : pc'[q] = pc[q]
  BY CPlayers DEF C!Finish, C!Go, C!Server, CPlaying, CType
<1>2. CType' /\ CPipes' /\ (\A p \in C!Player : /\ content'[C!to_player(p)] = content[C!to_player(p)]
                                                /\ content[C!from_player(p)] = <<>> => content'[C!from_player(p)] = <<>>)
  <2>1. CASE UNCHANGED C!pipes
    <3>1. UNCHANGED <<content, readers, writers>>
      BY <2>1 DEF C!pipes
    <3>2. CType'
      BY <3>1, <1>1 DEF CPlaying, CType
    <3>3. CPipes'
      BY <3>1, <1>1 DEF CPlaying, CPipes
    <3> QED
      BY <3>1, <3>2, <3>3
  <2>2. CASE C!Exit(Many)
    <3>1. /\ DOMAIN content' = C!Edges /\ DOMAIN readers' = C!Edges /\ DOMAIN writers' = C!Edges
          /\ \A e \in C!Edges :
               /\ readers'[e] = readers[e] \ {Many}
               /\ writers'[e] = writers[e] \ {Many}
               /\ content'[e] = IF readers'[e] = {} THEN <<>> ELSE content[e]
               /\ Many \notin readers[e] => content'[e] = content[e]
      BY <2>2, CExit
    <3>2. CType'
      BY <3>1, <1>1 DEF CPlaying, CType
    <3>3. ASSUME NEW q \in C!Player
          PROVE  /\ readers'[C!to_player(q)] \subseteq {q}
                 /\ readers'[C!from_player(q)] \subseteq {Many}
                 /\ pc'[q] = "ended" => readers'[C!to_player(q)] = {}
                 /\ pc'[q] # "ended" => q \in writers'[C!from_player(q)]
                 /\ content'[C!to_player(q)] = content[C!to_player(q)]
                 /\ content[C!from_player(q)] = <<>> => content'[C!from_player(q)] = <<>>
      BY <1>1, <3>1, CPlayers DEF CPlaying, CPipes
    <3>4. CPipes'
      BY <3>1, <3>3 DEF CPipes
    <3> QED
      BY <3>2, <3>3, <3>4
  <2> QED
    BY <2>1, <2>2 DEF C!Finish, C!Server
<1>3. ASSUME NEW q \in open PROVE CPlace(q)' /\ CTold(q)'
  <2>1. q \in C!Player /\ CPlace(q) /\ CTold(q)
    BY DEF CPlaying, CType
  <2>2. ~CAnnounced(q) /\ ~CCollected(q) /\ ~CAnnounced(q)' /\ ~CCollected(q)'
    BY <1>1 DEF CAnnounced, CCollected
  <2>3. content'[C!from_player(q)] = content[C!from_player(q)] /\ content'[C!to_player(q)] = content[C!to_player(q)] /\ pc'[q] = pc[q]
    BY <1>1, <1>2, <2>1, <2>2 DEF CPlace
  <2>4. CAnnounced(q)' = CAnnounced(q) /\ CCollected(q)' = CCollected(q)
    BY <1>1 DEF CAnnounced, CCollected
  <2>5. scores'[q] = scores[q] /\ told'[q] = told[q] /\ open' = open
    BY <1>1
  <2> QED
    BY <2>1, <2>3, <2>4, <2>5, CSame
<1> QED
  BY <1>1, <1>2, <1>3 DEF CPlaying

\* Every step of the card game keeps its invariant, and ERR kills all.
LEMMA CNext == CInv /\ C!Next => CInv'
<1> SUFFICES ASSUME CPlaying, C!Next PROVE CInv'
  BY CKilledStay DEF CInv
<1>1. ASSUME NEW q \in 0..Many, C!Act(q) PROVE CInv'
  <2>1. CASE C!Kill
    BY <2>1 DEF C!Kill, CKilled, CInv, CPlaying, CType
  <2>2. CASE C!Announce \/ C!Collect \/ C!Pay \/ C!PayNobody \/ C!PayAbsent \/ C!Finish
    BY <2>2, CAnnounce, CCollect, CPay, CUnpaid, CFinish DEF CInv
  <2>3. CASE q \in C!Player /\ (C!AwaitRound(q) \/ C!Play(q) \/ C!AwaitPoints(q) \/ C!Leave(q))
    BY <2>3, CAwaitRound, CPlay, CAwaitPoints, CLeave DEF CInv
  <2> QED
    BY <1>1, <2>1, <2>2, <2>3 DEF C!Act
<1>2. ASSUME NEW p \in C!Player, C!Resign(p) PROVE CInv'
  BY <1>2, CResign DEF CInv
<1> QED
  BY <1>1, <1>2 DEF C!Next

\* As does a step that changes nothing of it.
LEMMA CStutter == CInv /\ UNCHANGED <<pipes, pc, round, cards, turn, open, played, scores, told>> => CInv'
<1> SUFFICES ASSUME CInv, UNCHANGED <<content, readers, writers, pc, round, cards, turn, open, played, scores, told>> PROVE CInv'
  BY DEF pipes
<1>1. CASE CKilled
  BY <1>1 DEF CKilled, CInv
<1>2. CASE CPlaying
  <2>1. CType' /\ CPipes'
    BY <1>2 DEF CPlaying, CType, CPipes
  <2>2. ASSUME NEW q \in open PROVE CPlace(q)' /\ CTold(q)'
    BY <1>2, <2>2, CSame DEF CAnnounced, CCollected, CPlaying
  <2> QED
    BY <1>2, <2>1, <2>2 DEF CPlaying, CInv
<1> QED
  BY <1>1, <1>2 DEF CInv

-----------------------------------------------------------------------------
(* ShipCards. *)

\* The cards on their way from p to the next one; whether somebody has left.
SOn(p) == Range(content[S!ring(p)])
SGone  == \E p \in S!Player : pc[p] = "ended"

\* What the variables of the ring of cards are.
SType ==
    /\ DOMAIN pc = 0..Many /\ DOMAIN hand = S!Player
    /\ DOMAIN content = S!Edges /\ DOMAIN readers = S!Edges /\ DOMAIN writers = S!Edges
    /\ \A p \in S!Player : hand[p] \subseteq S!Card /\ content[S!ring(p)] \in Seq(S!Card)
    /\ content[S!shared] \in Seq(S!Player)

\* A card is not in two hands, nor in two pipes, nor in a hand and in a pipe, nor twice in a
\* pipe; and until somebody has left each is somewhere.
SOnce ==
    /\ \A p, q \in S!Player : /\ p # q => hand[p] \intersect hand[q] = {} /\ SOn(p) \intersect SOn(q) = {}
                              /\ hand[p] \intersect SOn(q) = {}
    /\ \A p \in S!Player : Simple(content[S!ring(p)])
SAll ==
    SGone \/ /\ \A c \in S!Card : \E p \in S!Player : c \in hand[p] \union SOn(p)
             /\ \A p \in S!Player : readers[S!ring(p)] # {}

\* Hands are full, but for those that wait for a card.
SHands ==
    \A p \in S!Player : /\ pc[p] = "draw" => Cardinality(hand[p]) = Each - 1
                        /\ pc[p] \in {"deal", "look", "pass", "won"} => Cardinality(hand[p]) = Each
                        /\ pc[p] = "won" => S!is_winning(hand[p])
\* Who has announced a win has left with a hand that wins, and the server hears of no other.
SWon ==
    /\ announced \subseteq S!Player /\ winner \subseteq announced /\ Range(content[S!shared]) \subseteq announced
    /\ \A p \in announced : pc[p] \in {"leave", "ended"} /\ S!is_winning(hand[p]) /\ Cardinality(hand[p]) = Each

\* What a player has announced is in the shared pipe until the server reads it, once.
SShared ==
    /\ readers[S!shared] \subseteq {Many} /\ pc[Many] \in {"deal", "read", "wait", "ended"}
    /\ pc[Many] \in {"deal", "read"} => /\ Many \in readers[S!shared]
                                        /\ content[S!shared] = <<>> => announced = {}
    /\ pc[Many] \in {"wait", "ended"} => /\ readers[S!shared] = {}
                                         /\ winner = {} => announced = {}

\* The inductive invariant of the ring of cards.
SInv == SType /\ SOnce /\ SAll /\ SHands /\ SWon /\ SShared

\* The pipes of the ring and the shared one are different, and the server is no player.
LEMMA SPlayers ==
    /\ Many \in Nat /\ Many # 0 /\ S!Player = 0..(Many - 1) /\ S!Player \subseteq 0..Many /\ Many \notin S!Player /\ Many \in 0..Many
    /\ S!Server = Many /\ S!shared \in S!Edges /\ \A p \in S!Player : S!ring(p) \in S!Edges /\ S!ring(p) # S!shared
    /\ \A p, q \in S!Player : S!ring(p) = S!ring(q) => p = q
    /\ \A p \in S!Player : \E q \in S!Player : S!Into(p) = S!ring(q)
<1>1. Many \in Nat /\ Many # 0 /\ S!Player = 0..(Many - 1)
  BY GamesAssumption DEF GamesAssumption, S!Player
<1>2. S!Player \subseteq 0..Many /\ Many \notin S!Player /\ Many \in 0..Many
  BY <1>1
<1>3. ASSUME NEW p \in S!Player PROVE \E q \in S!Player : S!Into(p) = S!ring(q)
  BY <1>1, InRing DEF S!Into, S!ring
<1>4. \A p, q \in S!Player : S!ring(p) = S!ring(q) => p = q
  BY DEF S!ring
<1>5. \A p \in S!Player : S!ring(p) # S!shared
  BY <1>2 DEF S!ring, S!shared, S!Server
<1> QED
  BY <1>1, <1>2, <1>3, <1>4, <1>5 DEF S!Edges, S!Server

\* Hands are finite.
LEMMA SFinite == SType => \A p \in S!Player : IsFiniteSet(hand[p])
<1>1. Many * Each - 1 \in Int /\ 0 \in Int
  BY GamesAssumption DEF GamesAssumption
<1>2. IsFiniteSet(S!Card)
  BY <1>1, FS_Interval DEF S!Card
<1> QED
  BY <1>2, FS_Subset DEF SType

\* Cards in hands and pipes are what the property asks for.
LEMMA SImplies == SInv => S!CardsOnce
<1> SUFFICES ASSUME SInv PROVE S!CardsOnce
  OBVIOUS
<1>1. \A D : S!Cardinality(D) = Cardinality(D)
  BY DEF S!Cardinality, Cardinality
<1>2. ASSUME NEW p \in S!Player PROVE S!InRing(p) = SOn(p)
  BY LenProperties DEF SInv, SType, S!InRing, SOn, Range
<1>3. ASSUME NEW c \in S!Card
      PROVE  LET places == Cardinality({p \in S!Player : c \in hand[p]}) + Cardinality({p \in S!Player : c \in S!InRing(p)})
             IN  IF SGone THEN places <= 1 ELSE places = 1
  <2> DEFINE inHand == {p \in S!Player : c \in hand[p]}
             onWay  == {p \in S!Player : c \in S!InRing(p)}
  <2>1. (\A a, b \in inHand : a = b) /\ (\A a, b \in onWay : a = b) /\ (inHand = {} \/ onWay = {})
    BY <1>2 DEF SInv, SOnce
  <2>2. ~SGone => inHand # {} \/ onWay # {}
    BY <1>2 DEF SInv, SAll
  <2> HIDE DEF inHand, onWay
  <2>3. Cardinality(inHand) = (IF inHand = {} THEN 0 ELSE 1) /\ Cardinality(onWay) = (IF onWay = {} THEN 0 ELSE 1)
    BY <2>1, AtMostOne
  <2>4. Cardinality(inHand) + Cardinality(onWay) <= 1 /\ (~SGone => Cardinality(inHand) + Cardinality(onWay) = 1)
    BY <2>1, <2>2, <2>3
  <2> QED
    BY <2>4 DEF inHand, onWay
<1>4. \A p \in S!Player : /\ (pc[p] = "draw" => Cardinality(hand[p]) = Each - 1)
                          /\ (pc[p] \in {"look", "pass", "won"} => Cardinality(hand[p]) = Each)
  BY DEF SInv, SHands
<1>5. \A p \in announced \union winner : S!is_winning(hand[p]) /\ Cardinality(hand[p]) = Each
  BY DEF SInv, SWon
<1>6. pc[S!Server] = "ended" /\ winner = {} => announced = {}
  BY SPlayers DEF SInv, SShared
<1> QED
  BY <1>1, <1>3, <1>4, <1>5, <1>6 DEF S!CardsOnce, SGone

\* Every card is dealt once.
LEMMA SInitially == S!Init => SInv
<1> SUFFICES ASSUME S!Init PROVE SInv
  OBVIOUS
<1>1. /\ content = [e \in S!Edges |-> <<>>] /\ readers = [e \in S!Edges |-> {e[2]}] /\ DOMAIN writers = S!Edges
      /\ pc = [q \in 0..Many |-> "deal"] /\ announced = {} /\ winner = {}
  BY DEF S!Init
<1>2. DOMAIN hand = S!Player /\ \A p \in S!Player : hand[p] \subseteq S!Card /\ Cardinality(hand[p]) = Each
  BY DEF S!Init, S!Cardinality, Cardinality
<1>3. \A p, q \in S!Player : p # q => hand[p] \intersect hand[q] = {}
  BY DEF S!Init
<1>4. \A p \in S!Player : content[S!ring(p)] = <<>> /\ readers[S!ring(p)] # {} /\ pc[p] = "deal"
  BY <1>1, SPlayers
<1>5. content[S!shared] = <<>> /\ readers[S!shared] = {Many} /\ pc[Many] = "deal"
  BY <1>1, SPlayers DEF S!shared
<1>6. SType
  <2>1. <<>> \in Seq(S!Card) /\ <<>> \in Seq(S!Player)
    OBVIOUS
  <2> QED
    BY <1>1, <1>2, <1>4, <1>5, <2>1 DEF SType
<1>7. \A p \in S!Player : SOn(p) = {} /\ Simple(content[S!ring(p)])
  BY <1>4, SimpleNone DEF SOn
<1>8. SOnce
  BY <1>3, <1>7 DEF SOnce
<1>9. SAll
  <2>1. \A c \in S!Card : \E p \in S!Player : c \in hand[p]
    BY <1>2, <1>3, SPlayers, GamesAssumption, AllDealt DEF GamesAssumption, S!Card
  <2> QED
    BY <1>4, <2>1 DEF SAll
<1>10. SHands
  BY <1>2, <1>4 DEF SHands
<1>11. SWon /\ SShared
  BY <1>1, <1>5, SimpleNone DEF SWon, SShared
<1> QED
  BY <1>6, <1>8, <1>9, <1>10, <1>11 DEF SInv

\* Steps that move no card.
LEMMA SCalm ==
    ASSUME SType, SOnce, SAll, hand' = hand, SGone => SGone',
           \A p \in S!Player : content'[S!ring(p)] = content[S!ring(p)] \/ (content'[S!ring(p)] = <<>> /\ SGone'),
           SGone' \/ \A p \in S!Player : readers'[S!ring(p)] = readers[S!ring(p)]
    PROVE  SOnce' /\ SAll'
<1>1. \A p \in S!Player : SOn(p)' \subseteq SOn(p) /\ Simple(content'[S!ring(p)])
  BY SimpleNone DEF SOn, SOnce
<1>2. SOnce'
  BY <1>1 DEF SOnce
<1>3. SAll'
  <2>1. CASE SGone'
    BY <2>1 DEF SAll
  <2>2. CASE ~SGone'
    BY <2>2 DEF SOn, SAll
  <2> QED
    BY <2>1, <2>2
<1> QED
  BY <1>2, <1>3

\* Process q goes to a place.
LEMMA SGoes ==
    ASSUME SType, NEW q \in 0..Many, NEW place, pc' = [pc EXCEPT ![q] = place]
    PROVE  DOMAIN pc' = 0..Many /\ pc'[q] = place /\ \A p \in 0..Many : p # q => pc'[p] = pc[p]
  BY DEF SType

\* Player q, who has not announced anything, goes on; only its hand may change.
LEMMA SPlays ==
    ASSUME SInv, NEW q \in S!Player, pc[q] \notin {"leave", "ended"}, NEW place, pc' = [pc EXCEPT ![q] = place],
           DOMAIN hand' = S!Player, \A p \in S!Player : p # q => hand'[p] = hand[p],
           hand'[q] \subseteq S!Card, \A p \in S!Player : content'[S!ring(p)] \in Seq(S!Card),
           DOMAIN content' = S!Edges, content'[S!shared] = content[S!shared],
           SOnce', SAll', UNCHANGED <<readers, writers, announced, winner>>,
           place = "draw" => Cardinality(hand'[q]) = Each - 1,
           place \in {"deal", "look", "pass", "won"} => Cardinality(hand'[q]) = Each,
           place = "won" => S!is_winning(hand'[q])
    PROVE  SInv'
<1>1. DOMAIN pc' = 0..Many /\ pc'[q] = place /\ pc'[Many] = pc[Many] /\ \A p \in S!Player : p # q => pc'[p] = pc[p]
  BY SPlayers, SGoes DEF SInv
<1>2. SType'
  BY <1>1 DEF SInv, SType
<1>3. SHands'
  BY <1>1 DEF SInv, SHands
<1>4. q \notin announced
  BY DEF SInv, SWon
<1>5. SWon'
  BY <1>1, <1>4 DEF SInv, SWon
<1>6. SShared'
  BY <1>1 DEF SInv, SShared
<1> QED
  BY <1>2, <1>3, <1>5, <1>6 DEF SInv

\* The same for steps that touch neither hands nor pipes.
LEMMA SPlaysOn ==
    ASSUME SInv, NEW q \in S!Player, pc[q] \notin {"leave", "ended"}, NEW place, pc' = [pc EXCEPT ![q] = place],
           UNCHANGED <<content, readers, writers, hand, announced, winner>>,
           place = "draw" => pc[q] = "draw",
           place \in {"deal", "look", "pass", "won"} => pc[q] \in {"deal", "look", "pass", "won"},
           place = "won" => S!is_winning(hand[q]), place # "ended"
    PROVE  SInv'
<1>1. DOMAIN pc' = 0..Many /\ pc'[q] = place /\ \A p \in S!Player : p # q => pc'[p] = pc[p]
  BY SPlayers, SGoes DEF SInv
<1>2. SGone => SGone'
  BY <1>1 DEF SGone
<1>3. SOnce' /\ SAll'
  BY <1>2, SCalm DEF SInv
<1>4. /\ place = "draw" => Cardinality(hand'[q]) = Each - 1
      /\ place \in {"deal", "look", "pass", "won"} => Cardinality(hand'[q]) = Each
      /\ place = "won" => S!is_winning(hand'[q])
  BY DEF SInv, SHands
<1>5. /\ DOMAIN hand' = S!Player /\ DOMAIN content' = S!Edges /\ hand'[q] \subseteq S!Card
      /\ \A p \in S!Player : content'[S!ring(p)] \in Seq(S!Card)
  BY DEF SInv, SType
<1> QED
  BY <1>3, <1>4, <1>5, SPlays

\* The hand is read; the cards stay where they are.
LEMMA STakeHand == ASSUME NEW p \in S!Player PROVE SInv /\ S!TakeHand(p) => SInv'
<1> SUFFICES ASSUME SInv, S!TakeHand(p) PROVE SInv'
  OBVIOUS
<1>1. pc[p] = "deal" /\ pc' = [pc EXCEPT ![p] = "look"] /\ UNCHANGED <<content, readers, writers, hand, announced, winner>>
  BY DEF S!TakeHand, S!Go, S!pipes
<1> QED
  BY <1>1, SPlaysOn

\* A hand that wins, or one to go on with.
LEMMA SLook == ASSUME NEW p \in S!Player PROVE SInv /\ S!Look(p) => SInv'
<1> SUFFICES ASSUME SInv, S!Look(p) PROVE SInv'
  OBVIOUS
<1>1. pc[p] = "look" /\ UNCHANGED <<content, readers, writers, hand, announced, winner>>
  BY DEF S!Look, S!pipes
<1>2. PICK place \in {"leave", "won", "pass"} : pc' = [pc EXCEPT ![p] = place] /\ (place = "won" => S!is_winning(hand[p]))
  <2> DEFINE place == IF ~keep_running[p] THEN "leave" ELSE IF S!is_winning(hand[p]) THEN "won" ELSE "pass"
  <2>1. pc' = [pc EXCEPT ![p] = place]
    BY DEF S!Look, S!Go
  <2>2. place \in {"leave", "won", "pass"} /\ (place = "won" => S!is_winning(hand[p]))
    OBVIOUS
  <2> HIDE DEF place
  <2> QED
    BY <2>1, <2>2
<1> QED
  BY <1>1, <1>2, SPlaysOn

\* Who has won writes so once, if the server still reads.
LEMMA SAnnounce == ASSUME NEW p \in S!Player PROVE SInv /\ S!Announce(p) => SInv'
<1> SUFFICES ASSUME SInv, S!Announce(p) PROVE SInv'
  OBVIOUS
<1>1. pc[p] = "won" /\ pc' = [pc EXCEPT ![p] = "leave"] /\ UNCHANGED <<readers, writers, hand, winner>>
  BY DEF S!Announce, S!Go
<1>2. CASE S!Broken(S!shared)
  BY <1>1, <1>2, SPlaysOn DEF S!Announce
<1>3. CASE ~S!Broken(S!shared)
  <2>1. content' = [content EXCEPT ![S!shared] = Append(@, p)] /\ announced' = announced \union {p}
    BY <1>3 DEF S!Announce, S!Put
  <2>2. DOMAIN pc' = 0..Many /\ pc'[p] = "leave" /\ pc'[Many] = pc[Many] /\ \A q \in S!Player : q # p => pc'[q] = pc[q]
    BY <1>1, SPlayers, SGoes DEF SInv
  <2>3. content[S!shared] \in Seq(S!Player) /\ DOMAIN content = S!Edges
    BY DEF SInv, SType
  <2>4. /\ content'[S!shared] = Append(content[S!shared], p) /\ DOMAIN content' = S!Edges
        /\ \A q \in S!Player : content'[S!ring(q)] = content[S!ring(q)]
    BY <2>1, <2>3, SPlayers
  <2>5. content'[S!shared] \in Seq(S!Player) /\ content'[S!shared] # <<>>
    BY <2>3, <2>4, AppendProperties
  <2>6. Range(content'[S!shared]) = Range(content[S!shared]) \union {p}
    BY <2>3, <2>4, SimpleAppend
  <2>7. SType'
    BY <1>1, <2>2, <2>4, <2>5 DEF SInv, SType
  <2>8. SOnce' /\ SAll'
    BY <1>1, <2>2, <2>4, SCalm DEF SGone, SInv
  <2>9. SHands'
    BY <1>1, <2>2 DEF SInv, SHands
  <2>10. S!is_winning(hand[p]) /\ Cardinality(hand[p]) = Each
    BY <1>1 DEF SInv, SHands
  <2>11. SWon'
    BY <1>1, <2>1, <2>2, <2>6, <2>10 DEF SInv, SWon
  <2>12. SShared'
    BY <1>1, <1>3, <2>2, <2>5 DEF SInv, SShared, S!Broken
  <2> QED
    BY <2>7, <2>8, <2>9, <2>11, <2>12 DEF SInv
<1> QED
  BY <1>2, <1>3

\* A card leaves the hand for the pipe, if anybody is there to take it.
LEMMA SPass == ASSUME NEW p \in S!Player PROVE SInv /\ S!Pass(p) => SInv'
<1> SUFFICES ASSUME SInv, S!Pass(p) PROVE SInv'
  OBVIOUS
<1>1. pc[p] = "pass" /\ UNCHANGED <<readers, writers, announced, winner>>
  BY DEF S!Pass
<1>2. CASE S!Go(p, "leave") /\ UNCHANGED <<content, hand>>
  BY <1>1, <1>2, SPlaysOn DEF S!Go
<1>3. ASSUME NEW c \in S!Discards(hand[p]), S!Put(S!ring(p), c), hand' = [hand EXCEPT ![p] = @ \ {c}], S!Go(p, "draw") PROVE SInv'
  <2>1. pc' = [pc EXCEPT ![p] = "draw"] /\ content' = [content EXCEPT ![S!ring(p)] = Append(@, c)] /\ c \in hand[p]
    BY <1>3 DEF S!Go, S!Put, S!Discards
  <2>2. /\ DOMAIN hand = S!Player /\ DOMAIN content = S!Edges /\ hand[p] \subseteq S!Card /\ c \in S!Card
        /\ content[S!ring(p)] \in Seq(S!Card) /\ S!ring(p) \in S!Edges
    BY <2>1, SPlayers DEF SInv, SType
  <2>3. DOMAIN hand' = S!Player /\ hand'[p] = hand[p] \ {c} /\ \A q \in S!Player : q # p => hand'[q] = hand[q]
    BY <1>3, <2>2
  <2>4. /\ DOMAIN content' = S!Edges /\ content'[S!ring(p)] = Append(content[S!ring(p)], c) /\ content'[S!shared] = content[S!shared]
        /\ \A q \in S!Player : q # p => content'[S!ring(q)] = content[S!ring(q)]
    BY <2>1, <2>2, SPlayers
  <2>5. (\A q \in S!Player : c \notin SOn(q)) /\ \A q \in S!Player : q # p => c \notin hand[q]
    BY <2>1 DEF SInv, SOnce
  <2>6. SOn(p)' = SOn(p) \union {c} /\ Simple(content'[S!ring(p)])
    BY <2>2, <2>4, <2>5, SimpleAppend DEF SInv, SOnce, SOn
  <2>7. \A q \in S!Player : q # p => SOn(q)' = SOn(q)
    BY <2>4 DEF SOn
  <2>8. SOnce'
    <3>1. \A q \in S!Player : Simple(content'[S!ring(q)])
      BY <2>4, <2>6 DEF SInv, SOnce
    <3>2. ASSUME NEW q \in S!Player, NEW r \in S!Player
          PROVE  /\ q # r => hand'[q] \intersect hand'[r] = {} /\ SOn(q)' \intersect SOn(r)' = {}
                 /\ hand'[q] \intersect SOn(r)' = {}
      <4>1. hand'[q] \subseteq hand[q] /\ c \notin hand'[q] /\ SOn(r)' \subseteq SOn(r) \union {c} /\ SOn(q)' \subseteq SOn(q) \union {c}
        BY <2>3, <2>5, <2>6, <2>7
      <4>2. hand'[r] \subseteq hand[r] /\ (q # r => c \notin SOn(q)' \/ c \notin SOn(r)')
        BY <2>3, <2>5, <2>7
      <4>3. /\ q # r => hand[q] \intersect hand[r] = {} /\ SOn(q) \intersect SOn(r) = {}
            /\ hand[q] \intersect SOn(r) = {}
        BY DEF SInv, SOnce
      <4> QED
        BY <4>1, <4>2, <4>3
    <3> QED
      BY <3>1, <3>2 DEF SOnce
  <2>9. SGone => SGone'
    BY <1>1, <2>1, SPlayers, SGoes DEF SInv, SGone
  <2>10. SAll'
    BY <1>1, <2>3, <2>6, <2>7, <2>9 DEF SInv, SAll
  <2>11. Cardinality(hand'[p]) = Each - 1
    BY <1>1, <2>1, <2>3, SFinite, FS_RemoveElement DEF SInv, SHands
  <2>12. hand'[p] \subseteq S!Card /\ \A q \in S!Player : content'[S!ring(q)] \in Seq(S!Card)
    <3>1. content'[S!ring(p)] \in Seq(S!Card)
      BY <2>2, <2>4, AppendProperties
    <3> QED
      BY <2>2, <2>3, <2>4, <3>1 DEF SInv, SType
  <2> QED
    BY <1>1, <2>1, <2>3, <2>4, <2>8, <2>10, <2>11, <2>12, SPlays
<1> QED
  BY <1>2, <1>3 DEF S!Pass

\* A card leaves the pipe for the hand that waits for it.
LEMMA SDrawCard == ASSUME NEW p \in S!Player PROVE SInv /\ S!DrawCard(p) => SInv'
<1> SUFFICES ASSUME SInv, S!DrawCard(p) PROVE SInv'
  OBVIOUS
<1>1. pc[p] = "draw" /\ UNCHANGED <<readers, writers, announced, winner>>
  BY DEF S!DrawCard
<1>2. CASE S!Go(p, "leave") /\ UNCHANGED <<content, hand>>
  BY <1>1, <1>2, SPlaysOn DEF S!Go
<1>3. PICK from \in S!Player : S!Into(p) = S!ring(from)
  BY SPlayers
<1> DEFINE c == Head(content[S!ring(from)])
<1>4. CASE /\ S!Readable(S!Into(p)) /\ hand' = [hand EXCEPT ![p] = @ \union {Head(content[S!Into(p)])}]
           /\ S!Take(S!Into(p)) /\ S!Go(p, "look")
  <2>1. /\ pc' = [pc EXCEPT ![p] = "look"] /\ content' = [content EXCEPT ![S!ring(from)] = Tail(@)]
        /\ hand' = [hand EXCEPT ![p] = @ \union {c}] /\ content[S!ring(from)] # <<>>
    BY <1>3, <1>4 DEF S!Go, S!Take, S!Readable
  <2>2. /\ DOMAIN hand = S!Player /\ DOMAIN content = S!Edges /\ hand[p] \subseteq S!Card
        /\ content[S!ring(from)] \in Seq(S!Card) /\ S!ring(from) \in S!Edges
    BY <2>1, SPlayers DEF SInv, SType
  <2>3. DOMAIN hand' = S!Player /\ hand'[p] = hand[p] \union {c} /\ \A q \in S!Player : q # p => hand'[q] = hand[q]
    BY <2>1, <2>2
  <2>4. /\ DOMAIN content' = S!Edges /\ content'[S!ring(from)] = Tail(content[S!ring(from)]) /\ content'[S!shared] = content[S!shared]
        /\ \A q \in S!Player : q # from => content'[S!ring(q)] = content[S!ring(q)]
    BY <2>1, <2>2, SPlayers
  <2>5. /\ SOn(from) = SOn(from)' \union {c} /\ c \notin SOn(from)' /\ Simple(content'[S!ring(from)]) /\ c \in S!Card
    BY <2>1, <2>2, <2>4, SimpleTail DEF SInv, SOnce, SOn
  <2> HIDE DEF c
  <2>6. \A q \in S!Player : q # from => SOn(q)' = SOn(q)
    BY <2>4 DEF SOn
  <2>7. (\A q \in S!Player : c \notin hand[q]) /\ \A q \in S!Player : c \notin SOn(q)'
    BY <2>5, <2>6 DEF SInv, SOnce
  <2>8. SOnce'
    <3>1. \A q \in S!Player : Simple(content'[S!ring(q)])
      BY <2>4, <2>5 DEF SInv, SOnce
    <3>2. ASSUME NEW q \in S!Player, NEW r \in S!Player
          PROVE  /\ q # r => hand'[q] \intersect hand'[r] = {} /\ SOn(q)' \intersect SOn(r)' = {}
                 /\ hand'[q] \intersect SOn(r)' = {}
      <4>1. hand'[q] \subseteq hand[q] \union {c} /\ hand'[r] \subseteq hand[r] \union {c} /\ (q # r => c \notin hand'[q] \/ c \notin hand'[r])
        BY <2>3, <2>7
      <4>2. SOn(q)' \subseteq SOn(q) /\ SOn(r)' \subseteq SOn(r) /\ c \notin SOn(r)'
        BY <2>5, <2>6, <2>7
      <4>3. /\ q # r => hand[q] \intersect hand[r] = {} /\ SOn(q) \intersect SOn(r) = {}
            /\ hand[q] \intersect SOn(r) = {}
        BY DEF SInv, SOnce
      <4> QED
        BY <4>1, <4>2, <4>3
    <3> QED
      BY <3>1, <3>2 DEF SOnce
  <2>9. SGone => SGone'
    BY <1>1, <2>1, SPlayers, SGoes DEF SInv, SGone
  <2>10. SAll'
    BY <1>1, <2>3, <2>5, <2>6, <2>9 DEF SInv, SAll
  <2>11. Cardinality(hand'[p]) = Each
    <3>1. Cardinality(hand[p]) = Each - 1 /\ IsFiniteSet(hand[p]) /\ Each \in Nat
      BY <1>1, SFinite, GamesAssumption DEF SInv, SHands, GamesAssumption
    <3>2. Cardinality(hand'[p]) = Cardinality(hand[p]) + 1
      BY <2>3, <2>7, <3>1, FS_AddElement
    <3> QED
      BY <3>1, <3>2
  <2>12. hand'[p] \subseteq S!Card /\ \A q \in S!Player : content'[S!ring(q)] \in Seq(S!Card)
    <3>1. content'[S!ring(from)] \in Seq(S!Card)
      BY <2>1, <2>2, <2>4, HeadTailProperties
    <3> QED
      BY <2>2, <2>3, <2>4, <2>5, <3>1 DEF SInv, SType
  <2> QED
    BY <1>1, <2>1, <2>3, <2>4, <2>8, <2>10, <2>11, <2>12, SPlays
<1> QED
  BY <1>2, <1>4 DEF S!DrawCard

\* What the end of player p leaves in the pipes.
LEMMA SExit ==
    ASSUME SInv, NEW p \in S!Player, S!Exit(p)
    PROVE  /\ DOMAIN content' = S!Edges /\ DOMAIN readers' = S!Edges /\ DOMAIN writers' = S!Edges
           /\ \A e \in S!Edges : content'[e] = content[e] \/ content'[e] = <<>>
           /\ readers'[S!shared] = readers[S!shared]
           /\ readers[S!shared] # {} => content'[S!shared] = content[S!shared]
<1>1. /\ DOMAIN content' = S!Edges /\ DOMAIN readers' = S!Edges /\ DOMAIN writers' = S!Edges
      /\ \A e \in S!Edges : /\ content'[e] = (IF readers'[e] = {} THEN <<>> ELSE content[e])
                            /\ readers'[e] = readers[e] \ {p}
  BY DEF S!Exit, S!Close, SInv, SType
<1>2. S!shared \in S!Edges /\ p \notin readers[S!shared]
  BY SPlayers DEF SInv, SShared
<1> QED
  BY <1>1, <1>2

\* Who leaves takes its hand along; from then on cards may be lost.
LEMMA SLeave == ASSUME NEW p \in S!Player PROVE SInv /\ S!Leave(p) => SInv'
<1> SUFFICES ASSUME SInv, S!Leave(p) PROVE SInv'
  OBVIOUS
<1>1. pc[p] = "leave" /\ pc' = [pc EXCEPT ![p] = "ended"] /\ S!Exit(p) /\ UNCHANGED <<hand, announced, winner>>
  BY DEF S!Leave, S!Go
<1>2. /\ DOMAIN content' = S!Edges /\ DOMAIN readers' = S!Edges /\ DOMAIN writers' = S!Edges
      /\ \A e \in S!Edges : content'[e] = content[e] \/ content'[e] = <<>>
      /\ readers'[S!shared] = readers[S!shared]
      /\ readers[S!shared] # {} => content'[S!shared] = content[S!shared]
  BY <1>1, SExit
<1>3. DOMAIN pc' = 0..Many /\ pc'[p] = "ended" /\ pc'[Many] = pc[Many] /\ \A q \in S!Player : q # p => pc'[q] = pc[q]
  BY <1>1, SPlayers, SGoes DEF SInv
<1>4. S!shared \in S!Edges /\ \A q \in S!Player : S!ring(q) \in S!Edges
  BY SPlayers
<1>5. SGone'
  BY <1>3 DEF SGone
<1>6. SOnce' /\ SAll'
  BY <1>1, <1>2, <1>4, <1>5, SCalm DEF SInv
<1>7. SType'
  <2>1. \A q \in S!Player : content'[S!ring(q)] \in Seq(S!Card)
    <3>1. \A q \in S!Player : content[S!ring(q)] \in Seq(S!Card) /\ <<>> \in Seq(S!Card)
      BY DEF SInv, SType
    <3> QED
      BY <1>2, <1>4, <3>1
  <2>2. content'[S!shared] \in Seq(S!Player)
    <3>1. content[S!shared] \in Seq(S!Player) /\ <<>> \in Seq(S!Player)
      BY DEF SInv, SType
    <3> QED
      BY <1>2, <1>4, <3>1
  <2> QED
    BY <1>1, <1>2, <1>3, <2>1, <2>2 DEF SInv, SType
<1>8. SHands'
  BY <1>1, <1>3 DEF SInv, SHands
<1>9. SWon'
  BY <1>1, <1>2, <1>3, <1>4, SimpleNone DEF SInv, SWon
<1>10. SShared'
  BY <1>1, <1>2, <1>3 DEF SInv, SShared
<1> QED
  BY <1>6, <1>7, <1>8, <1>9, <1>10 DEF SInv

\* A step that changes nothing of the game keeps its invariant.
LEMMA SStutter == SInv /\ UNCHANGED <<content, readers, writers, pc, hand, announced, winner>> => SInv'
<1> SUFFICES ASSUME SInv, UNCHANGED <<content, readers, writers, pc, hand, announced, winner>> PROVE SInv'
  OBVIOUS
<1>1. SType' /\ SHands' /\ SWon' /\ SShared'
  <2>1. SType'
    BY DEF SInv, SType
  <2>2. SHands'
    BY DEF SInv, SHands
  <2>3. SWon' /\ SShared'
    BY DEF SInv, SWon, SShared
  <2> QED
    BY <2>1, <2>2, <2>3
<1>2. SGone => SGone'
  BY DEF SGone
<1> QED
  BY <1>1, <1>2, SCalm DEF SInv

\* The server goes on; the players do not notice.
LEMMA SServes ==
    ASSUME SInv, NEW place, pc' = [pc EXCEPT ![Many] = place], UNCHANGED <<hand, announced>>,
           DOMAIN content' = S!Edges, DOMAIN readers' = S!Edges, DOMAIN writers' = S!Edges,
           \A p \in S!Player : readers'[S!ring(p)] = readers[S!ring(p)],
           \A p \in S!Player : content'[S!ring(p)] = content[S!ring(p)] \/ (content'[S!ring(p)] = <<>> /\ readers[S!ring(p)] = {}),
           content'[S!shared] = content[S!shared] \/ content'[S!shared] = <<>>,
           SShared', winner' \subseteq announced
    PROVE  SInv'
<1>1. DOMAIN pc' = 0..Many /\ \A p \in S!Player : pc'[p] = pc[p]
  BY SPlayers, SGoes DEF SInv
<1>2. SGone' <=> SGone
  BY <1>1 DEF SGone
<1>3. SOnce' /\ SAll'
  BY <1>2, SCalm DEF SInv, SAll
<1>4. SType'
  <2>1. \A q \in S!Player : content'[S!ring(q)] \in Seq(S!Card)
    <3>1. \A q \in S!Player : content[S!ring(q)] \in Seq(S!Card) /\ <<>> \in Seq(S!Card)
      BY DEF SInv, SType
    <3> QED
      BY <3>1
  <2>2. content'[S!shared] \in Seq(S!Player)
    <3>1. content[S!shared] \in Seq(S!Player) /\ <<>> \in Seq(S!Player)
      BY DEF SInv, SType
    <3> QED
      BY <3>1
  <2> QED
    BY <1>1, <2>1, <2>2 DEF SInv, SType
<1>5. SHands'
  BY <1>1 DEF SInv, SHands
<1>6. SWon'
  BY <1>1, SimpleNone DEF SInv, SWon
<1> QED
  BY <1>3, <1>4, <1>5, <1>6 DEF SInv

\* The server deals, and waits in the end.
LEMMA SDeal == SInv /\ (S!Deal \/ S!Wait) => SInv'
<1> SUFFICES ASSUME SInv, S!Deal \/ S!Wait PROVE SInv'
  OBVIOUS
<1>1. UNCHANGED <<content, readers, writers, hand, announced, winner>>
  BY DEF S!Deal, S!Wait, S!pipes
<1>2. PICK place : /\ pc' = [pc EXCEPT ![Many] = place]
                   /\ \/ pc[Many] = "deal" /\ place \in {"deal", "read"}
                      \/ pc[Many] = "wait" /\ place = "ended"
  <2>1. CASE S!Deal
    <3> DEFINE place == IF dealt' = Many THEN "read" ELSE "deal"
    <3>1. pc[Many] = "deal" /\ pc' = [pc EXCEPT ![Many] = place] /\ place \in {"deal", "read"}
      BY <2>1, SPlayers DEF S!Deal, S!Go
    <3> HIDE DEF place
    <3> QED
      BY <3>1
  <2>2. CASE S!Wait
    BY <2>2, SPlayers DEF S!Wait, S!Go
  <2> QED
    BY <2>1, <2>2
<1>3. pc'[Many] = place
  BY <1>2, SPlayers, SGoes DEF SInv
<1>4. SShared'
  BY <1>1, <1>2, <1>3 DEF SInv, SShared
<1>5. DOMAIN content' = S!Edges /\ DOMAIN readers' = S!Edges /\ DOMAIN writers' = S!Edges /\ winner' \subseteq announced
  BY <1>1 DEF SInv, SType, SWon
<1> QED
  BY <1>1, <1>2, <1>4, <1>5, SServes

\* The server reads who won, and closes the shared pipe.
LEMMA SReadWinner == SInv /\ S!ReadWinner => SInv'
<1> SUFFICES ASSUME SInv, S!ReadWinner PROVE SInv'
  OBVIOUS
<1>1. /\ pc[Many] = "read" /\ pc' = [pc EXCEPT ![Many] = "wait"] /\ S!Close(Many, {S!shared}, {})
      /\ winner' = (IF content[S!shared] # <<>> THEN {Head(content[S!shared])} ELSE {}) /\ UNCHANGED <<hand, announced>>
  BY SPlayers DEF S!ReadWinner, S!Go, S!Readable
<1>2. /\ DOMAIN content' = S!Edges /\ DOMAIN readers' = S!Edges /\ DOMAIN writers' = S!Edges
      /\ \A e \in S!Edges : /\ content'[e] = (IF readers'[e] = {} THEN <<>> ELSE content[e])
                            /\ readers'[e] = (IF e = S!shared THEN readers[e] \ {Many} ELSE readers[e])
  BY <1>1 DEF S!Close, SInv, SType
<1>3. readers'[S!shared] = {} /\ content'[S!shared] = <<>>
  BY <1>2, SPlayers DEF SInv, SShared
<1>4. \A p \in S!Player : /\ readers'[S!ring(p)] = readers[S!ring(p)]
                          /\ content'[S!ring(p)] = content[S!ring(p)] \/ (content'[S!ring(p)] = <<>> /\ readers[S!ring(p)] = {})
  BY <1>2, SPlayers
<1>5. pc'[Many] = "wait"
  BY <1>1, SPlayers, SGoes DEF SInv
<1>6. winner' \subseteq announced /\ (winner' = {} => announced = {})
  <2>1. CASE content[S!shared] = <<>>
    BY <1>1, <2>1 DEF SInv, SShared
  <2>2. CASE content[S!shared] # <<>>
    <3>1. content[S!shared] \in Seq(S!Player)
      BY DEF SInv, SType
    <3>2. Head(content[S!shared]) \in Range(content[S!shared])
      BY <2>2, <3>1, SimpleTail
    <3> QED
      BY <1>1, <2>2, <3>2 DEF SInv, SWon
  <2> QED
    BY <2>1, <2>2
<1>7. SShared'
  BY <1>1, <1>3, <1>5, <1>6 DEF SShared
<1> QED
  BY <1>1, <1>2, <1>3, <1>4, <1>6, <1>7, SServes

\* Every step of the ring of cards keeps its invariant.
LEMMA SNext == SInv /\ S!Next => SInv'
<1> SUFFICES ASSUME SInv, S!Next PROVE SInv'
  OBVIOUS
<1>1. ASSUME NEW p \in S!Player, S!Sigint(p) PROVE SInv'
  BY <1>1, SStutter DEF S!Sigint, S!pipes
<1>2. ASSUME NEW q \in 0..Many, S!Act(q) PROVE SInv'
  BY <1>2, SDeal, SReadWinner, STakeHand, SLook, SAnnounce, SPass, SDrawCard, SLeave DEF S!Act
<1> QED
  BY <1>1, <1>2 DEF S!Next

-----------------------------------------------------------------------------
(* TokenRing. *)

\* Who changes a number, who has sent one, and who has left the ring.
THas(p)  == pc[p] = "write"
TSent(p) == content[T!Out(p)] # <<>>
TLeft(p) == pc[p] \in {"leave", "ended", "killed"}

\* What the variables of the ring are: a pipe has one number at most.
TType ==
    /\ DOMAIN pc = T!Proc
    /\ DOMAIN content = {T!Out(p) : p \in T!Proc}
    /\ DOMAIN readers = DOMAIN content /\ DOMAIN writers = DOMAIN content
    /\ \A p \in T!Proc : content[T!Out(p)] = <<>> \/ \E v \in T!Value : content[T!Out(p)] = <<v>>

\* No two processes have a number, none has one that another has sent, and no two have sent one.
TOne ==
    \A p, q \in T!Proc : /\ THas(p) /\ THas(q) => p = q
                         /\ TSent(p) /\ TSent(q) => p = q
                         /\ ~(THas(p) /\ TSent(q))

\* Before the first number is sent there is none, then there is one as long as nobody leaves.
TFirst == \A p \in T!Proc : pc[p] = "send" => p = 0 /\ \A q \in T!Proc : ~THas(q) /\ ~TSent(q)
TThere == pc[0] # "send" => \E p \in T!Proc : THas(p) \/ TSent(p) \/ TLeft(p)

\* The inductive invariant of the ring of numbers.
TInv == TType /\ TOne /\ TFirst /\ TThere

\* Pipes of different processes are different, and who reads a pipe is the next of who writes
\* it.
LEMMA TProcs ==
    /\ 0 \in T!Proc
    /\ \A p, q \in T!Proc : T!Out(p) = T!Out(q) => p = q
    /\ \A p \in T!Proc : \E q \in T!Proc : T!In(p) = T!Out(q)
<1>1. Many \in Nat /\ Many # 0 /\ 0 \in T!Proc /\ T!Proc = 0..(Many - 1)
  BY GamesAssumption DEF GamesAssumption, T!Proc
<1>2. ASSUME NEW p \in T!Proc PROVE \E q \in T!Proc : T!In(p) = T!Out(q)
  <2>1. before(p, Many) \in T!Proc /\ T!In(p) = T!Out(before(p, Many))
    BY <1>1, InRing DEF T!In, T!Out
  <2> QED
    BY <2>1
<1>3. \A p, q \in T!Proc : T!Out(p) = T!Out(q) => p = q
  BY DEF T!Out
<1> QED
  BY <1>1, <1>2, <1>3

\* One number is what the property asks for.
LEMMA TImplies == TInv => T!OneNumber
<1> SUFFICES ASSUME TInv PROVE T!OneNumber
  OBVIOUS
<1> DEFINE changing == {p \in T!Proc : pc[p] = "write"}
           onWay     == {p \in T!Proc : content[T!Out(p)] # <<>>}
<1>1. (\A a, b \in changing : a = b) /\ (\A a, b \in onWay : a = b) /\ (changing = {} \/ onWay = {})
  BY DEF TInv, TOne, THas, TSent
<1>2. \A p \in T!Proc : Len(content[T!Out(p)]) <= 1
  <2> SUFFICES ASSUME NEW p \in T!Proc PROVE Len(content[T!Out(p)]) <= 1
    OBVIOUS
  <2>1. content[T!Out(p)] = <<>> \/ \E v \in T!Value : content[T!Out(p)] = <<v>>
    BY DEF TInv, TType
  <2>2. Len(<<>>) <= 1 /\ \A v \in T!Value : Len(<<v>>) <= 1
    OBVIOUS
  <2> QED
    BY <2>1, <2>2
<1>3. pc[0] # "send" /\ {p \in T!Proc : pc[p] \in {"leave", "ended", "killed"}} = {} => changing # {} \/ onWay # {}
  BY DEF TInv, TThere, THas, TSent, TLeft
<1> HIDE DEF changing, onWay
<1>4. Cardinality(changing) = (IF changing = {} THEN 0 ELSE 1) /\ Cardinality(onWay) = (IF onWay = {} THEN 0 ELSE 1)
  BY <1>1, AtMostOne
<1>5. Cardinality(changing) + Cardinality(onWay) <= 1
  BY <1>1, <1>4
<1>6. changing # {} \/ onWay # {} => Cardinality(changing) + Cardinality(onWay) = 1
  BY <1>1, <1>4
<1>7. \A D : T!Cardinality(D) = Cardinality(D)
  BY DEF T!Cardinality, Cardinality
<1> QED
  BY <1>2, <1>3, <1>5, <1>6, <1>7 DEF T!OneNumber, changing, onWay

\* There is no number yet.
LEMMA TInitially == T!Init => TInv
<1> SUFFICES ASSUME T!Init PROVE TInv
  OBVIOUS
<1> DEFINE E == {T!Out(p) : p \in T!Proc}
<1>1. /\ content = [e \in E |-> <<>>] /\ writers = [e \in E |-> {e[1]}] /\ readers = [e \in E |-> {e[2]}]
      /\ pc = [p \in T!Proc |-> IF p = 0 THEN "send" ELSE "loop"]
  BY DEF T!Init, T!PipesInit
<1>2. \A p \in T!Proc : content[T!Out(p)] = <<>> /\ pc[p] \in {"send", "loop"} /\ (pc[p] = "send" => p = 0)
  BY <1>1
<1>3. DOMAIN content = E /\ DOMAIN readers = E /\ DOMAIN writers = E /\ DOMAIN pc = T!Proc /\ pc[0] = "send"
  BY <1>1, TProcs
<1>4. TType
  BY <1>2, <1>3 DEF TType
<1>5. \A p \in T!Proc : ~THas(p) /\ ~TSent(p)
  BY <1>2 DEF THas, TSent
<1> QED
  BY <1>2, <1>3, <1>4, <1>5 DEF TInv, TOne, TFirst, TThere

\* Steps that make no number.
LEMMA TQuiet ==
    ASSUME TInv, DOMAIN pc' = T!Proc,
           DOMAIN content' = DOMAIN content, DOMAIN readers' = DOMAIN content, DOMAIN writers' = DOMAIN content,
           \A p \in T!Proc : content'[T!Out(p)] = content[T!Out(p)] \/ content'[T!Out(p)] = <<>>,
           \A p \in T!Proc : pc'[p] \in {"write", "send"} => pc'[p] = pc[p],
           \/ \A p \in T!Proc : TLeft(p) => TLeft(p)'
           \/ \E p \in T!Proc : TLeft(p)',
           \/ \A p \in T!Proc : content'[T!Out(p)] = content[T!Out(p)] /\ (THas(p) => THas(p)' \/ TLeft(p)') /\ (pc[p] = "send" <=> pc'[p] = "send")
           \/ \E p \in T!Proc : TLeft(p)'
    PROVE  TInv'
<1>1. TType'
  BY DEF TInv, TType
<1>2. \A p \in T!Proc : (THas(p)' => THas(p)) /\ (TSent(p)' => TSent(p)) /\ (pc'[p] = "send" => pc[p] = "send")
  BY DEF THas, TSent
<1>3. TOne'
  BY <1>2 DEF TInv, TOne
<1>4. TFirst'
  BY <1>2 DEF TInv, TFirst
<1>5. TThere'
  <2>1. CASE \E p \in T!Proc : TLeft(p)'
    BY <2>1 DEF TThere
  <2>2. CASE ~ \E p \in T!Proc : TLeft(p)'
    <3>1. \A p \in T!Proc : ~TLeft(p) /\ content'[T!Out(p)] = content[T!Out(p)] /\ (THas(p) => THas(p)')
                            /\ (pc[p] = "send" <=> pc'[p] = "send")
      BY <2>2
    <3>2. \A p \in T!Proc : TSent(p) => TSent(p)'
      BY <3>1 DEF TSent
    <3>3. pc'[0] # "send" => pc[0] # "send"
      BY <3>1, TProcs
    <3> QED
      BY <3>1, <3>2, <3>3 DEF TInv, TThere
  <2> QED
    BY <2>1, <2>2
<1> QED
  BY <1>1, <1>3, <1>4, <1>5 DEF TInv

\* Steps in which process p gets a number or sends one; nobody else has one.
LEMMA TMoves ==
    ASSUME TInv, NEW p \in T!Proc, NEW q \in T!Proc, NEW place \in {"loop", "write"}, pc' = [pc EXCEPT ![p] = place],
           DOMAIN content' = DOMAIN content, UNCHANGED <<readers, writers>>,
           \A r \in T!Proc : r # p => ~THas(r),
           \A r \in T!Proc : r # q => ~TSent(r) /\ content'[T!Out(r)] = content[T!Out(r)],
           \/ place = "write" /\ content'[T!Out(q)] = <<>>
           \/ place = "loop" /\ \E v \in T!Value : content'[T!Out(q)] = <<v>>,
           \A r \in T!Proc : r # p => pc[r] # "send"
    PROVE  TInv'
<1>1. DOMAIN pc' = T!Proc /\ pc'[p] = place /\ \A r \in T!Proc : r # p => pc'[r] = pc[r]
  BY DEF TInv, TType
<1>2. TType'
  BY <1>1 DEF TInv, TType
<1>3. \A r \in T!Proc : r # p => ~THas(r)'
  BY <1>1 DEF THas
<1>4. \A r \in T!Proc : r # q => ~TSent(r)'
  BY DEF TSent
<1>5. CASE place = "write" /\ content'[T!Out(q)] = <<>>
  <2>1. THas(p)' /\ \A r \in T!Proc : ~TSent(r)'
    BY <1>1, <1>4, <1>5 DEF THas, TSent
  <2>2. \A r \in T!Proc : pc'[r] # "send"
    BY <1>1, <1>5
  <2> QED
    BY <1>2, <1>3, <2>1, <2>2 DEF TInv, TOne, TFirst, TThere
<1>6. CASE place = "loop" /\ \E v \in T!Value : content'[T!Out(q)] = <<v>>
  <2>1. TSent(q)' /\ \A r \in T!Proc : ~THas(r)'
    BY <1>1, <1>3, <1>6 DEF THas, TSent
  <2>2. \A r \in T!Proc : pc'[r] # "send"
    BY <1>1, <1>6
  <2> QED
    BY <1>2, <1>4, <2>1, <2>2 DEF TInv, TOne, TFirst, TThere
<1> QED
  BY <1>5, <1>6

\* What is written is in the pipe of the writer, and nothing else changes.
LEMMA TPut ==
    ASSUME TInv, NEW p \in T!Proc, ~TSent(p), NEW v \in T!Value, T!Put(T!Out(p), v)
    PROVE  /\ content'[T!Out(p)] = <<v>> /\ DOMAIN content' = DOMAIN content
           /\ \A r \in T!Proc : r # p => content'[T!Out(r)] = content[T!Out(r)]
<1>1. T!Out(p) \in DOMAIN content /\ content[T!Out(p)] = <<>> /\ content' = [content EXCEPT ![T!Out(p)] = Append(@, v)]
  BY DEF TInv, TType, TSent, T!Put
<1>2. Append(<<>>, v) = <<v>>
  OBVIOUS
<1>3. \A r \in T!Proc : r # p => T!Out(r) # T!Out(p) /\ T!Out(r) \in DOMAIN content
  BY TProcs DEF TInv, TType
<1> QED
  BY <1>1, <1>2, <1>3

\* The first number is sent when there is none.
LEMMA TSend == ASSUME NEW p \in T!Proc PROVE TInv /\ T!Send(p) => TInv'
<1> SUFFICES ASSUME TInv, T!Send(p) PROVE TInv'
  OBVIOUS
<1>1. pc[p] = "send" /\ UNCHANGED <<readers, writers>> /\ p = 0
  BY DEF T!Send, TInv, TFirst
<1>2. \A r \in T!Proc : ~THas(r) /\ ~TSent(r) /\ (r # p => pc[r] # "send")
  BY <1>1 DEF TInv, TFirst
<1>3. CASE T!Put(T!Out(p), "number") /\ T!Go(p, "loop")
  <2>1. pc' = [pc EXCEPT ![p] = "loop"]
    BY <1>3 DEF T!Go
  <2>2. PICK v \in T!Value : v = "number"
    BY DEF T!Value
  <2>3. /\ content'[T!Out(p)] = <<v>> /\ DOMAIN content' = DOMAIN content
        /\ \A r \in T!Proc : r # p => content'[T!Out(r)] = content[T!Out(r)]
    BY <1>2, <1>3, <2>2, TPut
  <2> QED
    BY <1>1, <1>2, <2>1, <2>3, TMoves
<1>4. CASE pc' = [q \in T!Proc |-> "killed"] /\ UNCHANGED content
  BY <1>1, <1>4, TQuiet DEF TLeft, TInv, TType
<1> QED
  BY <1>3, <1>4 DEF T!Send

\* Process p goes to a place without a number; it does not lose one unless it leaves.
LEMMA TGoes ==
    ASSUME TInv, NEW p \in T!Proc, NEW place, pc' = [pc EXCEPT ![p] = place], place \notin {"write", "send"},
           DOMAIN content' = DOMAIN content, DOMAIN readers' = DOMAIN content, DOMAIN writers' = DOMAIN content,
           \A q \in T!Proc : content'[T!Out(q)] = content[T!Out(q)] \/ content'[T!Out(q)] = <<>>,
           \/ place \in {"leave", "ended"}
           \/ UNCHANGED content /\ pc[p] \notin {"write", "send", "leave", "ended", "killed"}
    PROVE  TInv'
<1>1. DOMAIN pc' = T!Proc /\ pc'[p] = place /\ \A r \in T!Proc : r # p => pc'[r] = pc[r]
  BY DEF TInv, TType
<1>2. CASE place \in {"leave", "ended"}
  BY <1>1, <1>2, TQuiet DEF TLeft
<1>3. CASE UNCHANGED content /\ pc[p] \notin {"write", "send", "leave", "ended", "killed"}
  BY <1>1, <1>3, TQuiet DEF TLeft, THas
<1> QED
  BY <1>2, <1>3

\* A test of last_signal.
LEMMA TLoop == ASSUME NEW p \in T!Proc PROVE TInv /\ T!Loop(p) => TInv'
<1> SUFFICES ASSUME TInv, T!Loop(p) PROVE TInv'
  OBVIOUS
<1>1. pc[p] = "loop" /\ UNCHANGED <<content, readers, writers>>
  BY DEF T!Loop, T!pipes
<1>2. PICK place : pc' = [pc EXCEPT ![p] = place] /\ place \in {"leave", "read"}
  <2> DEFINE place == IF last_signal[p] THEN "leave" ELSE "read"
  <2>1. pc' = [pc EXCEPT ![p] = place] /\ place \in {"leave", "read"}
    BY DEF T!Loop, T!Go
  <2> QED
    BY <2>1
<1>3. DOMAIN readers' = DOMAIN content /\ DOMAIN writers' = DOMAIN content
  BY <1>1 DEF TInv, TType
<1> QED
  BY <1>1, <1>2, <1>3, TGoes

\* A number is taken from the pipe and held, or the process leaves.
LEMMA TRead == ASSUME NEW p \in T!Proc PROVE TInv /\ T!Read(p) => TInv'
<1> SUFFICES ASSUME TInv, T!Read(p) PROVE TInv'
  OBVIOUS
<1>1. pc[p] = "read" /\ UNCHANGED <<readers, writers>>
  BY DEF T!Read
<1>2. DOMAIN readers' = DOMAIN content /\ DOMAIN writers' = DOMAIN content
  BY <1>1 DEF TInv, TType
<1>3. PICK q \in T!Proc : T!In(p) = T!Out(q)
  BY TProcs
<1>4. CASE T!Go(p, "leave") /\ UNCHANGED content
  BY <1>2, <1>4, TGoes DEF T!Go
<1>5. CASE T!Readable(T!In(p)) /\ T!Take(T!In(p)) /\ T!Go(p, IF Head(content[T!In(p)]) = "zero" THEN "leave" ELSE "write")
  <2>1. TSent(q) /\ content' = [content EXCEPT ![T!Out(q)] = Tail(@)] /\ T!Out(q) \in DOMAIN content
    BY <1>3, <1>5 DEF TSent, T!Readable, T!Take, TInv, TType
  <2>2. PICK v \in T!Value : content[T!Out(q)] = <<v>>
    BY <2>1 DEF TInv, TType, TSent
  <2>3. Tail(<<v>>) = <<>>
    OBVIOUS
  <2>4. /\ content'[T!Out(q)] = <<>> /\ DOMAIN content' = DOMAIN content
        /\ \A r \in T!Proc : r # q => content'[T!Out(r)] = content[T!Out(r)]
    BY <2>1, <2>2, <2>3, TProcs DEF TInv, TType
  <2>5. \A r \in T!Proc : ~THas(r) /\ (r # q => ~TSent(r))
    BY <2>1 DEF TInv, TOne
  <2>6. \A r \in T!Proc : pc[r] # "send"
    BY <2>1 DEF TInv, TFirst
  <2>7. CASE Head(content[T!In(p)]) = "zero"
    <3>1. pc' = [pc EXCEPT ![p] = "leave"]
      BY <1>5, <2>7 DEF T!Go
    <3>2. \A r \in T!Proc : content'[T!Out(r)] = content[T!Out(r)] \/ content'[T!Out(r)] = <<>>
      BY <2>4
    <3> QED
      BY <1>2, <2>4, <3>1, <3>2, TGoes
  <2>8. CASE Head(content[T!In(p)]) # "zero"
    <3>1. pc' = [pc EXCEPT ![p] = "write"]
      BY <1>5, <2>8 DEF T!Go
    <3> QED
      BY <1>1, <2>4, <2>5, <2>6, <3>1, TMoves
  <2> QED
    BY <2>7, <2>8
<1> QED
  BY <1>4, <1>5 DEF T!Read

\* The number held is sent on, or its holder leaves as nobody takes it.
LEMMA TWrite == ASSUME NEW p \in T!Proc PROVE TInv /\ T!Write(p) => TInv'
<1> SUFFICES ASSUME TInv, T!Write(p) PROVE TInv'
  OBVIOUS
<1>1. pc[p] = "write" /\ UNCHANGED <<readers, writers>> /\ THas(p)
  BY DEF T!Write, THas
<1>2. DOMAIN readers' = DOMAIN content /\ DOMAIN writers' = DOMAIN content
  BY <1>1 DEF TInv, TType
<1>3. CASE T!Go(p, "leave") /\ UNCHANGED content
  BY <1>2, <1>3, TGoes DEF T!Go
<1>4. ASSUME NEW v \in T!Value, T!Put(T!Out(p), v), T!Go(p, "loop") PROVE TInv'
  <2>1. pc' = [pc EXCEPT ![p] = "loop"]
    BY <1>4 DEF T!Go
  <2>2. \A r \in T!Proc : ~TSent(r) /\ (r # p => ~THas(r)) /\ pc[r] # "send"
    BY <1>1 DEF TInv, TOne, TFirst
  <2>3. /\ content'[T!Out(p)] = <<v>> /\ DOMAIN content' = DOMAIN content
        /\ \A r \in T!Proc : r # p => content'[T!Out(r)] = content[T!Out(r)]
    BY <1>4, <2>2, TPut
  <2> QED
    BY <1>1, <2>1, <2>2, <2>3, TMoves
<1> QED
  BY <1>3, <1>4 DEF T!Write

\* What the end of a process leaves in the pipes.
LEMMA TExit ==
    ASSUME TInv, NEW q, T!Exit(q)
    PROVE  /\ DOMAIN content' = DOMAIN content /\ DOMAIN readers' = DOMAIN content /\ DOMAIN writers' = DOMAIN content
           /\ \A p \in T!Proc : content'[T!Out(p)] = content[T!Out(p)] \/ content'[T!Out(p)] = <<>>
  BY DEF TInv, TType, T!Exit, T!Close

\* Who leaves has no number.
LEMMA TLeave == ASSUME NEW p \in T!Proc PROVE TInv /\ T!Leave(p) => TInv'
<1> SUFFICES ASSUME TInv, T!Leave(p) PROVE TInv'
  OBVIOUS
<1>1. T!Exit(p) /\ pc' = [pc EXCEPT ![p] = "ended"]
  BY DEF T!Leave, T!Go
<1> QED
  BY <1>1, TExit, TGoes

\* A step that changes nothing of the ring keeps its invariant.
LEMMA TStutter == TInv /\ UNCHANGED <<content, readers, writers, pc>> => TInv'
  BY DEF TInv, TType, TOne, TFirst, TThere, THas, TSent, TLeft

\* SIGINT makes a process leave, at a place where it has no number.
LEMMA TSigint == ASSUME NEW p \in T!Proc PROVE TInv /\ T!Sigint(p) => TInv'
<1> SUFFICES ASSUME TInv, T!Sigint(p) PROVE TInv'
  OBVIOUS
<1>1. UNCHANGED <<content, readers, writers>> /\ (UNCHANGED pc \/ pc' = [pc EXCEPT ![p] = "leave"])
  BY DEF T!Sigint, T!pipes, T!Go
<1>2. DOMAIN readers' = DOMAIN content /\ DOMAIN writers' = DOMAIN content
  BY <1>1 DEF TInv, TType
<1> QED
  BY <1>1, <1>2, TGoes, TStutter

\* Every step of the ring keeps its invariant.
LEMMA TNext == TInv /\ T!Next => TInv'
<1> SUFFICES ASSUME TInv, T!Next PROVE TInv'
  OBVIOUS
<1>1. PICK p \in T!Proc : T!Act(p) \/ T!Sigint(p)
  BY DEF T!Next
<1> QED
  BY <1>1, TSend, TLoop, TRead, TWrite, TLeave, TSigint DEF T!Act

-----------------------------------------------------------------------------
(* Knights. *)

\* The dead have left; who has not left is an enemy whose pipe is still written to.
KDead    == \A k \in dead : k \in K!Knight /\ pc[k] = "ended"
KEnemies == \A k \in K!Knight : \A e \in K!Enemy(k) : pc[e] # "ended" => e \in enemies[k]

\* The inductive invariant of the battle.
KInv == /\ DOMAIN pc = 0..Many /\ DOMAIN enemies = K!Knight
        /\ KDead /\ KEnemies /\ K!OneSideLeft

\* Enmity is mutual, and the parent is no knight.
LEMMA KKnights ==
    /\ K!Knight \subseteq 0..Many /\ Many \notin K!Knight
    /\ \A k \in K!Knight : \A e \in K!Enemy(k) : e \in K!Knight /\ k \in K!Enemy(e)
  BY GamesAssumption DEF GamesAssumption, K!Knight, K!Enemy

\* Everybody is there, and an enemy of all of the other side.
LEMMA KInitially == K!Init => KInv
<1> SUFFICES ASSUME K!Init PROVE KInv
  OBVIOUS
<1> QED
  BY KKnights DEF K!Init, KInv, KDead, KEnemies, K!OneSideLeft

\* Nobody is left of the enemies of one who lives, when none of them has him as an enemy.
LEMMA KAlone ==
    ASSUME KInv, NEW k \in K!Knight, pc[k] # "ended",
           \A e \in K!Enemy(k) : pc[e] # "ended" => k \notin enemies[e]
    PROVE  K!Enemy(k) \subseteq dead
<1> SUFFICES ASSUME NEW e \in K!Enemy(k), e \notin dead PROVE FALSE
  OBVIOUS
<1>1. e \in K!Knight /\ k \in K!Enemy(e)
  BY KKnights
<1>2. pc[e] = "ended"
  BY <1>1 DEF KInv, KEnemies
<1>3. k \in dead
  BY <1>1, <1>2 DEF KInv, K!OneSideLeft
<1> QED
  BY <1>3 DEF KInv, KDead

\* Somebody goes on, with nothing that he should still strike forgotten.
LEMMA KGoesOn ==
    ASSUME KInv, NEW q \in 0..Many, NEW place, pc' = [pc EXCEPT ![q] = place], pc[q] # "ended",
           place = "ended" => (q \in K!Knight => q \in dead' \/ K!Enemy(q) \subseteq dead),
           dead' = dead \/ (dead' = dead \union {q} /\ q \in K!Knight /\ place = "ended"),
           DOMAIN enemies' = K!Knight,
           \A k \in K!Knight : \A e \in enemies[k] : e \in enemies'[k] \/ pc[e] = "ended" \/ e \notin K!Knight
    PROVE  KInv'
<1>1. DOMAIN pc' = 0..Many /\ pc'[q] = place /\ \A r \in 0..Many : r # q => pc'[r] = pc[r]
  BY DEF KInv
<1>2. KDead'
  BY <1>1, KKnights DEF KInv, KDead
<1>3. KEnemies'
  <2> SUFFICES ASSUME NEW k \in K!Knight, NEW e \in K!Enemy(k), pc'[e] # "ended" PROVE e \in enemies'[k]
    BY DEF KEnemies
  <2>1. e \in K!Knight /\ e \in 0..Many
    BY KKnights
  <2>2. pc[e] # "ended"
    BY <1>1, <2>1
  <2>3. e \in enemies[k]
    BY <2>2 DEF KInv, KEnemies
  <2> QED
    BY <2>1, <2>2, <2>3
<1>4. K!OneSideLeft'
  <2> SUFFICES ASSUME NEW k \in K!Knight, pc'[k] = "ended", k \notin dead' PROVE K!Enemy(k) \subseteq dead'
    BY DEF K!OneSideLeft
  <2>1. CASE k = q
    BY <2>1, <1>1
  <2>2. CASE k # q
    BY <1>1, <2>2, KKnights DEF KInv, K!OneSideLeft
  <2> QED
    BY <2>1, <2>2
<1> QED
  BY <1>1, <1>2, <1>3, <1>4 DEF KInv

\* The inherited ends are closed.
LEMMA KSetUp == ASSUME NEW q \in 0..Many PROVE KInv /\ K!SetUp(q) => KInv'
<1> SUFFICES ASSUME KInv, K!SetUp(q) PROVE KInv'
  OBVIOUS
<1>1. PICK place : pc' = [pc EXCEPT ![q] = place] /\ place # "ended"
  <2> DEFINE place == IF q = K!Parent THEN "wait" ELSE "read"
  <2>1. pc' = [pc EXCEPT ![q] = place] /\ place # "ended"
    BY DEF K!SetUp, K!Go
  <2> QED
    BY <2>1
<1>2. pc[q] # "ended" /\ UNCHANGED <<enemies, dead>> /\ DOMAIN enemies' = K!Knight
  BY DEF K!SetUp, KInv
<1> QED
  BY <1>1, <1>2, KGoesOn

\* A knight that dies has the end of its pipe closed; one that finds no enemies is right.
LEMMA KReadBlows == ASSUME NEW q \in K!Knight PROVE KInv /\ K!ReadBlows(q) => KInv'
<1> SUFFICES ASSUME KInv, K!ReadBlows(q) PROVE KInv'
  OBVIOUS
<1>1. q \in 0..Many /\ pc[q] = "read" /\ enemies' = enemies /\ DOMAIN enemies' = K!Knight
  BY KKnights DEF K!ReadBlows, KInv
<1>2. CASE K!Go(q, "ended") /\ dead' = dead \union {q}
  BY <1>1, <1>2, KGoesOn DEF K!Go
<1>3. CASE K!Go(q, IF K!Writers(q) = {} THEN "ended" ELSE "strike") /\ UNCHANGED dead
  <2>1. CASE K!Writers(q) = {}
    <3>1. pc' = [pc EXCEPT ![q] = "ended"]
      BY <1>3, <2>1 DEF K!Go
    <3>2. K!Enemy(q) \subseteq dead
      BY <1>1, <2>1, KKnights, KAlone DEF K!Writers
    <3> QED
      BY <1>1, <1>3, <3>1, <3>2, KGoesOn
  <2>2. CASE K!Writers(q) # {}
    BY <1>1, <1>3, <2>2, KGoesOn DEF K!Go
  <2> QED
    BY <2>1, <2>2
<1> QED
  BY <1>2, <1>3 DEF K!ReadBlows

\* An enemy whose pipe has no reader is gone.
LEMMA KStrike == ASSUME NEW q \in K!Knight, NEW e \in K!Enemy(q), NEW damage PROVE KInv /\ K!Strike(q, e, damage) => KInv'
<1> SUFFICES ASSUME KInv, K!Strike(q, e, damage) PROVE KInv'
  OBVIOUS
<1>1. q \in 0..Many /\ pc[q] = "strike" /\ dead' = dead /\ e \in K!Knight
  BY KKnights DEF K!Strike
<1>2. CASE K!Readers(e) = {}
  <2>1. /\ enemies' = [enemies EXCEPT ![q] = @ \ {e}]
        /\ pc' = [pc EXCEPT ![q] = IF enemies[q] = {e} THEN "ended" ELSE "strike"]
    BY <1>2 DEF K!Strike, K!Go
  <2>2. pc[e] = "ended"
    BY <1>1, <1>2, KKnights DEF K!Readers
  <2>3. DOMAIN enemies' = K!Knight /\ \A k \in K!Knight : \A x \in enemies[k] : x \in enemies'[k] \/ pc[x] = "ended"
    BY <2>1, <2>2 DEF KInv
  <2>4. CASE enemies[q] = {e}
    <3>1. pc' = [pc EXCEPT ![q] = "ended"]
      BY <2>1, <2>4
    <3>2. \A x \in K!Enemy(q) : pc[x] = "ended"
      BY <2>2, <2>4 DEF KInv, KEnemies
    <3>3. K!Enemy(q) \subseteq dead
      BY <1>1, <3>2, KAlone
    <3> QED
      BY <1>1, <2>3, <3>1, <3>3, KGoesOn
  <2>5. CASE enemies[q] # {e}
    BY <1>1, <2>1, <2>3, <2>5, KGoesOn
  <2> QED
    BY <2>4, <2>5
<1>3. CASE K!Readers(e) # {}
  BY <1>1, <1>3, KGoesOn DEF K!Strike, K!Go, KInv
<1> QED
  BY <1>2, <1>3

\* The parent waits.
LEMMA KWait == KInv /\ K!Wait => KInv'
<1> SUFFICES ASSUME KInv, K!Wait PROVE KInv'
  OBVIOUS
<1>1. /\ Many \in 0..Many /\ Many \notin K!Knight /\ pc[Many] = "wait" /\ pc' = [pc EXCEPT ![Many] = "ended"]
      /\ UNCHANGED <<enemies, dead>> /\ DOMAIN enemies' = K!Knight
  BY KKnights, GamesAssumption DEF GamesAssumption, K!Wait, K!Go, K!Parent, KInv
<1> QED
  BY <1>1, KGoesOn

\* Every step of the battle keeps its invariant.
LEMMA KNext == KInv /\ K!Next => KInv'
<1> SUFFICES ASSUME KInv, K!Next PROVE KInv'
  OBVIOUS
<1>1. PICK q \in 0..Many : K!Act(q)
  BY DEF K!Next
<1>2. CASE q \in K!Knight /\ \E e \in K!Enemy(q), damage \in 0..Attack : K!Strike(q, e, damage)
  BY <1>2, KStrike
<1> QED
  BY <1>1, <1>2, KSetUp, KReadBlows, KWait DEF K!Act

\* As does a step that changes nothing of it.
LEMMA KStutter == KInv /\ UNCHANGED <<pc, enemies, dead>> => KInv'
  BY DEF KInv, KDead, KEnemies, K!OneSideLeft

-----------------------------------------------------------------------------
(* Factory. *)

\* What may be in a pipe of the factory.
FMsg == {Letters[i] : i \in DOMAIN Letters} \union {"letter"}

\* What the variables of the factory are.
FType ==
    /\ DOMAIN content = F!Edges /\ DOMAIN readers = F!Edges /\ DOMAIN writers = F!Edges
    /\ \A e \in F!Edges : content[e] \in Seq(FMsg)
    /\ DOMAIN pc = F!Worker \union {Boss} /\ DOMAIN items = F!Worker /\ DOMAIN keep_running = F!Worker
    /\ \A w \in F!Worker : items[w] \in Nat
    /\ written \in Nat /\ sessions \in Nat

\* SIGINT has come to nobody.
FRunning == \A w \in F!Worker : keep_running[w]

\* A worker holds its ends of the pipes until it has reported.
FEnds ==
    /\ \A e \in F!Edges : readers[e] = {} => content[e] = <<>>
    /\ readers["fifo"] \subseteq First
    /\ \A e \in F!Edges : \A w \in readers[e] : w \in F!Worker /\ pc[w] # "ended"
    /\ \A w \in First  : pc[w] # "ended" => w \in writers["pipe12"]
    /\ \A w \in Second : pc[w] # "ended" => w \in readers["pipe12"]
    /\ \A w \in F!Worker : pc[w] = "ended" => w \in reports
    /\ pc[Boss] = "ended" => \A w \in F!Worker : pc[w] = "ended"

\* The second brigade ends when the first has ended and all it passed on is read.
FPassed ==
    /\ F!Sum(First) = F!Sum(Second) + F!Busy(Second) + Len(content["pipe12"])
    /\ \A w \in Second : pc[w] \in {"report", "ended"} =>
           content["pipe12"] = <<>> /\ \A v \in First : pc[v] = "ended"

\* The first brigade ends when nothing is left in the FIFO and nobody writes; what is in it
\* is what was written last.
FGone == written - Len(content["fifo"])
FRead ==
    /\ writers["fifo"] # {} => sessions # 0
    /\ \A w \in First : /\ pc[w] \notin {"start", "opening"} => sessions # 0
                        /\ pc[w] \in {"report", "ended"} => writers["fifo"] = {} /\ content["fifo"] = <<>>
    /\ Len(content["fifo"]) <= written
    /\ \A j \in 1..Len(content["fifo"]) : content["fifo"][j] = Letters[FGone + j]
    /\ FGone = F!Sum(First) + F!Busy(First) + F!Skipped(FGone)

\* The inductive invariant of the factory as long as SIGINT has come to nobody.  What the
\* first brigade reads is right for one session: what is written between two is lost.
FFlow == FEnds /\ FPassed /\ (sessions <= 1 => FRead)
FInv  == FType /\ (FRunning => FFlow)

\* The brigades are different workers, none of them the boss.
LEMMA FWorkers ==
    /\ IsFiniteSet(First) /\ IsFiniteSet(Second) /\ Second # {}
    /\ First \subseteq F!Worker /\ Second \subseteq F!Worker /\ Third \subseteq F!Worker
    /\ F!Worker = First \union Second \union Third
    /\ First \intersect Second = {} /\ Boss \notin F!Worker
    /\ \A w \in Third : w \notin First /\ w \notin Second
    /\ F!Edges = {"fifo", "pipe12", "pipe23"} /\ F!fifo = "fifo" /\ F!pipe12 = "pipe12" /\ F!pipe23 = "pipe23"
  BY GamesAssumption DEF GamesAssumption, F!Worker, F!Edges, F!fifo, F!pipe12, F!pipe23

\* What is written to the FIFO is a letter, or what is none.
LEMMA FLetters == \A i \in DOMAIN Letters : Letters[i] \in FMsg
  BY DEF FMsg

\* The letters are numbered.
LEMMA FLettersLen == DOMAIN Letters = 1..Len(Letters) /\ Len(Letters) \in Nat
  BY GamesAssumption, LenProperties DEF GamesAssumption

\* What the property sums up is SumOver.
LEMMA FSum == \A D : F!Sum(D) = SumOver(items, D)
  BY DEF F!Sum, SumOver, F!MapThenFoldSet, MapThenFoldSet

\* What a brigade reports changes by what one of it does.
LEMMA FSumChange ==
    ASSUME FType, NEW D \in SUBSET F!Worker, IsFiniteSet(D), NEW w \in F!Worker, NEW d \in Int,
           items'[w] = items[w] + d, \A v \in F!Worker : v # w => items'[v] = items[v]
    PROVE  F!Sum(D) \in Int /\ F!Sum(D)' = F!Sum(D) + (IF w \in D THEN d ELSE 0)
<1>1. /\ \A v \in D : items[v] \in Int
      /\ \A v \in D : items'[v] \in Int
  BY DEF FType
<1>2. F!Sum(D) = SumOver(items, D)
  BY FSum
<1>3. F!Sum(D)' = SumOver(items', D)
  BY DEF F!Sum, SumOver, F!MapThenFoldSet, MapThenFoldSet
<1>4. SumOver(items, D) \in Int
  BY <1>1, SumType
<1>5. CASE w \in D
  <2>1. \A v \in D \ {w} : items'[v] = items[v]
    OBVIOUS
  <2>2. SumOver(items', D) = SumOver(items, D) + d
    BY <1>1, <1>5, <2>1, SumChange
  <2> QED
    BY <1>2, <1>3, <1>4, <1>5, <2>2
<1>6. CASE w \notin D
  <2>1. \A v \in D : items'[v] = items[v]
    BY <1>6
  <2>2. SumOver(items', D) = SumOver(items, D)
    BY <1>1, <2>1, SumSame
  <2> QED
    BY <1>2, <1>3, <1>4, <1>6, <2>2
<1> QED
  BY <1>5, <1>6

\* Counts that stay have the same sum.
LEMMA FSumKept ==
    ASSUME FType, NEW D \in SUBSET F!Worker, IsFiniteSet(D), \A v \in F!Worker : items'[v] = items[v]
    PROVE  F!Sum(D) \in Int /\ F!Sum(D)' = F!Sum(D)
<1>1. (\A v \in D : items[v] \in Int) /\ \A v \in D : items'[v] = items[v]
  BY DEF FType
<1>2. F!Sum(D) = SumOver(items, D)
  BY FSum
<1>3. F!Sum(D)' = SumOver(items', D)
  BY DEF F!Sum, SumOver, F!MapThenFoldSet, MapThenFoldSet
<1> QED
  BY <1>1, <1>2, <1>3, SumSame, SumType

\* So does the number of those that have a letter in hand.
LEMMA FBusyChange ==
    ASSUME NEW D, IsFiniteSet(D), NEW w,
           \A v \in D : v # w => (pc'[v] = "write" <=> pc[v] = "write")
    PROVE  /\ F!Busy(D) \in Nat
           /\ w \in D /\ pc[w] # "write" /\ pc'[w] = "write" => F!Busy(D)' = F!Busy(D) + 1
           /\ w \in D /\ pc[w] = "write" /\ pc'[w] # "write" => F!Busy(D)' = F!Busy(D) - 1
           /\ w \notin D \/ (pc[w] = "write" <=> pc'[w] = "write") => F!Busy(D)' = F!Busy(D)
<1> DEFINE old == {v \in D : pc[v] = "write"}
           new == {v \in D : pc'[v] = "write"}
<1>1. IsFiniteSet(old) /\ IsFiniteSet(new) /\ Cardinality(old) \in Nat
  BY FS_Subset, FS_CardinalityType
<1>2. F!Busy(D) = Cardinality(old) /\ F!Busy(D)' = Cardinality(new)
  BY DEF F!Busy, F!Cardinality, Cardinality
<1>3. CASE w \in D /\ pc[w] # "write" /\ pc'[w] = "write"
  <2>1. new = old \union {w} /\ w \notin old
    BY <1>3
  <2>2. Cardinality(new) = Cardinality(old) + 1
    BY <1>1, <2>1, FS_AddElement
  <2> QED
    BY <1>1, <1>2, <1>3, <2>2
<1>4. CASE w \in D /\ pc[w] = "write" /\ pc'[w] # "write"
  <2>1. new = old \ {w} /\ w \in old
    BY <1>4
  <2>2. Cardinality(new) = Cardinality(old) - 1
    BY <1>1, <2>1, FS_RemoveElement
  <2> QED
    BY <1>1, <1>2, <1>4, <2>2
<1>5. CASE w \notin D \/ (pc[w] = "write" <=> pc'[w] = "write")
  BY <1>1, <1>2, <1>5
<1> QED
  BY <1>1, <1>2, <1>3, <1>4, <1>5

\* Workers that go on writing, or not, are as many.
LEMMA FBusyKept ==
    ASSUME NEW D, IsFiniteSet(D), \A v \in D : pc'[v] = "write" <=> pc[v] = "write"
    PROVE  F!Busy(D)' = F!Busy(D) /\ F!Busy(D) \in Nat
<1> DEFINE old == {v \in D : pc[v] = "write"}
<1>1. IsFiniteSet(old) /\ Cardinality(old) \in Nat
  BY FS_Subset, FS_CardinalityType
<1>2. old = {v \in D : pc'[v] = "write"}
  OBVIOUS
<1> QED
  BY <1>1, <1>2 DEF F!Busy, F!Cardinality, Cardinality

\* Of n + 1 letters one more is no letter than of n, if the last is none.
LEMMA FSkipped ==
    ASSUME NEW n \in Nat
    PROVE  /\ F!Skipped(n) \in Nat /\ F!Skipped(0) = 0
           /\ F!Skipped(n + 1) = F!Skipped(n) + (IF Letters[n + 1] = "?" THEN 1 ELSE 0)
<1> DEFINE Which(k) == {i \in 1..k : Letters[i] = "?"}
<1>1. \A k : F!Skipped(k) = Cardinality(Which(k))
  BY DEF F!Skipped, F!Cardinality, Cardinality
<1>2. IsFiniteSet(Which(n)) /\ Cardinality(Which(n)) \in Nat
  <2>1. IsFiniteSet(1..n)
    BY FS_Interval
  <2> QED
    BY <2>1, FS_Subset, FS_CardinalityType
<1>3. Cardinality(Which(0)) = 0
  BY FS_EmptySet
<1>4. CASE Letters[n + 1] = "?"
  <2>1. Which(n + 1) = Which(n) \union {n + 1} /\ n + 1 \notin Which(n)
    BY <1>4
  <2>2. Cardinality(Which(n + 1)) = Cardinality(Which(n)) + 1
    BY <1>2, <2>1, FS_AddElement
  <2> QED
    BY <1>1, <1>2, <1>3, <1>4, <2>2
<1>5. CASE Letters[n + 1] # "?"
  BY <1>1, <1>2, <1>3, <1>5
<1> QED
  BY <1>4, <1>5

\* The flow of the letters is what the property asks for.
LEMMA FImplies == FInv => F!ReportsBalance
<1> SUFFICES ASSUME FInv, FRunning
             PROVE /\ F!Sum(First) = F!Sum(Second) + F!Busy(Second) + Len(content["pipe12"])
                   /\ \A w \in F!Worker : pc[w] = "ended" => w \in reports
                   /\ pc[Boss] = "ended" =>
                        /\ content["pipe12"] = <<>> /\ content["pipe23"] = <<>>
                        /\ sessions <= 1 => F!Sum(First) + F!Skipped(written) + Len(content["fifo"]) = written
  BY FWorkers DEF F!ReportsBalance, FRunning
<1>1. FType /\ FFlow
  BY DEF FInv
<1>2. ASSUME pc[Boss] = "ended"
      PROVE  /\ \A e \in F!Edges : content[e] = <<>>
             /\ \A w \in F!Worker : pc[w] = "ended"
  BY <1>1, <1>2 DEF FFlow, FEnds
<1>3. ASSUME pc[Boss] = "ended", sessions <= 1
      PROVE  F!Sum(First) + F!Skipped(written) + Len(content["fifo"]) = written
  <2>1. Len(content["fifo"]) = 0
    BY <1>2, <1>3, FWorkers
  <2>2. FGone = written
    BY <2>1, <1>1 DEF FGone, FType
  <2>3. F!Busy(First) = 0
    <3>1. {w \in First : pc[w] = "write"} = {}
      BY <1>2, <1>3, FWorkers
    <3> QED
      BY <3>1, FS_EmptySet DEF F!Busy, F!Cardinality, Cardinality
  <2>4. F!Sum(First) \in Int
    BY <1>1, FWorkers, FSum, SumType DEF FType
  <2>5. F!Skipped(written) \in Nat /\ written \in Nat
    BY <1>1, FSkipped DEF FType
  <2>6. written = F!Sum(First) + F!Busy(First) + F!Skipped(written)
    BY <1>1, <1>3, <2>2 DEF FFlow, FRead
  <2> QED
    BY <2>1, <2>3, <2>4, <2>5, <2>6
<1> QED
  BY <1>1, <1>2, <1>3, FWorkers DEF FFlow, FEnds, FPassed

\* No letters anywhere.
LEMMA FInitially == F!Init => FInv
<1> SUFFICES ASSUME F!Init PROVE FInv
  OBVIOUS
<1>1. /\ content = [e \in F!Edges |-> <<>>]
      /\ DOMAIN readers = F!Edges /\ DOMAIN writers = F!Edges
      /\ readers["fifo"] = {} /\ readers["pipe12"] = Second /\ readers["pipe23"] = Third
      /\ writers["fifo"] = {} /\ writers["pipe12"] = First
  BY FWorkers DEF F!Init
<1>2. /\ DOMAIN pc = F!Worker \union {Boss} /\ pc[Boss] = "wait"
      /\ (\A w \in First : pc[w] = "start") /\ \A w \in Second \union Third : pc[w] = "loop"
  BY FWorkers DEF F!Init
<1>3. /\ keep_running = [w \in F!Worker |-> TRUE] /\ items = [w \in F!Worker |-> 0]
      /\ written = 0 /\ sessions = 0
  BY DEF F!Init
<1>4. \A e \in F!Edges : content[e] = <<>>
  BY <1>1
<1>5. FType
  BY <1>1, <1>2, <1>3, <1>4 DEF FType
<1>6. FEnds
  BY <1>1, <1>2, <1>4, FWorkers DEF FEnds
<1>7. \A D \in SUBSET F!Worker : IsFiniteSet(D) => F!Sum(D) = 0
  <2> SUFFICES ASSUME NEW D \in SUBSET F!Worker, IsFiniteSet(D) PROVE F!Sum(D) = 0
    OBVIOUS
  <2>1. \A w \in D : items[w] \in Int /\ items[w] = 0
    BY <1>3
  <2> QED
    BY <2>1, SumZero, FSum
<1>8. \A D : (\A w \in D : pc[w] # "write") => F!Busy(D) = 0
  <2> SUFFICES ASSUME NEW D, \A w \in D : pc[w] # "write" PROVE F!Busy(D) = 0
    OBVIOUS
  <2>1. {w \in D : pc[w] = "write"} = {}
    OBVIOUS
  <2> QED
    BY <2>1, FS_EmptySet DEF F!Busy, F!Cardinality, Cardinality
<1>9. F!Sum(First) = 0 /\ F!Sum(Second) = 0 /\ F!Busy(First) = 0 /\ F!Busy(Second) = 0
  BY <1>2, <1>7, <1>8, FWorkers
<1>10. Len(content["pipe12"]) = 0 /\ Len(content["fifo"]) = 0
  BY <1>4, FWorkers
<1>11. FPassed
  BY <1>2, <1>9, <1>10 DEF FPassed
<1>12. FRead
  <2>1. FGone = 0 /\ F!Skipped(0) = 0
    BY <1>3, <1>10, FSkipped DEF FGone
  <2> QED
    BY <1>1, <1>2, <1>3, <1>9, <1>10, <2>1 DEF FRead
<1> QED
  BY <1>5, <1>6, <1>11, <1>12 DEF FInv, FFlow

\* A step that changes nothing of the factory keeps its invariant.
LEMMA FStutter ==
    FInv /\ UNCHANGED <<content, readers, writers, pc, keep_running, items, written, sessions, reports>> => FInv'
<1> SUFFICES ASSUME FInv, UNCHANGED <<content, readers, writers, pc, keep_running, items, written, sessions, reports>>
             PROVE FInv'
  OBVIOUS
<1>1. FType'
  BY DEF FInv, FType
<1>2. FRunning' <=> FRunning
  BY DEF FRunning
<1>3. /\ F!Sum(First)' = F!Sum(First) /\ F!Sum(Second)' = F!Sum(Second)
      /\ F!Busy(First)' = F!Busy(First) /\ F!Busy(Second)' = F!Busy(Second)
  BY FSumKept, FBusyKept, FWorkers DEF FInv
<1>4. FGone' = FGone /\ F!Skipped(FGone)' = F!Skipped(FGone)
  BY DEF FGone, F!Skipped
<1>5. FEnds => FEnds'
  BY DEF FEnds
<1>6. FPassed => FPassed'
  BY <1>3 DEF FPassed
<1>7. FRead => FRead'
  BY <1>3, <1>4 DEF FRead
<1> QED
  BY <1>1, <1>2, <1>5, <1>6, <1>7 DEF FInv, FFlow

\* Somebody goes from one place to another, and touches nothing else.
LEMMA FMoves ==
    ASSUME FInv, NEW q \in F!Worker \union {Boss}, NEW place, pc' = [pc EXCEPT ![q] = place],
           UNCHANGED <<content, readers, writers, keep_running, items, written, sessions, reports>>,
           pc[q] # "write", place # "write",
           place = "ended" => q = Boss /\ \A w \in F!Worker : pc[w] = "ended",
           FRunning /\ q \in F!Worker /\ place = "report" => content[F!From(q)] = <<>> /\ writers[F!From(q)] = {},
           q \in F!Worker => pc[q] \notin {"start", "opening", "ended"}
    PROVE  FInv'
<1>1. DOMAIN pc' = F!Worker \union {Boss} /\ pc'[q] = place /\ \A r \in F!Worker \union {Boss} : r # q => pc'[r] = pc[r]
  BY DEF FInv, FType
<1>2. FType'
  BY <1>1 DEF FInv, FType
<1>3. SUFFICES ASSUME FRunning' PROVE FFlow'
  BY <1>2 DEF FInv
<1>4. FRunning /\ FFlow
  BY <1>3 DEF FInv, FRunning
<1>5. FEnds'
  BY <1>1, <1>4, FWorkers DEF FFlow, FEnds
<1>6. F!Sum(First)' = F!Sum(First) /\ F!Sum(Second)' = F!Sum(Second) /\ F!Busy(First)' = F!Busy(First) /\ F!Busy(Second)' = F!Busy(Second)
  BY <1>1, FWorkers, FSumKept, FBusyKept DEF FInv
<1>7. FPassed'
  <2> SUFFICES ASSUME NEW w \in Second, pc'[w] \in {"report", "ended"}
               PROVE  content'["pipe12"] = <<>> /\ \A v \in First : pc'[v] = "ended"
    BY <1>4, <1>6 DEF FFlow, FPassed
  <2>1. w \in F!Worker /\ w # Boss /\ w \notin First /\ Second \subseteq F!Worker
    BY FWorkers
  <2>2. CASE w # q
    BY <1>1, <1>4, <2>1, <2>2, FWorkers DEF FFlow, FPassed
  <2>3. CASE w = q
    <3>1. place = "report" /\ F!From(q) = "pipe12"
      BY <1>1, <2>1, <2>3, FWorkers DEF F!From
    <3>2. content["pipe12"] = <<>> /\ writers["pipe12"] = {}
      BY <1>4, <2>1, <2>3, <3>1
    <3>3. \A v \in First : pc[v] = "ended" /\ v \in F!Worker /\ v # q
      BY <1>4, <2>1, <2>3, <3>2, FWorkers DEF FFlow, FEnds
    <3> QED
      BY <1>1, <3>2, <3>3
  <2> QED
    BY <2>2, <2>3
<1>8. sessions' <= 1 => FRead'
  <2> SUFFICES ASSUME sessions <= 1 PROVE FRead'
    OBVIOUS
  <2>1. FRead
    BY <1>4 DEF FFlow
  <2>2. FGone' = FGone /\ F!Skipped(FGone)' = F!Skipped(FGone)
    BY DEF FGone, F!Skipped
  <2>3. ASSUME NEW w \in First
        PROVE  /\ pc'[w] \notin {"start", "opening"} => sessions' # 0
               /\ pc'[w] \in {"report", "ended"} => writers'["fifo"] = {} /\ content'["fifo"] = <<>>
    <3>1. w \in F!Worker /\ w # Boss
      BY FWorkers
    <3>2. CASE w # q
      BY <1>1, <2>1, <3>1, <3>2 DEF FRead
    <3>3. CASE w = q
      <4>1. sessions # 0
        BY <2>1, <3>1, <3>3 DEF FRead
      <4>2. place # "ended" /\ F!From(q) = "fifo"
        BY <3>1, <3>3, FWorkers DEF F!From
      <4> QED
        BY <1>1, <1>4, <3>1, <3>3, <4>1, <4>2
    <3> QED
      BY <3>2, <3>3
  <2> QED
    BY <1>6, <2>1, <2>2, <2>3 DEF FRead
<1> QED
  BY <1>5, <1>7, <1>8 DEF FFlow

\* A test of keep_running.
LEMMA FLoop == ASSUME NEW w \in F!Worker PROVE FInv /\ F!Loop(w) => FInv'
<1> SUFFICES ASSUME FInv, F!Loop(w) PROVE FInv'
  OBVIOUS
<1> DEFINE place == F!Continue(keep_running[w])
<1>1. pc[w] = "loop" /\ pc' = [pc EXCEPT ![w] = place]
      /\ UNCHANGED <<content, readers, writers, keep_running, items, written, sessions, reports>>
  BY DEF F!Loop, F!Go, F!pipes
<1>2. place \in {"read", "report"} /\ (FRunning => place = "read")
  BY DEF F!Continue, FRunning
<1> HIDE DEF place
<1> QED
  BY <1>1, <1>2, FMoves

\* A brigade ends when the one before has, and nothing is left to read.
LEMMA FReadEof == ASSUME NEW w \in F!Worker PROVE FInv /\ F!ReadEof(w) => FInv'
<1> SUFFICES ASSUME FInv, F!ReadEof(w) PROVE FInv'
  OBVIOUS
<1>1. pc[w] = "read" /\ pc' = [pc EXCEPT ![w] = "report"] /\ content[F!From(w)] = <<>> /\ writers[F!From(w)] = {}
      /\ UNCHANGED <<content, readers, writers, keep_running, items, written, sessions, reports>>
  BY DEF F!ReadEof, F!Go, F!pipes, F!Eof
<1> QED
  BY <1>1, FMoves

\* The boss ends after all workers.
LEMMA FBossEnds == FInv /\ F!BossEnds => FInv'
<1> SUFFICES ASSUME FInv, F!BossEnds PROVE FInv'
  OBVIOUS
<1>1. pc[Boss] = "wait" /\ pc' = [pc EXCEPT ![Boss] = "ended"] /\ (\A w \in F!Worker : pc[w] = "ended")
      /\ UNCHANGED <<content, readers, writers, keep_running, items, written, sessions, reports>>
  BY DEF F!BossEnds, F!Go, F!pipes
<1> QED
  BY <1>1, FMoves, FWorkers

\* SIGINT: the flow between the brigades may end early.
LEMMA FSigint == ASSUME NEW w \in F!Worker PROVE FInv /\ F!Sigint(w) => FInv'
<1> SUFFICES ASSUME FInv, F!Sigint(w) PROVE FInv'
  OBVIOUS
<1>1. keep_running' = [keep_running EXCEPT ![w] = FALSE] /\ DOMAIN pc' = DOMAIN pc
      /\ UNCHANGED <<content, readers, writers, items, written, sessions>>
  BY DEF F!Sigint, F!pipes
<1>2. ~keep_running'[w]
  BY <1>1 DEF FInv, FType
<1>3. FType'
  BY <1>1 DEF FInv, FType
<1> QED
  BY <1>2, <1>3 DEF FInv, FRunning

\* A worker opens the FIFO, or waits for a writer.
LEMMA FOpenFifo == ASSUME NEW w \in First PROVE FInv /\ F!OpenFifo(w) => FInv'
<1> SUFFICES ASSUME FInv, F!OpenFifo(w) PROVE FInv'
  OBVIOUS
<1> DEFINE place == IF Fifo \in writers["fifo"] THEN "loop" ELSE "opening"
<1>1. /\ pc[w] = "start" /\ pc' = [pc EXCEPT ![w] = place] /\ readers' = [readers EXCEPT !["fifo"] = @ \union {w}]
      /\ UNCHANGED <<content, writers, keep_running, items, written, sessions, reports>>
  BY FWorkers DEF F!OpenFifo, F!Go
<1>2. place \in {"loop", "opening"} /\ (place = "loop" => writers["fifo"] # {})
  OBVIOUS
<1> HIDE DEF place
<1>3. w \in F!Worker /\ w # Boss /\ w \notin Second
  BY FWorkers
<1>4. DOMAIN pc' = F!Worker \union {Boss} /\ pc'[w] = place /\ \A r \in F!Worker \union {Boss} : r # w => pc'[r] = pc[r]
  BY <1>1, <1>3 DEF FInv, FType
<1>5. DOMAIN readers' = F!Edges /\ readers'["fifo"] = readers["fifo"] \union {w} /\ readers'["pipe12"] = readers["pipe12"]
      /\ readers'["pipe23"] = readers["pipe23"]
  BY <1>1, FWorkers DEF FInv, FType
<1>6. FType'
  BY <1>1, <1>4, <1>5 DEF FInv, FType
<1>7. SUFFICES ASSUME FRunning' PROVE FFlow'
  BY <1>6 DEF FInv
<1>8. FRunning /\ FFlow
  BY <1>1, <1>7 DEF FInv, FRunning
<1>9. /\ F!Sum(First)' = F!Sum(First) /\ F!Sum(Second)' = F!Sum(Second)
      /\ F!Busy(First)' = F!Busy(First) /\ F!Busy(Second)' = F!Busy(Second)
  <2>1. \A D \in {First, Second} : \A v \in D : pc'[v] = "write" <=> pc[v] = "write"
    BY <1>1, <1>2, <1>4, FWorkers
  <2> QED
    BY <1>1, <2>1, FSumKept, FBusyKept, FWorkers DEF FInv
<1>10. \A r \in F!Worker \union {Boss} : /\ pc'[r] = "ended" <=> pc[r] = "ended"
                                         /\ pc'[r] = "report" <=> pc[r] = "report"
  BY <1>1, <1>2, <1>4
<1>11. FEnds'
  <2>1. FEnds
    BY <1>8 DEF FFlow
  <2>2. \A e \in F!Edges : readers'[e] = {} => content'[e] = <<>>
    BY <1>1, <1>5, <2>1, FWorkers DEF FEnds
  <2>3. \A e \in F!Edges : \A v \in readers'[e] : v \in F!Worker /\ pc'[v] # "ended"
    <3>1. \A e \in F!Edges : \A v \in readers'[e] : v \in readers[e] \/ v = w
      BY <1>5, FWorkers
    <3> QED
      BY <1>1, <1>3, <1>10, <2>1, <3>1 DEF FEnds
  <2> QED
    BY <1>1, <1>5, <1>10, <2>1, <2>2, <2>3, FWorkers DEF FEnds
<1>12. FPassed'
  BY <1>1, <1>8, <1>9, <1>10, FWorkers DEF FFlow, FPassed
<1>13. sessions' <= 1 => FRead'
  <2> SUFFICES ASSUME sessions <= 1 PROVE FRead'
    BY <1>1
  <2>1. FRead
    BY <1>8 DEF FFlow
  <2>2. FGone' = FGone /\ F!Skipped(FGone)' = F!Skipped(FGone)
    BY <1>1 DEF FGone, F!Skipped
  <2>3. ASSUME NEW v \in First
        PROVE  /\ pc'[v] \notin {"start", "opening"} => sessions' # 0
               /\ pc'[v] \in {"report", "ended"} => writers'["fifo"] = {} /\ content'["fifo"] = <<>>
    <3>1. v \in F!Worker
      BY FWorkers
    <3>2. CASE v # w
      BY <1>1, <1>4, <2>1, <3>1, <3>2 DEF FRead
    <3>3. CASE v = w
      BY <1>1, <1>2, <1>4, <2>1, <3>3 DEF FRead
    <3> QED
      BY <3>2, <3>3
  <2> QED
    BY <1>1, <1>9, <2>1, <2>2, <2>3 DEF FRead
<1> QED
  BY <1>11, <1>12, <1>13 DEF FFlow

\* Somebody opens the FIFO for writing: workers that wait go on.
LEMMA FBeginWriting == FInv /\ F!BeginWriting => FInv'
<1> SUFFICES ASSUME FInv, F!BeginWriting PROVE FInv'
  OBVIOUS
<1>1. /\ writers["fifo"] = {} /\ writers' = [writers EXCEPT !["fifo"] = {Fifo}] /\ sessions' = sessions + 1
      /\ pc' = [q \in DOMAIN pc |-> IF pc[q] = "opening" THEN "loop" ELSE pc[q]]
      /\ UNCHANGED <<content, readers, keep_running, items, written, reports>>
  BY FWorkers DEF F!BeginWriting
<1>2. DOMAIN pc' = F!Worker \union {Boss} /\ \A r \in F!Worker \union {Boss} : pc'[r] = IF pc[r] = "opening" THEN "loop" ELSE pc[r]
  BY <1>1 DEF FInv, FType
<1>3. DOMAIN writers' = F!Edges /\ writers'["pipe12"] = writers["pipe12"]
  BY <1>1, FWorkers DEF FInv, FType
<1>4. FType'
  BY <1>1, <1>2, <1>3 DEF FInv, FType
<1>5. SUFFICES ASSUME FRunning' PROVE FFlow'
  BY <1>4 DEF FInv
<1>6. FRunning /\ FFlow
  BY <1>1, <1>5 DEF FInv, FRunning
<1>7. \A r \in F!Worker \union {Boss} : /\ pc'[r] = "ended" <=> pc[r] = "ended"
                                        /\ pc'[r] = "report" <=> pc[r] = "report"
                                        /\ pc'[r] = "write" <=> pc[r] = "write"
  BY <1>2
<1>8. /\ F!Sum(First)' = F!Sum(First) /\ F!Sum(Second)' = F!Sum(Second)
      /\ F!Busy(First)' = F!Busy(First) /\ F!Busy(Second)' = F!Busy(Second)
  BY <1>1, <1>7, FWorkers, FSumKept, FBusyKept DEF FInv
<1>9. FEnds'
  BY <1>1, <1>3, <1>6, <1>7, FWorkers DEF FFlow, FEnds
<1>10. FPassed'
  BY <1>1, <1>6, <1>7, <1>8, FWorkers DEF FFlow, FPassed
<1>11. sessions' <= 1 => FRead'
  <2> SUFFICES ASSUME sessions' <= 1 PROVE FRead'
    OBVIOUS
  <2>1. sessions = 0 /\ sessions' # 0
    BY <1>1 DEF FInv, FType
  <2>2. FRead
    BY <1>6, <2>1 DEF FFlow
  <2>3. FGone' = FGone /\ F!Skipped(FGone)' = F!Skipped(FGone)
    BY <1>1 DEF FGone, F!Skipped
  <2>4. \A v \in First : pc'[v] \notin {"report", "ended"}
    BY <1>2, <2>1, <2>2, FWorkers DEF FRead
  <2> QED
    BY <1>1, <1>8, <2>1, <2>2, <2>3, <2>4 DEF FRead
<1> QED
  BY <1>9, <1>10, <1>11 DEF FFlow

\* A letter is on its way to the first brigade.
LEMMA FWriteFifo == FInv /\ F!WriteFifo => FInv'
<1> SUFFICES ASSUME FInv, F!WriteFifo PROVE FInv'
  OBVIOUS
<1> DEFINE m == Letters[written + 1]
           s == content["fifo"]
<1>1. /\ Fifo \in writers["fifo"] /\ written < Len(Letters) /\ readers["fifo"] # {} /\ written' = written + 1
      /\ content' = [content EXCEPT !["fifo"] = Append(@, m)]
      /\ UNCHANGED <<readers, writers, pc, keep_running, items, sessions, reports>>
  BY FWorkers DEF F!WriteFifo, F!Writable, F!Broken, F!Put
<1>2. written \in Nat /\ s \in Seq(FMsg) /\ Len(s) \in Nat
  BY FWorkers, LenProperties DEF FInv, FType
<1>3. m \in FMsg
  BY <1>1, <1>2, FLettersLen, FLetters
<1>4. /\ DOMAIN content' = F!Edges /\ content'["fifo"] = Append(s, m) /\ content'["pipe12"] = content["pipe12"]
      /\ content'["pipe23"] = content["pipe23"]
  BY <1>1, FWorkers DEF FInv, FType
<1> HIDE DEF m
<1>5. /\ Append(s, m) \in Seq(FMsg) /\ Len(Append(s, m)) = Len(s) + 1
      /\ Append(s, m)[Len(s) + 1] = m /\ \A k \in 1..Len(s) : Append(s, m)[k] = s[k]
  BY <1>2, <1>3, AppendProperties
<1>6. FType'
  BY <1>1, <1>2, <1>4, <1>5, FWorkers DEF FInv, FType
<1>7. SUFFICES ASSUME FRunning' PROVE FFlow'
  BY <1>6 DEF FInv
<1>8. FRunning /\ FFlow
  BY <1>1, <1>7 DEF FInv, FRunning
<1>9. /\ F!Sum(First)' = F!Sum(First) /\ F!Sum(Second)' = F!Sum(Second)
      /\ F!Busy(First)' = F!Busy(First) /\ F!Busy(Second)' = F!Busy(Second)
  BY <1>1, FSumKept, FBusyKept, FWorkers DEF FInv
<1>10. FEnds'
  BY <1>1, <1>4, <1>8, FWorkers DEF FFlow, FEnds
<1>11. FPassed'
  BY <1>1, <1>4, <1>8, <1>9 DEF FFlow, FPassed
<1>12. sessions' <= 1 => FRead'
  <2> SUFFICES ASSUME sessions <= 1 PROVE FRead'
    BY <1>1
  <2>1. FRead
    BY <1>8 DEF FFlow
  <2>2. FGone' = FGone /\ F!Skipped(FGone)' = F!Skipped(FGone)
    <3>1. (written + 1) - (Len(s) + 1) = written - Len(s)
      BY <1>2
    <3>2. FGone' = FGone
      BY <1>1, <1>4, <1>5, <3>1 DEF FGone
    <3> QED
      BY <3>2 DEF F!Skipped
  <2>3. \A w \in First : pc'[w] \notin {"report", "ended"}
    BY <1>1, <2>1 DEF FRead
  <2>4. \A j \in 1..Len(content'["fifo"]) : content'["fifo"][j] = Letters[FGone + j]
    <3> SUFFICES ASSUME NEW j \in 1..(Len(s) + 1) PROVE Append(s, m)[j] = Letters[FGone + j]
      BY <1>4, <1>5
    <3>1. CASE j = Len(s) + 1
      <4> DEFINE a == Len(s)
      <4>1. \A b, c \in Nat : (b - c) + (c + 1) = b + 1
        OBVIOUS
      <4>2. a \in Nat /\ written \in Nat
        BY <1>2
      <4>3. FGone = written - a /\ j = a + 1
        BY <3>1 DEF FGone
      <4> HIDE DEF a
      <4>4. FGone + j = written + 1
        BY <4>1, <4>2, <4>3
      <4> QED
        BY <1>5, <3>1, <4>4 DEF m
    <3>2. CASE j \in 1..Len(s)
      BY <1>5, <2>1, <3>2 DEF FRead
    <3> QED
      BY <1>2, <3>1, <3>2
  <2>5. Len(content'["fifo"]) <= written'
    BY <1>1, <1>2, <1>4, <1>5, <2>1 DEF FRead
  <2> QED
    BY <1>1, <1>9, <2>1, <2>2, <2>3, <2>4, <2>5 DEF FRead
<1> QED
  BY <1>10, <1>11, <1>12 DEF FFlow

\* Nobody writes to the FIFO any more.
LEMMA FEndWriting == FInv /\ F!EndWriting => FInv'
<1> SUFFICES ASSUME FInv, F!EndWriting PROVE FInv'
  OBVIOUS
<1>1. /\ F!Close(Fifo, {}, {"fifo"}) /\ Fifo \in writers["fifo"]
      /\ UNCHANGED <<pc, keep_running, items, written, sessions, reports>>
  BY FWorkers DEF F!EndWriting
<1>2. /\ DOMAIN content' = F!Edges /\ DOMAIN readers' = F!Edges /\ DOMAIN writers' = F!Edges
      /\ \A e \in F!Edges : /\ readers'[e] = readers[e]
                            /\ content'[e] = IF readers[e] = {} THEN <<>> ELSE content[e]
      /\ writers'["pipe12"] = writers["pipe12"]
  BY <1>1, FWorkers DEF F!Close, FInv, FType
<1>3. FType'
  <2>1. <<>> \in Seq(FMsg)
    OBVIOUS
  <2>2. \A e \in F!Edges : content'[e] \in Seq(FMsg)
    BY <1>2, <2>1 DEF FInv, FType
  <2> QED
    BY <1>1, <1>2, <2>2 DEF FInv, FType
<1>4. SUFFICES ASSUME FRunning' PROVE FFlow'
  BY <1>3 DEF FInv
<1>5. FRunning /\ FFlow
  BY <1>1, <1>4 DEF FInv, FRunning
<1>6. \A e \in F!Edges : content'[e] = content[e]
  BY <1>2, <1>5 DEF FFlow, FEnds
<1>7. /\ F!Sum(First)' = F!Sum(First) /\ F!Sum(Second)' = F!Sum(Second)
      /\ F!Busy(First)' = F!Busy(First) /\ F!Busy(Second)' = F!Busy(Second)
  BY <1>1, FSumKept, FBusyKept, FWorkers DEF FInv
<1>8. FEnds'
  BY <1>1, <1>2, <1>5, <1>6, FWorkers DEF FFlow, FEnds
<1>9. FPassed'
  BY <1>1, <1>5, <1>6, <1>7, FWorkers DEF FFlow, FPassed
<1>10. sessions' <= 1 => FRead'
  <2> SUFFICES ASSUME sessions <= 1 PROVE FRead'
    BY <1>1
  <2>1. FRead /\ content'["fifo"] = content["fifo"]
    BY <1>5, <1>6, FWorkers DEF FFlow
  <2>2. FGone' = FGone /\ F!Skipped(FGone)' = F!Skipped(FGone)
    BY <1>1, <2>1 DEF FGone, F!Skipped
  <2>3. \A w \in First : pc'[w] \notin {"report", "ended"}
    BY <1>1, <2>1 DEF FRead
  <2> QED
    BY <1>1, <1>7, <2>1, <2>2, <2>3 DEF FRead
<1> QED
  BY <1>8, <1>9, <1>10 DEF FFlow

\* A worker does something about a letter: where it goes, and what of a pipe changes.
LEMMA FWorks ==
    ASSUME FInv, FRunning, NEW w \in F!Worker, NEW place \in {"read", "write"}, NEW d \in {0, 1},
           pc[w] \in {"read", "write"}, pc' = [pc EXCEPT ![w] = place],
           DOMAIN items' = F!Worker, items'[w] = items[w] + d, \A v \in F!Worker : v # w => items'[v] = items[v],
           UNCHANGED <<readers, writers, sessions, reports>>,
           \A e \in F!Edges : readers[e] = {} => content'[e] = <<>>
    PROVE  /\ FEnds'
           /\ \A v \in Second : pc'[v] \in {"report", "ended"} <=> pc[v] \in {"report", "ended"}
           /\ \A v \in First : /\ pc'[v] \in {"report", "ended"} <=> pc[v] \in {"report", "ended"}
                               /\ pc'[v] = "ended" <=> pc[v] = "ended"
                               /\ pc'[v] \in {"start", "opening"} <=> pc[v] \in {"start", "opening"}
           /\ DOMAIN pc' = F!Worker \union {Boss} /\ (\A v \in F!Worker : items'[v] \in Nat)
<1>1. DOMAIN pc' = F!Worker \union {Boss} /\ pc'[w] = place /\ \A r \in F!Worker \union {Boss} : r # w => pc'[r] = pc[r]
  BY DEF FInv, FType
<1>2. \A r \in F!Worker \union {Boss} : /\ pc'[r] = "ended" <=> pc[r] = "ended"
                                        /\ pc'[r] \in {"report", "ended"} <=> pc[r] \in {"report", "ended"}
                                        /\ pc'[r] \in {"start", "opening"} <=> pc[r] \in {"start", "opening"}
  BY <1>1
<1>3. FEnds
  BY DEF FInv, FFlow
<1>4. FEnds'
  BY <1>2, <1>3, FWorkers DEF FEnds
<1>5. \A v \in F!Worker : items'[v] \in Nat
  BY DEF FInv, FType
<1> QED
  BY <1>1, <1>2, <1>4, <1>5, FWorkers

\* A letter is taken to be passed on; what is none is skipped.
LEMMA FReadFirst == ASSUME NEW w \in F!Worker PROVE FInv /\ F!ReadFirst(w) => FInv'
<1> SUFFICES ASSUME FInv, F!ReadFirst(w) PROVE FInv'
  OBVIOUS
<1> DEFINE place == IF Head(content["fifo"]) = "?" THEN F!Continue(keep_running[w]) ELSE "write"
           s == content["fifo"]
           t == Tail(s)
<1>1. /\ w \in First /\ pc[w] = "read" /\ s # <<>> /\ pc' = [pc EXCEPT ![w] = place]
      /\ content' = [content EXCEPT !["fifo"] = Tail(@)]
      /\ UNCHANGED <<readers, writers, keep_running, items, written, sessions, reports>>
  BY FWorkers DEF F!ReadFirst, F!Readable, F!Take, F!Go
<1>2. s \in Seq(FMsg) /\ Len(s) \in Nat \ {0} /\ written \in Nat
  BY <1>1, FWorkers, LenProperties, EmptySeq DEF FInv, FType
<1>3. t \in Seq(FMsg) /\ Len(t) = Len(s) - 1 /\ Head(s) = s[1] /\ \A k \in 1..Len(t) : t[k] = s[k + 1]
  BY <1>1, <1>2, HeadTailProperties
<1>4. /\ DOMAIN content' = F!Edges /\ content'["fifo"] = t /\ content'["pipe12"] = content["pipe12"]
      /\ content'["pipe23"] = content["pipe23"]
  BY <1>1, FWorkers DEF FInv, FType
<1>5. DOMAIN pc' = F!Worker \union {Boss} /\ pc'[w] = place /\ \A r \in F!Worker \union {Boss} : r # w => pc'[r] = pc[r]
  BY <1>1 DEF FInv, FType
<1>6. FType'
  BY <1>1, <1>3, <1>4, <1>5, FWorkers DEF FInv, FType
<1>7. SUFFICES ASSUME FRunning' PROVE FFlow'
  BY <1>6 DEF FInv
<1>8. FRunning /\ FFlow
  BY <1>1, <1>7 DEF FInv, FRunning
<1>9. place = IF s[1] = "?" THEN "read" ELSE "write"
  BY <1>3, <1>8 DEF F!Continue, FRunning
<1> HIDE DEF place, t
<1>10. \A e \in F!Edges : readers[e] = {} => content'[e] = <<>>
  BY <1>1, <1>4, <1>8, FWorkers DEF FFlow, FEnds
<1>11. /\ FEnds'
       /\ \A v \in Second : pc'[v] \in {"report", "ended"} <=> pc[v] \in {"report", "ended"}
       /\ \A v \in First : /\ pc'[v] \in {"report", "ended"} <=> pc[v] \in {"report", "ended"}
                           /\ pc'[v] = "ended" <=> pc[v] = "ended"
                           /\ pc'[v] \in {"start", "opening"} <=> pc[v] \in {"start", "opening"}
  <2>1. items'[w] = items[w] + 0 /\ 0 \in {0, 1} /\ place \in {"read", "write"} /\ DOMAIN items' = F!Worker
    BY <1>1, <1>9 DEF FInv, FType
  <2> QED
    BY <1>1, <1>8, <1>10, <2>1, FWorks
<1>12. F!Sum(First)' = F!Sum(First) /\ F!Sum(Second)' = F!Sum(Second) /\ F!Sum(First) \in Int
  BY <1>1, FSumKept, FWorkers DEF FInv
<1>13. w \notin Second
  BY <1>1, FWorkers
<1>14. F!Busy(Second)' = F!Busy(Second)
  BY <1>5, <1>13, FWorkers, FBusyKept
<1>15. F!Busy(First) \in Nat /\ F!Busy(First)' = F!Busy(First) + (IF s[1] = "?" THEN 0 ELSE 1)
  BY <1>1, <1>5, <1>9, FWorkers, FBusyChange
<1>16. FPassed'
  BY <1>4, <1>8, <1>11, <1>12, <1>14, FWorkers DEF FFlow, FPassed
<1>17. sessions' <= 1 => FRead'
  <2> SUFFICES ASSUME sessions <= 1 PROVE FRead'
    BY <1>1
  <2>1. FRead
    BY <1>8 DEF FFlow
  <2>2. FGone \in Nat /\ FGone' = FGone + 1
    <3>1. FGone = written - Len(s) /\ FGone' = written - (Len(s) - 1) /\ Len(s) <= written
      BY <1>1, <1>3, <1>4, <2>1 DEF FGone, FRead
    <3> HIDE DEF s
    <3> QED
      BY <1>2, <3>1
  <2>3. s[1] = Letters[FGone + 1]
    BY <1>2, <2>1 DEF FRead
  <2>4. F!Skipped(FGone)' = F!Skipped(FGone) + (IF s[1] = "?" THEN 1 ELSE 0) /\ F!Skipped(FGone) \in Nat
    BY <2>2, <2>3, FSkipped DEF F!Skipped
  <2>5. FGone' = F!Sum(First)' + F!Busy(First)' + F!Skipped(FGone)'
    <3>1. FGone = F!Sum(First) + F!Busy(First) + F!Skipped(FGone)
      BY <2>1 DEF FRead
    <3>2. CASE s[1] = "?"
      BY <1>12, <1>15, <2>2, <2>4, <3>1, <3>2
    <3>3. CASE s[1] # "?"
      BY <1>12, <1>15, <2>2, <2>4, <3>1, <3>3
    <3> QED
      BY <3>2, <3>3
  <2>6. \A j \in 1..Len(content'["fifo"]) : content'["fifo"][j] = Letters[FGone' + j]
    <3> SUFFICES ASSUME NEW j \in 1..Len(t) PROVE t[j] = Letters[FGone' + j]
      BY <1>4
    <3>1. j \in Nat /\ j + 1 \in 1..Len(s)
      BY <1>2, <1>3
    <3>2. t[j] = s[j + 1] /\ s[j + 1] = Letters[FGone + (j + 1)]
      BY <1>3, <2>1, <3>1 DEF FRead
    <3>3. FGone + (j + 1) = FGone' + j
      BY <2>2, <3>1
    <3> QED
      BY <3>2, <3>3
  <2>7. Len(content'["fifo"]) <= written'
    BY <1>1, <1>2, <1>3, <1>4, <2>1 DEF FRead
  <2>8. \A v \in First : pc'[v] \notin {"report", "ended"}
    BY <1>1, <1>11, <2>1 DEF FRead
  <2> QED
    BY <1>1, <1>11, <2>1, <2>5, <2>6, <2>7, <2>8 DEF FRead
<1> QED
  BY <1>11, <1>16, <1>17 DEF FFlow

\* What was read of the FIFO stays accounted for when a letter is passed on.
LEMMA FReadKept ==
    ASSUME FInv, FRead, content'["fifo"] = content["fifo"], UNCHANGED <<writers, written, sessions>>,
           \A v \in First : /\ pc'[v] \in {"report", "ended"} <=> pc[v] \in {"report", "ended"}
                            /\ pc'[v] \in {"start", "opening"} <=> pc[v] \in {"start", "opening"},
           F!Sum(First)' + F!Busy(First)' = F!Sum(First) + F!Busy(First)
    PROVE  FRead'
  BY DEF FGone, F!Skipped, FRead

\* The letter is passed on, and counted.
LEMMA FWriteFirst == ASSUME NEW w \in F!Worker PROVE FInv /\ F!WriteFirst(w) => FInv'
<1> SUFFICES ASSUME FInv, F!WriteFirst(w) PROVE FInv'
  OBVIOUS
<1> DEFINE s == content["pipe12"]
           t == Append(s, "letter")
           place == F!Continue(keep_running[w])
<1>1. w \in First /\ pc[w] = "write" /\ UNCHANGED <<readers, writers, keep_running, written, sessions, reports>>
  BY DEF F!WriteFirst
<1>2. w \notin Second /\ w \in F!Worker /\ w # Boss
  BY <1>1, FWorkers
<1>3. CASE readers["pipe12"] = {} /\ pc' = [pc EXCEPT ![w] = "report"] /\ UNCHANGED <<content, items>>
  <2>1. FType'
    BY <1>1, <1>3 DEF FInv, FType
  <2>2. SUFFICES ASSUME FRunning' PROVE FALSE
    BY <2>1 DEF FInv
  <2>3. FRunning /\ FFlow
    BY <1>1, <2>2 DEF FInv, FRunning
  <2>4. PICK v \in Second : TRUE
    BY FWorkers
  <2>5. pc[v] = "ended"
    BY <1>3, <2>3 DEF FFlow, FEnds
  <2> QED
    BY <1>1, <2>3, <2>5 DEF FFlow, FPassed
<1>4. CASE /\ content' = [content EXCEPT !["pipe12"] = Append(@, "letter")] /\ pc' = [pc EXCEPT ![w] = place]
           /\ items' = [items EXCEPT ![w] = @ + 1] /\ readers["pipe12"] # {}
  <2>1. s \in Seq(FMsg) /\ Len(s) \in Nat
    BY FWorkers, LenProperties DEF FInv, FType
  <2>2. t \in Seq(FMsg) /\ Len(t) = Len(s) + 1
    BY <2>1, AppendProperties DEF FMsg
  <2>3. /\ DOMAIN content' = F!Edges /\ content'["pipe12"] = t /\ content'["fifo"] = content["fifo"]
        /\ content'["pipe23"] = content["pipe23"]
    BY <1>4, FWorkers DEF FInv, FType
  <2>4. DOMAIN pc' = F!Worker \union {Boss} /\ pc'[w] = place /\ \A r \in F!Worker \union {Boss} : r # w => pc'[r] = pc[r]
    BY <1>2, <1>4 DEF FInv, FType
  <2>5. DOMAIN items' = F!Worker /\ items'[w] = items[w] + 1 /\ \A v \in F!Worker : v # w => items'[v] = items[v]
    BY <1>2, <1>4 DEF FInv, FType
  <2> HIDE DEF t, place
  <2>6. FType'
    <3>1. \A e \in F!Edges : content'[e] \in Seq(FMsg)
      BY <2>2, <2>3, FWorkers DEF FInv, FType
    <3>2. \A v \in F!Worker : items'[v] \in Nat
      BY <2>5 DEF FInv, FType
    <3> QED
      BY <1>1, <2>3, <2>4, <2>5, <3>1, <3>2 DEF FInv, FType
  <2>7. SUFFICES ASSUME FRunning' PROVE FFlow'
    BY <2>6 DEF FInv
  <2>8. FRunning /\ FFlow
    BY <1>1, <2>7 DEF FInv, FRunning
  <2>9. place = "read"
    BY <2>8 DEF place, F!Continue, FRunning
  <2>10. \A e \in F!Edges : readers[e] = {} => content'[e] = <<>>
    BY <1>4, <2>3, <2>8, FWorkers DEF FFlow, FEnds
  <2>11. /\ FEnds'
         /\ \A v \in Second : pc'[v] \in {"report", "ended"} <=> pc[v] \in {"report", "ended"}
         /\ \A v \in First : /\ pc'[v] \in {"report", "ended"} <=> pc[v] \in {"report", "ended"}
                             /\ pc'[v] = "ended" <=> pc[v] = "ended"
                             /\ pc'[v] \in {"start", "opening"} <=> pc[v] \in {"start", "opening"}
    <3>1. 1 \in {0, 1} /\ place \in {"read", "write"}
      BY <2>9
    <3> QED
      BY <1>1, <1>4, <2>5, <2>8, <2>10, <3>1, FWorks
  <2>12. /\ F!Sum(First) \in Int /\ F!Sum(Second) \in Int
         /\ F!Sum(First)' = F!Sum(First) + 1 /\ F!Sum(Second)' = F!Sum(Second)
    <3>1. \A D \in SUBSET F!Worker : IsFiniteSet(D) =>
              F!Sum(D) \in Int /\ F!Sum(D)' = F!Sum(D) + (IF w \in D THEN 1 ELSE 0)
      BY <2>5, FSumChange DEF FInv
    <3>2. F!Sum(Second) \in Int /\ F!Sum(Second)' = F!Sum(Second) + 0
      BY <1>2, <3>1, FWorkers
    <3> QED
      BY <1>1, <3>1, <3>2, FWorkers
  <2>13. F!Busy(Second)' = F!Busy(Second) /\ F!Busy(Second) \in Nat
    BY <1>2, <2>4, FWorkers, FBusyKept
  <2>14. F!Busy(First) \in Nat /\ F!Busy(First)' = F!Busy(First) - 1
    BY <1>1, <2>4, <2>9, FWorkers, FBusyChange
  <2>15. FPassed'
    <3>1. F!Sum(First)' = F!Sum(Second)' + F!Busy(Second)' + Len(content'["pipe12"])
      BY <2>1, <2>2, <2>3, <2>8, <2>12, <2>13 DEF FFlow, FPassed
    <3>2. \A v \in Second : pc'[v] \notin {"report", "ended"}
      BY <1>1, <2>8, <2>11 DEF FFlow, FPassed
    <3> QED
      BY <3>1, <3>2 DEF FPassed
  <2>16. sessions' <= 1 => FRead'
    <3> SUFFICES ASSUME sessions <= 1 PROVE FRead'
      BY <1>1
    <3>1. F!Sum(First)' + F!Busy(First)' = F!Sum(First) + F!Busy(First)
      BY <2>12, <2>14
    <3>2. FRead
      BY <2>8 DEF FFlow
    <3> QED
      BY <1>1, <2>3, <2>11, <3>1, <3>2, FReadKept
  <2> QED
    BY <2>11, <2>15, <2>16 DEF FFlow
<1> QED
  BY <1>3, <1>4, FWorkers DEF F!WriteFirst, F!Broken, F!Writable, F!Put, F!Go

\* A letter is taken to be copied.
LEMMA FReadSecond == ASSUME NEW w \in F!Worker PROVE FInv /\ F!ReadSecond(w) => FInv'
<1> SUFFICES ASSUME FInv, F!ReadSecond(w) PROVE FInv'
  OBVIOUS
<1> DEFINE s == content["pipe12"]
           t == Tail(s)
<1>1. /\ w \in Second /\ pc[w] = "read" /\ s # <<>> /\ pc' = [pc EXCEPT ![w] = "write"]
      /\ content' = [content EXCEPT !["pipe12"] = Tail(@)]
      /\ UNCHANGED <<readers, writers, keep_running, items, written, sessions, reports>>
  BY FWorkers DEF F!ReadSecond, F!Readable, F!Take, F!Go
<1>2. s \in Seq(FMsg) /\ Len(s) \in Nat \ {0}
  BY <1>1, FWorkers, LenProperties, EmptySeq DEF FInv, FType
<1>3. t \in Seq(FMsg) /\ Len(t) = Len(s) - 1
  BY <1>1, <1>2, HeadTailProperties
<1>4. /\ DOMAIN content' = F!Edges /\ content'["pipe12"] = t /\ content'["fifo"] = content["fifo"]
      /\ content'["pipe23"] = content["pipe23"]
  BY <1>1, FWorkers DEF FInv, FType
<1>5. DOMAIN pc' = F!Worker \union {Boss} /\ pc'[w] = "write" /\ \A r \in F!Worker \union {Boss} : r # w => pc'[r] = pc[r]
  BY <1>1 DEF FInv, FType
<1> HIDE DEF t
<1>6. FType'
  BY <1>1, <1>3, <1>4, <1>5, FWorkers DEF FInv, FType
<1>7. SUFFICES ASSUME FRunning' PROVE FFlow'
  BY <1>6 DEF FInv
<1>8. FRunning /\ FFlow
  BY <1>1, <1>7 DEF FInv, FRunning
<1>9. \A e \in F!Edges : readers[e] = {} => content'[e] = <<>>
  BY <1>1, <1>4, <1>8, FWorkers DEF FFlow, FEnds
<1>10. /\ FEnds'
       /\ \A v \in Second : pc'[v] \in {"report", "ended"} <=> pc[v] \in {"report", "ended"}
       /\ \A v \in First : /\ pc'[v] \in {"report", "ended"} <=> pc[v] \in {"report", "ended"}
                           /\ pc'[v] = "ended" <=> pc[v] = "ended"
                           /\ pc'[v] \in {"start", "opening"} <=> pc[v] \in {"start", "opening"}
  <2>1. items'[w] = items[w] + 0 /\ 0 \in {0, 1} /\ "write" \in {"read", "write"} /\ DOMAIN items' = F!Worker
    BY <1>1 DEF FInv, FType
  <2> QED
    BY <1>1, <1>8, <1>9, <2>1, FWorks
<1>11. /\ F!Sum(First)' = F!Sum(First) /\ F!Sum(Second)' = F!Sum(Second)
       /\ F!Sum(First) \in Int /\ F!Sum(Second) \in Int
  BY <1>1, FSumKept, FWorkers DEF FInv
<1>12. F!Busy(First)' = F!Busy(First)
  BY <1>1, <1>5, FWorkers, FBusyKept
<1>13. F!Busy(Second) \in Nat /\ F!Busy(Second)' = F!Busy(Second) + 1
  BY <1>1, <1>5, FWorkers, FBusyChange
<1>14. FPassed'
  <2>1. F!Sum(First)' = F!Sum(Second)' + F!Busy(Second)' + Len(content'["pipe12"])
    BY <1>2, <1>3, <1>4, <1>8, <1>11, <1>13 DEF FFlow, FPassed
  <2>2. \A v \in Second : pc'[v] \notin {"report", "ended"}
    BY <1>1, <1>8, <1>10 DEF FFlow, FPassed
  <2> QED
    BY <2>1, <2>2 DEF FPassed
<1>15. sessions' <= 1 => FRead'
  <2> SUFFICES ASSUME sessions <= 1 PROVE FRead'
    BY <1>1
  <2>1. FRead
    BY <1>8 DEF FFlow
  <2> QED
    BY <1>1, <1>4, <1>10, <1>11, <1>12, <2>1, FReadKept
<1> QED
  BY <1>10, <1>14, <1>15 DEF FFlow

\* A copy is written; with the last one the letter is counted.
LEMMA FWriteSecond == ASSUME NEW w \in F!Worker PROVE FInv /\ F!WriteSecond(w) => FInv'
<1> SUFFICES ASSUME FInv, F!WriteSecond(w) PROVE FInv'
  OBVIOUS
<1> DEFINE last == copies'[w] = 0
           place == IF last THEN F!Continue(keep_running'[w]) ELSE "write"
           d == IF last THEN 1 ELSE 0
           t == Append(content["pipe23"], "letter")
<1>1. /\ w \in Second /\ pc[w] = "write" /\ pc' = [pc EXCEPT ![w] = place]
      /\ items' = [items EXCEPT ![w] = IF last THEN @ + 1 ELSE @]
      /\ UNCHANGED <<readers, writers, written, sessions, reports>>
  BY DEF F!WriteSecond, F!Go
<1>2. \/ keep_running' = [keep_running EXCEPT ![w] = FALSE] /\ UNCHANGED content
      \/ content' = [content EXCEPT !["pipe23"] = Append(@, "letter")] /\ readers["pipe23"] # {} /\ UNCHANGED keep_running
  BY FWorkers DEF F!WriteSecond, F!Broken, F!Writable, F!Put
<1> HIDE DEF last
<1>3. w \in F!Worker /\ w # Boss /\ w \notin First
  BY <1>1, FWorkers
<1>4. DOMAIN items' = F!Worker /\ items'[w] = items[w] + d /\ \A v \in F!Worker : v # w => items'[v] = items[v]
  BY <1>1 DEF FInv, FType
<1>5. DOMAIN pc' = F!Worker \union {Boss} /\ pc'[w] = place /\ \A r \in F!Worker \union {Boss} : r # w => pc'[r] = pc[r]
  BY <1>1, <1>3 DEF FInv, FType
<1>6. /\ DOMAIN content' = F!Edges /\ content'["pipe12"] = content["pipe12"] /\ content'["fifo"] = content["fifo"]
      /\ content'["pipe23"] = content["pipe23"] \/ (content'["pipe23"] = t /\ readers["pipe23"] # {})
  BY <1>2, FWorkers DEF FInv, FType
<1>7. t \in Seq(FMsg)
  BY FWorkers, AppendProperties DEF FInv, FType, FMsg
<1> HIDE DEF t
<1>8. d \in {0, 1} /\ d \in Nat
  OBVIOUS
<1>9. FType'
  <2>1. \A e \in F!Edges : content'[e] \in Seq(FMsg)
    BY <1>6, <1>7, FWorkers DEF FInv, FType
  <2>2. \A v \in F!Worker : items'[v] \in Nat
    BY <1>4, <1>8 DEF FInv, FType
  <2>3. DOMAIN keep_running' = F!Worker
    BY <1>2 DEF FInv, FType
  <2> QED
    BY <1>1, <1>4, <1>5, <1>6, <2>1, <2>2, <2>3 DEF FInv, FType
<1>10. SUFFICES ASSUME FRunning' PROVE FFlow'
  BY <1>9 DEF FInv
<1>11. UNCHANGED keep_running
  BY <1>2, <1>10 DEF FRunning, FInv, FType
<1>12. FRunning /\ FFlow
  BY <1>10, <1>11 DEF FInv, FRunning
<1>13. place = IF last THEN "read" ELSE "write"
  BY <1>10 DEF F!Continue, FRunning
<1>14. \A e \in F!Edges : readers[e] = {} => content'[e] = <<>>
  BY <1>6, <1>12, FWorkers DEF FFlow, FEnds
<1> HIDE DEF d, place
<1>15. /\ FEnds'
       /\ \A v \in Second : pc'[v] \in {"report", "ended"} <=> pc[v] \in {"report", "ended"}
       /\ \A v \in First : /\ pc'[v] \in {"report", "ended"} <=> pc[v] \in {"report", "ended"}
                           /\ pc'[v] = "ended" <=> pc[v] = "ended"
                           /\ pc'[v] \in {"start", "opening"} <=> pc[v] \in {"start", "opening"}
  <2>1. place \in {"read", "write"}
    BY <1>13
  <2> QED
    BY <1>1, <1>4, <1>8, <1>12, <1>14, <2>1, FWorks
<1>16. /\ F!Sum(First)' = F!Sum(First) /\ F!Sum(First) \in Int
       /\ F!Sum(Second)' = F!Sum(Second) + d /\ F!Sum(Second) \in Int
  <2>1. \A D \in SUBSET F!Worker : IsFiniteSet(D) =>
            F!Sum(D) \in Int /\ F!Sum(D)' = F!Sum(D) + (IF w \in D THEN d ELSE 0)
    BY <1>4, <1>8, FSumChange DEF FInv
  <2>2. F!Sum(First) \in Int /\ F!Sum(First)' = F!Sum(First) + 0
    BY <1>3, <2>1, FWorkers
  <2> QED
    BY <1>1, <2>1, <2>2, FWorkers
<1>17. F!Busy(First)' = F!Busy(First)
  BY <1>3, <1>5, FWorkers, FBusyKept
<1>18. F!Busy(Second) \in Nat /\ F!Busy(Second)' = F!Busy(Second) - d
  <2>1. \A v \in Second : v # w => (pc'[v] = "write" <=> pc[v] = "write")
    BY <1>5, FWorkers
  <2>2. /\ F!Busy(Second) \in Nat
        /\ w \in Second /\ pc[w] = "write" /\ pc'[w] # "write" => F!Busy(Second)' = F!Busy(Second) - 1
        /\ w \notin Second \/ (pc[w] = "write" <=> pc'[w] = "write") => F!Busy(Second)' = F!Busy(Second)
    BY <2>1, FBusyChange, FWorkers
  <2>3. CASE last
    BY <1>1, <1>5, <1>13, <2>2, <2>3 DEF d
  <2>4. CASE ~last
    BY <1>1, <1>5, <1>13, <2>2, <2>4 DEF d
  <2> QED
    BY <2>3, <2>4
<1>19. FPassed'
  <2>1. F!Sum(First)' = F!Sum(Second)' + F!Busy(Second)' + Len(content'["pipe12"])
    BY <1>6, <1>8, <1>12, <1>16, <1>18 DEF FFlow, FPassed
  <2> QED
    BY <1>6, <1>12, <1>15, <2>1 DEF FFlow, FPassed
<1>20. sessions' <= 1 => FRead'
  <2> SUFFICES ASSUME sessions <= 1 PROVE FRead'
    BY <1>1
  <2>1. FRead
    BY <1>12 DEF FFlow
  <2> QED
    BY <1>1, <1>6, <1>15, <1>16, <1>17, <2>1, FReadKept
<1> QED
  BY <1>15, <1>19, <1>20 DEF FFlow

\* The third brigade reads copies only.
LEMMA FReadThird == ASSUME NEW w \in F!Worker PROVE FInv /\ F!ReadThird(w) => FInv'
<1> SUFFICES ASSUME FInv, F!ReadThird(w) PROVE FInv'
  OBVIOUS
<1> DEFINE s == content["pipe23"]
           t == Tail(s)
           place == F!Continue(keep_running[w])
           word == count[w] + 1 = Word
           d == IF word THEN 1 ELSE 0
<1>1. /\ w \in Third /\ pc[w] = "read" /\ s # <<>> /\ pc' = [pc EXCEPT ![w] = place]
      /\ content' = [content EXCEPT !["pipe23"] = Tail(@)]
      /\ items' = [items EXCEPT ![w] = IF word THEN @ + 1 ELSE @]
      /\ UNCHANGED <<readers, writers, keep_running, written, sessions, reports>>
  BY FWorkers DEF F!ReadThird, F!Readable, F!Take, F!Go
<1>2. w \notin First /\ w \notin Second
  BY <1>1, FWorkers
<1>3. t \in Seq(FMsg)
  BY <1>1, FWorkers, HeadTailProperties DEF FInv, FType
<1>4. /\ DOMAIN content' = F!Edges /\ content'["pipe23"] = t /\ content'["fifo"] = content["fifo"]
      /\ content'["pipe12"] = content["pipe12"]
  BY <1>1, FWorkers DEF FInv, FType
<1> HIDE DEF word, t, place
<1>5. DOMAIN pc' = F!Worker \union {Boss} /\ pc'[w] = place /\ \A r \in F!Worker \union {Boss} : r # w => pc'[r] = pc[r]
  BY <1>1 DEF FInv, FType
<1>6. DOMAIN items' = F!Worker /\ items'[w] = items[w] + d /\ \A v \in F!Worker : v # w => items'[v] = items[v]
  BY <1>1 DEF FInv, FType
<1>7. d \in {0, 1} /\ d \in Nat
  OBVIOUS
<1> HIDE DEF d
<1>8. FType'
  <2>1. \A e \in F!Edges : content'[e] \in Seq(FMsg)
    BY <1>3, <1>4, FWorkers DEF FInv, FType
  <2>2. \A v \in F!Worker : items'[v] \in Nat
    BY <1>6, <1>7 DEF FInv, FType
  <2> QED
    BY <1>1, <1>4, <1>5, <1>6, <2>1, <2>2 DEF FInv, FType
<1>9. SUFFICES ASSUME FRunning' PROVE FFlow'
  BY <1>8 DEF FInv
<1>10. FRunning /\ FFlow
  BY <1>1, <1>9 DEF FInv, FRunning
<1>11. place = "read"
  BY <1>10 DEF place, F!Continue, FRunning
<1>12. \A e \in F!Edges : readers[e] = {} => content'[e] = <<>>
  BY <1>1, <1>4, <1>10, FWorkers DEF FFlow, FEnds
<1>13. /\ FEnds'
       /\ \A v \in Second : pc'[v] \in {"report", "ended"} <=> pc[v] \in {"report", "ended"}
       /\ \A v \in First : /\ pc'[v] \in {"report", "ended"} <=> pc[v] \in {"report", "ended"}
                           /\ pc'[v] = "ended" <=> pc[v] = "ended"
                           /\ pc'[v] \in {"start", "opening"} <=> pc[v] \in {"start", "opening"}
  <2>1. place \in {"read", "write"}
    BY <1>11
  <2> QED
    BY <1>1, <1>6, <1>7, <1>10, <1>12, <2>1, FWorks
<1>14. /\ F!Sum(First)' = F!Sum(First) /\ F!Sum(Second)' = F!Sum(Second)
       /\ F!Sum(First) \in Int /\ F!Sum(Second) \in Int
  <2>1. \A D \in SUBSET F!Worker : IsFiniteSet(D) =>
            F!Sum(D) \in Int /\ F!Sum(D)' = F!Sum(D) + (IF w \in D THEN d ELSE 0)
    BY <1>6, <1>7, FSumChange DEF FInv
  <2>2. F!Sum(First) \in Int /\ F!Sum(First)' = F!Sum(First) + 0
    BY <1>2, <2>1, FWorkers
  <2>3. F!Sum(Second) \in Int /\ F!Sum(Second)' = F!Sum(Second) + 0
    BY <1>2, <2>1, FWorkers
  <2> QED
    BY <2>2, <2>3
<1>15. F!Busy(First)' = F!Busy(First) /\ F!Busy(Second)' = F!Busy(Second)
  BY <1>2, <1>5, FWorkers, FBusyKept
<1>16. FPassed'
  BY <1>4, <1>10, <1>13, <1>14, <1>15 DEF FFlow, FPassed
<1>17. sessions' <= 1 => FRead'
  <2> SUFFICES ASSUME sessions <= 1 PROVE FRead'
    BY <1>1
  <2>1. FRead
    BY <1>10 DEF FFlow
  <2> QED
    BY <1>1, <1>4, <1>13, <1>14, <1>15, <2>1, FReadKept
<1> QED
  BY <1>13, <1>16, <1>17 DEF FFlow

\* Who leaves takes nothing along: what he read is read to its end, or others read it.
LEMMA FReport == ASSUME NEW w \in F!Worker PROVE FInv /\ F!Report(w) => FInv'
<1> SUFFICES ASSUME FInv, F!Report(w) PROVE FInv'
  OBVIOUS
<1>1. /\ pc[w] = "report" /\ reports' = reports \union {w} /\ F!Close(w, DOMAIN readers, DOMAIN writers)
      /\ pc' = [pc EXCEPT ![w] = "ended"] /\ UNCHANGED <<keep_running, items, written, sessions>>
  BY DEF F!Report, F!Exit, F!Go
<1>2. /\ DOMAIN content' = F!Edges /\ DOMAIN readers' = F!Edges /\ DOMAIN writers' = F!Edges
      /\ \A e \in F!Edges : /\ readers'[e] = readers[e] \ {w} /\ writers'[e] = writers[e] \ {w}
                            /\ content'[e] = IF readers'[e] = {} THEN <<>> ELSE content[e]
  BY <1>1 DEF F!Close, FInv, FType
<1>3. w # Boss /\ DOMAIN pc' = F!Worker \union {Boss} /\ pc'[w] = "ended"
      /\ \A r \in F!Worker \union {Boss} : r # w => pc'[r] = pc[r]
  BY <1>1, FWorkers DEF FInv, FType
<1>4. FType'
  <2>1. <<>> \in Seq(FMsg)
    OBVIOUS
  <2>2. \A e \in F!Edges : content'[e] \in Seq(FMsg)
    BY <1>2, <2>1 DEF FInv, FType
  <2> QED
    BY <1>1, <1>2, <1>3, <2>2 DEF FInv, FType
<1>5. SUFFICES ASSUME FRunning' PROVE FFlow'
  BY <1>4 DEF FInv
<1>6. FRunning /\ FFlow
  BY <1>1, <1>5 DEF FInv, FRunning
<1>7. FEnds
  BY <1>6 DEF FFlow
<1>8. FEnds'
  <2>1. \A e \in F!Edges : readers'[e] = {} => content'[e] = <<>>
    BY <1>2
  <2>2. \A e \in F!Edges : \A v \in readers'[e] : v \in F!Worker /\ pc'[v] # "ended"
    <3> SUFFICES ASSUME NEW e \in F!Edges, NEW v \in readers'[e] PROVE v \in F!Worker /\ pc'[v] # "ended"
      OBVIOUS
    <3>1. v \in readers[e] /\ v # w
      BY <1>2
    <3> QED
      BY <1>3, <1>7, <3>1 DEF FEnds
  <2>3. readers'["fifo"] \subseteq First
    BY <1>2, <1>7, FWorkers DEF FEnds
  <2>4. /\ \A v \in First : pc'[v] # "ended" => v \in writers'["pipe12"]
        /\ \A v \in Second : pc'[v] # "ended" => v \in readers'["pipe12"]
    BY <1>2, <1>3, <1>7, FWorkers DEF FEnds
  <2>5. \A v \in F!Worker : pc'[v] = "ended" => v \in reports'
    BY <1>1, <1>3, <1>7 DEF FEnds
  <2>6. pc'[Boss] = "ended" => \A v \in F!Worker : pc'[v] = "ended"
    BY <1>3, <1>7 DEF FEnds
  <2> QED
    BY <2>1, <2>2, <2>3, <2>4, <2>5, <2>6 DEF FEnds
<1>9. content'["pipe12"] = content["pipe12"]
  <2> SUFFICES ASSUME readers'["pipe12"] = {} PROVE content["pipe12"] = <<>>
    BY <1>2, FWorkers
  <2>1. CASE w \in Second
    BY <1>1, <1>6, <2>1 DEF FFlow, FPassed
  <2>2. CASE w \notin Second
    <3>1. \A v \in Second : v # w /\ v \notin readers["pipe12"]
      BY <1>2, <2>2, FWorkers
    <3>2. PICK v \in Second : TRUE
      BY FWorkers
    <3>3. pc[v] = "ended"
      BY <1>7, <3>1 DEF FEnds
    <3> QED
      BY <1>6, <3>3 DEF FFlow, FPassed
  <2> QED
    BY <2>1, <2>2
<1>10. /\ F!Sum(First)' = F!Sum(First) /\ F!Sum(Second)' = F!Sum(Second)
       /\ F!Busy(First)' = F!Busy(First) /\ F!Busy(Second)' = F!Busy(Second)
  BY <1>1, <1>3, FWorkers, FSumKept, FBusyKept DEF FInv
<1>11. FPassed'
  <2> SUFFICES ASSUME NEW v \in Second, pc'[v] \in {"report", "ended"}
               PROVE  content'["pipe12"] = <<>> /\ \A u \in First : pc'[u] = "ended"
    BY <1>6, <1>9, <1>10 DEF FFlow, FPassed
  <2>1. pc[v] \in {"report", "ended"}
    BY <1>1, <1>3, FWorkers
  <2>2. content["pipe12"] = <<>> /\ \A u \in First : pc[u] = "ended"
    BY <1>6, <2>1 DEF FFlow, FPassed
  <2> QED
    BY <1>3, <1>9, <2>2, FWorkers
<1>12. sessions' <= 1 => FRead'
  <2> SUFFICES ASSUME sessions <= 1 PROVE FRead'
    BY <1>1
  <2>1. FRead
    BY <1>6 DEF FFlow
  <2>2. content'["fifo"] = content["fifo"]
    <3> SUFFICES ASSUME readers'["fifo"] = {} PROVE content["fifo"] = <<>>
      BY <1>2, FWorkers
    <3>1. CASE w \in First
      BY <1>1, <2>1, <3>1 DEF FRead
    <3>2. CASE w \notin First
      BY <1>2, <1>7, <3>2, FWorkers DEF FEnds
    <3> QED
      BY <3>1, <3>2
  <2>3. FGone' = FGone /\ F!Skipped(FGone)' = F!Skipped(FGone)
    BY <1>1, <2>2 DEF FGone, F!Skipped
  <2>4. writers'["fifo"] # {} => writers["fifo"] # {}
    BY <1>2, FWorkers
  <2>5. \A v \in First : /\ pc'[v] \notin {"start", "opening"} => sessions' # 0
                         /\ pc'[v] \in {"report", "ended"} => writers'["fifo"] = {} /\ content'["fifo"] = <<>>
    <3> SUFFICES ASSUME NEW v \in First
                 PROVE  /\ pc'[v] \notin {"start", "opening"} => sessions' # 0
                        /\ pc'[v] \in {"report", "ended"} => writers'["fifo"] = {} /\ content'["fifo"] = <<>>
      OBVIOUS
    <3>1. /\ pc'[v] \notin {"start", "opening"} => pc[v] \notin {"start", "opening"}
          /\ pc'[v] \in {"report", "ended"} => pc[v] \in {"report", "ended"}
      BY <1>1, <1>3, FWorkers
    <3> QED
      BY <1>1, <2>1, <2>2, <2>4, <3>1 DEF FRead
  <2> QED
    BY <1>1, <1>10, <2>1, <2>2, <2>3, <2>4, <2>5 DEF FRead
<1> QED
  BY <1>8, <1>11, <1>12 DEF FFlow

\* Every step of the factory keeps its invariant.
LEMMA FNext == FInv /\ F!Next => FInv'
<1> SUFFICES ASSUME FInv, F!Next PROVE FInv'
  OBVIOUS
<1>1. \/ F!BeginWriting \/ F!WriteFifo \/ F!EndWriting \/ F!BossEnds
      \/ \E w \in First : F!OpenFifo(w)
      \/ \E w \in F!Worker : \/ F!Loop(w) \/ F!ReadEof(w) \/ F!Report(w) \/ F!ReadFirst(w) \/ F!WriteFirst(w)
                             \/ F!ReadSecond(w) \/ F!WriteSecond(w) \/ F!ReadThird(w) \/ F!Sigint(w)
  BY DEF F!Next, F!Act, F!External
<1>2. ASSUME NEW w \in F!Worker,
             \/ F!Loop(w) \/ F!ReadEof(w) \/ F!Report(w) \/ F!ReadFirst(w) \/ F!WriteFirst(w)
             \/ F!ReadSecond(w) \/ F!WriteSecond(w) \/ F!ReadThird(w) \/ F!Sigint(w)
      PROVE  FInv'
  BY <1>2, FLoop, FReadEof, FReport, FReadFirst, FWriteFirst, FReadSecond, FWriteSecond, FReadThird, FSigint
<1> QED
  BY <1>1, <1>2, FBeginWriting, FWriteFifo, FEndWriting, FBossEnds, FOpenFifo

-----------------------------------------------------------------------------
(* ChildPipes. *)

\* A line: of which child, and whether it is as long as MAX_BUFF.
PLines == P!Child \X {"shorter", "longest"}

\* What the variables of the children asked through pipes are.
PType ==
    /\ DOMAIN pc = P!Child \union {0}
    /\ pc[0] \in {"main", "test", "ask", "read", "ended", "killed"}
    /\ \A i \in P!Child : pc[i] \in {"read", "write", "ended", "killed"}
    /\ letters \in [P!Child -> Int] /\ printed \in [P!Child -> Int]
    /\ DOMAIN content = {P!R} \union {P!Fd(i) : i \in P!Child}
    /\ DOMAIN readers = DOMAIN content /\ DOMAIN writers = DOMAIN content
    /\ content[P!R] \in Seq(PLines)
    /\ \A i \in P!Child : content[P!Fd(i)] \in Seq({"letter"})

\* Who lives holds its ends of the pipes; who is killed is killed with the parent.
PEnds ==
    /\ \A i \in P!Alive : i \in readers[P!Fd(i)] /\ i \in readers[P!R] /\ i \in writers[P!R]
    /\ pc[0] \notin {"ended", "killed"} => 0 \in readers[P!R]
    /\ (\E i \in P!Child : pc[i] = "killed") => pc[0] = "killed"

\* The lines of child i on their way back.
PBack(i) == Cardinality(Marked(content[P!R], i))

\* The letters of child i.
PLetters(i) ==
    IF i \in P!Alive
    THEN letters[i] = Len(content[P!Fd(i)]) + (IF pc[i] = "write" THEN 1 ELSE 0) + PBack(i) + printed[i]
    ELSE printed[i] + PBack(i) <= letters[i]

\* The inductive invariant of the children asked through pipes.
PInv == /\ PType /\ PEnds /\ P!EndsLast
        /\ \A i \in P!Child : PLetters(i)

\* The pipes of the children and R are different ones, and the parent is no child.
LEMMA PChildren ==
    /\ 0 \notin P!Child /\ P!Parent = 0
    /\ \A i \in P!Child : P!Fd(i) # P!R
    /\ \A i, j \in P!Child : P!Fd(i) = P!Fd(j) => i = j
  BY GamesAssumption DEF GamesAssumption, P!Child, P!Fd, P!R, P!Parent

\* What is counted is a number.
LEMMA PNumbers ==
    ASSUME PType, NEW i \in P!Child
    PROVE  Len(content[P!Fd(i)]) \in Nat /\ PBack(i) \in Nat /\ letters[i] \in Int /\ printed[i] \in Int
  BY MarkedFinite DEF PType, PBack

\* The letters of the children are what the property asks for.
LEMMA PImplies == PInv => P!LettersAccounted
<1> SUFFICES ASSUME PInv, NEW i \in P!Child
             PROVE  /\ printed[i] + PBack(i) <= letters[i]
                    /\ i \in P!Alive => letters[i] = Len(content[P!Fd(i)]) + (IF pc[i] = "write" THEN 1 ELSE 0) + PBack(i) + printed[i]
  BY DEF P!Cardinality, Cardinality, P!LettersAccounted, PBack, Marked
<1>1. Len(content[P!Fd(i)]) \in Nat /\ PBack(i) \in Nat /\ letters[i] \in Int /\ printed[i] \in Int
  BY PNumbers DEF PInv
<1>2. PLetters(i)
  BY DEF PInv
<1>3. CASE i \in P!Alive
  <2> DEFINE w == IF pc[i] = "write" THEN 1 ELSE 0
  <2>1. letters[i] = Len(content[P!Fd(i)]) + w + PBack(i) + printed[i]
    BY <1>2, <1>3 DEF PLetters
  <2>2. w \in {0, 1}
    OBVIOUS
  <2>3. printed[i] + PBack(i) <= letters[i]
    <3> HIDE DEF w
    <3> QED
      BY <1>1, <2>1, <2>2
  <2> QED
    BY <2>1, <2>3
<1>4. CASE i \notin P!Alive
  BY <1>1, <1>2, <1>4 DEF PLetters
<1> QED
  BY <1>3, <1>4

\* No letters anywhere.
LEMMA PInitially == P!Init => PInv
<1> SUFFICES ASSUME P!Init PROVE PInv
  OBVIOUS
<1> DEFINE E == {P!R} \union {P!Fd(i) : i \in P!Child}
<1>1. /\ content = [e \in E |-> <<>>]
      /\ writers = [e \in E |-> IF e = P!R THEN P!Child \union {0} ELSE {0}]
      /\ readers = [e \in E |-> IF e = P!R THEN P!Child \union {0} ELSE {e[2]}]
      /\ pc = [q \in P!Child \union {0} |-> IF q = 0 THEN "main" ELSE "read"]
      /\ letters = [i \in P!Child |-> 0] /\ printed = [i \in P!Child |-> 0]
  BY DEF P!Init, P!Parent
<1>2. PType
  BY <1>1, PChildren DEF PType
<1>3. PEnds
  BY <1>1, PChildren DEF P!Fd, PEnds, P!Alive
<1>4. P!EndsLast
  BY <1>1, PChildren DEF P!EndsLast
<1>5. ASSUME NEW i \in P!Child PROVE PLetters(i)
  <2>1. content[P!Fd(i)] = <<>> /\ content[P!R] = <<>> /\ letters[i] = 0 /\ printed[i] = 0 /\ pc[i] = "read"
    BY <1>1, PChildren
  <2>2. PBack(i) = 0
    BY <2>1, MarkedNone DEF PBack
  <2>3. Len(<<>>) = 0
    OBVIOUS
  <2> QED
    BY <2>1, <2>2, <2>3 DEF PLetters
<1> QED
  BY <1>2, <1>3, <1>4, <1>5 DEF PInv

\* A step that leaves child i and its letters alone.
LEMMA PSame ==
    ASSUME NEW i \in P!Child, PLetters(i), (pc'[i] = pc[i]) \/ ({pc'[i], pc[i]} \subseteq {"ended", "killed"}),
           content'[P!R] = content[P!R], content'[P!Fd(i)] = content[P!Fd(i)] \/ i \notin P!Alive,
           letters'[i] = letters[i], printed'[i] = printed[i]
    PROVE  PLetters(i)'
<1>1. (i \in P!Alive)' = (i \in P!Alive)
  BY DEF P!Alive
<1>2. PBack(i)' = PBack(i)
  BY DEF PBack
<1>3. CASE i \in P!Alive
  BY <1>1, <1>2, <1>3 DEF P!Alive, PLetters
<1>4. CASE i \notin P!Alive
  BY <1>1, <1>2, <1>4 DEF PLetters
<1> QED
  BY <1>3, <1>4

\* What is printed or on its way back was asked for, whether the child lives or not.
LEMMA PAsked ==
    ASSUME PInv, NEW i \in P!Child
    PROVE  printed[i] + PBack(i) <= letters[i]
<1>1. Len(content[P!Fd(i)]) \in Nat /\ PBack(i) \in Nat /\ letters[i] \in Int /\ printed[i] \in Int
  BY PNumbers DEF PInv
<1>2. PLetters(i)
  BY DEF PInv
<1>3. CASE i \in P!Alive
  <2> DEFINE w == IF pc[i] = "write" THEN 1 ELSE 0
  <2>1. letters[i] = Len(content[P!Fd(i)]) + w + PBack(i) + printed[i]
    BY <1>2, <1>3 DEF PLetters
  <2>2. w \in {0, 1}
    OBVIOUS
  <2> HIDE DEF w
  <2> QED
    BY <1>1, <2>1, <2>2
<1>4. CASE i \notin P!Alive
  BY <1>1, <1>2, <1>4 DEF PLetters
<1> QED
  BY <1>3, <1>4

\* Steps of the parent that move nothing that anybody still waits for.
LEMMA PCalm ==
    ASSUME PInv, NEW place \in {"test", "ask", "read"}, pc' = [pc EXCEPT ![0] = place],
           pc[0] \notin {"ended", "killed"}, UNCHANGED <<letters, printed>>,
           \A e \in DOMAIN content : readers'[e] = readers[e], DOMAIN readers' = DOMAIN readers,
           DOMAIN content' = DOMAIN content, DOMAIN writers' = DOMAIN writers,
           content'[P!R] = content[P!R],
           \A i \in P!Child : content'[P!Fd(i)] = content[P!Fd(i)] \/ (i \notin P!Alive /\ content'[P!Fd(i)] = <<>>),
           \A i \in P!Child : i \in writers[P!R] => i \in writers'[P!R]
    PROVE  PInv'
<1>1. DOMAIN pc' = P!Child \union {0} /\ pc'[0] = place /\ \A i \in P!Child : pc'[i] = pc[i]
  BY PChildren DEF PInv, PType
<1>2. PType'
  <2>1. content'[P!R] \in Seq(PLines)
    BY DEF PInv, PType
  <2>2. ASSUME NEW i \in P!Child PROVE content'[P!Fd(i)] \in Seq({"letter"})
    <3>1. content[P!Fd(i)] \in Seq({"letter"}) /\ <<>> \in Seq({"letter"})
      BY DEF PInv, PType
    <3> QED
      BY <3>1
  <2>3. letters' \in [P!Child -> Int] /\ printed' \in [P!Child -> Int]
    BY DEF PInv, PType
  <2>4. \A i \in P!Child : pc'[i] \in {"read", "write", "ended", "killed"}
    BY <1>1 DEF PInv, PType
  <2>5. DOMAIN content' = {P!R} \union {P!Fd(i) : i \in P!Child} /\ DOMAIN readers' = DOMAIN content' /\ DOMAIN writers' = DOMAIN content'
    BY DEF PInv, PType
  <2> QED
    BY <1>1, <2>1, <2>2, <2>3, <2>4, <2>5 DEF PType
<1>3. PEnds'
  <2>0. \A i \in P!Child : P!R \in DOMAIN content /\ P!Fd(i) \in DOMAIN content
    BY DEF PInv, PType
  <2>1. P!Alive' = P!Alive
    BY <1>1 DEF P!Alive
  <2>2. \A i \in P!Alive : i \in P!Child
    BY DEF P!Alive
  <2>3. P!R \in DOMAIN content
    BY DEF PInv, PType
  <2> QED
    BY <1>1, <2>0, <2>1, <2>2, <2>3 DEF PInv, PEnds
<1>4. P!EndsLast'
  BY <1>1, PChildren DEF P!EndsLast
<1>5. ASSUME NEW i \in P!Child PROVE PLetters(i)'
  BY <1>1, PSame DEF PInv
<1> QED
  BY <1>2, <1>3, <1>4, <1>5 DEF PInv

\* What the parent does when it closes writing ends.
LEMMA PClose ==
    ASSUME PInv, pc[0] \notin {"ended", "killed"}, NEW Y, P!Close(0, {}, Y)
    PROVE  /\ \A e \in DOMAIN content : readers'[e] = readers[e]
           /\ DOMAIN readers' = DOMAIN readers
           /\ DOMAIN content' = DOMAIN content /\ DOMAIN writers' = DOMAIN writers
           /\ content'[P!R] = content[P!R]
           /\ \A i \in P!Child : content'[P!Fd(i)] = content[P!Fd(i)] \/ (i \notin P!Alive /\ content'[P!Fd(i)] = <<>>)
           /\ \A i \in P!Child : i \in writers[P!R] => i \in writers'[P!R]
<1>1. DOMAIN content = DOMAIN readers /\ DOMAIN writers = DOMAIN readers /\ P!R \in DOMAIN readers
      /\ \A i \in P!Child : P!Fd(i) \in DOMAIN readers
  BY DEF PInv, PType
<1>2. readers' = [e \in DOMAIN readers |-> readers[e]] /\ DOMAIN content' = DOMAIN content /\ DOMAIN writers' = DOMAIN writers
  BY DEF P!Close
<1>3. \A e \in DOMAIN readers : readers'[e] = readers[e] /\ content'[e] = IF readers[e] = {} THEN <<>> ELSE content[e]
  BY <1>1, <1>2 DEF P!Close
<1>4. \A e \in DOMAIN readers : writers'[e] = IF e \in Y THEN writers[e] \ {0} ELSE writers[e]
  BY <1>1 DEF P!Close
<1> QED
  BY <1>1, <1>2, <1>3, <1>4, PChildren DEF PInv, PEnds

\* The parent begins, and handles SIGINT.
LEMMA PBegin == PInv /\ P!Begin => PInv'
<1> SUFFICES ASSUME PInv, P!Begin PROVE PInv'
  OBVIOUS
<1>1. pc[0] = "main" /\ pc' = [pc EXCEPT ![0] = "test"] /\ P!Close(0, {}, {P!R}) /\ UNCHANGED <<letters, printed>>
  BY PChildren DEF P!Begin, P!Go
<1> QED
  BY <1>1, PClose, PCalm

\* A test of the parent's loop.
LEMMA PTest == PInv /\ P!Test => PInv'
<1> SUFFICES ASSUME PInv, P!Test PROVE PInv'
  OBVIOUS
<1>1. pc[0] = "test" /\ UNCHANGED <<content, readers, writers, letters, printed>>
      /\ pc' = [pc EXCEPT ![0] = IF last_signal THEN "ask" ELSE "read"]
  BY PChildren DEF P!Test, P!Go, P!pipes
<1>2. PICK place \in {"test", "ask", "read"} : place = IF last_signal THEN "ask" ELSE "read"
  OBVIOUS
<1> QED
  BY <1>1, <1>2, PCalm

\* SIGINT comes to the parent.
LEMMA PSigint == PInv /\ P!Sigint => PInv'
<1> SUFFICES ASSUME PInv, P!Sigint PROVE PInv'
  OBVIOUS
<1>1. PICK place \in P!Interrupted : pc' = [pc EXCEPT ![0] = place]
  BY PChildren DEF P!Sigint, P!Go
<1>2. pc[0] \in {"test", "ask", "read"} /\ UNCHANGED <<content, readers, writers, letters, printed>>
  BY PChildren DEF P!Sigint, P!pipes
<1>3. place \in {"test", "ask", "read"}
  BY <1>1, <1>2, PChildren DEF P!Interrupted
<1> QED
  BY <1>1, <1>2, <1>3, PCalm

\* A letter goes to a child that is there, which has it on its way.
LEMMA PAsk == PInv /\ P!Ask => PInv'
<1> SUFFICES ASSUME PInv, P!Ask PROVE PInv'
  OBVIOUS
<1>1. pc[0] = "ask" /\ pc' = [pc EXCEPT ![0] = "read"] /\ UNCHANGED printed
  BY PChildren DEF P!Ask, P!Go
<1>2. CASE UNCHANGED <<P!pipes, letters>>
  BY <1>1, <1>2, PCalm DEF P!pipes
<1>3. ASSUME NEW i \in P!Child, P!Close(0, {}, {P!Fd(i)}), UNCHANGED letters PROVE PInv'
  BY <1>1, <1>3, PClose, PCalm
<1>4. ASSUME NEW i \in P!Child, P!Put(P!Fd(i), "letter"), letters' = [letters EXCEPT ![i] = @ + 1], UNCHANGED <<readers, writers>>
      PROVE  PInv'
  <2> DEFINE fd == P!Fd(i)
  <2>1. DOMAIN pc' = P!Child \union {0} /\ pc'[0] = "read" /\ \A j \in P!Child : pc'[j] = pc[j]
    BY <1>1, PChildren DEF PInv, PType
  <2>2. content' = [content EXCEPT ![fd] = Append(@, "letter")] /\ fd \in DOMAIN content /\ content[fd] \in Seq({"letter"})
    BY <1>4 DEF P!Put, PInv, PType
  <2>3. content'[fd] = Append(content[fd], "letter") /\ \A e \in DOMAIN content : e # fd => content'[e] = content[e]
    BY <2>2
  <2>4. content'[fd] \in Seq({"letter"}) /\ Len(content'[fd]) = Len(content[fd]) + 1 /\ Len(content[fd]) \in Nat
    BY <2>2, <2>3, AppendProperties, LenProperties
  <2>5. content'[P!R] = content[P!R] /\ \A j \in P!Child : j # i => content'[P!Fd(j)] = content[P!Fd(j)]
    BY <2>3, PChildren DEF PInv, PType
  <2>6. letters'[i] = letters[i] + 1 /\ letters' \in [P!Child -> Int] /\ letters[i] \in Int /\ \A j \in P!Child : j # i => letters'[j] = letters[j]
    BY <1>4 DEF PInv, PType
  <2>7. PType'
    <3>1. \A j \in P!Child : content'[P!Fd(j)] \in Seq({"letter"})
      BY <2>4, <2>5 DEF PInv, PType
    <3>2. DOMAIN content' = DOMAIN content
      BY <2>2
    <3>3. \A j \in P!Child : pc'[j] \in {"read", "write", "ended", "killed"}
      BY <2>1 DEF PInv, PType
    <3> QED
      BY <1>1, <1>4, <2>1, <2>5, <2>6, <3>1, <3>2, <3>3 DEF PInv, PType
  <2>8. PEnds'
    BY <1>1, <1>4, <2>1 DEF P!Alive, PInv, PEnds
  <2>9. P!EndsLast'
    BY <2>1, PChildren DEF P!EndsLast
  <2>10. PLetters(i)'
    <3>1. PBack(i)' = PBack(i) /\ printed'[i] = printed[i] /\ pc'[i] = pc[i]
      BY <1>1, <2>1, <2>5 DEF PBack
    <3>2. (i \in P!Alive)' = (i \in P!Alive)
      BY <2>1 DEF P!Alive
    <3>3. PLetters(i) /\ PBack(i) \in Nat /\ printed[i] \in Int
      BY PNumbers DEF PInv
    <3> DEFINE w == IF pc[i] = "write" THEN 1 ELSE 0
    <3>4. w \in Int
      OBVIOUS
    <3>5. CASE i \in P!Alive
      <4>1. letters[i] = Len(content[fd]) + w + PBack(i) + printed[i]
        BY <3>3, <3>5 DEF PLetters
      <4>2. letters'[i] = Len(content'[fd]) + w + PBack(i) + printed[i]
        <5> HIDE DEF w, fd
        <5> QED
          BY <2>4, <2>6, <3>3, <3>4, <4>1
      <4> QED
        BY <3>1, <3>2, <3>5, <4>2 DEF PLetters
    <3>6. CASE i \notin P!Alive
      <4>1. printed[i] + PBack(i) <= letters[i]
        BY <3>3, <3>6 DEF PLetters
      <4>2. printed[i] + PBack(i) <= letters'[i]
        BY <4>1, <2>6, <3>3
      <4> QED
        BY <4>2, <3>1, <3>2, <3>6 DEF PLetters
    <3> QED
      BY <3>5, <3>6
  <2>11. ASSUME NEW j \in P!Child, j # i PROVE PLetters(j)'
    <3>1. /\ content'[P!R] = content[P!R] /\ content'[P!Fd(j)] = content[P!Fd(j)] /\ pc'[j] = pc[j]
          /\ letters'[j] = letters[j] /\ printed'[j] = printed[j] /\ PLetters(j)
      BY <1>1, <2>1, <2>5, <2>6, <2>11 DEF PInv
    <3> QED
      BY <3>1, PSame
  <2> QED
    BY <2>7, <2>8, <2>9, <2>10, <2>11 DEF PInv
<1> QED
  BY <1>2, <1>3, <1>4 DEF P!Ask, P!Parent

\* A line of child c goes back, or is printed.
LEMMA PLine ==
    ASSUME PInv, content[P!R] # <<>>
    PROVE  /\ Head(content[P!R]) \in PLines /\ Head(content[P!R])[1] \in P!Child
           /\ Tail(content[P!R]) \in Seq(PLines)
           /\ \A i \in P!Child : Cardinality(Marked(Tail(content[P!R]), i)) = PBack(i) - (IF Head(content[P!R])[1] = i THEN 1 ELSE 0)
<1>1. content[P!R] \in Seq(PLines)
  BY DEF PInv, PType
<1>2. Head(content[P!R]) \in PLines /\ Tail(content[P!R]) \in Seq(PLines)
  BY <1>1, HeadTailProperties
<1>3. Head(content[P!R])[1] \in P!Child
  BY <1>2 DEF PLines
<1> QED
  BY <1>1, <1>2, <1>3, MarkedTail DEF PBack

\* A line leaves R and is printed.
LEMMA PPrintLine == PInv /\ P!PrintLine => PInv'
<1> SUFFICES ASSUME PInv, P!PrintLine PROVE PInv'
  OBVIOUS
<1> DEFINE c == Head(content[P!R])[1]
<1>1. /\ pc[0] = "read" /\ content[P!R] # <<>>
      /\ printed' = [printed EXCEPT ![c] = @ + 1] /\ content' = [content EXCEPT ![P!R] = Tail(@)]
      /\ UNCHANGED letters
  BY PChildren DEF P!PrintLine, P!Readable, P!Take, P!Line
<1>2. c \in P!Child /\ Tail(content[P!R]) \in Seq(PLines)
      /\ \A i \in P!Child : Cardinality(Marked(Tail(content[P!R]), i)) = PBack(i) - (IF c = i THEN 1 ELSE 0)
  BY <1>1, PLine
<1> HIDE DEF c
<1>3. PICK place \in {"test", "killed"} : /\ pc' = [pc EXCEPT ![0] = place]
                                          /\ place = "test" => UNCHANGED <<readers, writers>>
  BY PChildren DEF P!PrintLine, P!Go
<1>4. /\ DOMAIN readers' = DOMAIN readers /\ DOMAIN writers' = DOMAIN writers
      /\ \A e \in DOMAIN content : /\ readers[e] \ {0} \subseteq readers'[e] /\ writers[e] \ {0} \subseteq writers'[e]
  BY DEF P!PrintLine, P!Parent, PInv, PType
<1>5. DOMAIN pc' = P!Child \union {0} /\ pc'[0] = place /\ \A j \in P!Child : pc'[j] = pc[j]
  BY <1>3, PChildren DEF PInv, PType
<1>6. /\ content'[P!R] = Tail(content[P!R]) /\ DOMAIN content' = DOMAIN content
      /\ \A j \in P!Child : content'[P!Fd(j)] = content[P!Fd(j)]
  BY <1>1, PChildren DEF PInv, PType
<1>7. printed' \in [P!Child -> Int] /\ \A j \in P!Child : printed'[j] = printed[j] + (IF c = j THEN 1 ELSE 0)
  BY <1>1, <1>2 DEF PInv, PType
<1>8. PType'
  <2>1. \A j \in P!Child : pc'[j] \in {"read", "write", "ended", "killed"}
    BY <1>5 DEF PInv, PType
  <2>2. content'[P!R] \in Seq(PLines) /\ \A j \in P!Child : content'[P!Fd(j)] \in Seq({"letter"})
    BY <1>2, <1>6 DEF PInv, PType
  <2>3. DOMAIN content' = {P!R} \union {P!Fd(i) : i \in P!Child} /\ DOMAIN readers' = DOMAIN content' /\ DOMAIN writers' = DOMAIN content'
    BY <1>4, <1>6 DEF PInv, PType
  <2>4. letters' \in [P!Child -> Int]
    BY <1>1 DEF PInv, PType
  <2> QED
    BY <1>5, <1>7, <2>1, <2>2, <2>3, <2>4 DEF PType
<1>9. P!Alive' = P!Alive /\ \A j \in P!Alive : j \in P!Child
  BY <1>5 DEF P!Alive
<1>10. PEnds'
  <2>1. \A j \in P!Alive : j # 0 /\ P!Fd(j) \in DOMAIN content /\ P!R \in DOMAIN content
    BY <1>9, PChildren DEF PInv, PType
  <2>2. \A j \in P!Alive : j \in readers'[P!Fd(j)] /\ j \in readers'[P!R] /\ j \in writers'[P!R]
    BY <1>4, <2>1 DEF PInv, PEnds
  <2>3. \A j \in P!Child : pc'[j] # "killed"
    BY <1>1, <1>5 DEF PInv, PEnds
  <2>4. pc'[0] \notin {"ended", "killed"} => 0 \in readers'[P!R]
    BY <1>1, <1>3, <1>5 DEF PInv, PEnds
  <2> QED
    BY <1>9, <2>2, <2>3, <2>4 DEF PEnds
<1>11. P!EndsLast'
  BY <1>5, PChildren DEF P!EndsLast
<1>12. ASSUME NEW j \in P!Child PROVE PLetters(j)'
  <2> DEFINE one == IF c = j THEN 1 ELSE 0
             w == IF pc[j] = "write" THEN 1 ELSE 0
  <2>1. PBack(j)' = PBack(j) - one
    BY <1>2, <1>6 DEF PBack
  <2>2. printed'[j] = printed[j] + one
    BY <1>7
  <2>3. /\ content'[P!Fd(j)] = content[P!Fd(j)] /\ letters'[j] = letters[j] /\ pc'[j] = pc[j]
        /\ (j \in P!Alive)' = (j \in P!Alive)
    BY <1>1, <1>5, <1>6, <1>9
  <2>4. PLetters(j) /\ PBack(j) \in Nat /\ printed[j] \in Int /\ letters[j] \in Int /\ Len(content[P!Fd(j)]) \in Nat
    BY PNumbers DEF PInv
  <2>5. w \in Int /\ one \in Int
    OBVIOUS
  <2> HIDE DEF one
  <2>6. CASE j \in P!Alive
    <3>1. letters[j] = Len(content[P!Fd(j)]) + w + PBack(j) + printed[j]
      BY <2>4, <2>6 DEF PLetters
    <3>2. letters[j] = Len(content[P!Fd(j)]) + w + PBack(j)' + printed'[j]
      <4> HIDE DEF w
      <4> QED
        BY <3>1, <2>1, <2>2, <2>4, <2>5
    <3> QED
      BY <3>2, <2>3, <2>6 DEF PLetters
  <2>7. CASE j \notin P!Alive
    <3>1. printed[j] + PBack(j) <= letters[j]
      BY <2>4, <2>7 DEF PLetters
    <3>2. printed'[j] + PBack(j)' <= letters[j]
      BY <3>1, <2>1, <2>2, <2>4, <2>5
    <3> QED
      BY <3>2, <2>3, <2>7 DEF PLetters
  <2> QED
    BY <2>6, <2>7
<1> QED
  BY <1>8, <1>10, <1>11, <1>12 DEF PInv

\* What the end of a process leaves in the pipes.
LEMMA PExit ==
    ASSUME PInv, NEW q, P!Exit(q)
    PROVE  /\ DOMAIN content' = DOMAIN content /\ DOMAIN readers' = DOMAIN content /\ DOMAIN writers' = DOMAIN content
           /\ \A e \in DOMAIN content : /\ readers'[e] = readers[e] \ {q} /\ writers'[e] = writers[e] \ {q}
                                        /\ content'[e] = IF readers'[e] = {} THEN <<>> ELSE content[e]
  BY DEF P!Exit, P!Close, PInv, PType

\* A process exits: nothing that somebody else waits for is lost.
LEMMA PLeaves ==
    ASSUME PInv, NEW q \in P!Child \union {0}, P!Exit(q), NEW place, pc' = [pc EXCEPT ![q] = "ended", ![0] = place],
           place \in {"main", "test", "ask", "read", "ended", "killed"}, place = "ended" <=> q = 0,
           place = "killed" <=> pc[0] = "killed", pc[0] # "ended",
           q = 0 => \A i \in P!Child : i \notin P!Alive, UNCHANGED <<letters, printed>>
    PROVE  PInv'
<1>1. /\ DOMAIN content' = DOMAIN content /\ DOMAIN readers' = DOMAIN content /\ DOMAIN writers' = DOMAIN content
      /\ \A e \in DOMAIN content : /\ readers'[e] = readers[e] \ {q} /\ writers'[e] = writers[e] \ {q}
                                   /\ content'[e] = IF readers'[e] = {} THEN <<>> ELSE content[e]
  BY PExit
<1>2. DOMAIN pc' = P!Child \union {0} /\ pc'[0] = place /\ \A j \in P!Child : pc'[j] = IF j = q THEN "ended" ELSE pc[j]
  BY PChildren DEF PInv, PType
<1>3. \A j \in P!Child : P!Fd(j) \in DOMAIN content /\ P!R \in DOMAIN content
  BY DEF PInv, PType
<1>4. \A j \in P!Child : j \in P!Alive' <=> j \in P!Alive /\ j # q
  BY <1>2 DEF P!Alive
<1>5. P!R \in DOMAIN content /\ (content'[P!R] = content[P!R] \/ content'[P!R] = <<>>)
  BY <1>1 DEF PInv, PType
<1>6. ASSUME NEW j \in P!Child, j \in P!Alive, j # q
      PROVE  content'[P!R] = content[P!R] /\ content'[P!Fd(j)] = content[P!Fd(j)]
             /\ j \in readers'[P!Fd(j)] /\ j \in readers'[P!R] /\ j \in writers'[P!R]
  BY <1>1, <1>3, <1>6 DEF PInv, PEnds
<1>7. PType'
  <2>1. \A j \in P!Child : pc'[j] \in {"read", "write", "ended", "killed"}
    BY <1>2 DEF PInv, PType
  <2>2. content'[P!R] \in Seq(PLines)
    <3>1. content[P!R] \in Seq(PLines) /\ <<>> \in Seq(PLines)
      BY DEF PInv, PType
    <3> QED
      BY <3>1, <1>5
  <2>3. ASSUME NEW j \in P!Child PROVE content'[P!Fd(j)] \in Seq({"letter"})
    <3>1. content[P!Fd(j)] \in Seq({"letter"}) /\ <<>> \in Seq({"letter"})
      BY DEF PInv, PType
    <3> QED
      BY <3>1, <1>1, <1>3
  <2>4. letters' \in [P!Child -> Int] /\ printed' \in [P!Child -> Int]
    BY DEF PInv, PType
  <2>5. DOMAIN content' = {P!R} \union {P!Fd(i) : i \in P!Child} /\ DOMAIN readers' = DOMAIN content' /\ DOMAIN writers' = DOMAIN content'
    BY <1>1 DEF PInv, PType
  <2> QED
    BY <1>2, <2>1, <2>2, <2>3, <2>4, <2>5 DEF PType
<1>8. PEnds'
  <2>1. \A j \in P!Alive' : j \in P!Child
    BY DEF P!Alive
  <2>2. place \notin {"ended", "killed"} => 0 \in readers'[P!R]
    BY <1>1, <1>5, PChildren DEF PInv, PEnds
  <2>3. (\E j \in P!Child : pc'[j] = "killed") => place = "killed"
    BY <1>2 DEF PInv, PEnds
  <2> QED
    BY <1>2, <1>4, <1>6, <2>1, <2>2, <2>3 DEF PEnds
<1>9. P!EndsLast'
  <2>1. ASSUME place = "ended", NEW j \in P!Child PROVE pc'[j] = "ended"
    BY <1>2, <2>1 DEF PInv, PEnds, PType, P!Alive
  <2> QED
    BY <2>1, <1>2, PChildren DEF P!EndsLast
<1>10. ASSUME NEW j \in P!Child PROVE PLetters(j)'
  <2>1. CASE j \in P!Alive /\ j # q
    BY <2>1, <1>2, <1>6, PSame DEF PInv
  <2>2. CASE ~(j \in P!Alive /\ j # q)
    <3>1. printed[j] + PBack(j) <= letters[j]
      BY PAsked
    <3>2. PBack(j)' = PBack(j) \/ PBack(j)' = 0
      BY <1>5, MarkedNone DEF PBack
    <3>3. PBack(j) \in Nat /\ printed[j] \in Int /\ letters[j] \in Int
      BY PNumbers DEF PInv
    <3>4. printed'[j] + PBack(j)' <= letters'[j]
      BY <3>1, <3>2, <3>3
    <3> QED
      BY <3>4, <2>2, <1>4 DEF PLetters
  <2> QED
    BY <2>1, <2>2
<1> QED
  BY <1>7, <1>8, <1>9, <1>10 DEF PInv

\* A child ends; what it was to write is never written, what it wrote stays.
LEMMA PSigKillme == ASSUME NEW i \in P!Child PROVE PInv /\ P!SigKillme(i) => PInv'
<1> SUFFICES ASSUME PInv, P!SigKillme(i) PROVE PInv'
  OBVIOUS
<1>1. i \in P!Alive /\ i # 0 /\ P!Exit(i) /\ UNCHANGED <<letters, printed>>
  BY PChildren DEF P!SigKillme
<1>2. PICK place \in P!Interrupted : pc' = [pc EXCEPT ![i] = "ended", ![0] = place]
  BY PChildren DEF P!SigKillme
<1>3. pc[0] # "ended"
  BY <1>1, PChildren DEF PInv, P!EndsLast, P!Alive
<1>4. place = pc[0] \/ (pc[0] = "read" /\ place = "test")
  BY <1>2, PChildren DEF P!Interrupted, P!Sleeps
<1>5. pc[0] \in {"main", "test", "ask", "read", "ended", "killed"}
  BY DEF PInv, PType
<1>6. place \in {"main", "test", "ask", "read", "ended", "killed"} /\ (place = "ended" <=> i = 0) /\ (place = "killed" <=> pc[0] = "killed")
  BY <1>1, <1>3, <1>4, <1>5
<1> QED
  BY <1>1, <1>2, <1>3, <1>6, PLeaves

\* The parent ends when no child has an end of R.
LEMMA PSeeEof == PInv /\ P!SeeEof => PInv'
<1> SUFFICES ASSUME PInv, P!SeeEof PROVE PInv'
  OBVIOUS
<1>1. pc[0] = "read" /\ writers[P!R] = {} /\ P!Exit(0) /\ UNCHANGED <<letters, printed>> /\ pc' = [pc EXCEPT ![0] = "ended"]
  BY PChildren DEF P!SeeEof, P!Eof, P!Go
<1>2. \A i \in P!Child : i \notin P!Alive
  BY <1>1 DEF PInv, PEnds
<1>3. PICK place \in {"main", "test", "ask", "read", "ended", "killed"} : place = "ended"
  OBVIOUS
<1>4. pc' = [pc EXCEPT ![0] = "ended", ![0] = place]
  BY <1>1, <1>3
<1>5. (place = "ended" <=> 0 = 0) /\ (place = "killed" <=> pc[0] = "killed") /\ pc[0] # "ended"
  BY <1>1, <1>3
<1> QED
  BY <1>1, <1>2, <1>4, <1>5, PLeaves

\* ERR kills all that live.
LEMMA PKilled ==
    ASSUME PInv, NEW i \in P!Child, pc[i] = "read", P!Killed, UNCHANGED <<content, readers, writers, letters, printed>>
    PROVE  PInv'
<1>1. pc[0] # "ended"
  BY PChildren DEF PInv, P!EndsLast
<1>2. DOMAIN pc' = P!Child \union {0} /\ pc'[0] = "killed" /\ \A j \in P!Child : pc'[j] = IF pc[j] = "ended" THEN "ended" ELSE "killed"
  BY <1>1, PChildren DEF P!Killed, PInv, PType
<1>3. \A j \in P!Child : j \notin P!Alive'
  BY <1>2 DEF P!Alive
<1>4. PType'
  <2>1. \A j \in P!Child : pc'[j] \in {"read", "write", "ended", "killed"}
    BY <1>2
  <2>2. /\ content'[P!R] \in Seq(PLines) /\ \A j \in P!Child : content'[P!Fd(j)] \in Seq({"letter"})
        /\ letters' \in [P!Child -> Int] /\ printed' \in [P!Child -> Int]
    BY DEF PInv, PType
  <2>3. DOMAIN content' = {P!R} \union {P!Fd(j) : j \in P!Child} /\ DOMAIN readers' = DOMAIN content' /\ DOMAIN writers' = DOMAIN content'
    BY DEF PInv, PType
  <2> QED
    BY <1>2, <2>1, <2>2, <2>3 DEF PType
<1>5. PEnds'
  BY <1>2, <1>3 DEF P!Alive, PEnds
<1>6. P!EndsLast'
  BY <1>2, PChildren DEF P!EndsLast
<1>7. ASSUME NEW j \in P!Child PROVE PLetters(j)'
  BY <1>3, PAsked DEF PBack, PLetters
<1> QED
  BY <1>4, <1>5, <1>6, <1>7 DEF PInv

\* A child takes a letter, or puts a line: the letter changes from one pipe to the other.
LEMMA PMoves ==
    ASSUME PInv, NEW i \in P!Child, i \in P!Alive, NEW place \in {"read", "write"}, pc' = [pc EXCEPT ![i] = place],
           UNCHANGED <<readers, writers, letters, printed>>, DOMAIN content' = DOMAIN content,
           content'[P!R] \in Seq(PLines), content'[P!Fd(i)] \in Seq({"letter"}),
           \A j \in P!Child \ {i} : content'[P!Fd(j)] = content[P!Fd(j)] /\ PBack(j)' = PBack(j),
           Len(content'[P!Fd(i)]) + (IF place = "write" THEN 1 ELSE 0) + PBack(i)'
             = Len(content[P!Fd(i)]) + (IF pc[i] = "write" THEN 1 ELSE 0) + PBack(i)
    PROVE  PInv'
<1>1. DOMAIN pc' = P!Child \union {0} /\ pc'[0] = pc[0] /\ pc'[i] = place /\ \A j \in P!Child \ {i} : pc'[j] = pc[j]
  BY PChildren DEF PInv, PType
<1>2. P!Alive' = P!Alive /\ \A j \in P!Alive : j \in P!Child
  BY <1>1 DEF P!Alive
<1>3. PType'
  <2>1. \A j \in P!Child : pc'[j] \in {"read", "write", "ended", "killed"}
    BY <1>1 DEF PInv, PType
  <2>2. \A j \in P!Child : content'[P!Fd(j)] \in Seq({"letter"})
    BY DEF PInv, PType
  <2>3. DOMAIN content' = {P!R} \union {P!Fd(j) : j \in P!Child} /\ DOMAIN readers' = DOMAIN content' /\ DOMAIN writers' = DOMAIN content'
    BY DEF PInv, PType
  <2>4. letters' \in [P!Child -> Int] /\ printed' \in [P!Child -> Int] /\ pc'[0] \in {"main", "test", "ask", "read", "ended", "killed"}
    BY <1>1 DEF PInv, PType
  <2> QED
    BY <1>1, <2>1, <2>2, <2>3, <2>4 DEF PType
<1>4. PEnds'
  BY <1>1, <1>2 DEF PInv, PEnds
<1>5. P!EndsLast'
  BY <1>1, PChildren DEF P!EndsLast, PInv, P!Alive
<1>6. ASSUME NEW j \in P!Child \ {i} PROVE PLetters(j)'
  BY <1>1, <1>2 DEF PInv, PLetters
<1>7. PLetters(i)'
  <2> DEFINE w == IF pc[i] = "write" THEN 1 ELSE 0
             v == IF place = "write" THEN 1 ELSE 0
  <2>1. letters[i] = Len(content[P!Fd(i)]) + w + PBack(i) + printed[i]
    BY DEF PInv, PLetters
  <2>2. Len(content[P!Fd(i)]) \in Nat /\ PBack(i) \in Nat /\ printed[i] \in Int
    BY PNumbers DEF PInv
  <2>3. Len(content'[P!Fd(i)]) \in Nat /\ PBack(i)' \in Nat
    BY LenProperties, MarkedFinite DEF PBack
  <2>4. w \in Int /\ v \in Int
    OBVIOUS
  <2>5. Len(content'[P!Fd(i)]) + v + PBack(i)' = Len(content[P!Fd(i)]) + w + PBack(i)
    OBVIOUS
  <2>6. letters[i] = Len(content'[P!Fd(i)]) + v + PBack(i)' + printed[i]
    <3> HIDE DEF w, v
    <3> QED
      BY <2>1, <2>2, <2>3, <2>4, <2>5
  <2>7. letters'[i] = letters[i] /\ printed'[i] = printed[i] /\ (i \in P!Alive)'
    BY <1>2
  <2> QED
    BY <2>6, <2>7, <1>1 DEF PLetters
<1> QED
  BY <1>3, <1>4, <1>5, <1>6, <1>7 DEF PInv

\* A child takes a letter to answer it.
LEMMA PReadLetter == ASSUME NEW i \in P!Child PROVE PInv /\ P!ReadLetter(i) => PInv'
<1> SUFFICES ASSUME PInv, P!ReadLetter(i) PROVE PInv'
  OBVIOUS
<1> DEFINE fd == P!Fd(i)
<1>1. pc[i] = "read" /\ UNCHANGED <<readers, writers, letters, printed>>
  BY DEF P!ReadLetter
<1>2. CASE P!Killed /\ UNCHANGED content
  BY <1>1, <1>2, PKilled
<1>3. CASE P!Readable(fd) /\ P!Take(fd) /\ P!Go(i, "write")
  <2>1. content[fd] # <<>> /\ content' = [content EXCEPT ![fd] = Tail(@)] /\ content[fd] \in Seq({"letter"}) /\ fd \in DOMAIN content
        /\ pc' = [pc EXCEPT ![i] = "write"]
    BY <1>3 DEF P!Readable, P!Take, P!Go, PInv, PType
  <2>2. content'[fd] = Tail(content[fd]) /\ DOMAIN content' = DOMAIN content /\ \A e \in DOMAIN content : e # fd => content'[e] = content[e]
    BY <2>1
  <2>3. content'[fd] \in Seq({"letter"}) /\ Len(content'[fd]) = Len(content[fd]) - 1
    BY <2>1, <2>2, HeadTailProperties
  <2>4. content'[P!R] = content[P!R] /\ content[P!R] \in Seq(PLines) /\ \A j \in P!Child \ {i} : content'[P!Fd(j)] = content[P!Fd(j)]
    BY <2>2, PChildren DEF PInv, PType
  <2>5. \A j : PBack(j)' = PBack(j)
    BY <2>4 DEF PBack
  <2>6. Len(content[fd]) \in Nat /\ PBack(i) \in Nat
    BY PNumbers DEF PInv
  <2>7. Len(content'[fd]) + 1 + PBack(i)' = Len(content[fd]) + 0 + PBack(i)
    BY <2>3, <2>5, <2>6
  <2>8. i \in P!Alive
    BY <1>1 DEF P!Alive
  <2>9. PICK place \in {"read", "write"} : place = "write"
    OBVIOUS
  <2>10. Len(content'[fd]) + (IF place = "write" THEN 1 ELSE 0) + PBack(i)' = Len(content[fd]) + (IF pc[i] = "write" THEN 1 ELSE 0) + PBack(i)
    BY <2>7, <2>9, <1>1
  <2> QED
    BY <1>1, <2>1, <2>2, <2>3, <2>4, <2>5, <2>8, <2>9, <2>10, PMoves
<1> QED
  BY <1>2, <1>3 DEF P!ReadLetter

\* The child's line is on its way back.
LEMMA PWriteLine == ASSUME NEW i \in P!Child PROVE PInv /\ P!WriteLine(i) => PInv'
<1> SUFFICES ASSUME PInv, P!WriteLine(i) PROVE PInv'
  OBVIOUS
<1>1. pc[i] = "write" /\ UNCHANGED <<readers, writers, letters, printed>> /\ pc' = [pc EXCEPT ![i] = "read"]
  BY DEF P!WriteLine, P!Go
<1>2. PICK length \in {"shorter", "longest"} : content' = [content EXCEPT ![P!R] = Append(@, <<i, length>>)]
  BY DEF P!WriteLine, P!Put
<1> DEFINE m == <<i, length>>
<1>3. m \in PLines /\ m[1] = i
  BY DEF PLines
<1>4. content[P!R] \in Seq(PLines) /\ P!R \in DOMAIN content
  BY DEF PInv, PType
<1> HIDE DEF m
<1>5. content'[P!R] = Append(content[P!R], m) /\ DOMAIN content' = DOMAIN content /\ \A e \in DOMAIN content : e # P!R => content'[e] = content[e]
  BY <1>2, <1>4 DEF m
<1>6. content'[P!R] \in Seq(PLines)
  BY <1>3, <1>4, <1>5, AppendProperties
<1>7. \A j : PBack(j)' = PBack(j) + (IF m[1] = j THEN 1 ELSE 0)
  BY <1>3, <1>4, <1>5, MarkedAppend DEF PBack
<1>8. \A j \in P!Child : content'[P!Fd(j)] = content[P!Fd(j)] /\ content[P!Fd(j)] \in Seq({"letter"})
  BY <1>5, PChildren DEF PInv, PType
<1>9. \A j \in P!Child \ {i} : PBack(j)' = PBack(j)
  <2> SUFFICES ASSUME NEW j \in P!Child \ {i} PROVE PBack(j)' = PBack(j)
    OBVIOUS
  <2>1. PBack(j) \in Nat
    BY PNumbers DEF PInv
  <2>2. PBack(j)' = PBack(j) + 0
    BY <1>3, <1>7
  <2> QED
    BY <2>1, <2>2
<1>10. Len(content[P!Fd(i)]) \in Nat /\ PBack(i) \in Nat
  BY PNumbers DEF PInv
<1>11. PBack(i)' = PBack(i) + 1
  BY <1>3, <1>7
<1>12. Len(content'[P!Fd(i)]) + 0 + PBack(i)' = Len(content[P!Fd(i)]) + 1 + PBack(i)
  BY <1>8, <1>10, <1>11
<1>13. i \in P!Alive
  BY <1>1 DEF P!Alive
<1>14. PICK place \in {"read", "write"} : place = "read"
  OBVIOUS
<1>15. Len(content'[P!Fd(i)]) + (IF place = "write" THEN 1 ELSE 0) + PBack(i)'
         = Len(content[P!Fd(i)]) + (IF pc[i] = "write" THEN 1 ELSE 0) + PBack(i)
  BY <1>1, <1>12, <1>14
<1> QED
  BY <1>1, <1>5, <1>6, <1>8, <1>9, <1>13, <1>14, <1>15, PMoves

\* Every step of the program keeps its invariant.
LEMMA PNext == PInv /\ P!Next => PInv'
<1> SUFFICES ASSUME PInv, P!Next PROVE PInv'
  OBVIOUS
<1>1. \/ P!Sigint \/ P!Begin \/ P!Test \/ P!Ask \/ P!PrintLine \/ P!SeeEof
      \/ \E i \in P!Child : P!SigKillme(i) \/ P!ReadLetter(i) \/ P!WriteLine(i)
  BY DEF P!Next, P!Act
<1> QED
  BY <1>1, PSigint, PBegin, PTest, PAsk, PPrintLine, PSeeEof, PSigKillme, PReadLetter, PWriteLine

\* As does a step that changes nothing of it.
LEMMA PStutter == PInv /\ UNCHANGED <<content, readers, writers, pc, letters, printed>> => PInv'
<1> SUFFICES ASSUME PInv, UNCHANGED <<content, readers, writers, pc, letters, printed>> PROVE PInv'
  OBVIOUS
<1>1. PType'
  BY DEF PInv, PType
<1>2. PEnds'
  BY DEF PInv, PEnds, P!Alive
<1>3. P!EndsLast'
  BY DEF PInv, P!EndsLast
<1>4. \A i \in P!Child : PLetters(i)'
  BY PSame DEF PInv
<1> QED
  BY <1>1, <1>2, <1>3, <1>4 DEF PInv

-----------------------------------------------------------------------------
(* ChildLetters. *)

\* What the variables of the children that write a letter are.
BType ==
    /\ DOMAIN pc = B!Child \union {0} /\ letters \subseteq B!Child
    /\ DOMAIN content = {B!R} /\ DOMAIN readers = {B!R} /\ DOMAIN writers = {B!R}
    /\ content[B!R] \in Seq(B!Child) /\ printed \in Seq(B!Child)
    /\ pc[0] \in {"main", "read", "ended", "killed"}
    /\ \A c \in B!Child : pc[c] \in {"work", "close", "exit", "ended", "killed"}

\* Letters in the pipe and letters printed are different ones, of children that have written.
BOnce ==
    /\ Simple(content[B!R]) /\ Simple(printed)
    /\ Range(content[B!R]) \intersect Range(printed) = {}
    /\ Range(content[B!R]) \union Range(printed) \subseteq letters
    /\ \A c \in B!Child : /\ pc[c] = "work" => c \notin letters
                          /\ pc[c] \in {"close", "exit", "ended"} => c \in letters

\* Nothing is lost but by the death of the parent; a child has its end of the pipe open until
\* it closes it.
BAll ==
    /\ pc[0] # "killed" => letters \subseteq Range(content[B!R]) \union Range(printed)
    /\ pc[0] \in {"main", "read"} => 0 \in readers[B!R]
    /\ pc[0] = "ended" => B!Child \subseteq Range(printed)
    /\ \A c \in B!Child : /\ pc[c] \in {"work", "close"} => c \in writers[B!R]
                          /\ pc[c] = "killed" => pc[0] = "killed"

\* The inductive invariant of the children that write a letter.
BInv == BType /\ BOnce /\ BAll

\* The parent is no child.
LEMMA BChildren == 0 \notin B!Child /\ B!Parent = 0
  BY GamesAssumption DEF GamesAssumption, B!Child, B!Parent

\* The letters in the pipe and printed are what the property asks for.
LEMMA BImplies == BInv => B!AllPrinted
<1> SUFFICES ASSUME BInv PROVE B!AllPrinted
  OBVIOUS
<1>1. printed \in Seq(B!Child) /\ Simple(printed)
  BY DEF BInv, BType, BOnce
<1>2. Len(printed) = Cardinality(Range(printed))
  BY <1>1, SimpleCount
<1>3. Range(printed) \subseteq letters /\ letters \subseteq B!Child
  BY DEF BInv, BType, BOnce
<1>4. pc[0] = "ended" => Range(printed) = B!Child
  BY <1>3 DEF BInv, BAll
<1>5. B!Cardinality(Range(printed)) = Cardinality(Range(printed))
  BY DEF B!Cardinality, Cardinality
<1> QED
  BY <1>2, <1>3, <1>4, <1>5, BChildren DEF B!AllPrinted, Range

\* No letters anywhere.
LEMMA BInitially == B!Init => BInv
<1> SUFFICES ASSUME B!Init PROVE BInv
  OBVIOUS
<1>1. /\ content = [e \in {B!R} |-> <<>>] /\ writers = [e \in {B!R} |-> B!Child \union {0}]
      /\ readers = [e \in {B!R} |-> B!Child \union {0}]
      /\ pc = [q \in B!Child \union {0} |-> IF q = 0 THEN "main" ELSE "work"]
      /\ letters = {} /\ printed = <<>>
  BY BChildren DEF B!Init
<1>2. content[B!R] = <<>> /\ printed = <<>> /\ letters = {} /\ pc[0] = "main" /\ (\A c \in B!Child : pc[c] = "work")
      /\ readers[B!R] = B!Child \union {0} /\ writers[B!R] = B!Child \union {0}
  BY <1>1, BChildren
<1>3. BType
  BY <1>1, <1>2 DEF BType
<1>4. BOnce
  BY <1>2, SimpleNone DEF BOnce
<1>5. BAll
  BY <1>2 DEF BAll
<1> QED
  BY <1>3, <1>4, <1>5 DEF BInv

\* A step that changes nothing of the program keeps its invariant.
LEMMA BStutter == BInv /\ UNCHANGED <<content, readers, writers, pc, letters, printed>> => BInv'
  BY DEF BInv, BType, BOnce, BAll

\* A child writes its letter, and only then.
LEMMA BWork == ASSUME NEW c \in B!Child PROVE BInv /\ B!Work(c) => BInv'
<1> SUFFICES ASSUME BInv, B!Work(c) PROVE BInv'
  OBVIOUS
<1>1. /\ pc[c] = "work" /\ content' = [content EXCEPT ![B!R] = Append(@, c)] /\ letters' = letters \union {c}
      /\ pc' = [pc EXCEPT ![c] = "close"] /\ UNCHANGED <<readers, writers, printed>>
  BY DEF B!Work, B!Put, B!Go
<1>2. DOMAIN pc' = B!Child \union {0} /\ pc'[0] = pc[0] /\ pc'[c] = "close" /\ \A d \in B!Child : d # c => pc'[d] = pc[d]
  BY <1>1, BChildren DEF BInv, BType
<1>3. content'[B!R] = Append(content[B!R], c) /\ DOMAIN content' = {B!R} /\ content[B!R] \in Seq(B!Child)
  BY <1>1 DEF BInv, BType
<1>4. c \notin letters /\ c \notin Range(content[B!R]) /\ c \notin Range(printed) /\ Simple(content[B!R])
  BY <1>1 DEF BInv, BOnce
<1>5. Range(content'[B!R]) = Range(content[B!R]) \union {c} /\ Simple(content'[B!R])
  BY <1>3, <1>4, SimpleAppend
<1>6. content'[B!R] \in Seq(B!Child)
  BY <1>3, AppendProperties
<1>7. BType'
  BY <1>1, <1>2, <1>3, <1>6 DEF BInv, BType
<1>8. BOnce'
  <2>1. Simple(printed) /\ printed' = printed /\ letters' = letters \union {c}
    BY <1>1 DEF BInv, BOnce
  <2>2. \A d \in B!Child : /\ pc'[d] = "work" => d \notin letters'
                           /\ pc'[d] \in {"close", "exit", "ended"} => d \in letters'
    BY <1>2, <2>1 DEF BInv, BOnce
  <2>3. Range(content'[B!R]) \intersect Range(printed) = {} /\ Range(content'[B!R]) \union Range(printed) \subseteq letters'
    BY <1>4, <1>5, <2>1 DEF BInv, BOnce
  <2> QED
    BY <1>5, <2>1, <2>2, <2>3 DEF BOnce
<1>9. BAll'
  <2>1. pc'[0] # "killed" => letters' \subseteq Range(content'[B!R]) \union Range(printed)
    BY <1>1, <1>2, <1>5 DEF BInv, BAll
  <2>2. \A d \in B!Child : /\ pc'[d] \in {"work", "close"} => d \in writers'[B!R]
                           /\ pc'[d] = "killed" => pc'[0] = "killed"
    BY <1>1, <1>2 DEF BInv, BAll
  <2>3. (pc'[0] \in {"main", "read"} => 0 \in readers'[B!R]) /\ (pc'[0] = "ended" => B!Child \subseteq Range(printed'))
    BY <1>1, <1>2 DEF BInv, BAll
  <2> QED
    BY <1>1, <2>1, <2>2, <2>3 DEF BAll
<1> QED
  BY <1>7, <1>8, <1>9 DEF BInv

\* Somebody closes ends of the pipe: it keeps its content while the parent reads.
LEMMA BCloses ==
    ASSUME BInv, NEW q \in B!Child \union {0}, NEW X, NEW Y, B!Close(q, X, Y), NEW place, pc' = [pc EXCEPT ![q] = place],
           q = 0 => \/ X = {} /\ pc[0] = "main" /\ place = "read"
                    \/ pc[0] = "read" /\ place = "ended" /\ B!Child \subseteq Range(printed),
           q # 0 => pc[q] = "close" /\ place = "exit",
           UNCHANGED <<letters, printed>>
    PROVE  BInv'
<1>1. DOMAIN pc' = B!Child \union {0} /\ pc'[q] = place /\ \A d \in B!Child \union {0} : d # q => pc'[d] = pc[d]
  BY DEF BInv, BType
<1>2. /\ DOMAIN content' = {B!R} /\ DOMAIN readers' = {B!R} /\ DOMAIN writers' = {B!R}
      /\ readers'[B!R] = (IF B!R \in X THEN readers[B!R] \ {q} ELSE readers[B!R])
      /\ writers[B!R] \ {q} \subseteq writers'[B!R]
      /\ content'[B!R] = IF readers'[B!R] = {} THEN <<>> ELSE content[B!R]
  BY DEF B!Close, BInv, BType
<1>3. pc'[0] \in {"main", "read"} => 0 \in readers'[B!R]
  BY <1>1, <1>2, BChildren DEF BInv, BAll, BType
<1>4. pc'[0] \in {"main", "read", "ended", "killed"} /\ (pc'[0] = "killed" <=> pc[0] = "killed")
  BY <1>1, BChildren DEF BInv, BType
<1>5. content'[B!R] = content[B!R] \/ (content'[B!R] = <<>> /\ pc'[0] \in {"ended", "killed"})
  BY <1>2, <1>3, <1>4
<1>6. content'[B!R] \in Seq(B!Child)
  <2>1. <<>> \in Seq(B!Child) /\ content[B!R] \in Seq(B!Child)
    BY DEF BInv, BType
  <2> QED
    BY <1>5, <2>1
<1>7. \A d \in B!Child : /\ pc'[d] \in {"work", "close", "exit", "ended", "killed"}
                         /\ pc'[d] = "killed" => pc[d] = "killed"
                         /\ pc'[d] = "work" => pc[d] = "work"
                         /\ pc'[d] \in {"close", "exit", "ended"} => pc[d] \in {"close", "exit", "ended"}
                         /\ pc'[d] \in {"work", "close"} => pc'[d] = pc[d] /\ d # q
  BY <1>1, BChildren DEF BInv, BType
<1>8. BType'
  BY <1>1, <1>2, <1>4, <1>6, <1>7 DEF BInv, BType
<1>9. Simple(content'[B!R]) /\ Range(content'[B!R]) \subseteq Range(content[B!R])
  BY <1>5, SimpleNone DEF BInv, BOnce
<1>10. BOnce'
  BY <1>7, <1>9 DEF BInv, BOnce
<1>11. BAll'
  <2>1. pc'[0] = "ended" => B!Child \subseteq Range(printed')
    BY <1>1, BChildren DEF BInv, BAll
  <2>2. pc'[0] # "killed" => letters' \subseteq Range(content'[B!R]) \union Range(printed')
    <3>1. CASE content'[B!R] = content[B!R]
      BY <1>4, <3>1 DEF BInv, BAll
    <3>2. CASE pc'[0] = "ended"
      BY <2>1, <3>2 DEF BInv, BType
    <3> QED
      BY <1>5, <3>1, <3>2
  <2>3. \A d \in B!Child : /\ pc'[d] \in {"work", "close"} => d \in writers'[B!R]
                           /\ pc'[d] = "killed" => pc'[0] = "killed"
    BY <1>2, <1>4, <1>7 DEF BInv, BAll
  <2> QED
    BY <1>3, <2>1, <2>2, <2>3 DEF BAll
<1> QED
  BY <1>8, <1>10, <1>11 DEF BInv

\* The child has written and closes its end.
LEMMA BCloseChild == ASSUME NEW c \in B!Child PROVE BInv /\ B!CloseChild(c) => BInv'
<1> SUFFICES ASSUME BInv, B!CloseChild(c) PROVE BInv'
  OBVIOUS
<1>1. /\ pc[c] = "close" /\ B!Close(c, DOMAIN readers, DOMAIN writers) /\ pc' = [pc EXCEPT ![c] = "exit"]
      /\ c # 0 /\ c \in B!Child \union {0} /\ UNCHANGED <<letters, printed>>
  BY BChildren DEF B!CloseChild, B!Exit, B!Go
<1> QED
  BY <1>1, BCloses

\* SIGCHLD ends the parent's read, or not.
LEMMA BSigchld == ASSUME NEW c \in B!Child PROVE BInv /\ B!Sigchld(c) => BInv'
<1> SUFFICES ASSUME BInv, B!Sigchld(c) PROVE BInv'
  OBVIOUS
<1>1. pc[c] = "exit" /\ UNCHANGED <<content, readers, writers, letters, printed>>
  BY DEF B!Sigchld, B!pipes
<1>2. CASE pc' = [pc EXCEPT ![c] = "ended"]
  <2>1. DOMAIN pc' = B!Child \union {0} /\ pc'[0] = pc[0] /\ pc'[c] = "ended" /\ \A d \in B!Child : d # c => pc'[d] = pc[d]
    BY <1>2, BChildren DEF BInv, BType
  <2>2. BType'
    BY <1>1, <2>1 DEF BInv, BType
  <2>3. BOnce'
    BY <1>1, <2>1 DEF BInv, BOnce
  <2>4. BAll'
    BY <1>1, <2>1 DEF BInv, BAll
  <2> QED
    BY <2>2, <2>3, <2>4 DEF BInv
<1>3. CASE B!Sleeps /\ B!Killed
  <2>1. /\ DOMAIN pc' = B!Child \union {0} /\ pc'[0] = "killed"
        /\ \A d \in B!Child : pc'[d] = IF pc[d] = "ended" THEN "ended" ELSE "killed"
    BY <1>3, BChildren DEF B!Sleeps, B!Killed, BInv, BType
  <2>2. BType'
    BY <1>1, <2>1 DEF BInv, BType
  <2>3. BOnce'
    BY <1>1, <2>1 DEF BInv, BOnce
  <2>4. BAll'
    BY <2>1 DEF BAll
  <2> QED
    BY <2>2, <2>3, <2>4 DEF BInv
<1> QED
  BY <1>2, <1>3 DEF B!Sigchld, B!Go

\* The parent begins to read.
LEMMA BBegin == BInv /\ B!Begin => BInv'
<1> SUFFICES ASSUME BInv, B!Begin PROVE BInv'
  OBVIOUS
<1>1. /\ pc[0] = "main" /\ pc' = [pc EXCEPT ![0] = "read"] /\ B!Close(0, {}, {B!R}) /\ UNCHANGED <<letters, printed>>
      /\ 0 \in B!Child \union {0}
  BY BChildren DEF B!Begin, B!Go
<1> QED
  BY <1>1, BCloses

\* No child has an end of the pipe, and nothing is in it: all letters are printed.
LEMMA BSeeEof == BInv /\ B!SeeEof => BInv'
<1> SUFFICES ASSUME BInv, B!SeeEof PROVE BInv'
  OBVIOUS
<1>1. /\ pc[0] = "read" /\ content[B!R] = <<>> /\ writers[B!R] = {} /\ UNCHANGED <<letters, printed>>
      /\ B!Close(0, DOMAIN readers, DOMAIN writers) /\ pc' = [pc EXCEPT ![0] = "ended"] /\ 0 \in B!Child \union {0}
  BY BChildren DEF B!SeeEof, B!Eof, B!Exit, B!Go
<1>2. \A c \in B!Child : c \in letters
  BY <1>1 DEF BInv, BType, BOnce, BAll
<1>3. B!Child \subseteq Range(printed)
  BY <1>1, <1>2, SimpleNone DEF BInv, BAll
<1> QED
  BY <1>1, <1>3, BCloses

\* A letter leaves the pipe and is printed.
LEMMA BPrintLetter == BInv /\ B!PrintLetter => BInv'
<1> SUFFICES ASSUME BInv, B!PrintLetter PROVE BInv'
  OBVIOUS
<1> DEFINE c == Head(content[B!R])
<1>1. /\ pc[0] = "read" /\ content[B!R] # <<>> /\ printed' = Append(printed, c)
      /\ content' = [content EXCEPT ![B!R] = Tail(@)] /\ UNCHANGED <<readers, writers, pc, letters>>
  BY BChildren DEF B!PrintLetter, B!Readable, B!Take
<1>2. content[B!R] \in Seq(B!Child) /\ printed \in Seq(B!Child) /\ Simple(content[B!R]) /\ Simple(printed)
  BY DEF BInv, BType, BOnce
<1>3. content'[B!R] = Tail(content[B!R]) /\ DOMAIN content' = {B!R}
  BY <1>1 DEF BInv, BType
<1>4. /\ Range(content[B!R]) = Range(content'[B!R]) \union {c} /\ c \in B!Child
      /\ Simple(content'[B!R]) /\ c \notin Range(content'[B!R])
  BY <1>1, <1>2, <1>3, SimpleTail
<1> HIDE DEF c
<1>5. c \notin Range(printed)
  BY <1>4 DEF BInv, BOnce
<1>6. Range(printed') = Range(printed) \union {c} /\ Simple(printed')
  BY <1>1, <1>2, <1>4, <1>5, SimpleAppend
<1>7. printed' \in Seq(B!Child)
  BY <1>1, <1>2, <1>4, AppendProperties
<1>8. content'[B!R] \in Seq(B!Child)
  BY <1>1, <1>2, <1>3, HeadTailProperties
<1>9. BType'
  BY <1>1, <1>3, <1>7, <1>8 DEF BInv, BType
<1>10. BOnce'
  BY <1>1, <1>4, <1>5, <1>6 DEF BInv, BOnce
<1>11. BAll'
  BY <1>1, <1>4, <1>6 DEF BInv, BAll
<1> QED
  BY <1>9, <1>10, <1>11 DEF BInv

\* Every step of the program keeps its invariant.
LEMMA BNext == BInv /\ B!Next => BInv'
<1> SUFFICES ASSUME BInv, B!Next PROVE BInv'
  OBVIOUS
<1>1. B!Begin \/ B!PrintLetter \/ B!SeeEof \/ \E c \in B!Child : B!Work(c) \/ B!CloseChild(c) \/ B!Sigchld(c)
  BY DEF B!Next, B!Act
<1> QED
  BY <1>1, BBegin, BPrintLetter, BSeeEof, BWork, BCloseChild, BSigchld

-----------------------------------------------------------------------------
(* FifoMail. *)

\* Of what bears the mark i, what is not behind place k.
Upto(s, i, k) == {j \in Marked(s, i) : j <= k}

\* A chunk: of which client, and its number.
MMsg == Client \X Nat

\* What the variables of the mail are.
MType ==
    /\ DOMAIN content = M!Fifos /\ DOMAIN readers = M!Fifos /\ DOMAIN writers = M!Fifos
    /\ DOMAIN pc = M!Procs /\ DOMAIN fifo = M!Procs /\ DOMAIN chunks = Client /\ DOMAIN printed = Client
    /\ \A f \in M!Fifos : content[f] \in Seq(MMsg)
    /\ name \in {0, 1, 2} /\ \A q \in M!Procs : fifo[q] \in {0, 1, 2}
    /\ \A c \in Client : chunks[c] \in Nat /\ printed[c] \in Nat
    /\ pc[0] \in {"mkfifo", "open", "opening", "opened", "close", "unlink", "ended"}
    /\ \A c \in Client : pc[c] \in {"mkfifo", "open", "opening", "opened", "ended", "killed"}

\* There is one FIFO until the server has ended, and nothing is ever in another.
MOneFifo ==
    /\ fifo[0] = IF pc[0] \in {"mkfifo", "open"} THEN 0 ELSE 1
    /\ pc[0] # "ended" => /\ name \in {0, 1} /\ \A q \in M!Procs : fifo[q] \in {0, 1}
                          /\ name = 0 => pc[0] = "mkfifo" /\ \A q \in M!Procs : fifo[q] = 0
    /\ readers[1] = (IF pc[0] \in {"opening", "opened", "close"} THEN {0} ELSE {}) /\ readers[2] = {}
    /\ content[2] = <<>> /\ (pc[0] \notin {"opened", "close"} => content[1] = <<>>)

\* Who waits in open waits for the other side.
MWaiting ==
    /\ pc[0] = "opening" => writers[1] = {}
    /\ \A c \in Client :
        /\ fifo[c] = 0 => chunks[c] = 0 /\ pc[c] \in {"mkfifo", "open", "ended"}
        /\ pc[c] = "opened" => fifo[c] = 1 /\ pc[0] \notin {"mkfifo", "open", "opening"}
        /\ pc[c] = "opening" => c \in writers[fifo[c]] /\ pc[0] \notin {"opening", "opened", "close"}
        /\ pc[c] = "killed" => pc[0] \in {"unlink", "ended"}

\* The chunks of a client are numbered in the FIFO as they were written, from the one after
\* the last printed, and until the server closes the FIFO none is lost.
MOrder ==
    \A c \in Client :
        /\ \A k \in Marked(content[1], c) : content[1][k][2] = printed[c] + Cardinality(Upto(content[1], c, k))
        /\ pc[0] \notin {"unlink", "ended"} => chunks[c] = printed[c] + Cardinality(Marked(content[1], c))
        /\ printed[c] <= chunks[c]

\* The inductive invariant of the mail.
MInv == MType /\ MOneFifo /\ MWaiting /\ MOrder

\* t has one more than s, m, and is the same up to there.
OneMore(s, t, m, i) ==
    /\ \A k \in Marked(t, i) : k \in Marked(s, i) \/ (k = Len(s) + 1 /\ m[1] = i)
    /\ \A k \in Marked(s, i) : t[k] = s[k] /\ Upto(t, i, k) = Upto(s, i, k)
    /\ Upto(t, i, Len(s) + 1) = Marked(t, i)
    /\ t[Len(s) + 1] = m

\* What is written is the last of what bears its mark.
LEMMA UptoAppend ==
    ASSUME NEW Msg, NEW s \in Seq(Msg), NEW m \in Msg, NEW i
    PROVE  OneMore(s, Append(s, m), m, i)
<1> DEFINE n == Len(s)
           t == Append(s, m)
<1>1. n \in Nat /\ DOMAIN s = 1..n /\ DOMAIN t = 1..(n + 1) /\ t[n + 1] = m /\ \A k \in 1..n : t[k] = s[k]
  <2>1. n \in Nat /\ DOMAIN s = 1..n
    BY LenProperties
  <2>2. t \in Seq(Msg) /\ Len(t) = n + 1
    BY AppendProperties
  <2>3. DOMAIN t = 1..(n + 1)
    BY <2>2, LenProperties
  <2>4. t[n + 1] = m /\ \A k \in 1..n : t[k] = s[k]
    BY AppendProperties
  <2> QED
    BY <2>1, <2>3, <2>4
<1> HIDE DEF n, t
<1>2. \A k \in Marked(t, i) : k \in Marked(s, i) \/ (k = n + 1 /\ m[1] = i)
  BY <1>1 DEF Marked
<1>3. \A k \in Marked(s, i) : t[k] = s[k] /\ Upto(t, i, k) = Upto(s, i, k)
  <2> SUFFICES ASSUME NEW k \in Marked(s, i) PROVE t[k] = s[k] /\ Upto(t, i, k) = Upto(s, i, k)
    OBVIOUS
  <2>1. k \in 1..n
    BY <1>1 DEF Marked
  <2> QED
    BY <1>1, <2>1 DEF Upto, Marked
<1>4. Upto(t, i, n + 1) = Marked(t, i)
  BY <1>1 DEF Upto, Marked
<1> QED
  BY <1>1, <1>2, <1>3, <1>4 DEF n, t, OneMore

\* What is at place k of t was one place further in s, behind m.
OneLess(s, t, m, i, k) ==
    /\ k + 1 \in Marked(s, i) /\ t[k] = s[k + 1]
    /\ Cardinality(Upto(s, i, k + 1)) \in Nat
    /\ Cardinality(Upto(t, i, k)) = Cardinality(Upto(s, i, k + 1)) - (IF m[1] = i THEN 1 ELSE 0)

\* What is read was the first of what bears its mark.
LEMMA UptoTail ==
    ASSUME NEW Msg, NEW s \in Seq(Msg), s # <<>>, NEW i, NEW k \in Marked(Tail(s), i)
    PROVE  OneLess(s, Tail(s), Head(s), i, k)
<1> DEFINE n == Len(s)
           t == Tail(s)
           A2 == {j + 1 : j \in Upto(t, i, k)}
<1>1. n \in Nat \ {0} /\ DOMAIN s = 1..n /\ DOMAIN t = 1..(n - 1) /\ Head(s) = s[1] /\ \A j \in 1..(n - 1) : t[j] = s[j + 1]
  <2>1. n \in Nat /\ DOMAIN s = 1..n /\ n # 0
    BY LenProperties, EmptySeq
  <2>2. t \in Seq(Msg) /\ Len(t) = n - 1 /\ \A j \in 1..Len(t) : t[j] = s[j + 1]
    BY HeadTailProperties
  <2>3. DOMAIN t = 1..(n - 1)
    BY <2>2, LenProperties
  <2> QED
    BY <2>1, <2>2, <2>3
<1>2. t \in Seq(Msg)
  BY HeadTailProperties
<1> HIDE DEF n, t
<1>3. k \in 1..(n - 1) /\ k \in Nat /\ k \in Marked(t, i)
  BY <1>1 DEF Marked, t
<1>4. IsFiniteSet(Upto(s, i, k + 1)) /\ Cardinality(Upto(s, i, k + 1)) \in Nat
  BY MarkedFinite, FS_Subset, FS_CardinalityType DEF Upto
<1>5. Upto(t, i, k) \in SUBSET Nat /\ IsFiniteSet(Upto(t, i, k))
  <2>1. IsFiniteSet(Marked(t, i))
    BY <1>2, MarkedFinite
  <2>2. Upto(t, i, k) \in SUBSET Nat
    BY <1>1 DEF Upto, Marked
  <2> QED
    BY <2>1, <2>2, FS_Subset DEF Upto
<1>6. Cardinality(A2) = Cardinality(Upto(t, i, k))
  BY <1>5, Shifted
<1>7. A2 = Upto(s, i, k + 1) \ {1}
  <2>1. \A j \in A2 : j \in Upto(s, i, k + 1) /\ j # 1
    <3> SUFFICES ASSUME NEW j \in Upto(t, i, k) PROVE j + 1 \in Upto(s, i, k + 1) /\ j + 1 # 1
      OBVIOUS
    <3>1. j \in 1..(n - 1) /\ j <= k /\ t[j][1] = i
      BY <1>1 DEF Upto, Marked
    <3> QED
      BY <1>1, <1>3, <3>1 DEF Upto, Marked
  <2>2. ASSUME NEW j \in Upto(s, i, k + 1), j # 1 PROVE j \in A2
    <3>1. j \in 1..n /\ j <= k + 1 /\ s[j][1] = i
      BY <1>1 DEF Upto, Marked
    <3>2. j - 1 \in 1..(n - 1) /\ j - 1 <= k /\ t[j - 1] = s[j] /\ j = (j - 1) + 1
      BY <1>1, <1>3, <2>2, <3>1
    <3>3. j - 1 \in Upto(t, i, k)
      BY <1>1, <3>1, <3>2 DEF Upto, Marked
    <3> QED
      BY <3>2, <3>3
  <2> QED
    BY <2>1, <2>2
<1> HIDE DEF A2
<1>8. 1 \in Upto(s, i, k + 1) <=> Head(s)[1] = i
  BY <1>1, <1>3 DEF Upto, Marked
<1>9. Cardinality(A2) = Cardinality(Upto(s, i, k + 1)) - (IF Head(s)[1] = i THEN 1 ELSE 0)
  <2>1. CASE Head(s)[1] = i
    BY <1>4, <1>7, <1>8, <2>1, FS_RemoveElement
  <2>2. CASE Head(s)[1] # i
    <3>1. A2 = Upto(s, i, k + 1)
      BY <1>7, <1>8, <2>2
    <3> QED
      BY <1>4, <2>2, <3>1
  <2> QED
    BY <2>1, <2>2
<1>10. k + 1 \in Marked(s, i) /\ t[k] = s[k + 1]
  BY <1>1, <1>3 DEF Marked
<1> QED
  BY <1>4, <1>6, <1>9, <1>10 DEF t, OneLess

\* The server is no client, and there are two FIFOs at most.
LEMMA MProcs ==
    /\ 0 \notin Client /\ M!Procs = Client \union {0} /\ M!Server = 0 /\ M!None = 0
    /\ M!Fifos = {1, 2} /\ \A c \in Client : c # 0
  BY GamesAssumption DEF GamesAssumption, M!Procs, M!Server, M!None, M!Fifos

\* The numbers of the chunks are what the property asks for.
LEMMA MImplies == MInv => M!ChunksInOrder
<1> SUFFICES ASSUME MInv PROVE M!ChunksInOrder
  OBVIOUS
<1> SUFFICES ASSUME NEW c \in Client
             PROVE  LET pipe  == IF fifo[c] = M!None THEN <<>> ELSE content[fifo[c]]
                        mine  == {k \in DOMAIN pipe : pipe[k][1] = c}
                        before_it(k) == {j \in mine : j <= k}
                    IN  /\ \A k \in mine : pipe[k][2] = printed[c] + Cardinality(before_it(k))
                        /\ pc[0] = "opened" => /\ chunks[c] = printed[c] + Cardinality(mine)
                                               /\ pc[c] \notin {"killed", "opening"}
                        /\ printed[c] <= chunks[c]
  BY MProcs DEF M!ChunksInOrder, M!Cardinality, Cardinality
<1> DEFINE pipe == IF fifo[c] = M!None THEN <<>> ELSE content[fifo[c]]
           mine == Marked(pipe, c)
<1>1. c \in M!Procs
  BY MProcs
<1>2. fifo[c] \in {0, 1, 2} /\ content[2] = <<>> /\ printed[c] <= chunks[c] /\ chunks[c] \in Nat /\ printed[c] \in Nat
  BY <1>1 DEF MInv, MType, MOneFifo, MOrder
<1>3. pc[0] = "opened" => pc[c] \notin {"killed", "opening"}
  BY DEF MInv, MWaiting
<1>4. Cardinality(Marked(<<>>, c)) = 0 /\ \A k : k \notin Marked(<<>>, c)
  BY MarkedNone DEF Marked
<1>5. \A k \in mine : pipe[k][2] = printed[c] + Cardinality(Upto(pipe, c, k))
  <2>1. CASE fifo[c] = 1
    <3>1. pipe = content[1]
      BY <2>1, MProcs
    <3> HIDE DEF pipe
    <3> QED
      BY <3>1 DEF MInv, MOrder
  <2>2. CASE fifo[c] # 1
    <3>1. pipe = <<>>
      BY <1>2, <2>2, MProcs
    <3> HIDE DEF pipe
    <3> QED
      BY <1>4, <3>1
  <2> QED
    BY <2>1, <2>2
<1>6. pc[0] = "opened" => chunks[c] = printed[c] + Cardinality(mine)
  <2> SUFFICES ASSUME pc[0] = "opened" PROVE chunks[c] = printed[c] + Cardinality(mine)
    OBVIOUS
  <2>1. fifo[c] \in {0, 1}
    BY <1>1 DEF MInv, MOneFifo
  <2>2. CASE fifo[c] = 1
    <3>1. pipe = content[1]
      BY <2>2, MProcs
    <3> HIDE DEF pipe
    <3> QED
      BY <3>1 DEF MInv, MOrder
  <2>3. CASE fifo[c] = 0
    <3>1. pipe = <<>> /\ chunks[c] = 0
      BY <2>3, MProcs DEF MInv, MWaiting
    <3> HIDE DEF pipe
    <3> QED
      BY <1>2, <1>4, <3>1
  <2> QED
    BY <2>1, <2>2, <2>3
<1> QED
  BY <1>2, <1>3, <1>5, <1>6 DEF Marked, Upto

\* No FIFO, and nothing on its way.
LEMMA MInitially == M!Init => MInv
<1> SUFFICES ASSUME M!Init PROVE MInv
  OBVIOUS
<1>1. /\ content = [f \in {1, 2} |-> <<>>] /\ readers = [f \in {1, 2} |-> {}] /\ writers = [f \in {1, 2} |-> {}]
      /\ pc = [q \in M!Procs |-> "mkfifo"] /\ name \in {0, 1} /\ fifo = [q \in M!Procs |-> 0]
      /\ chunks = [c \in Client |-> 0] /\ printed = [c \in Client |-> 0]
  BY MProcs DEF M!Init
<1>2. MType
  BY <1>1, MProcs DEF MType
<1>3. MOneFifo
  BY <1>1, MProcs DEF MOneFifo
<1>4. MWaiting
  BY <1>1, MProcs DEF MWaiting
<1>5. MOrder
  <2> SUFFICES ASSUME NEW c \in Client
               PROVE /\ \A k \in Marked(content[1], c) : content[1][k][2] = printed[c] + Cardinality(Upto(content[1], c, k))
                     /\ chunks[c] = printed[c] + Cardinality(Marked(content[1], c))
                     /\ printed[c] <= chunks[c]
    BY DEF MOrder
  <2>1. content[1] = <<>> /\ chunks[c] = 0 /\ printed[c] = 0
    BY <1>1
  <2>2. Cardinality(Marked(<<>>, c)) = 0 /\ \A k : k \notin Marked(<<>>, c)
    BY MarkedNone DEF Marked
  <2> QED
    BY <2>1, <2>2
<1> QED
  BY <1>2, <1>3, <1>4, <1>5 DEF MInv

\* A step that changes nothing of the mail keeps its invariant.
LEMMA MStutter ==
    MInv /\ UNCHANGED <<content, readers, writers, pc, name, fifo, chunks, printed>> => MInv'
<1> SUFFICES ASSUME MInv, UNCHANGED <<content, readers, writers, pc, name, fifo, chunks, printed>> PROVE MInv'
  OBVIOUS
<1>1. MType'
  BY DEF MInv, MType
<1>2. MOneFifo'
  BY DEF MInv, MOneFifo
<1>3. MWaiting'
  BY DEF MInv, MWaiting
<1>4. MOrder'
  BY DEF MInv, MOrder, Marked, Upto
<1> QED
  BY <1>1, <1>2, <1>3, <1>4 DEF MInv

\* The order of the chunks is only disturbed by who writes or reads, or by the end of all.
LEMMA MOrderKept ==
    ASSUME MInv, UNCHANGED <<chunks, printed>>,
           \/ content'[1] = content[1] /\ (pc'[0] \notin {"unlink", "ended"} => pc[0] \notin {"unlink", "ended"})
           \/ content'[1] = <<>> /\ pc'[0] \in {"unlink", "ended"}
    PROVE  MOrder'
<1> SUFFICES ASSUME NEW c \in Client
             PROVE /\ \A k \in Marked(content'[1], c) : content'[1][k][2] = printed[c] + Cardinality(Upto(content'[1], c, k))
                   /\ pc'[0] \notin {"unlink", "ended"} => chunks[c] = printed[c] + Cardinality(Marked(content'[1], c))
                   /\ printed[c] <= chunks[c]
  BY DEF MOrder, Marked, Upto
<1>1. \A k : k \notin Marked(<<>>, c)
  BY DEF Marked
<1>2. CASE content'[1] = content[1] /\ (pc'[0] \notin {"unlink", "ended"} => pc[0] \notin {"unlink", "ended"})
  BY <1>2 DEF MInv, MOrder
<1>3. CASE content'[1] = <<>> /\ pc'[0] \in {"unlink", "ended"}
  BY <1>1, <1>3 DEF MInv, MOrder
<1> QED
  BY <1>2, <1>3

\* The FIFO is made, if it is not there.
LEMMA MMkfifo == ASSUME NEW q \in M!Procs PROVE MInv /\ M!Mkfifo(q) => MInv'
<1> SUFFICES ASSUME MInv, M!Mkfifo(q) PROVE MInv'
  OBVIOUS
<1>1. /\ pc[q] = "mkfifo" /\ pc' = [pc EXCEPT ![q] = "open"]
      /\ name' = IF name # 0 THEN name ELSE IF \E p \in M!Procs : fifo[p] # 0 THEN 2 ELSE 1
      /\ UNCHANGED <<content, readers, writers, fifo, chunks, printed>>
  BY MProcs DEF M!Mkfifo, M!Go, M!pipes
<1>2. DOMAIN pc' = M!Procs /\ pc'[q] = "open" /\ \A r \in M!Procs : r # q => pc'[r] = pc[r]
  BY <1>1 DEF MInv, MType
<1>3. 0 \in M!Procs /\ \A c \in Client : c \in M!Procs
  BY MProcs
<1>4. name' \in {1, 2} /\ (pc[0] # "ended" => name' = 1)
  BY <1>1 DEF MInv, MType, MOneFifo
<1>5. \/ pc'[0] = pc[0]
      \/ pc[0] = "mkfifo" /\ pc'[0] = "open"
  BY <1>1, <1>2, <1>3
<1>6. MType'
  BY <1>1, <1>2, <1>3, <1>4 DEF MInv, MType
<1>7. MOneFifo'
  BY <1>1, <1>4, <1>5 DEF MInv, MOneFifo
<1>8. MWaiting'
  BY <1>1, <1>2, <1>3, <1>5 DEF MInv, MWaiting
<1>9. MOrder'
  BY <1>1, <1>5, MOrderKept
<1> QED
  BY <1>6, <1>7, <1>8, <1>9 DEF MInv

\* Who finds that the name is gone ends.
LEMMA MOpenFails == ASSUME NEW q \in M!Procs PROVE MInv /\ M!OpenFails(q) => MInv'
<1> SUFFICES ASSUME MInv, M!OpenFails(q) PROVE MInv'
  OBVIOUS
<1>1. /\ pc[q] = "open" /\ name = 0 /\ pc' = [pc EXCEPT ![q] = "ended"]
      /\ UNCHANGED <<content, readers, writers, name, fifo, chunks, printed>>
  BY MProcs DEF M!OpenFails, M!Go, M!pipes
<1>2. DOMAIN pc' = M!Procs /\ pc'[q] = "ended" /\ \A r \in M!Procs : r # q => pc'[r] = pc[r]
  BY <1>1 DEF MInv, MType
<1>3. 0 \in M!Procs /\ \A c \in Client : c \in M!Procs
  BY MProcs
<1>4. pc'[0] = pc[0] /\ q # 0
  BY <1>1, <1>2, <1>3 DEF MInv, MOneFifo
<1>5. MType'
  BY <1>1, <1>2, <1>3, <1>4 DEF MInv, MType
<1>6. MOneFifo'
  BY <1>1, <1>4 DEF MInv, MOneFifo
<1>7. MWaiting'
  BY <1>1, <1>2, <1>3, <1>4 DEF MInv, MWaiting
<1>8. MOrder'
  BY <1>1, <1>4, MOrderKept
<1> QED
  BY <1>5, <1>6, <1>7, <1>8 DEF MInv

\* The server opens the FIFO: clients that wait go on.
LEMMA MServerOpens == MInv /\ M!Open(0) => MInv'
<1> SUFFICES ASSUME MInv, M!Open(0) PROVE MInv'
  OBVIOUS
<1> DEFINE place == IF writers[name] = {} THEN "opening" ELSE "opened"
<1>1. /\ pc[0] = "open" /\ name # 0 /\ readers' = [readers EXCEPT ![name] = @ \union {0}]
      /\ pc' = [p \in M!Procs |-> IF p = 0 THEN place
                                  ELSE IF p \in writers[name] /\ pc[p] = "opening" THEN "opened" ELSE pc[p]]
      /\ fifo' = [fifo EXCEPT ![0] = name] /\ UNCHANGED <<content, writers, name, chunks, printed>>
  BY MProcs DEF M!Open
<1>2. 0 \in M!Procs /\ \A c \in Client : c \in M!Procs /\ c # 0
  BY MProcs
<1>3. name = 1 /\ readers[1] = {} /\ readers[2] = {} /\ content[1] = <<>>
  BY <1>1 DEF MInv, MOneFifo
<1>4. DOMAIN readers' = M!Fifos /\ readers'[1] = {0} /\ readers'[2] = {}
  BY <1>1, <1>3, MProcs DEF MInv, MType
<1>5. DOMAIN pc' = M!Procs /\ pc'[0] = place /\ place \in {"opening", "opened"} /\ (place = "opening" => writers[1] = {})
  BY <1>1, <1>2, <1>3
<1>6. \A c \in Client : pc'[c] = IF pc[c] = "opening" THEN "opened" ELSE pc[c]
  <2> SUFFICES ASSUME NEW c \in Client, pc[c] = "opening" PROVE c \in writers[1]
    BY <1>1, <1>2, <1>3
  <2>1. fifo[c] # 0 /\ fifo[c] \in {0, 1} /\ c \in writers[fifo[c]]
    BY <1>1, <1>2 DEF MInv, MOneFifo, MWaiting
  <2> QED
    BY <2>1
<1> HIDE DEF place
<1>7. DOMAIN fifo' = M!Procs /\ fifo'[0] = 1 /\ \A c \in Client : fifo'[c] = fifo[c]
  BY <1>1, <1>2, <1>3 DEF MInv, MType
<1>8. MType'
  <2>1. \A q \in M!Procs : fifo'[q] \in {0, 1, 2}
    BY <1>2, <1>7, MProcs DEF MInv, MType
  <2>2. \A c \in Client : pc'[c] \in {"mkfifo", "open", "opening", "opened", "ended", "killed"}
    BY <1>6 DEF MInv, MType
  <2> QED
    BY <1>1, <1>4, <1>5, <1>7, <2>1, <2>2 DEF MInv, MType
<1>9. MOneFifo'
  <2>1. \A q \in M!Procs : fifo'[q] \in {0, 1}
    BY <1>1, <1>2, <1>7, MProcs DEF MInv, MOneFifo
  <2> QED
    BY <1>1, <1>3, <1>4, <1>5, <1>7, <2>1 DEF MInv, MOneFifo
<1>10. MWaiting'
  <2>1. pc'[0] = "opening" => writers'[1] = {}
    BY <1>1, <1>5
  <2> SUFFICES ASSUME NEW c \in Client
               PROVE  /\ fifo'[c] = 0 => chunks'[c] = 0 /\ pc'[c] \in {"mkfifo", "open", "ended"}
                      /\ pc'[c] = "opened" => fifo'[c] = 1 /\ pc'[0] \notin {"mkfifo", "open", "opening"}
                      /\ pc'[c] # "opening" /\ pc'[c] # "killed"
    BY <2>1 DEF MWaiting
  <2>2. /\ fifo[c] = 0 => chunks[c] = 0 /\ pc[c] \in {"mkfifo", "open", "ended"}
        /\ pc[c] # "opened" /\ pc[c] # "killed" /\ fifo[c] \in {0, 1}
        /\ pc[c] = "opening" => c \in writers[fifo[c]]
    BY <1>1, <1>2 DEF MInv, MOneFifo, MWaiting
  <2>3. pc[c] = "opening" => fifo[c] = 1 /\ writers[1] # {}
    BY <2>2
  <2>4. pc'[c] = IF pc[c] = "opening" THEN "opened" ELSE pc[c]
    BY <1>6
  <2> QED
    BY <1>1, <1>5, <1>7, <2>2, <2>3, <2>4
<1>11. MOrder'
  BY <1>1, <1>5, MOrderKept
<1> QED
  BY <1>8, <1>9, <1>10, <1>11 DEF MInv

\* A client opens the FIFO: the server goes on if it waits.
LEMMA MClientOpens == ASSUME NEW c \in Client PROVE MInv /\ M!Open(c) => MInv'
<1> SUFFICES ASSUME MInv, M!Open(c) PROVE MInv'
  OBVIOUS
<1> DEFINE place == IF readers[name] = {} THEN "opening" ELSE "opened"
<1>1. /\ pc[c] = "open" /\ name # 0 /\ writers' = [writers EXCEPT ![name] = @ \union {c}]
      /\ pc' = [p \in M!Procs |-> IF p = c THEN place
                                  ELSE IF p \in readers[name] /\ pc[p] = "opening" THEN "opened" ELSE pc[p]]
      /\ fifo' = [fifo EXCEPT ![c] = name] /\ UNCHANGED <<content, readers, name, chunks, printed>>
  BY MProcs DEF M!Open
<1>2. 0 \in M!Procs /\ \A d \in Client : d \in M!Procs /\ d # 0
  BY MProcs
<1>3. name \in {1, 2} /\ (pc[0] # "ended" => name = 1) /\ readers[2] = {}
      /\ readers[1] = IF pc[0] \in {"opening", "opened", "close"} THEN {0} ELSE {}
  BY <1>1 DEF MInv, MType, MOneFifo
<1>4. readers[name] = IF pc[0] \in {"opening", "opened", "close"} THEN {0} ELSE {}
  BY <1>3
<1>5. /\ DOMAIN pc' = M!Procs /\ pc'[c] = place
      /\ pc'[0] = IF pc[0] = "opening" THEN "opened" ELSE pc[0]
      /\ \A d \in Client : d # c => pc'[d] = pc[d]
  BY <1>1, <1>2, <1>4
<1>6. place = IF pc[0] \in {"opening", "opened", "close"} THEN "opened" ELSE "opening"
  BY <1>4
<1> HIDE DEF place
<1>7. DOMAIN fifo' = M!Procs /\ fifo'[c] = name /\ \A q \in M!Procs : q # c => fifo'[q] = fifo[q]
  BY <1>1, <1>2 DEF MInv, MType
<1>8. /\ DOMAIN writers' = M!Fifos /\ c \in writers'[name] /\ (\A f \in M!Fifos : writers[f] \subseteq writers'[f])
      /\ \A f \in M!Fifos : f # name => writers'[f] = writers[f]
  BY <1>1, <1>3, MProcs DEF MInv, MType
<1>9. MType'
  <2>1. \A q \in M!Procs : fifo'[q] \in {0, 1, 2}
    BY <1>3, <1>7 DEF MInv, MType
  <2>2. \A d \in Client : pc'[d] \in {"mkfifo", "open", "opening", "opened", "ended", "killed"}
    BY <1>5, <1>6 DEF MInv, MType
  <2>3. pc'[0] \in {"mkfifo", "open", "opening", "opened", "close", "unlink", "ended"}
    BY <1>5 DEF MInv, MType
  <2> QED
    BY <1>1, <1>5, <1>7, <1>8, <2>1, <2>2, <2>3 DEF MInv, MType
<1>10. MOneFifo'
  <2>1. pc'[0] # "ended" => /\ name' \in {0, 1} /\ \A q \in M!Procs : fifo'[q] \in {0, 1}
                            /\ name' # 0
    BY <1>1, <1>3, <1>5, <1>7 DEF MInv, MOneFifo
  <2>2. fifo'[0] = fifo[0]
    BY <1>2, <1>7
  <2> QED
    BY <1>1, <1>5, <2>1, <2>2 DEF MInv, MOneFifo
<1>11. MWaiting'
  <2>1. pc'[0] # "opening"
    BY <1>5
  <2> SUFFICES ASSUME NEW d \in Client
               PROVE  /\ fifo'[d] = 0 => chunks'[d] = 0 /\ pc'[d] \in {"mkfifo", "open", "ended"}
                      /\ pc'[d] = "opened" => fifo'[d] = 1 /\ pc'[0] \notin {"mkfifo", "open", "opening"}
                      /\ pc'[d] = "opening" => d \in writers'[fifo'[d]] /\ pc'[0] \notin {"opening", "opened", "close"}
                      /\ pc'[d] = "killed" => pc'[0] \in {"unlink", "ended"}
    BY <2>1 DEF MWaiting
  <2>2. CASE d = c
    <3>1. fifo'[d] = name /\ pc'[d] = place
      BY <1>5, <1>7, <2>2
    <3>2. CASE pc[0] \in {"opening", "opened", "close"}
      BY <1>3, <1>5, <1>6, <3>1, <3>2
    <3>3. CASE pc[0] \notin {"opening", "opened", "close"}
      BY <1>3, <1>5, <1>6, <1>8, <2>2, <3>1, <3>3
    <3> QED
      BY <3>2, <3>3
  <2>3. CASE d # c
    <3>1. pc'[d] = pc[d] /\ fifo'[d] = fifo[d] /\ fifo[d] \in {0, 1, 2} /\ d # 0
      BY <1>2, <1>5, <1>7, <2>3 DEF MInv, MType
    <3>2. /\ fifo[d] = 0 => chunks[d] = 0 /\ pc[d] \in {"mkfifo", "open", "ended"}
          /\ pc[d] = "opened" => fifo[d] = 1 /\ pc[0] \notin {"mkfifo", "open", "opening"}
          /\ pc[d] = "opening" => d \in writers[fifo[d]] /\ pc[0] \notin {"opening", "opened", "close"}
          /\ pc[d] = "killed" => pc[0] \in {"unlink", "ended"}
      BY DEF MInv, MWaiting
    <3>3. pc[d] = "opening" => fifo[d] \in M!Fifos
      BY <3>1, <3>2, MProcs
    <3>4. pc[d] = "opening" => d \in writers'[fifo[d]]
      BY <1>8, <3>2, <3>3
    <3> QED
      BY <1>1, <1>5, <3>1, <3>2, <3>4
  <2> QED
    BY <2>2, <2>3
<1>12. MOrder'
  BY <1>1, <1>5, MOrderKept
<1> QED
  BY <1>9, <1>10, <1>11, <1>12 DEF MInv

\* The chunk written is the last one of its client in the FIFO.
LEMMA MPutsChunk ==
    ASSUME MInv, NEW c \in Client, pc[c] = "opened", readers[1] # {},
           content' = [content EXCEPT ![1] = Append(@, <<c, chunks[c] + 1>>)],
           chunks' = [chunks EXCEPT ![c] = @ + 1], UNCHANGED <<readers, writers, pc, name, fifo, printed>>
    PROVE  MInv'
<1> DEFINE m == <<c, chunks[c] + 1>>
           s == content[1]
           t == Append(s, m)
<1>1. s \in Seq(MMsg) /\ chunks[c] \in Nat /\ printed[c] \in Nat
  BY MProcs DEF MInv, MType
<1>2. m \in MMsg /\ m[1] = c /\ m[2] = chunks[c] + 1
  BY <1>1 DEF MMsg
<1>3. DOMAIN content' = M!Fifos /\ content'[1] = t /\ content'[2] = content[2]
  BY MProcs DEF MInv, MType
<1>4. DOMAIN chunks' = Client /\ chunks'[c] = chunks[c] + 1 /\ \A d \in Client : d # c => chunks'[d] = chunks[d]
  BY DEF MInv, MType
<1>5. pc[0] \in {"opened", "close"}
  BY DEF MInv, MOneFifo, MWaiting
<1>6. t \in Seq(MMsg)
  BY <1>1, <1>2, AppendProperties
<1> HIDE DEF m
<1>7. MType'
  <2>1. \A f \in M!Fifos : content'[f] \in Seq(MMsg)
    BY <1>3, <1>6, MProcs DEF MInv, MType
  <2>2. \A d \in Client : chunks'[d] \in Nat
    BY <1>1, <1>4 DEF MInv, MType
  <2> QED
    BY <1>3, <1>4, <2>1, <2>2 DEF MInv, MType
<1>8. MOneFifo'
  BY <1>3, <1>5 DEF MInv, MOneFifo
<1>9. MWaiting'
  BY <1>4 DEF MInv, MWaiting
<1>10. MOrder'
  <2> SUFFICES ASSUME NEW d \in Client
               PROVE LET now == content'[1]
                     IN  /\ \A k \in Marked(now, d) : now[k][2] = printed[d] + Cardinality(Upto(now, d, k))
                         /\ chunks'[d] = printed[d] + Cardinality(Marked(now, d))
                         /\ printed[d] <= chunks'[d]
    BY DEF MOrder, Marked, Upto
  <2>1. /\ \A k \in Marked(s, d) : s[k][2] = printed[d] + Cardinality(Upto(s, d, k))
        /\ chunks[d] = printed[d] + Cardinality(Marked(s, d))
        /\ printed[d] <= chunks[d] /\ printed[d] \in Nat /\ chunks[d] \in Nat
    BY <1>5 DEF MInv, MOrder, MType
  <2> HIDE DEF s
  <2>2. /\ \A k \in Marked(t, d) : k \in Marked(s, d) \/ (k = Len(s) + 1 /\ m[1] = d)
        /\ \A k \in Marked(s, d) : t[k] = s[k] /\ Upto(t, d, k) = Upto(s, d, k)
        /\ Upto(t, d, Len(s) + 1) = Marked(t, d)
        /\ t[Len(s) + 1] = m
    <3>1. OneMore(s, t, m, d)
      BY <1>1, <1>2, UptoAppend
    <3> QED
      BY <3>1 DEF OneMore
  <2>3. Cardinality(Marked(t, d)) = Cardinality(Marked(s, d)) + (IF m[1] = d THEN 1 ELSE 0)
    BY <1>1, <1>2, MarkedAppend
  <2>4. Cardinality(Marked(s, d)) \in Nat
    BY <1>1, MarkedFinite
  <2> HIDE DEF t
  <2>5. chunks'[d] = printed[d] + Cardinality(Marked(t, d))
    <3>1. CASE d = c
      BY <1>2, <1>4, <2>1, <2>3, <2>4, <3>1
    <3>2. CASE d # c
      BY <1>2, <1>4, <2>1, <2>3, <2>4, <3>2
    <3> QED
      BY <3>1, <3>2
  <2>6. \A k \in Marked(t, d) : t[k][2] = printed[d] + Cardinality(Upto(t, d, k))
    <3> SUFFICES ASSUME NEW k \in Marked(t, d) PROVE t[k][2] = printed[d] + Cardinality(Upto(t, d, k))
      OBVIOUS
    <3>1. CASE k \in Marked(s, d)
      BY <2>1, <2>2, <3>1
    <3>2. CASE k = Len(s) + 1 /\ m[1] = d
      BY <1>2, <1>4, <2>2, <2>5, <3>2
    <3> QED
      BY <2>2, <3>1, <3>2
  <2>7. printed[d] <= chunks'[d]
    BY <1>4, <2>1
  <2> QED
    BY <1>3, <2>5, <2>6, <2>7
<1> QED
  BY <1>7, <1>8, <1>9, <1>10 DEF MInv

\* A client exits, or is killed when the server has gone.
LEMMA MClientLeaves ==
    ASSUME MInv, NEW c \in Client, pc[c] = "opened", NEW place \in {"ended", "killed"}, pc' = [pc EXCEPT ![c] = place],
           M!Close(c, DOMAIN readers, DOMAIN writers), place = "killed" => readers[1] = {},
           UNCHANGED <<name, fifo, chunks, printed>>
    PROVE  MInv'
<1>1. /\ DOMAIN content' = M!Fifos /\ DOMAIN readers' = M!Fifos /\ DOMAIN writers' = M!Fifos
      /\ \A f \in M!Fifos : /\ readers'[f] = readers[f] \ {c} /\ writers'[f] = writers[f] \ {c}
                           /\ content'[f] = IF readers'[f] = {} THEN <<>> ELSE content[f]
  BY DEF M!Close, MInv, MType
<1>2. 0 \in M!Procs /\ \A d \in Client : d \in M!Procs /\ d # 0
  BY MProcs
<1>3. \A f \in M!Fifos : readers'[f] = readers[f]
  <2>1. c # 0 /\ c \notin {0}
    BY <1>2
  <2>2. c \notin readers[1] /\ c \notin readers[2]
    BY <2>1 DEF MInv, MOneFifo
  <2>3. readers[1] \ {c} = readers[1] /\ readers[2] \ {c} = readers[2]
    BY <2>2
  <2> QED
    BY <1>1, <2>3, MProcs
<1>4. \A f \in M!Fifos : content'[f] = content[f]
  BY <1>1, <1>3, MProcs DEF MInv, MOneFifo
<1>5. DOMAIN pc' = M!Procs /\ pc'[c] = place /\ pc'[0] = pc[0] /\ \A d \in Client : d # c => pc'[d] = pc[d]
  BY <1>2 DEF MInv, MType
<1>6. fifo[c] = 1 /\ pc[0] \notin {"mkfifo", "open", "opening"}
  BY DEF MInv, MWaiting
<1>7. place = "killed" => pc[0] \in {"unlink", "ended"}
  BY <1>6 DEF MInv, MType, MOneFifo
<1>8. MType'
  BY <1>1, <1>4, <1>5 DEF MInv, MType
<1>9. MOneFifo'
  BY <1>3, <1>4, <1>5, MProcs DEF MInv, MOneFifo
<1>10. MWaiting'
  <2> SUFFICES ASSUME NEW d \in Client
               PROVE  /\ fifo'[d] = 0 => chunks'[d] = 0 /\ pc'[d] \in {"mkfifo", "open", "ended"}
                      /\ pc'[d] = "opened" => fifo'[d] = 1 /\ pc'[0] \notin {"mkfifo", "open", "opening"}
                      /\ pc'[d] = "opening" => d \in writers'[fifo'[d]] /\ pc'[0] \notin {"opening", "opened", "close"}
                      /\ pc'[d] = "killed" => pc'[0] \in {"unlink", "ended"}
    BY <1>5, <1>6 DEF MWaiting
  <2>1. CASE d = c
    BY <1>5, <1>6, <1>7, <2>1
  <2>2. CASE d # c
    <3>1. /\ fifo[d] = 0 => chunks[d] = 0 /\ pc[d] \in {"mkfifo", "open", "ended"}
          /\ pc[d] = "opened" => fifo[d] = 1 /\ pc[0] \notin {"mkfifo", "open", "opening"}
          /\ pc[d] = "opening" => d \in writers[fifo[d]] /\ pc[0] \notin {"opening", "opened", "close"}
          /\ pc[d] = "killed" => pc[0] \in {"unlink", "ended"}
      BY DEF MInv, MWaiting
    <3>2. fifo[d] \in {0, 1, 2}
      BY <1>2 DEF MInv, MType
    <3>3. pc[d] = "opening" => d \in writers'[fifo[d]]
      BY <1>1, <2>2, <3>1, <3>2, MProcs
    <3> QED
      BY <1>5, <2>2, <3>1, <3>3
  <2> QED
    BY <2>1, <2>2
<1>11. MOrder'
  BY <1>4, <1>5, MOrderKept, MProcs
<1> QED
  BY <1>8, <1>9, <1>10, <1>11 DEF MInv

\* A chunk is written, or SIGPIPE kills the client.
LEMMA MWrite == ASSUME NEW c \in Client PROVE MInv /\ M!Write(c) => MInv'
<1> SUFFICES ASSUME MInv, M!Write(c) PROVE MInv'
  OBVIOUS
<1>1. pc[c] = "opened" /\ fifo[c] = 1 /\ UNCHANGED <<name, fifo, printed>>
  BY DEF M!Write, MInv, MWaiting
<1>2. CASE /\ M!Writable(1) /\ M!Put(1, <<c, chunks[c] + 1>>) /\ chunks' = [chunks EXCEPT ![c] = @ + 1]
           /\ UNCHANGED <<pc, readers, writers>>
  BY <1>1, <1>2, MPutsChunk DEF M!Writable, M!Broken, M!Put
<1>3. CASE M!Broken(1) /\ M!Exit(c) /\ M!Go(c, "killed") /\ UNCHANGED chunks
  BY <1>1, <1>3, MClientLeaves DEF M!Broken, M!Exit, M!Go
<1> QED
  BY <1>1, <1>2, <1>3 DEF M!Write

\* A client that has written all closes the FIFO.
LEMMA MFinish == ASSUME NEW c \in Client PROVE MInv /\ M!Finish(c) => MInv'
<1> SUFFICES ASSUME MInv, M!Finish(c) PROVE MInv'
  OBVIOUS
<1>1. /\ pc[c] = "opened" /\ M!Close(c, DOMAIN readers, DOMAIN writers) /\ pc' = [pc EXCEPT ![c] = "ended"]
      /\ "ended" \in {"ended", "killed"} /\ UNCHANGED <<name, fifo, chunks, printed>>
  BY DEF M!Finish, M!Exit, M!Go
<1> QED
  BY <1>1, MClientLeaves

\* The chunk printed is the next one of its client.
LEMMA MPrintChunk == MInv /\ M!PrintChunk => MInv'
<1> SUFFICES ASSUME MInv, M!PrintChunk PROVE MInv'
  OBVIOUS
<1> DEFINE s == content[1]
           t == Tail(s)
           c == Head(s)[1]
<1>1. pc[0] = "opened" /\ fifo[0] = 1
  BY MProcs DEF M!PrintChunk, MInv, MOneFifo
<1>2. /\ s # <<>> /\ printed' = [printed EXCEPT ![c] = @ + 1] /\ content' = [content EXCEPT ![1] = Tail(@)]
      /\ UNCHANGED <<readers, writers, pc, name, fifo, chunks>>
  BY <1>1, MProcs DEF M!PrintChunk, M!Readable, M!Take
<1>3. s \in Seq(MMsg)
  BY MProcs DEF MInv, MType
<1>4. t \in Seq(MMsg) /\ Head(s) \in MMsg /\ Head(s) = s[1] /\ 1 \in DOMAIN s
  BY <1>2, <1>3, LenProperties, EmptySeq, HeadTailProperties
<1>5. c \in Client
  BY <1>4 DEF MMsg
<1>6. DOMAIN content' = M!Fifos /\ content'[1] = t /\ content'[2] = content[2]
  BY <1>2, MProcs DEF MInv, MType
<1>7. DOMAIN printed' = Client /\ printed'[c] = printed[c] + 1 /\ \A d \in Client : d # c => printed'[d] = printed[d]
  BY <1>2, <1>5 DEF MInv, MType
<1> HIDE DEF c
<1>8. MType'
  <2>1. \A f \in M!Fifos : content'[f] \in Seq(MMsg)
    BY <1>4, <1>6, MProcs DEF MInv, MType
  <2>2. \A d \in Client : printed'[d] \in Nat
    BY <1>5, <1>7 DEF MInv, MType
  <2> QED
    BY <1>2, <1>6, <1>7, <2>1, <2>2 DEF MInv, MType
<1>9. MOneFifo'
  BY <1>1, <1>2, <1>6 DEF MInv, MOneFifo
<1>10. MWaiting'
  BY <1>2 DEF MInv, MWaiting
<1>11. MOrder'
  <2> SUFFICES ASSUME NEW d \in Client
               PROVE LET now == content'[1]
                     IN  /\ \A k \in Marked(now, d) : now[k][2] = printed'[d] + Cardinality(Upto(now, d, k))
                         /\ chunks[d] = printed'[d] + Cardinality(Marked(now, d))
                         /\ printed'[d] <= chunks[d]
    BY <1>2 DEF MOrder, Marked, Upto
  <2>1. /\ \A k \in Marked(s, d) : s[k][2] = printed[d] + Cardinality(Upto(s, d, k))
        /\ chunks[d] = printed[d] + Cardinality(Marked(s, d))
        /\ printed[d] \in Nat /\ chunks[d] \in Nat
    BY <1>1 DEF MInv, MOrder, MType
  <2> HIDE DEF s
  <2>2. Cardinality(Marked(t, d)) = Cardinality(Marked(s, d)) - (IF c = d THEN 1 ELSE 0)
    BY <1>2, <1>3, MarkedTail DEF c
  <2>3. Cardinality(Marked(s, d)) \in Nat /\ Cardinality(Marked(t, d)) \in Nat
    BY <1>3, <1>4, MarkedFinite
  <2>4. printed'[d] = printed[d] + (IF c = d THEN 1 ELSE 0)
    BY <1>7, <2>1
  <2>5. \A k \in Marked(t, d) : t[k][2] = printed'[d] + Cardinality(Upto(t, d, k))
    <3> SUFFICES ASSUME NEW k \in Marked(t, d) PROVE t[k][2] = printed'[d] + Cardinality(Upto(t, d, k))
      OBVIOUS
    <3>1. /\ k + 1 \in Marked(s, d) /\ t[k] = s[k + 1] /\ Cardinality(Upto(s, d, k + 1)) \in Nat
          /\ Cardinality(Upto(t, d, k)) = Cardinality(Upto(s, d, k + 1)) - (IF c = d THEN 1 ELSE 0)
      <4>1. OneLess(s, t, Head(s), d, k)
        BY <1>2, <1>3, UptoTail
      <4> QED
        BY <4>1 DEF OneLess, c
    <3>2. t[k][2] = printed[d] + Cardinality(Upto(s, d, k + 1))
      BY <2>1, <3>1
    <3> HIDE DEF t
    <3>3. CASE c = d
      BY <2>1, <2>4, <3>1, <3>2, <3>3
    <3>4. CASE c # d
      BY <2>1, <2>4, <3>1, <3>2, <3>4
    <3> QED
      BY <3>3, <3>4
  <2> HIDE DEF t
  <2>6. chunks[d] = printed'[d] + Cardinality(Marked(t, d))
    BY <2>1, <2>2, <2>3, <2>4
  <2>7. printed'[d] <= chunks[d]
    BY <2>1, <2>3, <2>4, <2>6
  <2> QED
    BY <1>6, <2>5, <2>6, <2>7
<1> QED
  BY <1>8, <1>9, <1>10, <1>11 DEF MInv

\* The server finds that nobody writes, and nothing is left.
LEMMA MSeeEof == MInv /\ M!SeeEof => MInv'
<1> SUFFICES ASSUME MInv, M!SeeEof PROVE MInv'
  OBVIOUS
<1>1. pc[0] = "opened" /\ pc' = [pc EXCEPT ![0] = "close"]
      /\ UNCHANGED <<content, readers, writers, name, fifo, chunks, printed>>
  BY MProcs DEF M!SeeEof, M!Go, M!pipes
<1>2. DOMAIN pc' = M!Procs /\ pc'[0] = "close" /\ \A c \in Client : pc'[c] = pc[c]
  BY <1>1, MProcs DEF MInv, MType
<1>3. MType'
  BY <1>1, <1>2 DEF MInv, MType
<1>4. MOneFifo'
  BY <1>1, <1>2 DEF MInv, MOneFifo
<1>5. MWaiting'
  BY <1>1, <1>2 DEF MInv, MWaiting
<1>6. MOrder'
  BY <1>1, <1>2, MOrderKept
<1> QED
  BY <1>3, <1>4, <1>5, <1>6 DEF MInv

\* The server closes the FIFO: what is in it is lost.
LEMMA MCloseFifo == MInv /\ M!CloseFifo => MInv'
<1> SUFFICES ASSUME MInv, M!CloseFifo PROVE MInv'
  OBVIOUS
<1> DEFINE place == IF unlinks THEN "unlink" ELSE "ended"
<1>1. pc[0] = "close" /\ M!Close(0, DOMAIN readers, DOMAIN writers) /\ pc' = [pc EXCEPT ![0] = place]
      /\ UNCHANGED <<name, fifo, chunks, printed>>
  BY MProcs DEF M!CloseFifo, M!Exit, M!Go
<1>2. place \in {"unlink", "ended"}
  OBVIOUS
<1> HIDE DEF place
<1>3. /\ DOMAIN content' = M!Fifos /\ DOMAIN readers' = M!Fifos /\ DOMAIN writers' = M!Fifos
      /\ \A f \in M!Fifos : /\ readers'[f] = readers[f] \ {0} /\ writers'[f] = writers[f] \ {0}
                           /\ content'[f] = IF readers'[f] = {} THEN <<>> ELSE content[f]
  BY <1>1 DEF M!Close, MInv, MType
<1>4. readers'[1] = {} /\ readers'[2] = {} /\ content'[1] = <<>> /\ content'[2] = <<>>
  BY <1>1, <1>3, MProcs DEF MInv, MOneFifo
<1>5. DOMAIN pc' = M!Procs /\ pc'[0] = place /\ \A c \in Client : pc'[c] = pc[c]
  BY <1>1, MProcs DEF MInv, MType
<1>6. MType'
  <2>1. <<>> \in Seq(MMsg)
    OBVIOUS
  <2>2. \A f \in M!Fifos : content'[f] \in Seq(MMsg)
    BY <1>4, <2>1, MProcs
  <2> QED
    BY <1>1, <1>2, <1>3, <1>5, <2>2 DEF MInv, MType
<1>7. MOneFifo'
  BY <1>1, <1>2, <1>4, <1>5 DEF MInv, MOneFifo
<1>8. MWaiting'
  BY <1>1, <1>2, <1>5 DEF MInv, MWaiting
<1>9. MOrder'
  BY <1>1, <1>2, <1>4, <1>5, MOrderKept
<1> QED
  BY <1>6, <1>7, <1>8, <1>9 DEF MInv

\* The server removes the name and ends.
LEMMA MUnlink == MInv /\ M!Unlink => MInv'
<1> SUFFICES ASSUME MInv, M!Unlink PROVE MInv'
  OBVIOUS
<1>1. pc[0] = "unlink" /\ pc' = [pc EXCEPT ![0] = "ended"] /\ name' = 0
      /\ UNCHANGED <<content, readers, writers, fifo, chunks, printed>>
  BY MProcs DEF M!Unlink, M!Go, M!pipes
<1>2. DOMAIN pc' = M!Procs /\ pc'[0] = "ended" /\ \A c \in Client : pc'[c] = pc[c]
  BY <1>1, MProcs DEF MInv, MType
<1>3. MType'
  BY <1>1, <1>2 DEF MInv, MType
<1>4. MOneFifo'
  BY <1>1, <1>2 DEF MInv, MOneFifo
<1>5. MWaiting'
  BY <1>1, <1>2 DEF MInv, MWaiting
<1>6. MOrder'
  BY <1>1, <1>2, MOrderKept
<1> QED
  BY <1>3, <1>4, <1>5, <1>6 DEF MInv

\* Every step of the mail keeps its invariant.
LEMMA MNext == MInv /\ M!Next => MInv'
<1> SUFFICES ASSUME MInv, M!Next PROVE MInv'
  OBVIOUS
<1>1. \/ \E q \in M!Procs : M!Mkfifo(q) \/ M!OpenFails(q)
      \/ M!Open(0) \/ M!PrintChunk \/ M!SeeEof \/ M!CloseFifo \/ M!Unlink
      \/ \E c \in Client : M!Open(c) \/ M!Write(c) \/ M!Finish(c)
  BY MProcs DEF M!Next, M!Act
<1> QED
  BY <1>1, MMkfifo, MOpenFails, MServerOpens, MPrintChunk, MSeeEof, MCloseFifo, MUnlink, MClientOpens, MWrite, MFinish

-----------------------------------------------------------------------------
(* All programs. *)

\* The program played is in its invariant.
GInv ==
    /\ program = "lotto"         => LInv
    /\ program = "roulette"      => RInv
    /\ program = "cards"         => CInv
    /\ program = "ship"          => SInv
    /\ program = "ring"          => TInv
    /\ program = "battle"        => KInv
    /\ program = "factory"       => FInv
    /\ program = "child pipes"   => PInv
    /\ program = "child letters" => BInv
    /\ program = "mail"          => MInv

\* Whichever program is played begins in its invariant.
LEMMA GInitially == Init => GInv
<1> SUFFICES ASSUME Init PROVE GInv
  OBVIOUS
<1>1. \/ program = "lotto" /\ L!Init
      \/ program = "roulette" /\ R!Init
      \/ program = "cards" /\ C!Init
      \/ program = "ship" /\ S!Init
      \/ program = "ring" /\ T!Init
      \/ program = "battle" /\ K!Init
      \/ program = "factory" /\ F!Init
      \/ program = "child pipes" /\ P!Init
      \/ program = "child letters" /\ B!Init
      \/ program = "mail" /\ M!Init
  <2>1. InitGames \/ InitTutorials
    BY DEF Init
  <2>2. CASE InitGames
    BY <2>2, Zenon DEF InitGames
  <2>3. CASE InitTutorials
    BY <2>3, Zenon DEF InitTutorials
  <2> QED
    BY <2>1, <2>2, <2>3
<1> QED
  BY <1>1, LInitially, RInitially, CInitially, SInitially, TInitially, KInitially,
     FInitially, PInitially, BInitially, MInitially DEF GInv

\* A step of one program keeps the invariant of that program, and none is another one's.
LEMMA GNext == GInv /\ [Next]_vars => GInv'
<1> SUFFICES ASSUME GInv, [Next]_vars PROVE GInv'
  OBVIOUS
<1>1. CASE Lotto(L!Next)
  BY <1>1, LNext DEF Lotto, GInv
<1>2. CASE Roulette(R!Next)
  BY <1>2, RNext DEF Roulette, GInv
<1>3. CASE PipeCards(C!Next)
  BY <1>3, CNext DEF PipeCards, GInv
<1>4. CASE ShipCards(S!Next)
  BY <1>4, SNext DEF ShipCards, GInv
<1>5. CASE TokenRing(T!Next)
  BY <1>5, TNext DEF TokenRing, GInv
<1>6. CASE Knights(K!Next)
  BY <1>6, KNext DEF Knights, GInv
<1>7. CASE Factory(F!Next)
  BY <1>7, FNext DEF Factory, GInv
<1>8. CASE ChildPipes(P!Next)
  BY <1>8, PNext DEF ChildPipes, others, GInv
<1>9. CASE ChildLetters(B!Next)
  BY <1>9, BNext DEF ChildLetters, others, GInv
<1>10. CASE FifoMail(M!Next)
  BY <1>10, MNext DEF FifoMail, others, GInv
<1>11. CASE UNCHANGED vars
  <2>1. UNCHANGED <<program, content, readers, writers, pc, turn, any, rps, keep_running>> /\ UNCHANGED pipes
    BY <1>11 DEF vars, pipes, asked
  <2>2. /\ UNCHANGED <<week, bet, won, winning, total_bet, total_reward>>
        /\ UNCHANGED <<amount, number, stake, lucky_number, due>>
        /\ UNCHANGED <<round, cards, open, played, scores, told>>
        /\ UNCHANGED <<dealt, hand, announced, winner>> /\ UNCHANGED <<enemies, dead>>
        /\ UNCHANGED <<items, written, sessions, reports>>
        /\ UNCHANGED <<letters, printed>> /\ UNCHANGED <<name, fifo, chunks>>
    BY <1>11 DEF vars, lottoOwn, rouletteOwn, cardsOwn, shipOwn, battleOwn, factoryOwn, childOwn, mailOwn
  <2>3. (LInv => LInv') /\ (RInv => RInv') /\ (CInv => CInv') /\ (SInv => SInv') /\ (TInv => TInv')
    BY <2>1, <2>2, LStutter, RStutter, CStutter, SStutter, TStutter
  <2>4. (KInv => KInv') /\ (FInv => FInv') /\ (PInv => PInv') /\ (BInv => BInv') /\ (MInv => MInv')
    BY <2>1, <2>2, KStutter, FStutter, PStutter, BStutter, MStutter
  <2> QED
    BY <2>1, <2>3, <2>4 DEF GInv
<1> QED
  BY <1>1, <1>2, <1>3, <1>4, <1>5, <1>6, <1>7, <1>8, <1>9, <1>10, <1>11 DEF Next

\* The invariants of the programs are what the properties ask.
LEMMA GImplies == GInv => SidesAgree /\ NothingTwice
<1> SUFFICES ASSUME GInv PROVE SidesAgree /\ NothingTwice
  OBVIOUS
<1>1. SidesAgree
  BY LImplies, RImplies, CImplies, PImplies DEF GInv, SidesAgree
<1>2. NothingTwice
  BY SImplies, TImplies, FImplies, BImplies, MImplies DEF GInv, KInv, PInv, NothingTwice
<1> QED
  BY <1>1, <1>2

\* The invariants hold of all that the programs of lab05 do.
THEOREM GamesInductive == FairSpec => []GInv
<1>1. Init => GInv
  BY GInitially
<1>2. GInv /\ [Next]_vars => GInv'
  BY GNext
<1> QED
  BY <1>1, <1>2, PTL DEF FairSpec

\* Lotto, roulette, the card game over pipes and the children asked through pipes: both sides
\* agree on what was bet, won and told, asked and answered, whoever resigns or is killed.
THEOREM GamesSidesAgree == FairSpec => []SidesAgree
<1>1. GInv => SidesAgree
  BY GImplies
<1> QED
  BY <1>1, GamesInductive, PTL

\* Cards and the number in the rings, letters of workers and of children, knights and chunks
\* of mail are neither doubled nor lost, whoever ends early; a parent ends after its children.
THEOREM GamesNothingTwice == FairSpec => []NothingTwice
<1>1. GInv => NothingTwice
  BY GImplies
<1> QED
  BY <1>1, GamesInductive, PTL

-----------------------------------------------------------------------------
(* Provinces. *)

\* The directives, and the map.
VMsg == Range(Directives)

LEMMA VMap ==
    /\ V!CasaRosada = HowMany /\ HowMany \notin V!Province /\ HowMany \in V!Everyone
    /\ \A q \in V!Everyone : q = HowMany \/ q \in V!Province
    /\ \A q \in V!Province : q \in V!Everyone
    /\ \A r \in MapRoads : r \in V!Edges /\ r = <<r[1], r[2]>> /\ r[1] \in V!Province /\ r[2] \in V!Province /\ r # V!boss_to_p0
    /\ V!boss_to_p0 \in V!Edges /\ V!boss_to_p0[1] = HowMany /\ V!boss_to_p0[2] = 0 /\ 0 \in V!Province
    /\ \A e \in V!Edges : e = V!boss_to_p0 \/ e \in MapRoads
    /\ "" \notin VMsg
<1>1. /\ HowMany \in Nat \ {0} /\ MapRoads \subseteq {r \in V!Province \X V!Province : r[1] # r[2]}
      /\ Directives \in Seq(V!Letter) /\ "" \notin V!Letter
  BY MapAssumption DEF V!ProperMap
<1>2. V!Letter = VMsg /\ VMsg = {Directives[i] : i \in DOMAIN Directives}
  BY DEF V!Letter, VMsg, Range
<1>4. V!Province = 0..(HowMany - 1) /\ V!Everyone = 0..HowMany /\ V!CasaRosada = HowMany
  BY DEF V!Province, V!Everyone, V!CasaRosada
<1>5. /\ HowMany \notin V!Province /\ 0 \in V!Province /\ HowMany \in V!Everyone
      /\ \A q \in V!Everyone : q = HowMany \/ q \in V!Province
      /\ \A q \in V!Province : q \in V!Everyone
  <2>1. HowMany \in Nat /\ HowMany # 0
    BY <1>1
  <2> QED
    BY <2>1, <1>4
<1>6. V!boss_to_p0 = <<HowMany, 0>> /\ V!Edges = MapRoads \union {V!boss_to_p0}
  BY <1>4 DEF V!boss_to_p0, V!Edges
<1>7. \A r \in MapRoads : r = <<r[1], r[2]>> /\ r[1] \in V!Province /\ r[2] \in V!Province
  <2>1. \A r \in MapRoads : r \in V!Province \X V!Province
    BY <1>1
  <2> QED
    BY <2>1
<1>8. \A r \in MapRoads : r # V!boss_to_p0
  BY <1>5, <1>6, <1>7
<1> QED
  BY <1>1, <1>2, <1>4, <1>5, <1>6, <1>7, <1>8

LEMMA VLetters == Len(Directives) \in Nat /\ VMsg = {Directives[i] : i \in 1..Len(Directives)}
  BY MapAssumption, LenProperties DEF V!ProperMap, VMsg, Range

\* What the variables of the flood are.
VType ==
    /\ DOMAIN pc = V!Everyone
    /\ DOMAIN last_char = V!Province /\ DOMAIN todo = V!Province /\ DOMAIN heard = V!Province
    /\ DOMAIN content = V!Edges /\ DOMAIN readers = V!Edges /\ DOMAIN writers = V!Edges
    /\ \A e \in V!Edges : content[e] \in Seq(VMsg)
    /\ next \in 1..(Len(Directives) + 1)

\* A pipe is read by whom its road leads to, and closed only after those who write to it.
VPipes ==
    \A e \in V!Edges : /\ readers[e] \subseteq {e[2]}
                       /\ readers[e] = {} => content[e] = <<>> /\ writers[e] = {}

\* Who has not ended can write to its pipes, and who has ended cannot read.
VEnds ==
    /\ \A r \in MapRoads : pc[r[1]] # "ended" => r[1] \in writers[r]
    /\ pc[HowMany] \notin {"wait", "ended"} => HowMany \in writers[V!boss_to_p0]
    /\ \A k \in V!Province : pc[k] = "ended" => V!Open(k) = {}

VPlaces ==
    /\ pc[HowMany] \in {"open", "read", "pass", "close", "wait", "ended"}
    /\ \A k \in V!Province : /\ pc[k] \in {"loop", "send", "ended"}
                             /\ todo[k] \subseteq V!Out(k)
                             /\ pc[k] # "send" => todo[k] = {}

\* The last directive of a province is one that it has heard.
VHeard ==
    \A k \in V!Province : /\ heard[k] \subseteq VMsg
                          /\ last_char[k] = "" \/ last_char[k] \in heard[k]
                          /\ pc[k] = "send" => last_char[k] \in VMsg

\* What a province has heard, the next one has heard, or it is in the pipe, or still to be sent.
VFlow ==
    \A r \in MapRoads : \A c \in heard[r[1]] :
        \/ c \in heard[r[2]] \/ c \in Range(content[r])
        \/ r \in todo[r[1]] /\ c = last_char[r[1]]

\* What Casa Rosada has read, province 0 has heard, or it is in the pipe.
VFifo ==
    /\ \A i \in 1..(next - 1) : Directives[i] \in heard[0] \/ Directives[i] \in Range(content[V!boss_to_p0])
    /\ pc[HowMany] = "pass" => next <= Len(Directives)
    /\ pc[HowMany] \in {"close", "wait", "ended"} => next = Len(Directives) + 1

\* The inductive invariant of the flood, as long as there is no SIGINT.
VCalm == VType /\ VPipes /\ VEnds /\ VPlaces /\ VHeard /\ VFlow /\ VFifo
VInv  == interrupted = {} => VCalm

\* The flood begins with nothing heard.
LEMMA VInitially == V!Init => VInv
<1> SUFFICES ASSUME V!Init PROVE VCalm
  BY DEF VInv
<1>1. /\ content = [e \in V!Edges |-> <<>>] /\ writers = [e \in V!Edges |-> {e[1]}] /\ readers = [e \in V!Edges |-> {e[2]}]
      /\ pc = [q \in V!Everyone |-> IF q = HowMany THEN "open" ELSE "loop"]
      /\ last_char = [k \in V!Province |-> ""] /\ todo = [k \in V!Province |-> {}]
      /\ heard = [k \in V!Province |-> {}] /\ next = 1
  BY VMap DEF V!Init, V!PipesInit
<1>2. pc[HowMany] = "open" /\ HowMany \in V!Everyone
  BY VMap, <1>1
<1>3. \A k \in V!Province : pc[k] = "loop" /\ heard[k] = {} /\ todo[k] = {} /\ last_char[k] = ""
  BY VMap, <1>1
<1>4. VType
  <2>1. 1 \in 1..(Len(Directives) + 1)
    BY VLetters
  <2> QED
    BY VMap, <2>1, <1>1, EmptySeq DEF VType
<1>5. VPipes
  BY VMap, <1>1 DEF VPipes
<1>6. VEnds
  BY <1>1, <1>3, VMap DEF VEnds
<1>7. VPlaces /\ VHeard
  BY VMap, <1>2, <1>3 DEF VPlaces, VHeard
<1>8. VFlow
  BY VMap, <1>3 DEF VFlow
<1>9. VFifo
  <2>1. next = 1
    BY <1>1
  <2>2. \A i \in 1..(next - 1) : FALSE
    BY <2>1
  <2> QED
    BY VMap, <2>2, <1>2 DEF VFifo
<1> QED
  BY VMap, <1>4, <1>5, <1>6, <1>7, <1>8, <1>9 DEF VCalm

\* When all have ended, nothing is in the pipes; so what a province has heard, those that roads
\* lead to have heard.
LEMMA VImplies ==
    ASSUME VInv, interrupted = {}, V!Over
    PROVE  \A k \in V!Reached : heard[k] = Range(Directives)
<1> DEFINE All == {k \in V!Province : VMsg \subseteq heard[k]}
<1>1. VCalm
  BY DEF VInv
<1>2. pc[HowMany] = "ended" /\ \A k \in V!Province : pc[k] = "ended"
  BY <1>1, VMap DEF V!Over, VCalm, VPlaces
<1>3. \A e \in V!Edges : content[e] = <<>>
  <2> SUFFICES ASSUME NEW e \in V!Edges PROVE content[e] = <<>>
    OBVIOUS
  <2>1. e[2] \in V!Province
    BY VMap
  <2>2. e \notin V!Open(e[2])
    BY VMap, <1>1, <1>2, <2>1 DEF VCalm, VEnds
  <2>3. e[2] \notin readers[e]
    BY VMap, <2>2 DEF V!Open
  <2>4. readers[e] = {}
    BY VMap, <1>1, <2>3 DEF VCalm, VPipes
  <2> QED
    BY VMap, <1>1, <2>4 DEF VCalm, VPipes
<1>4. \A e \in V!Edges : Range(content[e]) = {}
  BY VMap, <1>3, SimpleNone
<1>5. 0 \in All
  <2>1. next - 1 = Len(Directives)
    BY <1>1, <1>2, VLetters DEF VCalm, VFifo
  <2>2. \A i \in 1..Len(Directives) : Directives[i] \in heard[0]
    BY VMap, <1>1, <1>4, <2>1 DEF VCalm, VFifo
  <2> QED
    BY VMap, <2>2, VLetters
<1>6. ASSUME NEW r \in MapRoads, r[1] \in All PROVE r[2] \in All
  BY <1>1, <1>2, <1>4, <1>6, VMap DEF VCalm, VPlaces, VFlow
<1>7. V!Kept(All) /\ All \in SUBSET V!Province
  BY VMap, <1>5, <1>6 DEF V!Kept
<1>8. \A k \in V!Reached : k \in All
  BY VMap, <1>7, Zenon DEF V!Reached
<1>9. \A k \in All : heard[k] = VMsg
  BY VMap, <1>1 DEF VCalm, VHeard
<1> QED
  BY VMap, <1>8, <1>9 DEF VMsg

\* A directive is taken from a pipe.
LEMMA VTake ==
    ASSUME VCalm, NEW e \in V!Edges, content[e] # <<>>, V!Take(e)
    PROVE  /\ Head(content[e]) \in VMsg /\ DOMAIN content' = V!Edges
           /\ \A d \in V!Edges : content'[d] \in Seq(VMsg) /\ (d # e => content'[d] = content[d])
           /\ Range(content[e]) = Range(content'[e]) \union {Head(content[e])}
<1>1. content[e] \in Seq(VMsg) /\ DOMAIN content = V!Edges
  BY DEF VCalm, VType
<1>2. content' = [content EXCEPT ![e] = Tail(content[e])]
  BY DEF V!Take
<1>3. content'[e] = Tail(content[e]) /\ DOMAIN content' = V!Edges /\ \A d \in V!Edges : d # e => content'[d] = content[d]
  BY <1>1, <1>2
<1>4. Tail(content[e]) \in Seq(VMsg)
  BY <1>1, HeadTailProperties
<1>5. \A d \in V!Edges : content'[d] \in Seq(VMsg)
  BY <1>3, <1>4 DEF VCalm, VType
<1> QED
  BY <1>1, <1>3, <1>5, SimpleTail

\* A directive is put into a pipe that is read, by one who may write.
LEMMA VPut ==
    ASSUME VCalm, NEW e \in V!Edges, NEW c \in VMsg, V!Put(e, c)
    PROVE  /\ DOMAIN content' = V!Edges
           /\ \A d \in V!Edges : content'[d] \in Seq(VMsg) /\ (d # e => content'[d] = content[d])
           /\ Range(content'[e]) = Range(content[e]) \union {c}
<1>1. content[e] \in Seq(VMsg) /\ DOMAIN content = V!Edges
  BY DEF VCalm, VType
<1>2. content' = [content EXCEPT ![e] = Append(content[e], c)]
  BY DEF V!Put
<1>3. content'[e] = Append(content[e], c) /\ DOMAIN content' = V!Edges /\ \A d \in V!Edges : d # e => content'[d] = content[d]
  BY <1>1, <1>2
<1>4. Append(content[e], c) \in Seq(VMsg)
  BY <1>1, AppendProperties
<1>5. \A d \in V!Edges : content'[d] \in Seq(VMsg)
  BY <1>3, <1>4 DEF VCalm, VType
<1> QED
  BY <1>1, <1>3, <1>5, SimpleAppend

\* A province takes a directive, and passes it on if it is new to it.
LEMMA VHear == ASSUME NEW k \in V!Province PROVE VCalm /\ V!Hear(k) => VCalm'
<1> SUFFICES ASSUME VCalm, V!Hear(k) PROVE VCalm'
  OBVIOUS
<1> DEFINE e == V!Input(k)
           c == Head(content[e])
           old == UNCHANGED <<pc, last_char, todo, heard>>
           new == /\ last_char' = [last_char EXCEPT ![k] = c]
                  /\ heard' = [heard EXCEPT ![k] = heard[k] \union {c}]
                  /\ todo' = [todo EXCEPT ![k] = {r \in V!Out(k) : k \in writers[r]}]
                  /\ pc' = [pc EXCEPT ![k] = "send"]
<1>1. /\ pc[k] = "loop" /\ e \in V!Open(k) /\ content[e] # <<>> /\ V!Take(e)
      /\ UNCHANGED <<readers, writers, next>>
      /\ (c = last_char[k] /\ old) \/ new
  BY DEF V!Hear, V!Readable, V!Go
<1> HIDE DEF e, c, old, new
<1>2. e \in V!Edges /\ k \in readers[e] /\ e[2] = k
  BY <1>1 DEF V!Open, VCalm, VPipes
<1>3. /\ c \in VMsg /\ DOMAIN content' = V!Edges
      /\ \A d \in V!Edges : content'[d] \in Seq(VMsg) /\ (d # e => content'[d] = content[d])
      /\ Range(content[e]) = Range(content'[e]) \union {c}
  BY <1>1, <1>2, VTake DEF c
<1>4. k # HowMany /\ c # ""
  BY <1>3, VMap
<1>5. /\ DOMAIN last_char' = V!Province /\ DOMAIN heard' = V!Province /\ DOMAIN todo' = V!Province /\ DOMAIN pc' = V!Everyone
      /\ \A j \in V!Province : j # k => /\ last_char'[j] = last_char[j] /\ heard'[j] = heard[j]
                                        /\ todo'[j] = todo[j] /\ pc'[j] = pc[j]
      /\ pc'[HowMany] = pc[HowMany]
      /\ c \in heard'[k] /\ heard'[k] = heard[k] \union {c}
  <2>1. CASE c = last_char[k] /\ old
    BY <1>4, <2>1 DEF VCalm, VHeard, VType, old
  <2>2. CASE new
    BY <1>4, <2>2, VMap DEF VCalm, VType, new
  <2> QED
    BY <1>1, <2>1, <2>2
<1>6. /\ pc[k] = "loop" /\ todo[k] = {}
      /\ pc'[k] \in {"loop", "send"} /\ last_char'[k] = c
      /\ pc'[k] = "loop" => todo'[k] = {} /\ heard'[k] = heard[k]
      /\ pc'[k] = "send" => todo'[k] = V!Out(k)
  <2>1. todo[k] = {}
    BY <1>1 DEF VCalm, VPlaces
  <2>2. CASE c = last_char[k] /\ old
    BY <1>1, <1>4, <1>5, <2>1, <2>2 DEF VCalm, VHeard, old
  <2>3. CASE new
    <3>1. \A r \in V!Out(k) : k \in writers[r]
      BY <1>1 DEF V!Out, VCalm, VEnds
    <3>2. {r \in V!Out(k) : k \in writers[r]} = V!Out(k)
      BY <3>1
    <3>3. pc'[k] = "send" /\ todo'[k] = V!Out(k) /\ last_char'[k] = c
      BY <2>3, <3>2, VMap DEF VCalm, VType, new
    <3> QED
      BY <1>1, <2>1, <3>3
  <2> QED
    BY <1>1, <2>2, <2>3
<1>7. VType'
  BY <1>1, <1>3, <1>5 DEF VCalm, VType
<1>8. VPipes'
  BY <1>1, <1>2, <1>3 DEF VCalm, VPipes
<1>9. VEnds'
  <2>1. \A j \in V!Province : (pc'[j] = "ended") <=> (pc[j] = "ended")
    BY <1>5, <1>6
  <2>2. \A j : V!Open(j)' = V!Open(j)
    BY <1>1 DEF V!Open
  <2> QED
    BY <1>1, <1>5, <2>1, <2>2, VMap DEF VCalm, VEnds
<1>10. VPlaces'
  BY <1>5, <1>6 DEF VCalm, VPlaces
<1>11. VHeard'
  BY <1>3, <1>5, <1>6 DEF VCalm, VHeard
<1>12. VFlow'
  <2> SUFFICES ASSUME NEW r \in MapRoads, NEW b \in heard'[r[1]]
               PROVE  \/ b \in heard'[r[2]] \/ b \in Range(content'[r])
                      \/ r \in todo'[r[1]] /\ b = last_char'[r[1]]
    BY DEF VFlow
  <2>1. r \in V!Edges /\ r[1] \in V!Province /\ r[2] \in V!Province
    BY VMap
  <2>2. CASE b \notin heard[r[1]]
    BY <1>5, <1>6, <2>1, <2>2 DEF V!Out
  <2>3. CASE b \in heard[r[2]]
    BY <1>5, <2>1, <2>3
  <2>4. CASE b \in Range(content[r])
    <3>1. CASE r = e
      BY <1>2, <1>3, <1>5, <2>4, <3>1
    <3>2. CASE r # e
      BY <1>3, <2>1, <2>4, <3>2
    <3> QED
      BY <3>1, <3>2
  <2>5. CASE r \in todo[r[1]] /\ b = last_char[r[1]]
    BY <1>5, <1>6, <2>1, <2>5
  <2> QED
    BY <2>2, <2>3, <2>4, <2>5 DEF VCalm, VFlow
<1>13. VFifo'
  <2>1. ASSUME NEW i \in 1..(next - 1) PROVE Directives[i] \in heard'[0] \/ Directives[i] \in Range(content'[V!boss_to_p0])
    <3>1. 0 \in V!Province /\ V!boss_to_p0 \in V!Edges /\ V!boss_to_p0[2] = 0
      BY VMap
    <3>2. CASE Directives[i] \in heard[0]
      BY <1>5, <3>1, <3>2
    <3>3. CASE Directives[i] \in Range(content[V!boss_to_p0])
      <4>1. CASE V!boss_to_p0 = e
        BY <1>2, <1>3, <1>5, <3>1, <3>3, <4>1
      <4>2. CASE V!boss_to_p0 # e
        BY <1>3, <3>1, <3>3, <4>2
      <4> QED
        BY <4>1, <4>2
    <3> QED
      BY <3>2, <3>3 DEF VCalm, VFifo
  <2> QED
    BY <1>1, <1>5, <2>1 DEF VCalm, VFifo
<1> QED
  BY <1>7, <1>8, <1>9, <1>10, <1>11, <1>12, <1>13 DEF VCalm

\* What closing ends of pipes does, if nothing is left in those that nobody reads any more.
LEMMA VCloses ==
    ASSUME VCalm, NEW q, NEW Rs, NEW Ws, V!Close(q, Rs, Ws),
           \A e \in V!Edges : e \in Rs /\ q \in readers[e] => content[e] = <<>> /\ writers[e] = {}
    PROVE  /\ DOMAIN content' = V!Edges /\ DOMAIN readers' = V!Edges /\ DOMAIN writers' = V!Edges
           /\ \A e \in V!Edges : /\ readers'[e] = (IF e \in Rs THEN readers[e] \ {q} ELSE readers[e])
                                 /\ writers'[e] = (IF e \in Ws THEN writers[e] \ {q} ELSE writers[e])
                                 /\ content'[e] = content[e]
           /\ VPipes'
<1>1. /\ DOMAIN content' = V!Edges /\ DOMAIN readers' = V!Edges /\ DOMAIN writers' = V!Edges
      /\ \A e \in V!Edges : /\ readers'[e] = (IF e \in Rs THEN readers[e] \ {q} ELSE readers[e])
                            /\ writers'[e] = (IF e \in Ws THEN writers[e] \ {q} ELSE writers[e])
                            /\ content'[e] = (IF readers'[e] = {} THEN <<>> ELSE content[e])
  BY DEF VCalm, VType, V!Close
<1>2. ASSUME NEW e \in V!Edges, readers'[e] = {} PROVE content[e] = <<>> /\ writers[e] = {}
  <2>1. CASE e \in Rs /\ q \in readers[e]
    BY <2>1
  <2>2. CASE ~(e \in Rs /\ q \in readers[e])
    BY <1>1, <1>2, <2>2 DEF VCalm, VPipes
  <2> QED
    BY <2>1, <2>2
<1>3. \A e \in V!Edges : content'[e] = content[e]
  BY <1>1, <1>2
<1>4. VPipes'
  <2> SUFFICES ASSUME NEW e \in V!Edges
               PROVE  readers'[e] \subseteq {e[2]} /\ (readers'[e] = {} => content'[e] = <<>> /\ writers'[e] = {})
    BY DEF VPipes
  <2>1. readers'[e] \subseteq readers[e] /\ writers'[e] \subseteq writers[e]
    BY <1>1
  <2> QED
    BY <1>2, <1>3, <2>1 DEF VCalm, VPipes
<1> QED
  BY <1>1, <1>3, <1>4

\* The next road of those along which a directive is still to be sent.
LEMMA VNextRoad ==
    ASSUME VCalm, NEW k \in V!Province, todo[k] # {}
    PROVE  (CHOOSE x \in todo[k] : \A y \in todo[k] : x[2] <= y[2]) \in todo[k]
<1> DEFINE ends == {x[2] : x \in todo[k]}
<1>1. \A x \in todo[k] : x \in MapRoads
  BY DEF VCalm, VPlaces, V!Out
<1>2. V!Province \subseteq Nat
  <2>1. HowMany \in Nat
    BY MapAssumption DEF V!ProperMap
  <2> QED
    BY <2>1 DEF V!Province
<1>3. ends \in SUBSET Nat /\ ends # {}
  BY <1>1, <1>2, VMap
<1>4. PICK m \in ends : \A n \in ends : m <= n
  <2> HIDE DEF ends
  <2> QED
    BY <1>3, Least
<1>5. \E x \in todo[k] : \A y \in todo[k] : x[2] <= y[2]
  BY <1>4
<1> QED
  BY <1>5

\* A province sends its directive along a road; nobody has closed it.
LEMMA VSend == ASSUME NEW k \in V!Province PROVE VCalm /\ interrupted = {} /\ V!Send(k) => VCalm'
<1> SUFFICES ASSUME VCalm, interrupted = {}, V!Send(k) PROVE VCalm'
  OBVIOUS
<1> DEFINE r == CHOOSE x \in todo[k] : \A y \in todo[k] : x[2] <= y[2]
           c == last_char[k]
<1>1. /\ pc[k] = "send" /\ todo[k] # {} /\ todo' = [todo EXCEPT ![k] = todo[k] \ {r}]
      /\ UNCHANGED <<pc, last_char, next, heard>>
      /\ readers[r] = {} \/ (V!Put(r, c) /\ UNCHANGED <<readers, writers>>)
  BY DEF V!Send, V!NextRoad, V!Broken
<1>2. r \in todo[k]
  BY <1>1, VNextRoad
<1> HIDE DEF r, c
<1>3. r \in MapRoads /\ r[1] = k /\ r \in V!Edges
  BY <1>2, VMap DEF VCalm, VPlaces, V!Out
<1>4. readers[r] # {}
  BY <1>1, <1>3 DEF VCalm, VEnds, VPipes
<1>5. c \in VMsg
  BY <1>1 DEF VCalm, VHeard, c
<1>6. /\ UNCHANGED <<readers, writers>> /\ DOMAIN content' = V!Edges
      /\ \A d \in V!Edges : content'[d] \in Seq(VMsg) /\ (d # r => content'[d] = content[d])
      /\ Range(content'[r]) = Range(content[r]) \union {c}
  BY <1>1, <1>3, <1>4, <1>5, VPut
<1>7. DOMAIN todo' = V!Province /\ todo'[k] = todo[k] \ {r} /\ \A j \in V!Province : j # k => todo'[j] = todo[j]
  BY <1>1 DEF VCalm, VType
<1>8. VType'
  BY <1>1, <1>6, <1>7 DEF VCalm, VType
<1>9. VPipes'
  BY <1>4, <1>6 DEF VCalm, VPipes
<1>10. VEnds' /\ VHeard'
  BY <1>1, <1>6 DEF VCalm, VEnds, VHeard, V!Open
<1>11. VPlaces'
  BY <1>1, <1>7 DEF VCalm, VPlaces
<1>12. VFlow'
  <2> SUFFICES ASSUME NEW d \in MapRoads, NEW b \in heard[d[1]]
               PROVE  \/ b \in heard[d[2]] \/ b \in Range(content'[d])
                      \/ d \in todo'[d[1]] /\ b = last_char[d[1]]
    BY <1>1 DEF VFlow
  <2>1. d \in V!Edges /\ d[1] \in V!Province
    BY VMap
  <2>2. CASE b \in Range(content[d])
    BY <1>6, <2>1, <2>2
  <2>3. CASE d \in todo[d[1]] /\ b = last_char[d[1]]
    <3>1. CASE d = r
      BY <1>3, <1>6, <2>3, <3>1 DEF c
    <3>2. CASE d # r
      BY <1>7, <2>1, <2>3, <3>2
    <3> QED
      BY <3>1, <3>2
  <2> QED
    BY <2>2, <2>3 DEF VCalm, VFlow
<1>13. VFifo'
  BY <1>1, <1>3, <1>6, VMap DEF VCalm, VFifo
<1> QED
  BY <1>8, <1>9, <1>10, <1>11, <1>12, <1>13 DEF VCalm

\* Steps that leave alone what is in the pipes and what has been heard.
LEMMA VStay ==
    ASSUME VCalm, UNCHANGED <<last_char, todo, next, heard>>, DOMAIN pc' = V!Everyone,
           DOMAIN content' = V!Edges, DOMAIN readers' = V!Edges, DOMAIN writers' = V!Edges,
           \A e \in V!Edges : content'[e] = content[e],
           \A k \in V!Province : pc'[k] = "send" => pc[k] = "send"
    PROVE  VType' /\ VHeard' /\ VFlow'
<1>1. VType'
  BY DEF VCalm, VType
<1>2. VHeard'
  BY DEF VCalm, VHeard
<1>3. \A r \in MapRoads : content'[r] = content[r]
  BY VMap
<1>4. VFlow'
  BY <1>3 DEF VCalm, VFlow
<1> QED
  BY <1>1, <1>2, <1>4

\* A province goes to a place where it sends nothing.
LEMMA VGoes ==
    ASSUME VCalm, NEW k \in V!Province, NEW place \in {"loop", "ended"},
           DOMAIN pc' = V!Everyone, pc'[k] = place, \A q \in V!Everyone : q # k => pc'[q] = pc[q],
           UNCHANGED <<last_char, todo, next, heard>>, todo[k] = {}, pc[k] # "ended",
           DOMAIN content' = V!Edges, DOMAIN readers' = V!Edges, DOMAIN writers' = V!Edges, VPipes',
           \A e \in V!Edges : /\ content'[e] = content[e] /\ readers'[e] \subseteq readers[e]
                             /\ writers'[e] = (IF place = "ended" THEN writers[e] \ {k} ELSE writers[e]),
           place = "ended" => V!Open(k) = {}
    PROVE  VCalm'
<1>1. /\ DOMAIN pc' = V!Everyone /\ pc'[k] = place /\ \A j \in V!Province : j # k => pc'[j] = pc[j]
      /\ pc'[HowMany] = pc[HowMany]
  BY VMap DEF VCalm, VType
<1>2. VType' /\ VHeard' /\ VFlow'
  BY <1>1, VStay
<1>3. VPlaces'
  BY <1>1 DEF VCalm, VPlaces
<1>4. \A j \in V!Province : V!Open(j) = {} => V!Open(j)' = {}
  BY DEF V!Open
<1>5. VEnds'
  <2>1. ASSUME NEW r \in MapRoads, pc'[r[1]] # "ended" PROVE r[1] \in writers'[r]
    BY <1>1, <2>1, VMap DEF VCalm, VEnds
  <2>2. pc'[HowMany] \notin {"wait", "ended"} => HowMany \in writers'[V!boss_to_p0]
    BY <1>1, VMap DEF VCalm, VEnds
  <2>3. \A j \in V!Province : pc'[j] = "ended" => V!Open(j)' = {}
    BY <1>1, <1>4 DEF VCalm, VEnds
  <2> QED
    BY <2>1, <2>2, <2>3 DEF VEnds
<1>6. VFifo'
  BY <1>1, VMap DEF VCalm, VFifo
<1> QED
  BY <1>2, <1>3, <1>5, <1>6 DEF VCalm

\* All is sent.
LEMMA VSent == ASSUME NEW k \in V!Province PROVE VCalm /\ V!Sent(k) => VCalm'
<1> SUFFICES ASSUME VCalm, V!Sent(k) PROVE VCalm'
  OBVIOUS
<1>1. /\ pc[k] = "send" /\ todo[k] = {} /\ pc' = [pc EXCEPT ![k] = "loop"]
      /\ UNCHANGED <<content, readers, writers, last_char, todo, next, heard>>
  BY DEF V!Sent, V!Go, V!pipes
<1>2. VPipes' /\ DOMAIN content' = V!Edges /\ DOMAIN readers' = V!Edges /\ DOMAIN writers' = V!Edges
  BY <1>1 DEF VCalm, VPipes, VType
<1>3. DOMAIN pc' = V!Everyone /\ pc'[k] = "loop" /\ \A q \in V!Everyone : q # k => pc'[q] = pc[q]
  BY <1>1, VMap DEF VCalm, VType
<1> QED
  BY <1>1, <1>2, <1>3, VGoes

\* An input is at its end, or there is nothing in it.
LEMMA VPoll == ASSUME NEW k \in V!Province PROVE VCalm /\ V!Poll(k) => VCalm'
<1> SUFFICES ASSUME VCalm, V!Poll(k) PROVE VCalm'
  OBVIOUS
<1> DEFINE e == V!Input(k)
<1>1. /\ pc[k] = "loop" /\ UNCHANGED <<pc, last_char, todo, next, heard>>
      /\ \/ content[e] = <<>> /\ writers[e] = {} /\ V!Close(k, {e}, {})
         \/ UNCHANGED <<content, readers, writers>>
  BY DEF V!Poll, V!Eof, V!pipes
<1> HIDE DEF e
<1>2. /\ DOMAIN content' = V!Edges /\ DOMAIN readers' = V!Edges /\ DOMAIN writers' = V!Edges /\ VPipes'
      /\ \A d \in V!Edges : content'[d] = content[d] /\ readers'[d] \subseteq readers[d] /\ writers'[d] = writers[d]
  <2>1. CASE content[e] = <<>> /\ writers[e] = {} /\ V!Close(k, {e}, {})
    <3>1. \A d \in V!Edges : d \in {e} /\ k \in readers[d] => content[d] = <<>> /\ writers[d] = {}
      BY <2>1
    <3>2. /\ DOMAIN content' = V!Edges /\ DOMAIN readers' = V!Edges /\ DOMAIN writers' = V!Edges /\ VPipes'
          /\ \A d \in V!Edges : /\ readers'[d] = (IF d \in {e} THEN readers[d] \ {k} ELSE readers[d])
                                /\ writers'[d] = (IF d \in {} THEN writers[d] \ {k} ELSE writers[d])
                                /\ content'[d] = content[d]
      BY <2>1, <3>1, VCloses
    <3> QED
      BY <3>2
  <2>2. CASE UNCHANGED <<content, readers, writers>>
    BY <2>2 DEF VCalm, VPipes, VType
  <2> QED
    BY <1>1, <2>1, <2>2
<1>3. todo[k] = {} /\ DOMAIN pc' = V!Everyone
  BY <1>1 DEF VCalm, VPlaces, VType
<1> QED
  BY <1>1, <1>2, <1>3, VGoes

\* A province ends: nobody writes to it any more.
LEMMA VLeave == ASSUME NEW k \in V!Province PROVE VCalm /\ interrupted = {} /\ V!Leave(k) => VCalm'
<1> SUFFICES ASSUME VCalm, interrupted = {}, V!Leave(k) PROVE VCalm'
  OBVIOUS
<1>1. /\ pc[k] = "loop" /\ V!Open(k) = {} /\ V!Close(k, DOMAIN readers, DOMAIN writers)
      /\ pc' = [pc EXCEPT ![k] = "ended"]
      /\ UNCHANGED <<last_char, todo, next, heard>>
  BY DEF V!Leave, V!GoesOn, V!Exit, V!Go
<1>2. \A e \in V!Edges : k \notin readers[e]
  BY <1>1 DEF V!Open
<1>3. /\ DOMAIN content' = V!Edges /\ DOMAIN readers' = V!Edges /\ DOMAIN writers' = V!Edges /\ VPipes'
      /\ \A e \in V!Edges : /\ readers'[e] = (IF e \in DOMAIN readers THEN readers[e] \ {k} ELSE readers[e])
                            /\ writers'[e] = (IF e \in DOMAIN writers THEN writers[e] \ {k} ELSE writers[e])
                            /\ content'[e] = content[e]
  BY <1>1, <1>2, VCloses
<1>4. \A e \in V!Edges : readers'[e] \subseteq readers[e] /\ writers'[e] = writers[e] \ {k}
  BY <1>3 DEF VCalm, VType
<1>5. DOMAIN pc' = V!Everyone /\ pc'[k] = "ended" /\ \A q \in V!Everyone : q # k => pc'[q] = pc[q]
  BY <1>1, VMap DEF VCalm, VType
<1>6. todo[k] = {}
  BY <1>1 DEF VCalm, VPlaces
<1> QED
  BY <1>1, <1>3, <1>4, <1>5, <1>6, VGoes

\* Casa Rosada goes to a place; from the close on, it has read everything.
LEMMA VRosadaGoes ==
    ASSUME VCalm, NEW place \in {"read", "pass", "close", "wait", "ended"}, pc' = [pc EXCEPT ![HowMany] = place],
           UNCHANGED <<last_char, todo, next, heard>>,
           DOMAIN content' = V!Edges, DOMAIN readers' = V!Edges, DOMAIN writers' = V!Edges, VPipes',
           \A e \in V!Edges : content'[e] = content[e] /\ readers'[e] = readers[e],
           \A r \in MapRoads : writers'[r] = writers[r],
           place \notin {"wait", "ended"} => HowMany \in writers'[V!boss_to_p0],
           place = "pass" => next <= Len(Directives),
           place \in {"close", "wait", "ended"} => next = Len(Directives) + 1
    PROVE  VCalm'
<1>1. DOMAIN pc' = V!Everyone /\ pc'[HowMany] = place /\ \A j \in V!Province : pc'[j] = pc[j]
  BY VMap DEF VCalm, VType
<1>2. VType' /\ VHeard' /\ VFlow'
  BY <1>1, VStay
<1>3. VPlaces'
  BY <1>1 DEF VCalm, VPlaces
<1>4. \A j \in V!Province : V!Open(j) = {} => V!Open(j)' = {}
  BY DEF V!Open
<1>5. VEnds'
  <2>1. ASSUME NEW r \in MapRoads, pc'[r[1]] # "ended" PROVE r[1] \in writers'[r]
    BY <1>1, <2>1, VMap DEF VCalm, VEnds
  <2>2. \A j \in V!Province : pc'[j] = "ended" => V!Open(j)' = {}
    BY <1>1, <1>4 DEF VCalm, VEnds
  <2> QED
    BY <1>1, <2>1, <2>2 DEF VEnds
<1>6. VFifo'
  BY <1>1, VMap DEF VCalm, VFifo
<1> QED
  BY <1>2, <1>3, <1>5, <1>6 DEF VCalm

\* Casa Rosada opens the FIFO, reads it until its end, and waits.
LEMMA VReads == VCalm /\ interrupted = {} /\ (V!OpenFifo \/ V!Read \/ V!Wait) => VCalm'
<1> SUFFICES ASSUME VCalm, interrupted = {}, V!OpenFifo \/ V!Read \/ V!Wait PROVE VCalm'
  OBVIOUS
<1> DEFINE Stays == UNCHANGED <<content, readers, writers, last_char, todo, next, heard>>
<1>1. next \in Nat /\ Len(Directives) \in Nat /\ next <= Len(Directives) + 1
  BY VLetters DEF VCalm, VType
<1>2. CASE V!OpenFifo
  <2>1. Stays /\ pc[HowMany] = "open" /\ pc' = [pc EXCEPT ![HowMany] = "read"]
    BY <1>2, VMap DEF V!OpenFifo, V!Go, V!pipes
  <2>2. /\ DOMAIN content' = V!Edges /\ DOMAIN readers' = V!Edges /\ DOMAIN writers' = V!Edges /\ VPipes'
        /\ HowMany \in writers'[V!boss_to_p0]
    BY <2>1 DEF VCalm, VType, VPipes, VEnds
  <2> QED
    BY <2>1, <2>2, VRosadaGoes
<1>3. CASE V!Read
  <2>1. /\ Stays /\ pc[HowMany] = "read"
        /\ \/ next <= Len(Directives) /\ pc' = [pc EXCEPT ![HowMany] = "pass"]
           \/ ~(next <= Len(Directives)) /\ pc' = [pc EXCEPT ![HowMany] = "close"]
    BY <1>3, VMap DEF V!Read, V!Go, V!pipes
  <2>2. /\ DOMAIN content' = V!Edges /\ DOMAIN readers' = V!Edges /\ DOMAIN writers' = V!Edges /\ VPipes'
        /\ HowMany \in writers'[V!boss_to_p0]
    BY <2>1 DEF VCalm, VType, VPipes, VEnds
  <2>3. ~(next <= Len(Directives)) => next = Len(Directives) + 1
    BY <1>1
  <2> QED
    BY <2>1, <2>2, <2>3, VRosadaGoes
<1>4. CASE V!Wait
  <2>1. Stays /\ pc[HowMany] = "wait" /\ pc' = [pc EXCEPT ![HowMany] = "ended"]
    BY <1>4, VMap DEF V!Wait, V!Go, V!pipes
  <2>2. /\ DOMAIN content' = V!Edges /\ DOMAIN readers' = V!Edges /\ DOMAIN writers' = V!Edges /\ VPipes'
        /\ next = Len(Directives) + 1
    BY <2>1 DEF VCalm, VType, VPipes, VFifo
  <2> QED
    BY <2>1, <2>2, VRosadaGoes
<1> QED
  BY <1>2, <1>3, <1>4

\* The end of the FIFO.
LEMMA VCloseBoss == VCalm /\ V!CloseBoss => VCalm'
<1> SUFFICES ASSUME VCalm, V!CloseBoss PROVE VCalm'
  OBVIOUS
<1>1. /\ pc[HowMany] = "close" /\ pc' = [pc EXCEPT ![HowMany] = "wait"]
      /\ V!Close(HowMany, {}, {V!boss_to_p0}) /\ UNCHANGED <<last_char, todo, next, heard>>
  BY VMap DEF V!CloseBoss, V!Go
<1> DEFINE none == {}
<1>2. /\ DOMAIN content' = V!Edges /\ DOMAIN readers' = V!Edges /\ DOMAIN writers' = V!Edges /\ VPipes'
      /\ \A e \in V!Edges : /\ readers'[e] = (IF e \in none THEN readers[e] \ {HowMany} ELSE readers[e])
                            /\ writers'[e] = (IF e \in {V!boss_to_p0} THEN writers[e] \ {HowMany} ELSE writers[e])
                            /\ content'[e] = content[e]
  <2>1. V!Close(HowMany, none, {V!boss_to_p0})
    BY <1>1
  <2>2. \A e \in V!Edges : e \in none /\ HowMany \in readers[e] => content[e] = <<>> /\ writers[e] = {}
    OBVIOUS
  <2> HIDE DEF none
  <2> QED
    BY <2>1, <2>2, VCloses
<1>3. \A e \in V!Edges : content'[e] = content[e] /\ readers'[e] = readers[e]
  BY <1>2
<1>4. \A r \in MapRoads : writers'[r] = writers[r]
  BY <1>2, VMap
<1>5. next = Len(Directives) + 1
  BY <1>1 DEF VCalm, VFifo
<1> QED
  BY <1>1, <1>2, <1>3, <1>4, <1>5, VRosadaGoes

\* A directive is passed to province 0.
LEMMA VPass == VCalm /\ interrupted = {} /\ V!Pass => VCalm'
<1> SUFFICES ASSUME VCalm, interrupted = {}, V!Pass PROVE VCalm'
  OBVIOUS
<1> DEFINE e == V!boss_to_p0
           c == Directives[next]
<1>1. /\ pc[HowMany] = "pass" /\ UNCHANGED <<last_char, todo, heard>>
      /\ \/ /\ V!Put(e, c) /\ UNCHANGED <<readers, writers>>
            /\ next' = next + 1 /\ pc' = [pc EXCEPT ![HowMany] = "read"]
         \/ readers[e] = {}
  BY VMap DEF V!Pass, V!Go, V!Broken
<1> HIDE DEF e, c
<1>2. e \in V!Edges /\ e[2] = 0 /\ 0 \in V!Province /\ e \notin MapRoads
  BY VMap DEF e
<1>3. readers[e] # {}
  BY <1>1, <1>2 DEF VCalm, VEnds, e, VPipes
<1>4. next \in Nat \ {0} /\ next <= Len(Directives) /\ Len(Directives) \in Nat
  BY <1>1, VLetters DEF VCalm, VType, VFifo
<1>5. c \in VMsg
  BY <1>4, VLetters DEF c
<1>6. /\ UNCHANGED <<readers, writers>> /\ DOMAIN content' = V!Edges
      /\ \A d \in V!Edges : content'[d] \in Seq(VMsg) /\ (d # e => content'[d] = content[d])
      /\ Range(content'[e]) = Range(content[e]) \union {c}
      /\ next' = next + 1 /\ pc' = [pc EXCEPT ![HowMany] = "read"]
  BY <1>1, <1>2, <1>3, <1>5, VPut
<1>7. DOMAIN pc' = V!Everyone /\ pc'[HowMany] = "read" /\ \A j \in V!Province : pc'[j] = pc[j]
  BY <1>6, VMap DEF VCalm, VType
<1>8. VType'
  BY <1>1, <1>4, <1>6, <1>7 DEF VCalm, VType
<1>9. VPipes'
  BY <1>3, <1>6 DEF VCalm, VPipes
<1>10. VEnds'
  BY <1>1, <1>6, <1>7, VMap DEF VCalm, VEnds, V!Open
<1>11. VPlaces' /\ VHeard'
  BY <1>1, <1>7 DEF VCalm, VPlaces, VHeard
<1>12. VFlow'
  BY <1>1, <1>2, <1>6, VMap DEF VCalm, VFlow
<1>13. VFifo'
  <2>1. ASSUME NEW i \in 1..(next' - 1) PROVE Directives[i] \in heard'[0] \/ Directives[i] \in Range(content'[e])
    <3>1. i = next \/ i \in 1..(next - 1)
      BY <1>4, <1>6
    <3>2. CASE i = next
      BY <1>6, <3>2 DEF c
    <3>3. CASE i \in 1..(next - 1)
      BY <1>1, <1>6, <3>3 DEF VCalm, VFifo, e
    <3> QED
      BY <3>1, <3>2, <3>3
  <2> QED
    BY <1>7, <2>1 DEF VFifo, e
<1> QED
  BY <1>8, <1>9, <1>10, <1>11, <1>12, <1>13 DEF VCalm

\* A step that changes nothing of the flood keeps its invariant.
LEMMA VStutter ==
    VInv /\ UNCHANGED <<content, readers, writers, pc, interrupted, last_char, todo, next, heard>> => VInv'
<1> SUFFICES ASSUME VInv, UNCHANGED <<content, readers, writers, pc, interrupted, last_char, todo, next, heard>>, interrupted' = {}
             PROVE  VCalm'
  BY DEF VInv
<1>1. VCalm
  BY DEF VInv
<1> QED
  BY <1>1 DEF VCalm, VType, VPipes, VEnds, VPlaces, VHeard, VFlow, VFifo, V!Open

\* Every step of the flood keeps its invariant.
LEMMA VNext == VInv /\ V!Next => VInv'
<1> SUFFICES ASSUME VInv, V!Next, interrupted' = {} PROVE VCalm'
  BY DEF VInv
<1>1. ~ \E q \in V!Everyone : V!Sigint(q)
  BY DEF V!Sigint
<1>2. CASE V!Rosada
  <2>1. UNCHANGED interrupted
    BY <1>2 DEF V!Rosada, V!OpenFifo, V!Read, V!Pass, V!CloseBoss, V!Wait
  <2> QED
    BY <1>2, <2>1, VReads, VPass, VCloseBoss DEF VInv, V!Rosada
<1>3. ASSUME NEW k \in V!Province, V!Act(k) PROVE VCalm'
  <2>1. UNCHANGED interrupted
    BY <1>3 DEF V!Act, V!Hear, V!Send, V!Sent, V!Poll, V!Leave
  <2> QED
    BY <1>3, <2>1, VHear, VSend, VSent, VPoll, VLeave DEF VInv, V!Act
<1>4. CASE UNCHANGED V!vars
  BY <1>4, VStutter DEF V!vars, V!pipes, V!local, VInv
<1> QED
  BY <1>1, <1>2, <1>3, <1>4 DEF V!Next

-----------------------------------------------------------------------------
(* Routes. *)

\* A packet is its route and the step of it that comes next: where it goes to, and along which
\* road.
WPos     == {p \in (DOMAIN routes) \X Nat : p[2] \in 1..Len(routes[p[1]])}
WNode(p) == routes[p[1]][p[2]]
WPrev(p) == <<p[1], p[2] - 1>>
WRoad(p) == IF p[2] = 1 THEN W!boss_to_p0 ELSE <<WNode(WPrev(p)), WNode(p)>>
WOn(e)   == {p \in WPos : WRoad(p) = e}
WAt(k)   == {p \in WPos : WNode(p) = k}

\* The packets p in its pipe, and in the hands of who passes it on.
WCopies(p) == Cardinality(Places(content[WRoad(p)], {p}))
WHand(p)   == IF pc[WNode(WPrev(p))] = "send" /\ pkt[WNode(WPrev(p))] = p THEN 1 ELSE 0

WReport == [province : W!Province, relayed : Nat]

\* What the variables of the routes are.
WType ==
    /\ DOMAIN pc = W!Everyone
    /\ DOMAIN pkt = W!Province
    /\ DOMAIN messages_relayed = W!Province /\ \A k \in W!Province : messages_relayed[k] \in Nat
    /\ DOMAIN content = W!Edges /\ DOMAIN readers = W!Edges /\ DOMAIN writers = W!Edges
    /\ \A e \in W!Edges : e # W!reports_pipe => content[e] \in Seq(WOn(e))
    /\ content[W!reports_pipe] \in Seq(WReport)
    /\ sent \in Nat

\* A pipe is read by whom its road leads to, and closed only after those who write to it.
WPipes ==
    \A e \in W!Edges : /\ readers[e] \subseteq {e[2]}
                       /\ readers[e] = {} => content[e] = <<>> /\ writers[e] = {}

\* Who has not ended can write to its pipes, and who leaves has nothing to read.
WEnds ==
    /\ \A r \in W!Roads : pc[r[1]] # "ended" => r[1] \in writers[r]
    /\ pc[HowMany] \in {"open", "read", "pass", "close"} => HowMany \in writers[W!boss_to_p0]
    /\ pc[HowMany] \in {"wait", "ended"} => readers[W!reports_pipe] = {}
    /\ \A k \in W!Province : /\ pc[k] # "ended" => k \in writers[W!reports_pipe]
                             /\ pc[k] \in {"leave", "ended"} => W!Open(k) = {}

WPlaces ==
    /\ pc[HowMany] \in {"open", "read", "pass", "close", "collect", "wait", "ended"}
    /\ \A k \in W!Province : /\ pc[k] \in {"loop", "send", "leave", "ended"}
                             /\ pc[k] = "send" => pkt[k] \in WPos /\ pkt[k][2] > 1 /\ WNode(WPrev(pkt[k])) = k

\* Who leaves has reported.
WLeft    == {k \in W!Province : pc[k] \in {"leave", "ended"}}
WReports == reports \union Range(content[W!reports_pipe]) = {[province |-> k, relayed |-> messages_relayed[k]] : k \in WLeft}

\* Nobody leaves who is on a cycle of roads.
WCycle(D) == \A k \in D : \E b \in D : <<b, k>> \in W!Roads
WStay     == \A D \in SUBSET W!Province : WCycle(D) => D \intersect WLeft = {}

\* Rounds of packets are sent, and some packets of the next one.
WStage(rounds, more) ==
    /\ sent = rounds * Len(routes) + more /\ rounds <= Packets
    /\ more = 0 \/ more < Len(routes)
    /\ pc[HowMany] # "pass" => more = 0
    /\ pc[HowMany] = "pass" => rounds < Packets /\ routes # <<>>
    /\ pc[HowMany] \in {"close", "collect", "wait", "ended"} => routes = <<>> \/ rounds = Packets

\* What was sent has been taken, at each step of the route, or it is on its way; and what has
\* been taken has been counted.
WGone(rounds, more, p) == rounds + (IF p[1] <= more THEN 1 ELSE 0)
WFlow(rounds, more, taken) ==
    \A p \in WPos : /\ p[2] = 1 => WGone(rounds, more, p) = taken[p] + WCopies(p)
                    /\ p[2] > 1 => taken[WPrev(p)] = taken[p] + WCopies(p) + WHand(p)
WCounted(taken) == \A k \in W!Province : messages_relayed[k] = SumOver(taken, WAt(k))

WCount(rounds, more, taken) == WStage(rounds, more) /\ WFlow(rounds, more, taken) /\ WCounted(taken)
WCounting == \E rounds, more \in Nat : \E taken \in [WPos -> Nat] : WCount(rounds, more, taken)

\* The inductive invariant of the routes, as long as there is no SIGINT.
WCalm == WType /\ WPipes /\ WEnds /\ WPlaces /\ WReports /\ WStay
WInv  == interrupted = {} => WCalm /\ WCounting

\* The provinces and the roads of the configuration.
LEMMA WMap ==
    /\ W!CasaRosada = HowMany /\ HowMany \notin W!Province /\ HowMany \in W!Everyone /\ 0 \in W!Province
    /\ \A q \in W!Everyone : q = HowMany \/ q \in W!Province
    /\ \A q \in W!Province : q \in W!Everyone
    /\ W!boss_to_p0 = <<HowMany, 0>> /\ W!boss_to_p0 \in W!Edges
    /\ W!reports_pipe = <<0, HowMany>> /\ W!reports_pipe \in W!Edges /\ W!reports_pipe # W!boss_to_p0
    /\ \A r \in W!Roads : /\ r \in W!Edges /\ r[1] \in W!Province /\ r[2] \in W!Province
                          /\ r # W!boss_to_p0 /\ r # W!reports_pipe
    /\ \A e \in W!Edges : e = W!boss_to_p0 \/ e = W!reports_pipe \/ e \in W!Roads
<1>1. HowMany \in Nat \ {0} /\ routes \in Seq(Seq(W!Province))
  BY MapAssumption DEF W!ProperRoutes
<1>2. W!Province = 0..(HowMany - 1) /\ W!Everyone = 0..HowMany /\ W!CasaRosada = HowMany
  BY DEF W!Province, W!Everyone, W!CasaRosada
<1>3. /\ HowMany \notin W!Province /\ 0 \in W!Province /\ HowMany \in W!Everyone
      /\ \A q \in W!Everyone : q = HowMany \/ q \in W!Province
      /\ \A q \in W!Province : q \in W!Everyone
  BY <1>1, <1>2
<1>4. /\ W!boss_to_p0 = <<HowMany, 0>> /\ W!reports_pipe = <<0, HowMany>>
      /\ W!Edges = W!Roads \union {W!boss_to_p0, W!reports_pipe}
  BY <1>2 DEF W!boss_to_p0, W!reports_pipe, W!Edges
<1>5. ASSUME NEW r \in W!Roads PROVE r[1] \in W!Province /\ r[2] \in W!Province
  <2>1. PICK n \in DOMAIN routes : \E i \in 1..(Len(routes[n]) - 1) : r = <<routes[n][i], routes[n][i + 1]>>
    BY DEF W!Roads
  <2>2. PICK i \in 1..(Len(routes[n]) - 1) : r = <<routes[n][i], routes[n][i + 1]>>
    BY <2>1
  <2>3. routes[n] \in Seq(W!Province)
    BY <1>1, ElementOfSeq, LenProperties
  <2>4. Len(routes[n]) \in Nat
    BY <2>3, LenProperties
  <2>5. i \in 1..Len(routes[n]) /\ i + 1 \in 1..Len(routes[n])
    BY <2>4
  <2>6. routes[n][i] \in W!Province /\ routes[n][i + 1] \in W!Province
    BY <2>3, <2>5, ElementOfSeq
  <2> QED
    BY <2>2, <2>6
<1>6. W!reports_pipe # W!boss_to_p0
  BY <1>3, <1>4
<1>7. \A r \in W!Roads : r # W!boss_to_p0 /\ r # W!reports_pipe
  BY <1>3, <1>4, <1>5
<1> QED
  BY <1>2, <1>3, <1>4, <1>5, <1>6, <1>7

\* The steps of the routes.
LEMMA WPositions ==
    ASSUME NEW p \in WPos
    PROVE  /\ p = <<p[1], p[2]>> /\ p[1] \in DOMAIN routes /\ p[2] \in Nat \ {0} /\ p[2] <= Len(routes[p[1]])
           /\ Len(routes[p[1]]) \in Nat
           /\ WNode(p) \in W!Province /\ WRoad(p) \in W!Edges /\ WRoad(p) # W!reports_pipe
           /\ WRoad(p)[2] = WNode(p)
           /\ p[2] = 1 => WRoad(p) = W!boss_to_p0
           /\ p[2] > 1 => WPrev(p) \in WPos /\ WRoad(p) = <<WNode(WPrev(p)), WNode(p)>> /\ WRoad(p) \in W!Roads
           /\ p[2] = 1 \/ p[2] > 1
<1>1. p \in (DOMAIN routes) \X Nat /\ p[2] \in 1..Len(routes[p[1]]) /\ routes \in Seq(Seq(W!Province))
  BY MapAssumption DEF WPos, W!ProperRoutes
<1>2. p = <<p[1], p[2]>> /\ p[1] \in DOMAIN routes /\ p[2] \in Nat \ {0}
  BY <1>1
<1>3. routes[p[1]] \in Seq(W!Province)
  BY <1>1, <1>2, ElementOfSeq, LenProperties
<1>4. Len(routes[p[1]]) \in Nat /\ \A i \in 1..Len(routes[p[1]]) : routes[p[1]][i] \in W!Province
  BY <1>3, LenProperties, ElementOfSeq
<1>5. p[2] <= Len(routes[p[1]]) /\ WNode(p) \in W!Province /\ (p[2] = 1 \/ p[2] > 1)
  BY <1>1, <1>2, <1>4 DEF WNode
<1>6. CASE p[2] = 1
  <2>1. WNode(p) = 0
    BY <1>2, <1>6, MapAssumption DEF W!ProperRoutes, WNode
  <2> QED
    BY <1>2, <1>4, <1>5, <1>6, <2>1, WMap DEF WRoad
<1>7. CASE p[2] > 1
  <2> DEFINE i == p[2] - 1
  <2>1. i \in 1..(Len(routes[p[1]]) - 1) /\ i \in Nat /\ i \in 1..Len(routes[p[1]]) /\ i + 1 = p[2]
    BY <1>2, <1>4, <1>5, <1>7
  <2>2. WPrev(p) \in WPos /\ WNode(WPrev(p)) = routes[p[1]][i]
    BY <1>2, <2>1 DEF WPrev, WPos, WNode
  <2>3. WRoad(p) = <<routes[p[1]][i], routes[p[1]][i + 1]>>
    BY <1>7, <2>1, <2>2 DEF WRoad, WNode
  <2>4. WRoad(p) \in W!Roads
    BY <1>2, <2>1, <2>3 DEF W!Roads
  <2>5. WRoad(p) = <<WNode(WPrev(p)), WNode(p)>> /\ WRoad(p)[2] = WNode(p)
    BY <1>7 DEF WRoad
  <2> HIDE DEF i
  <2>6. p[2] # 1
    BY <1>7, <1>2
  <2> QED
    BY <1>2, <1>4, <1>5, <2>2, <2>4, <2>5, <2>6, WMap
<1> QED
  BY <1>5, <1>6, <1>7

\* The next step of a route that goes on.
LEMMA WNextStep ==
    ASSUME NEW p \in WPos, W!MoreRoute(p)
    PROVE  <<p[1], p[2] + 1>> \in WPos /\ WPrev(<<p[1], p[2] + 1>>) = p /\ p[2] + 1 > 1
<1>1. p = <<p[1], p[2]>> /\ p[1] \in DOMAIN routes /\ p[2] \in Nat \ {0} /\ Len(routes[p[1]]) \in Nat
  BY WPositions
<1>2. p[2] < Len(routes[p[1]])
  BY DEF W!MoreRoute
<1>3. p[2] + 1 \in Nat /\ p[2] + 1 \in 1..Len(routes[p[1]]) /\ (p[2] + 1) - 1 = p[2] /\ p[2] + 1 > 1
  BY <1>1, <1>2
<1> QED
  BY <1>1, <1>3 DEF WPos, WPrev

\* There are finitely many steps.
LEMMA WFinite == IsFiniteSet(WPos) /\ \A k : IsFiniteSet(WAt(k))
<1> DEFINE Steps(r) == {<<r, i>> : i \in 1..Len(routes[r])}
           All == {Steps(r) : r \in DOMAIN routes}
<1>1. routes \in Seq(Seq(W!Province))
  BY MapAssumption DEF W!ProperRoutes
<1>2. DOMAIN routes = 1..Len(routes) /\ Len(routes) \in Nat
  BY <1>1, LenProperties
<1>3. IsFiniteSet(DOMAIN routes)
  BY <1>2, FS_Interval
<1>4. ASSUME NEW r \in DOMAIN routes PROVE IsFiniteSet(Steps(r))
  <2>1. Len(routes[r]) \in Nat
    BY <1>1, ElementOfSeq, LenProperties
  <2>2. IsFiniteSet(1..Len(routes[r]))
    BY <2>1, FS_Interval
  <2> DEFINE f == [i \in 1..Len(routes[r]) |-> <<r, i>>]
  <2>3. f \in Surjection(1..Len(routes[r]), Steps(r))
    BY DEF Surjection
  <2> QED
    BY <2>2, <2>3, FS_Surjection
<1>5. IsFiniteSet(All)
  <2> DEFINE f == [r \in DOMAIN routes |-> Steps(r)]
  <2>1. f \in Surjection(DOMAIN routes, All)
    <3>1. f \in [DOMAIN routes -> All]
      OBVIOUS
    <3>2. \A c \in All : \E r \in DOMAIN routes : f[r] = c
      OBVIOUS
    <3> HIDE DEF f, All
    <3> QED
      BY <3>1, <3>2 DEF Surjection
  <2> QED
    BY <1>3, <2>1, FS_Surjection
<1>6. IsFiniteSet(UNION All)
  <2>1. \A c \in All : IsFiniteSet(c)
    BY <1>4
  <2> HIDE DEF All
  <2> QED
    BY <1>5, <2>1, FS_UNION
<1>7. WPos \subseteq UNION All
  <2> SUFFICES ASSUME NEW p \in WPos PROVE \E c \in All : p \in c
    OBVIOUS
  <2>1. p = <<p[1], p[2]>> /\ p[1] \in DOMAIN routes /\ p[2] \in 1..Len(routes[p[1]])
    BY WPositions DEF WPos
  <2>2. p \in Steps(p[1]) /\ Steps(p[1]) \in All
    BY <2>1
  <2> QED
    BY <2>2
<1>8. IsFiniteSet(WPos)
  BY <1>6, <1>7, FS_Subset
<1> QED
  BY <1>8, FS_Subset DEF WAt

\* A route that comes to a province twice makes a cycle.
LEMMA WOnce ==
    ASSUME WStay, WLeft = W!Province, NEW p \in WPos, NEW q \in WPos, p[1] = q[1], p[2] < q[2]
    PROVE  WNode(p) # WNode(q)
<1> SUFFICES ASSUME WNode(p) = WNode(q) PROVE FALSE
  OBVIOUS
<1> DEFINE Step(x) == <<p[1], x>>
           between == p[2]..(q[2] - 1)
           D == {WNode(Step(x)) : x \in between}
<1>1. /\ p = Step(p[2]) /\ q = Step(q[2]) /\ p[2] \in Nat \ {0} /\ q[2] \in Nat \ {0}
      /\ p[1] \in DOMAIN routes /\ Len(routes[p[1]]) \in Nat /\ q[2] <= Len(routes[p[1]])
  BY WPositions
<1>2. \A x \in p[2]..q[2] : Step(x) \in WPos
  BY <1>1 DEF WPos
<1>3. \A x \in between : x \in p[2]..q[2]
  BY <1>1
<1>4. D \in SUBSET W!Province
  BY <1>2, <1>3, WPositions
<1>5. p[2] \in between /\ q[2] - 1 \in between /\ p[2] > 0 /\ q[2] > 1
  BY <1>1
<1>6. ASSUME NEW x \in p[2]..q[2], x > p[2] PROVE <<WNode(Step(x - 1)), WNode(Step(x))>> \in W!Roads /\ x - 1 \in between
  <2>1. x \in Nat /\ x > 1 /\ x - 1 \in between
    BY <1>1, <1>6
  <2>2. Step(x) \in WPos /\ WPrev(Step(x)) = Step(x - 1) /\ Step(x)[2] > 1
    BY <1>2, <2>1 DEF WPrev
  <2> HIDE DEF Step
  <2>3. WRoad(Step(x)) = <<WNode(WPrev(Step(x))), WNode(Step(x))>> /\ WRoad(Step(x)) \in W!Roads
    BY <2>2, WPositions
  <2> QED
    BY <2>1, <2>2, <2>3
<1>7. WCycle(D)
  <2> SUFFICES ASSUME NEW x \in between PROVE \E b \in D : <<b, WNode(Step(x))>> \in W!Roads
    BY DEF WCycle
  <2>1. CASE x = p[2]
    <3>1. q[2] \in p[2]..q[2]
      BY <1>1
    <3>2. <<WNode(Step(q[2] - 1)), WNode(Step(q[2]))>> \in W!Roads /\ WNode(Step(q[2] - 1)) \in D
      BY <1>5, <1>6, <3>1
    <3>3. WNode(Step(x)) = WNode(Step(q[2]))
      BY <1>1, <2>1
    <3> QED
      BY <3>2, <3>3
  <2>2. CASE x # p[2]
    <3>1. x \in p[2]..q[2] /\ x > p[2]
      BY <1>1, <2>2
    <3> QED
      BY <1>6, <3>1
  <2> QED
    BY <2>1, <2>2
<1>8. WNode(Step(p[2])) \in D
  BY <1>5
<1> HIDE DEF D
<1>9. D \intersect WLeft = {}
  BY <1>4, <1>7 DEF WStay
<1> QED
  BY <1>4, <1>8, <1>9

\* When all have left, a province is on a route once, or not at all.
LEMMA WVisits ==
    ASSUME WStay, WLeft = W!Province, NEW k
    PROVE  Cardinality(WAt(k)) = Cardinality({r \in DOMAIN routes : k \in Range(routes[r])})
<1> DEFINE Through == {r \in DOMAIN routes : k \in Range(routes[r])}
           f == [p \in WAt(k) |-> p[1]]
<1>1. \A p \in WAt(k) : p \in WPos /\ WNode(p) = k
  BY DEF WAt
<1>2. ASSUME NEW r \in DOMAIN routes
      PROVE  DOMAIN routes[r] = 1..Len(routes[r]) /\ Len(routes[r]) \in Nat
  BY MapAssumption, ElementOfSeq, LenProperties DEF W!ProperRoutes
<1>3. f \in [WAt(k) -> Through]
  <2> SUFFICES ASSUME NEW p \in WAt(k) PROVE p[1] \in Through
    OBVIOUS
  <2>1. p[1] \in DOMAIN routes /\ p[2] \in 1..Len(routes[p[1]]) /\ k = routes[p[1]][p[2]]
    BY <1>1, WPositions DEF WPos, WNode
  <2>2. p[2] \in DOMAIN routes[p[1]]
    BY <1>2, <2>1
  <2> QED
    BY <2>1, <2>2 DEF Range
<1>4. ASSUME NEW p \in WAt(k), NEW q \in WAt(k), p[1] = q[1] PROVE p = q
  <2>1. /\ p = <<p[1], p[2]>> /\ q = <<q[1], q[2]>> /\ p[2] \in Nat /\ q[2] \in Nat
        /\ p \in WPos /\ q \in WPos /\ WNode(p) = WNode(q)
    BY <1>1, WPositions
  <2>2. ~(p[2] < q[2]) /\ ~(q[2] < p[2])
    BY <1>4, <2>1, WOnce
  <2>3. p[2] = q[2]
    BY <2>1, <2>2
  <2> QED
    BY <1>4, <2>1, <2>3
<1>5. ASSUME NEW r \in Through PROVE \E p \in WAt(k) : f[p] = r
  <2>1. PICK i \in DOMAIN routes[r] : routes[r][i] = k
    BY DEF Range
  <2>2. r \in DOMAIN routes /\ i \in Nat /\ i \in 1..Len(routes[r])
    BY <1>2, <2>1
  <2>3. <<r, i>> \in WPos /\ WNode(<<r, i>>) = k
    BY <2>1, <2>2 DEF WPos, WNode
  <2>4. <<r, i>> \in WAt(k) /\ f[<<r, i>>] = r
    BY <2>3 DEF WAt
  <2> QED
    BY <2>4
<1>6. f \in Bijection(WAt(k), Through)
  <2>1. \A p, q \in WAt(k) : f[p] = f[q] => p = q
    BY <1>4
  <2> HIDE DEF f, Through
  <2> QED
    BY <1>3, <1>5, <2>1 DEF Bijection, Injection, Surjection, IsInjective
<1>7. ExistsBijection(WAt(k), Through)
  BY <1>6 DEF ExistsBijection
<1> QED
  BY <1>7, WFinite, FS_Bijection

\* When all have ended, what was sent has been taken at all steps.
LEMMA WTaken ==
    ASSUME NEW rounds \in Nat, NEW more \in Nat, NEW taken \in [WPos -> Nat], WStage(rounds, more), WFlow(rounds, more, taken),
           pc[HowMany] = "ended", \A k \in W!Province : pc[k] = "ended",
           \A e \in W!Edges : content[e] = <<>>
    PROVE  \A p \in WPos : taken[p] = Packets
<1> DEFINE missing == {p[2] : p \in {q \in WPos : taken[q] # Packets}}
<1>1. \A p \in WPos : WCopies(p) = 0
  <2> SUFFICES ASSUME NEW p \in WPos PROVE WCopies(p) = 0
    OBVIOUS
  <2>1. content[WRoad(p)] = <<>>
    BY WPositions
  <2> QED
    BY <2>1, PlacesNone DEF WCopies
<1>2. \A p \in WPos : p[2] > 1 => WHand(p) = 0
  <2> SUFFICES ASSUME NEW p \in WPos, p[2] > 1 PROVE WHand(p) = 0
    OBVIOUS
  <2>1. WNode(WPrev(p)) \in W!Province
    BY WPositions
  <2> QED
    BY <2>1 DEF WHand
<1>3. SUFFICES ASSUME missing # {} PROVE FALSE
  OBVIOUS
<1>4. missing \in SUBSET Nat
  BY WPositions
<1>5. PICK m \in missing : \A n \in missing : m <= n
  <2> HIDE DEF missing
  <2> QED
    BY <1>3, <1>4, Least
<1>6. PICK p \in WPos : taken[p] # Packets /\ m = p[2]
  BY <1>5
<1>7. p[1] \in DOMAIN routes /\ p[1] \in Nat \ {0}
  BY WPositions, MapAssumption, LenProperties DEF W!ProperRoutes
<1>8. rounds = Packets /\ more = 0
  BY <1>7 DEF WStage
<1>9. CASE p[2] = 1
  BY <1>1, <1>6, <1>7, <1>8, <1>9 DEF WFlow, WGone
<1>10. CASE p[2] > 1
  <2>1. WPrev(p) \in WPos /\ p[2] \in Nat /\ WPrev(p)[2] = p[2] - 1
    BY <1>10, WPositions DEF WPrev
  <2>2. taken[WPrev(p)] = taken[p]
    BY <1>1, <1>2, <1>10, <2>1 DEF WFlow
  <2>3. p[2] - 1 \in missing
    BY <1>6, <2>1, <2>2
  <2> HIDE DEF missing
  <2>4. m <= m - 1
    BY <1>5, <1>6, <2>3
  <2> QED
    BY <1>6, <2>1, <2>4
<1> QED
  BY <1>9, <1>10, WPositions

\* What the property asks for.
LEMMA WImplies ==
    ASSUME WInv, interrupted = {}, W!Over
    PROVE  reports = {[province |-> k, relayed |-> Seen(k)] : k \in W!Province}
<1>1. WCalm
  BY DEF WInv
<1>2. PICK rounds \in Nat : \E more \in Nat : \E taken \in [WPos -> Nat] : WCount(rounds, more, taken)
  BY DEF WInv, WCounting
<1>3. PICK more \in Nat : \E taken \in [WPos -> Nat] : WCount(rounds, more, taken)
  BY <1>2
<1>4. PICK taken \in [WPos -> Nat] : WCount(rounds, more, taken)
  BY <1>3
<1>5. pc[HowMany] = "ended" /\ \A k \in W!Province : pc[k] = "ended"
  BY <1>1, WMap DEF W!Over, WCalm, WPlaces
<1>6. \A e \in W!Edges : content[e] = <<>>
  <2> SUFFICES ASSUME NEW e \in W!Edges PROVE readers[e] = {}
    BY <1>1 DEF WCalm, WPipes
  <2>1. CASE e = W!reports_pipe
    BY <1>1, <1>5, <2>1 DEF WCalm, WEnds
  <2>2. CASE e # W!reports_pipe
    <3>1. e[2] \in W!Province
      BY <2>2, WMap
    <3>2. e \notin W!Open(e[2])
      BY <1>1, <1>5, <3>1 DEF WCalm, WEnds
    <3>3. e[2] \notin readers[e]
      BY <3>2 DEF W!Open
    <3> QED
      BY <1>1, <3>3 DEF WCalm, WPipes
  <2> QED
    BY <2>1, <2>2
<1>7. WLeft = W!Province
  BY <1>5 DEF WLeft
<1>8. reports = {[province |-> k, relayed |-> messages_relayed[k]] : k \in W!Province}
  BY <1>1, <1>6, <1>7, SimpleNone, WMap DEF WCalm, WReports
<1>9. \A p \in WPos : taken[p] = Packets
  BY <1>4, <1>5, <1>6, WTaken DEF WCount
<1>10. ASSUME NEW k \in W!Province PROVE messages_relayed[k] = Seen(k)
  <2>1. \A p \in WAt(k) : taken[p] = Packets
    BY <1>9 DEF WAt
  <2>2. Packets \in Nat
    BY MapAssumption DEF W!ProperRoutes
  <2>3. SumOver(taken, WAt(k)) = Packets * Cardinality(WAt(k))
    BY <2>1, <2>2, WFinite, SumAlike
  <2>4. Cardinality(WAt(k)) = Cardinality({r \in DOMAIN routes : k \in Range(routes[r])})
    BY <1>1, <1>7, WVisits DEF WCalm
  <2> QED
    BY <1>4, <2>3, <2>4 DEF WCount, WCounted, Seen
<1> QED
  BY <1>8, <1>10

\* Rounds of packets, and some more: their number and its remainder.
LEMMA WRounds ==
    ASSUME NEW n \in Nat, NEW q \in Nat, NEW s \in Nat, s < n
    PROVE  (q * n + s) % n = s
<1> DEFINE m == q * n + s
           d == m \div n
<1>1. m \in Nat /\ n \in Nat /\ n > 0
  OBVIOUS
<1>2. m = n * d + (m % n) /\ d \in Int /\ 0 <= m % n /\ m % n < n /\ m % n \in Int
  <2> HIDE DEF m
  <2> QED
    BY <1>1
<1>3. CASE d >= q + 1
  BY <1>1, <1>2, <1>3
<1>4. CASE d <= q - 1
  BY <1>1, <1>2, <1>4
<1>5. CASE d = q
  BY <1>1, <1>2, <1>5
<1> QED
  BY <1>2, <1>3, <1>4, <1>5

\* Whether there are rounds left.
LEMMA WRoundsLeft ==
    ASSUME NEW n \in Nat, NEW q \in Nat, NEW all \in Nat, q <= all
    PROVE  /\ q * n < all * n => q < all /\ n # 0
           /\ ~(q * n < all * n) => q = all \/ n = 0
<1>1. CASE q = all
  BY <1>1
<1>2. CASE q + 1 <= all
  BY <1>2
<1> QED
  BY <1>1, <1>2

LEMMA WRoutes == routes \in Seq(Seq(W!Province)) /\ Len(routes) \in Nat /\ Packets \in Nat /\ DOMAIN routes = 1..Len(routes)
                 /\ (routes = <<>> <=> Len(routes) = 0)
  BY MapAssumption, LenProperties, EmptySeq DEF W!ProperRoutes

\* All begin with nothing sent.
LEMMA WInitially == W!Init => WInv
<1> SUFFICES ASSUME W!Init PROVE WInv
  OBVIOUS
<1>1. /\ content = [e \in W!Edges |-> <<>>] /\ readers = [e \in W!Edges |-> {e[2]}]
      /\ writers = [e \in W!Edges |-> IF e = W!reports_pipe THEN W!Province ELSE {e[1]}]
      /\ pc = [q \in W!Everyone |-> IF q = HowMany THEN "open" ELSE "loop"]
      /\ pkt = [k \in W!Province |-> <<1, 1>>] /\ messages_relayed = [k \in W!Province |-> 0]
      /\ sent = 0 /\ reports = {}
  BY WMap DEF W!Init
<1>2. pc[HowMany] = "open" /\ \A k \in W!Province : pc[k] = "loop" /\ messages_relayed[k] = 0
  BY <1>1, WMap
<1>3. WType
  BY <1>1, WMap DEF WType
<1>4. WPipes
  BY <1>1 DEF WPipes
<1>5. WEnds
  BY <1>1, <1>2, WMap DEF WEnds
<1>6. WPlaces
  BY <1>2 DEF WPlaces
<1>7. WLeft = {}
  BY <1>2 DEF WLeft
<1>8. WReports /\ WStay
  BY <1>1, <1>7, WMap, SimpleNone DEF WReports, WStay
<1> DEFINE taken == [p \in WPos |-> 0]
<1>9. taken \in [WPos -> Nat] /\ \A p \in WPos : taken[p] = 0
  OBVIOUS
<1> HIDE DEF taken
<1>10. WStage(0, 0)
  BY <1>1, <1>2, WRoutes DEF WStage
<1>11. WFlow(0, 0, taken)
  <2> SUFFICES ASSUME NEW p \in WPos
               PROVE  /\ p[2] = 1 => WGone(0, 0, p) = taken[p] + WCopies(p)
                      /\ p[2] > 1 => taken[WPrev(p)] = taken[p] + WCopies(p) + WHand(p)
    BY DEF WFlow
  <2>1. WCopies(p) = 0
    BY <1>1, WPositions, PlacesNone DEF WCopies
  <2>2. p[2] > 1 => WHand(p) = 0 /\ WPrev(p) \in WPos
    BY <1>2, WPositions DEF WHand
  <2>3. WGone(0, 0, p) = 0
    BY WPositions, WRoutes DEF WGone
  <2> QED
    BY <1>9, <2>1, <2>2, <2>3
<1>12. WCounted(taken)
  <2> SUFFICES ASSUME NEW k \in W!Province PROVE messages_relayed[k] = SumOver(taken, WAt(k))
    BY DEF WCounted
  <2>1. \A p \in WAt(k) : taken[p] = 0
    BY <1>9 DEF WAt
  <2> QED
    BY <1>2, <2>1, WFinite, SumZero
<1>13. WCount(0, 0, taken)
  BY <1>10, <1>11, <1>12 DEF WCount
<1>14. WCounting
  BY <1>9, <1>13 DEF WCounting
<1> QED
  BY <1>3, <1>4, <1>5, <1>6, <1>8, <1>14 DEF WInv, WCalm

\* How many packets are where.
LEMMA WCopiesType == WType => \A p \in WPos : WCopies(p) \in Nat
<1> SUFFICES ASSUME WType, NEW p \in WPos PROVE WCopies(p) \in Nat
  OBVIOUS
<1>1. content[WRoad(p)] \in Seq(WOn(WRoad(p)))
  BY WPositions DEF WType
<1> QED
  BY <1>1, PlacesFinite DEF WCopies

\* A packet is taken from a pipe.
LEMMA WTake ==
    ASSUME WType, NEW e \in W!Edges, e # W!reports_pipe, content[e] # <<>>, W!Take(e)
    PROVE  /\ Head(content[e]) \in WPos /\ WRoad(Head(content[e])) = e /\ DOMAIN content' = W!Edges
           /\ \A d \in W!Edges : d # e => content'[d] = content[d]
           /\ content'[e] \in Seq(WOn(e))
           /\ \A p \in WPos : WCopies(p)' = WCopies(p) - (IF p = Head(content[e]) THEN 1 ELSE 0)
<1>1. content[e] \in Seq(WOn(e)) /\ DOMAIN content = W!Edges /\ content' = [content EXCEPT ![e] = Tail(content[e])]
  BY DEF WType, W!Take
<1>2. content'[e] = Tail(content[e]) /\ DOMAIN content' = W!Edges /\ \A d \in W!Edges : d # e => content'[d] = content[d]
  BY <1>1
<1>3. Tail(content[e]) \in Seq(WOn(e)) /\ Head(content[e]) \in WOn(e)
  BY <1>1, HeadTailProperties
<1>4. ASSUME NEW p \in WPos PROVE WCopies(p)' = WCopies(p) - (IF p = Head(content[e]) THEN 1 ELSE 0)
  <2>1. WCopies(p)' = Cardinality(Places(content'[WRoad(p)], {p})) /\ WRoad(p) \in W!Edges /\ WCopies(p) \in Nat
    BY WPositions, WCopiesType DEF WCopies, Places
  <2>2. CASE WRoad(p) = e
    BY <1>1, <1>2, <2>1, <2>2, PlacesTail DEF WCopies
  <2>3. CASE WRoad(p) # e
    BY <1>2, <1>3, <2>1, <2>3 DEF WOn, WCopies
  <2> QED
    BY <2>2, <2>3
<1> QED
  BY <1>2, <1>3, <1>4 DEF WOn

\* A packet is put into the pipe along its road.
LEMMA WPut ==
    ASSUME WType, NEW m \in WPos, W!Put(WRoad(m), m)
    PROVE  /\ DOMAIN content' = W!Edges
           /\ \A d \in W!Edges : d # WRoad(m) => content'[d] = content[d]
           /\ content'[WRoad(m)] \in Seq(WOn(WRoad(m)))
           /\ \A p \in WPos : WCopies(p)' = WCopies(p) + (IF p = m THEN 1 ELSE 0)
<1> DEFINE e == WRoad(m)
<1>1. m \in WOn(e) /\ e \in W!Edges /\ e # W!reports_pipe
  BY WPositions DEF WOn
<1> HIDE DEF e
<1>2. content[e] \in Seq(WOn(e)) /\ DOMAIN content = W!Edges /\ content' = [content EXCEPT ![e] = Append(content[e], m)]
  BY <1>1 DEF WType, W!Put, e
<1>3. content'[e] = Append(content[e], m) /\ DOMAIN content' = W!Edges /\ \A d \in W!Edges : d # e => content'[d] = content[d]
  BY <1>1, <1>2
<1>4. Append(content[e], m) \in Seq(WOn(e))
  BY <1>1, <1>2, AppendProperties
<1>5. ASSUME NEW p \in WPos PROVE WCopies(p)' = WCopies(p) + (IF p = m THEN 1 ELSE 0)
  <2>1. WCopies(p)' = Cardinality(Places(content'[WRoad(p)], {p})) /\ WRoad(p) \in W!Edges /\ WCopies(p) \in Nat
    BY WPositions, WCopiesType DEF WCopies, Places
  <2>2. CASE WRoad(p) = e
    <3>1. Cardinality(Places(Append(content[e], m), {p})) = Cardinality(Places(content[e], {p})) + (IF m \in {p} THEN 1 ELSE 0)
      BY <1>1, <1>2, PlacesAppend
    <3> QED
      BY <1>3, <2>1, <2>2, <3>1 DEF WCopies
  <2>3. CASE WRoad(p) # e
    BY <1>3, <2>1, <2>3 DEF e, WCopies
  <2> QED
    BY <2>2, <2>3
<1> QED
  BY <1>3, <1>4, <1>5 DEF e

\* Steps that move no packet.
LEMMA WKeeps ==
    ASSUME WCounting, UNCHANGED <<sent, messages_relayed, pkt>>,
           \A e \in W!Edges : e # W!reports_pipe => content'[e] = content[e],
           \A k \in W!Province : pc'[k] = "send" <=> pc[k] = "send",
           \A rounds, more \in Nat : WStage(rounds, more) => WStage(rounds, more)'
    PROVE  WCounting'
<1>1. PICK rounds \in Nat : \E more \in Nat : \E taken \in [WPos -> Nat] : WCount(rounds, more, taken)
  BY DEF WCounting
<1>2. PICK more \in Nat : \E taken \in [WPos -> Nat] : WCount(rounds, more, taken)
  BY <1>1
<1>3. PICK taken \in [WPos -> Nat] : WCount(rounds, more, taken)
  BY <1>2
<1>4. \A p \in WPos : WCopies(p)' = WCopies(p)
  <2> SUFFICES ASSUME NEW p \in WPos PROVE WCopies(p)' = WCopies(p)
    OBVIOUS
  <2>1. content'[WRoad(p)] = content[WRoad(p)]
    BY WPositions
  <2> QED
    BY <2>1 DEF WCopies, Places
<1>5. \A p \in WPos : p[2] > 1 => WHand(p)' = WHand(p)
  <2> SUFFICES ASSUME NEW p \in WPos, p[2] > 1 PROVE WHand(p)' = WHand(p)
    OBVIOUS
  <2>1. WNode(WPrev(p)) \in W!Province
    BY WPositions
  <2> QED
    BY <2>1 DEF WHand
<1>6. WFlow(rounds, more, taken)'
  BY <1>3, <1>4, <1>5 DEF WCount, WFlow, WGone
<1>7. WCounted(taken)'
  BY <1>3 DEF WCount, WCounted
<1>8. WStage(rounds, more)'
  BY <1>3 DEF WCount
<1> QED
  BY <1>6, <1>7, <1>8 DEF WCounting, WCount

\* What closing ends of pipes does, if nothing is left in those that nobody reads any more.
LEMMA WCloses ==
    ASSUME WCalm, NEW q, NEW Rs, NEW Ws, W!Close(q, Rs, Ws),
           \A e \in W!Edges : e \in Rs /\ q \in readers[e] => content[e] = <<>> /\ writers[e] = {}
    PROVE  /\ DOMAIN content' = W!Edges /\ DOMAIN readers' = W!Edges /\ DOMAIN writers' = W!Edges
           /\ \A e \in W!Edges : /\ readers'[e] = (IF e \in Rs THEN readers[e] \ {q} ELSE readers[e])
                                 /\ writers'[e] = (IF e \in Ws THEN writers[e] \ {q} ELSE writers[e])
                                 /\ content'[e] = content[e]
           /\ WPipes'
<1>1. /\ DOMAIN content' = W!Edges /\ DOMAIN readers' = W!Edges /\ DOMAIN writers' = W!Edges
      /\ \A e \in W!Edges : /\ readers'[e] = (IF e \in Rs THEN readers[e] \ {q} ELSE readers[e])
                            /\ writers'[e] = (IF e \in Ws THEN writers[e] \ {q} ELSE writers[e])
                            /\ content'[e] = (IF readers'[e] = {} THEN <<>> ELSE content[e])
  BY DEF WCalm, WType, W!Close
<1>2. ASSUME NEW e \in W!Edges, readers'[e] = {} PROVE content[e] = <<>> /\ writers[e] = {}
  <2>1. CASE e \in Rs /\ q \in readers[e]
    BY <2>1
  <2>2. CASE ~(e \in Rs /\ q \in readers[e])
    BY <1>1, <1>2, <2>2 DEF WCalm, WPipes
  <2> QED
    BY <2>1, <2>2
<1>3. \A e \in W!Edges : content'[e] = content[e]
  BY <1>1, <1>2
<1>4. WPipes'
  <2> SUFFICES ASSUME NEW e \in W!Edges
               PROVE  readers'[e] \subseteq {e[2]} /\ (readers'[e] = {} => content'[e] = <<>> /\ writers'[e] = {})
    BY DEF WPipes
  <2>1. readers'[e] \subseteq readers[e] /\ writers'[e] \subseteq writers[e]
    BY <1>1
  <2> QED
    BY <1>2, <1>3, <2>1 DEF WCalm, WPipes
<1> QED
  BY <1>1, <1>3, <1>4

\* A province goes from one place to another; it ends when it has nothing to read.
LEMMA WGoes ==
    ASSUME WCalm, NEW k \in W!Province, NEW place \in {"loop", "send", "leave", "ended"},
           DOMAIN pc' = W!Everyone, pc'[k] = place, \A q \in W!Everyone : q # k => pc'[q] = pc[q], pc[k] # "ended",
           place \in {"leave", "ended"} => W!Open(k) = {},
           place = "send" => pkt'[k] \in WPos /\ pkt'[k][2] > 1 /\ WNode(WPrev(pkt'[k])) = k,
           \A j \in W!Province : j # k => pkt'[j] = pkt[j],
           \A e \in W!Edges : /\ readers'[e] \subseteq readers[e]
                             /\ writers'[e] = (IF place = "ended" THEN writers[e] \ {k} ELSE writers[e])
    PROVE  WEnds' /\ WPlaces' /\ pc'[HowMany] = pc[HowMany]
<1>1. pc'[HowMany] = pc[HowMany] /\ \A j \in W!Province : j # k => pc'[j] = pc[j]
  BY WMap
<1>2. WPlaces'
  BY <1>1 DEF WCalm, WPlaces
<1>3. \A j \in W!Province : W!Open(j) = {} => W!Open(j)' = {}
  BY DEF W!Open
<1>4. ASSUME NEW r \in W!Roads, pc'[r[1]] # "ended" PROVE r[1] \in writers'[r]
  BY <1>1, <1>4, WMap DEF WCalm, WEnds
<1>5. pc'[HowMany] \in {"open", "read", "pass", "close"} => HowMany \in writers'[W!boss_to_p0]
  BY <1>1, WMap DEF WCalm, WEnds
<1>6. pc'[HowMany] \in {"wait", "ended"} => readers'[W!reports_pipe] = {}
  BY <1>1, WMap DEF WCalm, WEnds
<1>7. ASSUME NEW j \in W!Province
      PROVE  /\ pc'[j] # "ended" => j \in writers'[W!reports_pipe]
             /\ pc'[j] \in {"leave", "ended"} => W!Open(j)' = {}
  <2>1. pc'[j] # "ended" => pc[j] # "ended"
    BY <1>1
  <2>2. pc'[j] # "ended" => j \in writers'[W!reports_pipe]
    BY <1>1, <2>1, WMap DEF WCalm, WEnds
  <2>3. pc'[j] \in {"leave", "ended"} => W!Open(j) = {}
    BY <1>1 DEF WCalm, WEnds
  <2> QED
    BY <1>3, <2>2, <2>3
<1> QED
  BY <1>1, <1>2, <1>4, <1>5, <1>6, <1>7 DEF WEnds

\* Nobody leaves, or who leaves has gone already; and the reports are left alone.
LEMMA WNoneLeaves ==
    ASSUME WCalm, WLeft' = WLeft, UNCHANGED reports, content'[W!reports_pipe] = content[W!reports_pipe],
           \A k \in WLeft : messages_relayed'[k] = messages_relayed[k]
    PROVE  WReports' /\ WStay'
<1>1. WStay'
  BY DEF WCalm, WStay
<1>2. Range(content[W!reports_pipe])' = Range(content[W!reports_pipe])
  BY DEF Range
<1>3. {[province |-> k, relayed |-> messages_relayed'[k]] : k \in WLeft} = {[province |-> k, relayed |-> messages_relayed[k]] : k \in WLeft}
  OBVIOUS
<1> QED
  BY <1>1, <1>2, <1>3 DEF WCalm, WReports

\* A packet is taken and counted, and its next step is at hand, if there is one.
LEMMA WRelay == ASSUME NEW k \in W!Province PROVE WCalm /\ WCounting /\ W!Relay(k) => WCalm' /\ WCounting'
<1> SUFFICES ASSUME WCalm, WCounting, W!Relay(k) PROVE WCalm' /\ WCounting'
  OBVIOUS
<1> DEFINE e == W!Input(k)
           m == Head(content[e])
           after == <<m[1], m[2] + 1>>
<1>1. /\ pc[k] = "loop" /\ e \in W!Open(k) /\ content[e] # <<>> /\ W!Take(e)
      /\ messages_relayed' = [messages_relayed EXCEPT ![k] = messages_relayed[k] + 1]
      /\ UNCHANGED <<readers, writers, sent, reports>>
      /\ \/ W!MoreRoute(m) /\ pkt' = [pkt EXCEPT ![k] = after] /\ pc' = [pc EXCEPT ![k] = "send"]
         \/ ~W!MoreRoute(m) /\ UNCHANGED <<pkt, pc>>
  BY DEF W!Relay, W!Readable, W!Go
<1> HIDE DEF e, m
<1>2. e \in W!Edges /\ k \in readers[e] /\ e[2] = k
  BY <1>1 DEF W!Open, WCalm, WPipes
<1>3. e # W!reports_pipe /\ k # HowMany
  BY <1>2, WMap
<1>4. /\ m \in WPos /\ WRoad(m) = e /\ DOMAIN content' = W!Edges
      /\ \A d \in W!Edges : d # e => content'[d] = content[d]
      /\ content'[e] \in Seq(WOn(e))
      /\ \A p \in WPos : WCopies(p)' = WCopies(p) - (IF p = m THEN 1 ELSE 0)
  BY <1>1, <1>2, <1>3, WTake DEF WCalm, m
<1>5. WNode(m) = k
  BY <1>2, <1>4, WPositions
<1>6. /\ DOMAIN messages_relayed' = W!Province /\ messages_relayed'[k] = messages_relayed[k] + 1 /\ messages_relayed[k] \in Nat
      /\ \A j \in W!Province : j # k => messages_relayed'[j] = messages_relayed[j]
  BY <1>1 DEF WCalm, WType
<1>7. /\ DOMAIN pkt' = W!Province /\ DOMAIN pc' = W!Everyone
      /\ \A j \in W!Province : j # k => pkt'[j] = pkt[j]
      /\ \A q \in W!Everyone : q # k => pc'[q] = pc[q]
      /\ \/ W!MoreRoute(m) /\ pkt'[k] = after /\ pc'[k] = "send"
         \/ ~W!MoreRoute(m) /\ pc'[k] = "loop"
  BY <1>1, WMap DEF WCalm, WType
<1>8. W!MoreRoute(m) => after \in WPos /\ WPrev(after) = m /\ after[2] > 1
  BY <1>4, WNextStep
<1> HIDE DEF after
<1>9. WType'
  <2>1. \A d \in W!Edges : d # W!reports_pipe => content'[d] \in Seq(WOn(d))
    BY <1>4 DEF WCalm, WType
  <2>2. content'[W!reports_pipe] \in Seq(WReport)
    BY <1>3, <1>4, WMap DEF WCalm, WType
  <2>3. \A j \in W!Province : messages_relayed'[j] \in Nat
    BY <1>6 DEF WCalm, WType
  <2> QED
    BY <1>1, <1>4, <1>6, <1>7, <2>1, <2>2, <2>3 DEF WCalm, WType
<1>10. WPipes'
  BY <1>1, <1>2, <1>4 DEF WCalm, WPipes
<1>11. WEnds' /\ WPlaces' /\ pc'[HowMany] = pc[HowMany]
  <2>1. \A d \in W!Edges : readers'[d] \subseteq readers[d] /\ writers'[d] = writers[d]
    BY <1>1
  <2>2. CASE W!MoreRoute(m)
    <3>1. pc'[k] = "send" /\ pkt'[k] \in WPos /\ pkt'[k][2] > 1 /\ WNode(WPrev(pkt'[k])) = k
      BY <1>5, <1>7, <1>8, <2>2
    <3> QED
      BY <1>1, <1>7, <2>1, <3>1, WGoes
  <2>3. CASE ~W!MoreRoute(m)
    BY <1>1, <1>7, <2>1, <2>3, WGoes
  <2> QED
    BY <2>2, <2>3
<1>12. WReports' /\ WStay'
  <2>1. \A j \in W!Province : j # k => pc'[j] = pc[j]
    BY <1>7, WMap
  <2>2. WLeft' = WLeft /\ k \notin WLeft
    BY <1>1, <1>7, <2>1 DEF WLeft
  <2>3. \A j \in WLeft : messages_relayed'[j] = messages_relayed[j]
    BY <1>6, <2>2 DEF WLeft
  <2>4. content'[W!reports_pipe] = content[W!reports_pipe]
    BY <1>3, <1>4, WMap
  <2> QED
    BY <1>1, <2>2, <2>3, <2>4, WNoneLeaves
<1>13. WCounting'
  <2>1. PICK rounds \in Nat : \E more \in Nat : \E t \in [WPos -> Nat] : WCount(rounds, more, t)
    BY DEF WCounting
  <2>2. PICK more \in Nat : \E t \in [WPos -> Nat] : WCount(rounds, more, t)
    BY <2>1
  <2>3. PICK taken \in [WPos -> Nat] : WCount(rounds, more, taken)
    BY <2>2
  <2>4. PICK t \in [WPos -> Nat] : t[m] = taken[m] + 1 /\ \A p \in WPos : p # m => t[p] = taken[p]
    <3> DEFINE f == [taken EXCEPT ![m] = taken[m] + 1]
    <3>1. f \in [WPos -> Nat] /\ f[m] = taken[m] + 1 /\ \A p \in WPos : p # m => f[p] = taken[p]
      BY <1>4
    <3> QED
      BY <3>1
  <2>5. WStage(rounds, more)'
    BY <1>1, <1>11, <2>3 DEF WCount, WStage
  <2>6. \A p \in WPos : WCopies(p) \in Nat
    BY WCopiesType DEF WCalm
  <2>7. WFlow(rounds, more, t)'
    <3> SUFFICES ASSUME NEW p \in WPos
                 PROVE  /\ p[2] = 1 => WGone(rounds, more, p) = t[p] + WCopies(p)'
                        /\ p[2] > 1 => t[WPrev(p)] = t[p] + WCopies(p)' + WHand(p)'
      BY DEF WFlow, WGone
    <3>1. t[p] + WCopies(p)' = taken[p] + WCopies(p)
      BY <1>4, <2>4, <2>6
    <3>2. CASE p[2] = 1
      BY <2>3, <3>1, <3>2 DEF WCount, WFlow
    <3>3. CASE p[2] > 1
      <4>1. WPrev(p) \in WPos /\ WNode(WPrev(p)) \in W!Province /\ p = <<p[1], p[2]>> /\ p[2] \in Nat
        BY <3>3, WPositions
      <4>2. taken[WPrev(p)] = taken[p] + WCopies(p) + WHand(p)
        BY <2>3, <3>3 DEF WCount, WFlow
      <4>3. CASE WPrev(p) = m
        <5>1. WHand(p) = 0
          BY <1>1, <1>5, <4>3 DEF WHand
        <5>2. p[1] = m[1] /\ p[2] = m[2] + 1 /\ p = after
          BY <4>1, <4>3 DEF WPrev, after
        <5>3. W!MoreRoute(m)
          BY <1>4, <5>2, WPositions DEF W!MoreRoute
        <5>4. WHand(p)' = 1
          BY <1>5, <1>7, <4>3, <5>2, <5>3 DEF WHand
        <5>5. taken[m] \in Nat /\ taken[p] \in Nat /\ WCopies(p) \in Nat
          BY <1>4, <2>6
        <5>6. t[WPrev(p)] = taken[m] + 1 /\ taken[m] = taken[p] + WCopies(p) + 0
          BY <2>4, <4>2, <4>3, <5>1
        <5>7. p[2] # 1
          BY <3>3, <4>1
        <5>8. t[WPrev(p)] = (t[p] + WCopies(p)') + 1
          BY <3>1, <5>5, <5>6
        <5> QED
          BY <5>4, <5>7, <5>8
      <4>4. CASE WPrev(p) # m
        <5>1. WHand(p)' = WHand(p)
          <6>1. CASE WNode(WPrev(p)) = k
            BY <1>1, <1>7, <1>8, <4>4, <6>1 DEF WHand
          <6>2. CASE WNode(WPrev(p)) # k
            BY <1>7, <4>1, <6>2, WMap DEF WHand
          <6> QED
            BY <6>1, <6>2
        <5>2. p[2] # 1 /\ t[WPrev(p)] = taken[WPrev(p)]
          BY <2>4, <3>3, <4>1, <4>4
        <5>3. t[WPrev(p)] = t[p] + WCopies(p)' + WHand(p)'
          BY <3>1, <4>2, <5>1, <5>2
        <5> QED
          BY <5>2, <5>3
      <4> QED
        BY <3>3, <4>3, <4>4
    <3> QED
      BY <3>2, <3>3, WPositions
  <2>8. WCounted(t)'
    <3> SUFFICES ASSUME NEW j \in W!Province PROVE messages_relayed'[j] = SumOver(t, WAt(j))
      BY DEF WCounted
    <3>1. /\ IsFiniteSet(WAt(j))
          /\ \A x \in WAt(j) : x \in WPos /\ taken[x] \in Int /\ t[x] \in Int
      <4>1. IsFiniteSet(WAt(j))
        BY WFinite, Zenon
      <4> QED
        BY <4>1 DEF WAt
    <3>2. messages_relayed[j] = SumOver(taken, WAt(j))
      BY <2>3 DEF WCount, WCounted
    <3>3. CASE j = k
      <4>1. m \in WAt(j) /\ \A x \in WAt(j) \ {m} : t[x] = taken[x]
        BY <1>4, <1>5, <2>4, <3>1, <3>3 DEF WAt
      <4>2. SumOver(t, WAt(j)) = SumOver(taken, WAt(j)) + 1
        BY <2>4, <3>1, <4>1, SumChange
      <4> QED
        BY <1>6, <3>2, <3>3, <4>2
    <3>4. CASE j # k
      <4>1. \A x \in WAt(j) : t[x] = taken[x]
        BY <1>5, <2>4, <3>1, <3>4 DEF WAt
      <4>2. SumOver(t, WAt(j)) = SumOver(taken, WAt(j))
        BY <3>1, <4>1, SumSame
      <4> QED
        BY <1>6, <3>2, <3>4, <4>2
    <3> QED
      BY <3>3, <3>4
  <2> QED
    BY <2>4, <2>5, <2>7, <2>8 DEF WCounting, WCount
<1> QED
  BY <1>9, <1>10, <1>11, <1>12, <1>13 DEF WCalm

\* A packet is passed on; nobody has closed the pipe.
LEMMA WSend == ASSUME NEW k \in W!Province PROVE WCalm /\ WCounting /\ W!Send(k) => WCalm' /\ WCounting'
<1> SUFFICES ASSUME WCalm, WCounting, W!Send(k) PROVE WCalm' /\ WCounting'
  OBVIOUS
<1> DEFINE m == pkt[k]
           r == <<k, W!NextNode(k)>>
<1>1. /\ pc[k] = "send" /\ pc' = [pc EXCEPT ![k] = "loop"]
      /\ UNCHANGED <<pkt, messages_relayed, sent, reports>>
      /\ readers[r] = {} \/ (W!Put(r, m) /\ UNCHANGED <<readers, writers>>)
  BY DEF W!Send, W!Broken, W!Go
<1>2. m \in WPos /\ m[2] > 1 /\ WNode(WPrev(m)) = k
  BY <1>1 DEF WCalm, WPlaces
<1>3. r = WRoad(m) /\ r \in W!Roads /\ r[1] = k /\ r \in W!Edges /\ r # W!reports_pipe
  <2>1. WRoad(m) = <<k, WNode(m)>> /\ WRoad(m) \in W!Roads
    BY <1>2, WPositions
  <2>2. r = <<k, WNode(m)>>
    BY DEF W!NextNode, WNode
  <2> QED
    BY <2>1, <2>2, WMap
<1> HIDE DEF m, r
<1>4. readers[r] # {}
  BY <1>1, <1>3 DEF WCalm, WEnds, WPipes
<1>5. /\ DOMAIN content' = W!Edges /\ UNCHANGED <<readers, writers>>
      /\ \A d \in W!Edges : d # r => content'[d] = content[d]
      /\ content'[r] \in Seq(WOn(r))
      /\ \A p \in WPos : WCopies(p)' = WCopies(p) + (IF p = m THEN 1 ELSE 0)
  BY <1>1, <1>2, <1>3, <1>4, WPut DEF WCalm
<1>6. DOMAIN pc' = W!Everyone /\ pc'[k] = "loop" /\ \A q \in W!Everyone : q # k => pc'[q] = pc[q]
  BY <1>1, WMap DEF WCalm, WType
<1>7. WType'
  BY <1>1, <1>3, <1>5, <1>6, WMap DEF WCalm, WType
<1>8. WPipes'
  BY <1>4, <1>5 DEF WCalm, WPipes
<1>9. WEnds' /\ WPlaces' /\ pc'[HowMany] = pc[HowMany]
  BY <1>1, <1>5, <1>6, WGoes
<1>10. WReports' /\ WStay'
  <2>1. \A j \in W!Province : j # k => pc'[j] = pc[j]
    BY <1>6, WMap
  <2>2. WLeft' = WLeft
    BY <1>1, <1>6, <2>1 DEF WLeft
  <2>3. content'[W!reports_pipe] = content[W!reports_pipe]
    BY <1>3, <1>5, WMap
  <2> QED
    BY <1>1, <2>2, <2>3, WNoneLeaves
<1>11. WCounting'
  <2>1. PICK rounds \in Nat : \E more \in Nat : \E t \in [WPos -> Nat] : WCount(rounds, more, t)
    BY DEF WCounting
  <2>2. PICK more \in Nat : \E t \in [WPos -> Nat] : WCount(rounds, more, t)
    BY <2>1
  <2>3. PICK taken \in [WPos -> Nat] : WCount(rounds, more, taken)
    BY <2>2
  <2>4. WStage(rounds, more)'
    BY <1>1, <1>9, <2>3 DEF WCount, WStage
  <2>5. \A p \in WPos : WCopies(p) \in Nat
    BY WCopiesType DEF WCalm
  <2>6. ASSUME NEW p \in WPos, p[2] > 1 PROVE WCopies(p)' + WHand(p)' = WCopies(p) + WHand(p)
    <3>1. WNode(WPrev(p)) \in W!Province
      BY <2>6, WPositions
    <3>2. CASE p = m
      <4>1. WHand(p) = 1 /\ WHand(p)' = 0
        BY <1>1, <1>2, <1>6, <3>2 DEF WHand, m
      <4> QED
        BY <1>5, <2>5, <3>2, <4>1
    <3>3. CASE p # m
      <4>1. WHand(p)' = WHand(p)
        <5>1. CASE WNode(WPrev(p)) = k
          BY <1>6, <3>3, <5>1 DEF WHand, m
        <5>2. CASE WNode(WPrev(p)) # k
          BY <1>1, <1>6, <3>1, <5>2, WMap DEF WHand
        <5> QED
          BY <5>1, <5>2
      <4>2. WCopies(p)' = WCopies(p)
        BY <1>5, <2>5, <3>3
      <4> QED
        BY <4>1, <4>2
    <3> QED
      BY <3>2, <3>3
  <2>7. WFlow(rounds, more, taken)'
    <3> SUFFICES ASSUME NEW p \in WPos
                 PROVE  /\ p[2] = 1 => WGone(rounds, more, p) = taken[p] + WCopies(p)'
                        /\ p[2] > 1 => taken[WPrev(p)] = taken[p] + WCopies(p)' + WHand(p)'
      BY DEF WFlow, WGone
    <3>1. CASE p[2] = 1
      BY <1>2, <1>5, <2>3, <2>5, <3>1 DEF WCount, WFlow
    <3>2. CASE p[2] > 1
      <4>1. taken[WPrev(p)] = taken[p] + WCopies(p) + WHand(p)
        BY <2>3, <3>2 DEF WCount, WFlow
      <4>2. taken[p] \in Nat /\ WCopies(p) \in Nat /\ WCopies(p)' \in Nat /\ WHand(p) \in Nat /\ WHand(p)' \in Nat
        BY <1>5, <2>5 DEF WHand
      <4>3. taken[WPrev(p)] = taken[p] + WCopies(p)' + WHand(p)'
        BY <2>6, <3>2, <4>1, <4>2
      <4>4. p[2] # 1
        BY <3>2
      <4> QED
        BY <4>3, <4>4
    <3> QED
      BY <3>1, <3>2, WPositions
  <2>8. WCounted(taken)'
    BY <1>1, <2>3 DEF WCount, WCounted
  <2> QED
    BY <2>4, <2>7, <2>8 DEF WCounting, WCount
<1> QED
  BY <1>7, <1>8, <1>9, <1>10, <1>11 DEF WCalm

\* An input is at its end, or there is nothing in it.
LEMMA WPoll == ASSUME NEW k \in W!Province PROVE WCalm /\ WCounting /\ W!Poll(k) => WCalm' /\ WCounting'
<1> SUFFICES ASSUME WCalm, WCounting, W!Poll(k) PROVE WCalm' /\ WCounting'
  OBVIOUS
<1> DEFINE e == W!Input(k)
           none == {}
<1>1. /\ pc[k] = "loop" /\ UNCHANGED <<pc, pkt, messages_relayed, sent, reports>>
      /\ \/ content[e] = <<>> /\ writers[e] = {} /\ W!Close(k, {e}, none)
         \/ UNCHANGED <<content, readers, writers>>
  BY DEF W!Poll, W!Eof, W!pipes
<1> HIDE DEF e
<1>2. /\ DOMAIN content' = W!Edges /\ DOMAIN readers' = W!Edges /\ DOMAIN writers' = W!Edges /\ WPipes'
      /\ \A d \in W!Edges : content'[d] = content[d] /\ readers'[d] \subseteq readers[d] /\ writers'[d] = writers[d]
  <2>1. CASE content[e] = <<>> /\ writers[e] = {} /\ W!Close(k, {e}, none)
    <3> HIDE DEF none
    <3>1. \A d \in W!Edges : d \in {e} /\ k \in readers[d] => content[d] = <<>> /\ writers[d] = {}
      BY <2>1
    <3>2. /\ DOMAIN content' = W!Edges /\ DOMAIN readers' = W!Edges /\ DOMAIN writers' = W!Edges /\ WPipes'
          /\ \A d \in W!Edges : /\ readers'[d] = (IF d \in {e} THEN readers[d] \ {k} ELSE readers[d])
                                /\ writers'[d] = (IF d \in none THEN writers[d] \ {k} ELSE writers[d])
                                /\ content'[d] = content[d]
      BY <2>1, <3>1, WCloses
    <3> QED
      BY <3>2 DEF none
  <2>2. CASE UNCHANGED <<content, readers, writers>>
    BY <2>2 DEF WCalm, WPipes, WType
  <2> QED
    BY <1>1, <2>1, <2>2
<1>3. WType'
  BY <1>1, <1>2, WMap DEF WCalm, WType
<1>4. DOMAIN pc' = W!Everyone /\ pc'[k] = "loop" /\ \A q \in W!Everyone : q # k => pc'[q] = pc[q]
  BY <1>1 DEF WCalm, WType
<1>5. WEnds' /\ WPlaces' /\ pc'[HowMany] = pc[HowMany]
  BY <1>1, <1>2, <1>4, WGoes
<1>6. WReports' /\ WStay'
  BY <1>1, <1>2, WMap, WNoneLeaves DEF WLeft
<1>7. WCounting'
  BY <1>1, <1>2, WKeeps DEF WStage
<1> QED
  BY <1>2, <1>3, <1>5, <1>6, <1>7 DEF WCalm

\* A province reports when it has nothing to read any more; none that writes to it is left.
LEMMA WWritesReport ==
    ASSUME NEW k \in W!Province
    PROVE  WCalm /\ WCounting /\ interrupted = {} /\ W!Report(k) => WCalm' /\ WCounting'
<1> SUFFICES ASSUME WCalm, WCounting, interrupted = {}, W!Report(k) PROVE WCalm' /\ WCounting'
  OBVIOUS
<1> DEFINE m == [province |-> k, relayed |-> messages_relayed[k]]
           e == W!reports_pipe
<1>1. /\ pc[k] = "loop" /\ W!Open(k) = {} /\ pc' = [pc EXCEPT ![k] = "leave"]
      /\ readers[e] = {} \/ (W!Put(e, m) /\ UNCHANGED <<readers, writers>>)
      /\ UNCHANGED <<pkt, messages_relayed, sent, reports>>
  BY DEF W!Report, W!GoesOn, W!Broken, W!Go
<1>2. e \in W!Edges /\ k \in writers[e]
  BY <1>1, WMap DEF WCalm, WEnds
<1>3. m \in WReport
  BY DEF WCalm, WType, WReport
<1> HIDE DEF m, e
<1>4. readers[e] # {} /\ W!Put(e, m) /\ UNCHANGED <<readers, writers>>
  BY <1>1, <1>2 DEF WCalm, WPipes
<1>5. content[e] \in Seq(WReport) /\ DOMAIN content = W!Edges /\ content' = [content EXCEPT ![e] = Append(content[e], m)]
  BY <1>4 DEF WCalm, WType, W!Put, e
<1>6. content'[e] = Append(content[e], m) /\ DOMAIN content' = W!Edges /\ \A d \in W!Edges : d # e => content'[d] = content[d]
  BY <1>2, <1>5
<1>7. content'[e] \in Seq(WReport)
  BY <1>3, <1>5, <1>6, AppendProperties
<1>8. Range(content'[e]) = Range(content[e]) \union {m}
  BY <1>3, <1>5, <1>6, SimpleAppend
<1>9. /\ DOMAIN pc' = W!Everyone /\ pc'[k] = "leave" /\ \A q \in W!Everyone : q # k => pc'[q] = pc[q]
      /\ \A j \in W!Province : j # k => pc'[j] = pc[j]
  BY <1>1, WMap DEF WCalm, WType
<1>10. WType'
  BY <1>1, <1>4, <1>6, <1>7, <1>9 DEF WCalm, WType, e
<1>11. WPipes'
  BY <1>4, <1>6 DEF WCalm, WPipes
<1>12. WEnds' /\ WPlaces' /\ pc'[HowMany] = pc[HowMany]
  BY <1>1, <1>4, <1>9, WGoes
<1>13. WLeft' = WLeft \union {k}
  BY <1>9 DEF WLeft
<1>14. WReports'
  <2>1. Range(content[W!reports_pipe])' = Range(content'[e])
    BY DEF Range, e
  <2>2. reports \union Range(content[e]) = {[province |-> j, relayed |-> messages_relayed[j]] : j \in WLeft}
    BY DEF WCalm, WReports, e
  <2>3. {[province |-> j, relayed |-> messages_relayed[j]] : j \in WLeft \union {k}}
           = {[province |-> j, relayed |-> messages_relayed[j]] : j \in WLeft} \union {m}
    BY DEF m
  <2> QED
    BY <1>1, <1>8, <1>13, <2>1, <2>2, <2>3 DEF WReports
<1>15. WStay'
  <2> SUFFICES ASSUME NEW D \in SUBSET W!Province, WCycle(D) PROVE D \intersect WLeft' = {}
    BY DEF WStay, WCycle
  <2>1. D \intersect WLeft = {}
    BY DEF WCalm, WStay
  <2>2. k \notin D
    <3>1. SUFFICES ASSUME k \in D PROVE FALSE
      OBVIOUS
    <3>2. PICK b \in D : <<b, k>> \in W!Roads
      BY <3>1 DEF WCycle
    <3> DEFINE r == <<b, k>>
    <3>3. r \in W!Roads /\ r \in W!Edges /\ r[1] = b /\ r[2] = k
      BY <3>2, WMap
    <3> HIDE DEF r
    <3>4. k \notin readers[r]
      BY <1>1, <3>3 DEF W!Open
    <3>5. readers[r] = {}
      BY <3>3, <3>4 DEF WCalm, WPipes
    <3>6. writers[r] = {}
      BY <3>3, <3>5 DEF WCalm, WPipes
    <3>7. pc[b] = "ended"
      BY <3>3, <3>6 DEF WCalm, WEnds
    <3> QED
      BY <2>1, <3>2, <3>7 DEF WLeft
  <2> QED
    BY <1>13, <2>1, <2>2
<1>16. WCounting'
  BY <1>1, <1>6, <1>9, <1>12, WKeeps DEF WStage, e
<1> QED
  BY <1>10, <1>11, <1>12, <1>14, <1>15, <1>16 DEF WCalm

\* A province ends after its report.
LEMMA WLeave == ASSUME NEW k \in W!Province PROVE WCalm /\ WCounting /\ W!Leave(k) => WCalm' /\ WCounting'
<1> SUFFICES ASSUME WCalm, WCounting, W!Leave(k) PROVE WCalm' /\ WCounting'
  OBVIOUS
<1>1. /\ pc[k] = "leave" /\ W!Close(k, DOMAIN readers, DOMAIN writers) /\ pc' = [pc EXCEPT ![k] = "ended"]
      /\ UNCHANGED <<pkt, messages_relayed, sent, reports>>
  BY DEF W!Leave, W!Exit, W!Go
<1>2. W!Open(k) = {} /\ \A e \in W!Edges : k \notin readers[e]
  BY <1>1 DEF WCalm, WEnds, W!Open
<1>3. /\ DOMAIN content' = W!Edges /\ DOMAIN readers' = W!Edges /\ DOMAIN writers' = W!Edges /\ WPipes'
      /\ \A e \in W!Edges : /\ readers'[e] = (IF e \in DOMAIN readers THEN readers[e] \ {k} ELSE readers[e])
                            /\ writers'[e] = (IF e \in DOMAIN writers THEN writers[e] \ {k} ELSE writers[e])
                            /\ content'[e] = content[e]
  BY <1>1, <1>2, WCloses
<1>4. \A e \in W!Edges : readers'[e] \subseteq readers[e] /\ writers'[e] = writers[e] \ {k}
  BY <1>3 DEF WCalm, WType
<1>5. /\ DOMAIN pc' = W!Everyone /\ pc'[k] = "ended" /\ \A q \in W!Everyone : q # k => pc'[q] = pc[q]
      /\ \A j \in W!Province : j # k => pc'[j] = pc[j]
  BY <1>1, WMap DEF WCalm, WType
<1>6. WType'
  BY <1>1, <1>3, <1>5, WMap DEF WCalm, WType
<1>7. WEnds' /\ WPlaces' /\ pc'[HowMany] = pc[HowMany]
  BY <1>1, <1>2, <1>4, <1>5, WGoes
<1>8. WReports' /\ WStay'
  BY <1>1, <1>3, <1>5, WMap, WNoneLeaves DEF WLeft
<1>9. WCounting'
  BY <1>1, <1>3, <1>5, <1>7, WKeeps DEF WStage
<1> QED
  BY <1>3, <1>6, <1>7, <1>8, <1>9 DEF WCalm

\* Casa Rosada goes to a place; the provinces stay where they are.
LEMMA WRosadaGoes ==
    ASSUME WCalm, NEW place \in {"read", "pass", "close", "collect", "wait", "ended"}, DOMAIN pc' = W!Everyone, pc'[HowMany] = place,
           \A j \in W!Province : pc'[j] = pc[j], UNCHANGED pkt,
           \A e \in W!Edges : readers'[e] \subseteq readers[e] /\ (e # W!boss_to_p0 => writers'[e] = writers[e]),
           place \in {"read", "pass", "close"} => HowMany \in writers'[W!boss_to_p0],
           place \in {"wait", "ended"} => readers'[W!reports_pipe] = {}
    PROVE  WEnds' /\ WPlaces' /\ WLeft' = WLeft
<1>1. WPlaces'
  BY DEF WCalm, WPlaces
<1>2. WLeft' = WLeft
  BY DEF WLeft
<1>3. ASSUME NEW r \in W!Roads, pc'[r[1]] # "ended" PROVE r[1] \in writers'[r]
  BY <1>3, WMap DEF WCalm, WEnds
<1>4. ASSUME NEW j \in W!Province
      PROVE  /\ pc'[j] # "ended" => j \in writers'[W!reports_pipe]
             /\ pc'[j] \in {"leave", "ended"} => W!Open(j)' = {}
  BY WMap DEF W!Open, WCalm, WEnds
<1> QED
  BY <1>1, <1>2, <1>3, <1>4 DEF WEnds

\* Casa Rosada opens the FIFO, reads it until its end, and waits.
LEMMA WReads == WCalm /\ WCounting /\ interrupted = {} /\ (W!OpenFifo \/ W!Read \/ W!Wait) => WCalm' /\ WCounting'
<1> SUFFICES ASSUME WCalm, WCounting, interrupted = {}, W!OpenFifo \/ W!Read \/ W!Wait PROVE WCalm' /\ WCounting'
  OBVIOUS
<1>1. UNCHANGED <<content, readers, writers, pkt, messages_relayed, sent, reports>>
  BY DEF W!OpenFifo, W!Read, W!Wait, W!pipes
<1> DEFINE place == pc'[HowMany]
<1>2. /\ place \in {"read", "pass", "close", "ended"} /\ pc' = [pc EXCEPT ![HowMany] = place]
      /\ (place = "ended" <=> pc[HowMany] = "wait")
      /\ pc[HowMany] \in {"open", "read", "wait"}
      /\ place = "pass" => sent < Packets * Len(routes)
      /\ place = "close" => ~(sent < Packets * Len(routes))
  <2>1. HowMany \in DOMAIN pc
    BY WMap DEF WCalm, WType
  <2>2. CASE W!OpenFifo
    BY <2>1, <2>2, WMap DEF W!OpenFifo, W!Go
  <2>3. CASE W!Read
    BY <2>1, <2>3, WMap DEF W!Read, W!Go
  <2>4. CASE W!Wait
    BY <2>1, <2>4, WMap DEF W!Wait, W!Go
  <2> QED
    BY <2>2, <2>3, <2>4
<1> HIDE DEF place
<1>3. DOMAIN pc' = W!Everyone /\ pc'[HowMany] = place /\ \A j \in W!Province : pc'[j] = pc[j]
  BY <1>2, WMap DEF WCalm, WType, place
<1>4. WType' /\ WPipes'
  BY <1>1, <1>3 DEF WCalm, WType, WPipes
<1>5. WEnds' /\ WPlaces' /\ WLeft' = WLeft
  <2>1. place \in {"read", "pass", "close"} => HowMany \in writers'[W!boss_to_p0]
    BY <1>1, <1>2 DEF WCalm, WEnds
  <2>2. place \in {"wait", "ended"} => readers'[W!reports_pipe] = {}
    BY <1>1, <1>2 DEF WCalm, WEnds
  <2>3. \A e \in W!Edges : readers'[e] \subseteq readers[e] /\ (e # W!boss_to_p0 => writers'[e] = writers[e])
    BY <1>1
  <2>4. place \in {"read", "pass", "close", "collect", "wait", "ended"}
    BY <1>2
  <2> QED
    BY <1>1, <1>3, <2>1, <2>2, <2>3, <2>4, WRosadaGoes
<1>6. WReports' /\ WStay'
  BY <1>1, <1>5, WNoneLeaves
<1>7. ASSUME NEW rounds \in Nat, NEW more \in Nat, WStage(rounds, more) PROVE WStage(rounds, more)'
  <2>1. more = 0 /\ sent = rounds * Len(routes) + more /\ rounds <= Packets
    BY <1>2, <1>7 DEF WStage
  <2>2. Packets \in Nat /\ Len(routes) \in Nat /\ (routes = <<>> <=> Len(routes) = 0)
    BY WRoutes
  <2>3. sent = rounds * Len(routes)
    BY <2>1, <2>2
  <2>4. place = "pass" => rounds < Packets /\ routes # <<>>
    BY <1>2, <2>1, <2>2, <2>3, WRoundsLeft
  <2>5. place = "close" => routes = <<>> \/ rounds = Packets
    BY <1>2, <2>1, <2>2, <2>3, WRoundsLeft
  <2>6. place = "ended" => routes = <<>> \/ rounds = Packets
    BY <1>2, <1>7 DEF WStage
  <2> QED
    BY <1>1, <1>2, <1>3, <2>1, <2>4, <2>5, <2>6 DEF WStage
<1>8. WCounting'
  BY <1>1, <1>3, <1>7, WKeeps
<1> QED
  BY <1>4, <1>5, <1>6, <1>8 DEF WCalm

\* The end of the FIFO.
LEMMA WCloseBoss == WCalm /\ WCounting /\ W!CloseBoss => WCalm' /\ WCounting'
<1> SUFFICES ASSUME WCalm, WCounting, W!CloseBoss PROVE WCalm' /\ WCounting'
  OBVIOUS
<1> DEFINE none == {}
<1>1. /\ pc[HowMany] = "close" /\ pc' = [pc EXCEPT ![HowMany] = "collect"]
      /\ W!Close(HowMany, none, {W!boss_to_p0}) /\ UNCHANGED <<pkt, messages_relayed, sent, reports>>
  BY WMap DEF W!CloseBoss, W!Go
<1>2. \A e \in W!Edges : e \in none /\ HowMany \in readers[e] => content[e] = <<>> /\ writers[e] = {}
  OBVIOUS
<1> HIDE DEF none
<1>3. /\ DOMAIN content' = W!Edges /\ DOMAIN readers' = W!Edges /\ DOMAIN writers' = W!Edges /\ WPipes'
      /\ \A e \in W!Edges : /\ readers'[e] = (IF e \in none THEN readers[e] \ {HowMany} ELSE readers[e])
                            /\ writers'[e] = (IF e \in {W!boss_to_p0} THEN writers[e] \ {HowMany} ELSE writers[e])
                            /\ content'[e] = content[e]
  BY <1>1, <1>2, WCloses
<1>4. DOMAIN pc' = W!Everyone /\ pc'[HowMany] = "collect" /\ \A j \in W!Province : pc'[j] = pc[j]
  BY <1>1, WMap DEF WCalm, WType
<1>5. WType'
  BY <1>1, <1>3, <1>4, WMap DEF WCalm, WType
<1>6. WEnds' /\ WPlaces' /\ WLeft' = WLeft
  BY <1>1, <1>3, <1>4, WRosadaGoes
<1>7. WReports' /\ WStay'
  BY <1>1, <1>3, <1>6, WMap, WNoneLeaves
<1>8. WCounting'
  BY <1>1, <1>3, <1>4, WKeeps DEF WStage
<1> QED
  BY <1>3, <1>5, <1>6, <1>7, <1>8 DEF WCalm

\* A report is read, or there are no more of them.
LEMMA WCollect == WCalm /\ WCounting /\ interrupted = {} /\ W!Collect => WCalm' /\ WCounting'
<1> SUFFICES ASSUME WCalm, WCounting, interrupted = {}, W!Collect PROVE WCalm' /\ WCounting'
  OBVIOUS
<1> DEFINE e == W!reports_pipe
           none == {}
<1>1. /\ pc[HowMany] = "collect" /\ UNCHANGED <<pkt, messages_relayed, sent>>
      /\ \/ /\ content[e] # <<>> /\ reports' = reports \union {Head(content[e])}
            /\ W!Take(e) /\ UNCHANGED <<pc, readers, writers>>
         \/ /\ content[e] = <<>> /\ writers[e] = {} /\ W!Close(HowMany, {e}, none)
            /\ pc' = [pc EXCEPT ![HowMany] = "wait"] /\ UNCHANGED reports
  BY WMap DEF W!Collect, W!Readable, W!Eof, W!Go
<1> HIDE DEF none
<1>2. e \in W!Edges /\ e[2] = HowMany /\ DOMAIN pc = W!Everyone
  BY WMap DEF WCalm, WType
<1>3. CASE /\ content[e] # <<>> /\ reports' = reports \union {Head(content[e])}
           /\ W!Take(e) /\ UNCHANGED <<pc, readers, writers>>
  <2>1. content[e] \in Seq(WReport) /\ DOMAIN content = W!Edges /\ content' = [content EXCEPT ![e] = Tail(content[e])]
    BY <1>3 DEF WCalm, WType, W!Take
  <2>2. content'[e] = Tail(content[e]) /\ DOMAIN content' = W!Edges /\ \A d \in W!Edges : d # e => content'[d] = content[d]
    BY <1>2, <2>1
  <2>3. content'[e] \in Seq(WReport) /\ Range(content[e]) = Range(content'[e]) \union {Head(content[e])}
    BY <1>3, <2>1, <2>2, HeadTailProperties, SimpleTail
  <2>4. WType'
    BY <1>1, <1>3, <2>2, <2>3 DEF WCalm, WType
  <2>5. WPipes'
    BY <1>2, <1>3, <2>2 DEF WCalm, WPipes
  <2>6. WEnds' /\ WPlaces' /\ WLeft' = WLeft
    BY <1>1, <1>2, <1>3, WRosadaGoes
  <2>7. WReports'
    <3>1. Range(content[W!reports_pipe])' = Range(content'[e])
      BY DEF Range
    <3>2. reports \union Range(content[e]) = {[province |-> j, relayed |-> messages_relayed[j]] : j \in WLeft}
      BY DEF WCalm, WReports
    <3> HIDE DEF e
    <3>3. reports' \union Range(content'[e]) = reports \union Range(content[e])
      BY <1>3, <2>3
    <3> QED
      BY <1>1, <2>6, <3>1, <3>2, <3>3 DEF WReports
  <2>8. WStay'
    BY <2>6 DEF WCalm, WStay, WCycle
  <2>9. WCounting'
    BY <1>1, <1>3, <2>2, WKeeps DEF WStage
  <2> QED
    BY <2>4, <2>5, <2>6, <2>7, <2>8, <2>9 DEF WCalm
<1>4. CASE /\ content[e] = <<>> /\ writers[e] = {} /\ W!Close(HowMany, {e}, none)
           /\ pc' = [pc EXCEPT ![HowMany] = "wait"] /\ UNCHANGED reports
  <2>1. \A d \in W!Edges : d \in {e} /\ HowMany \in readers[d] => content[d] = <<>> /\ writers[d] = {}
    BY <1>4
  <2>2. /\ DOMAIN content' = W!Edges /\ DOMAIN readers' = W!Edges /\ DOMAIN writers' = W!Edges /\ WPipes'
        /\ \A d \in W!Edges : /\ readers'[d] = (IF d \in {e} THEN readers[d] \ {HowMany} ELSE readers[d])
                              /\ writers'[d] = (IF d \in none THEN writers[d] \ {HowMany} ELSE writers[d])
                              /\ content'[d] = content[d]
    BY <1>4, <2>1, WCloses
  <2>3. DOMAIN pc' = W!Everyone /\ pc'[HowMany] = "wait" /\ \A j \in W!Province : pc'[j] = pc[j]
    BY <1>4, WMap DEF WCalm, WType
  <2>4. WType'
    BY <1>1, <2>2, <2>3, WMap DEF WCalm, WType
  <2>5. readers'[e] = {}
    BY <1>2, <2>2 DEF WCalm, WPipes
  <2>6. WEnds' /\ WPlaces' /\ WLeft' = WLeft
    BY <1>1, <2>2, <2>3, <2>5, WRosadaGoes DEF none
  <2>7. WReports' /\ WStay'
    <3>1. content'[W!reports_pipe] = content[W!reports_pipe]
      BY <1>2, <2>2
    <3> QED
      BY <1>1, <1>4, <2>6, <3>1, WNoneLeaves
  <2>8. WCounting'
    BY <1>1, <2>2, <2>3, WKeeps DEF WStage
  <2> QED
    BY <2>2, <2>4, <2>6, <2>7, <2>8 DEF WCalm
<1> QED
  BY <1>1, <1>3, <1>4

\* The next packet of a round is sent.
LEMMA WPass == WCalm /\ WCounting /\ W!Pass => WCalm' /\ WCounting'
<1> SUFFICES ASSUME WCalm, WCounting, W!Pass PROVE WCalm' /\ WCounting'
  OBVIOUS
<1>1. PICK rounds \in Nat : \E more \in Nat : \E t \in [WPos -> Nat] : WCount(rounds, more, t)
  BY DEF WCounting
<1>2. PICK more \in Nat : \E t \in [WPos -> Nat] : WCount(rounds, more, t)
  BY <1>1
<1>3. PICK taken \in [WPos -> Nat] : WCount(rounds, more, taken)
  BY <1>2
<1> DEFINE m == <<more + 1, 1>>
           e == W!boss_to_p0
           place == IF more + 1 = Len(routes) THEN "read" ELSE "pass"
<1>4. /\ pc[HowMany] = "pass" /\ sent = rounds * Len(routes) + more
      /\ rounds < Packets /\ routes # <<>> /\ (more = 0 \/ more < Len(routes))
  BY <1>3, WMap DEF WCount, WStage, W!Pass
<1>5. Len(routes) \in Nat /\ Len(routes) # 0 /\ more < Len(routes) /\ more + 1 \in DOMAIN routes
  BY <1>4, WRoutes, EmptySeq
<1>6. (sent % Len(routes)) + 1 = more + 1
  BY <1>4, <1>5, WRounds
<1>7. m \in WPos /\ WRoad(m) = e /\ e \in W!Edges /\ e # W!reports_pipe
  <2>1. Len(routes[more + 1]) \in Nat \ {0}
    <3>1. routes[more + 1] \in Seq(W!Province)
      BY <1>5, WRoutes, ElementOfSeq
    <3>2. Len(routes[more + 1]) > 0
      BY <1>5, MapAssumption DEF W!ProperRoutes
    <3> QED
      BY <3>1, <3>2, LenProperties
  <2>2. 1 \in 1..Len(routes[more + 1])
    BY <2>1
  <2>3. m \in WPos
    BY <1>5, <2>2 DEF WPos
  <2> QED
    BY <2>3, WMap, WPositions
<1>8. /\ readers[e] = {} \/ (W!Put(e, m) /\ UNCHANGED <<readers, writers>>)
      /\ pc' = [pc EXCEPT ![HowMany] = place]
      /\ sent' = sent + 1 /\ UNCHANGED <<pkt, messages_relayed, reports>>
  BY <1>6, WMap DEF W!Pass, W!Broken, W!Go
<1>9. m[1] = more + 1 /\ m[2] = 1 /\ place \in {"read", "pass"}
  OBVIOUS
<1> HIDE DEF m, e, place
<1>10. readers[e] # {}
  BY <1>4, <1>7 DEF WCalm, WEnds, e, WPipes
<1>11. /\ DOMAIN content' = W!Edges /\ UNCHANGED <<readers, writers>>
       /\ \A d \in W!Edges : d # e => content'[d] = content[d]
       /\ content'[e] \in Seq(WOn(e))
       /\ \A p \in WPos : WCopies(p)' = WCopies(p) + (IF p = m THEN 1 ELSE 0)
  BY <1>7, <1>8, <1>10, WPut DEF WCalm
<1>12. DOMAIN pc' = W!Everyone /\ pc'[HowMany] = place /\ \A j \in W!Province : pc'[j] = pc[j]
  BY <1>8, WMap DEF WCalm, WType
<1>13. WType'
  <2>1. \A d \in W!Edges : d # W!reports_pipe => content'[d] \in Seq(WOn(d))
    BY <1>11 DEF WCalm, WType
  <2>2. content'[W!reports_pipe] \in Seq(WReport)
    BY <1>7, <1>11, WMap DEF WCalm, WType
  <2>3. sent' \in Nat
    BY <1>8 DEF WCalm, WType
  <2> QED
    BY <1>8, <1>11, <1>12, <2>1, <2>2, <2>3 DEF WCalm, WType
<1>14. WPipes'
  BY <1>10, <1>11 DEF WCalm, WPipes
<1>15. WEnds' /\ WPlaces' /\ WLeft' = WLeft
  <2>1. \A d \in W!Edges : readers'[d] \subseteq readers[d] /\ (d # W!boss_to_p0 => writers'[d] = writers[d])
    BY <1>11
  <2>2. place \in {"read", "pass", "close"} => HowMany \in writers'[W!boss_to_p0]
    BY <1>4, <1>11 DEF WCalm, WEnds
  <2>3. place \in {"wait", "ended"} => readers'[W!reports_pipe] = {}
    BY <1>9
  <2>4. place \in {"read", "pass", "close", "collect", "wait", "ended"}
    BY <1>9
  <2> QED
    BY <1>8, <1>12, <2>1, <2>2, <2>3, <2>4, WRosadaGoes
<1>16. WReports' /\ WStay'
  <2>1. content'[W!reports_pipe] = content[W!reports_pipe]
    BY <1>7, <1>11, WMap
  <2> QED
    BY <1>8, <1>15, <2>1, WNoneLeaves
<1>17. \A p \in WPos : p[2] > 1 => WHand(p)' = WHand(p) /\ WCopies(p)' = WCopies(p)
  <2> SUFFICES ASSUME NEW p \in WPos, p[2] > 1 PROVE WHand(p)' = WHand(p) /\ WCopies(p)' = WCopies(p)
    OBVIOUS
  <2>1. WNode(WPrev(p)) \in W!Province
    BY WPositions
  <2>2. p # m
    BY <1>9
  <2>3. WCopies(p) \in Nat
    BY WCopiesType DEF WCalm
  <2> QED
    BY <1>8, <1>11, <1>12, <2>1, <2>2, <2>3 DEF WHand
<1>18. \A p \in WPos : p[2] = 1 =>
          (IF p[1] <= more THEN 1 ELSE 0) + (IF p = m THEN 1 ELSE 0) = (IF p[1] <= more + 1 THEN 1 ELSE 0)
  <2> SUFFICES ASSUME NEW p \in WPos, p[2] = 1
               PROVE  (IF p[1] <= more THEN 1 ELSE 0) + (IF p = m THEN 1 ELSE 0) = (IF p[1] <= more + 1 THEN 1 ELSE 0)
    OBVIOUS
  <2>1. p = <<p[1], 1>> /\ p[1] \in Nat
    BY WPositions, WRoutes
  <2>2. p = m <=> p[1] = more + 1
    BY <2>1 DEF m
  <2> QED
    BY <2>1, <2>2
<1>19. \A p \in WPos : p[2] = 1 => WGone(rounds, more, p) + (IF p = m THEN 1 ELSE 0) = taken[p] + WCopies(p)'
  <2> SUFFICES ASSUME NEW p \in WPos, p[2] = 1
               PROVE  WGone(rounds, more, p) + (IF p = m THEN 1 ELSE 0) = taken[p] + WCopies(p)'
    OBVIOUS
  <2>1. WGone(rounds, more, p) = taken[p] + WCopies(p) /\ taken[p] \in Nat /\ WCopies(p) \in Nat
    BY <1>3, WCopiesType DEF WCount, WFlow, WCalm
  <2>2. WCopies(p)' = WCopies(p) + (IF p = m THEN 1 ELSE 0)
    BY <1>11
  <2> QED
    BY <2>1, <2>2
<1>20. WCounted(taken)'
  BY <1>3, <1>8 DEF WCount, WCounted
<1>21. CASE more + 1 = Len(routes)
  <2>1. sent' = (rounds + 1) * Len(routes) + 0 /\ rounds + 1 <= Packets /\ rounds + 1 \in Nat /\ place = "read"
    <3>1. (rounds + 1) * Len(routes) + 0 = rounds * Len(routes) + Len(routes) /\ rounds * Len(routes) \in Nat
      BY <1>5
    <3>2. rounds + 1 <= Packets /\ rounds + 1 \in Nat
      BY <1>4, WRoutes
    <3> QED
      BY <1>4, <1>5, <1>8, <1>21, <3>1, <3>2 DEF place
  <2>2. WStage(rounds + 1, 0)'
    BY <1>12, <2>1 DEF WStage
  <2>3. ASSUME NEW p \in WPos, p[2] = 1 PROVE WGone(rounds + 1, 0, p) = taken[p] + WCopies(p)'
    <3>1. p[1] \in Nat /\ p[1] >= 1 /\ p[1] <= more + 1
      BY <1>5, <1>21, WPositions, WRoutes
    <3>2. WGone(rounds + 1, 0, p) = rounds + 1
      BY <3>1 DEF WGone
    <3>3. WGone(rounds, more, p) + (IF p = m THEN 1 ELSE 0) = rounds + 1
      BY <1>18, <2>3, <3>1 DEF WGone
    <3> QED
      BY <1>19, <2>3, <3>2, <3>3
  <2>4. WFlow(rounds + 1, 0, taken)'
    BY <1>3, <1>17, <2>3 DEF WCount, WFlow, WGone
  <2> QED
    BY <1>13, <1>14, <1>15, <1>16, <1>20, <2>1, <2>2, <2>4 DEF WCalm, WCounting, WCount
<1>22. CASE more + 1 # Len(routes)
  <2>1. sent' = rounds * Len(routes) + (more + 1) /\ more + 1 < Len(routes) /\ more + 1 \in Nat /\ place = "pass"
    BY <1>4, <1>5, <1>8, <1>22 DEF place
  <2>2. WStage(rounds, more + 1)'
    BY <1>4, <1>12, <2>1, WRoutes DEF WStage
  <2>3. ASSUME NEW p \in WPos, p[2] = 1 PROVE WGone(rounds, more + 1, p) = taken[p] + WCopies(p)'
    BY <1>18, <1>19, <2>3 DEF WGone
  <2>4. WFlow(rounds, more + 1, taken)'
    BY <1>3, <1>17, <2>3 DEF WCount, WFlow, WGone
  <2> QED
    BY <1>13, <1>14, <1>15, <1>16, <1>20, <2>1, <2>2, <2>4 DEF WCalm, WCounting, WCount
<1> QED
  BY <1>21, <1>22

LEMMA WStutter ==
    WInv /\ UNCHANGED <<content, readers, writers, pc, interrupted, pkt, messages_relayed, sent, reports>> => WInv'
<1> SUFFICES ASSUME WInv, UNCHANGED <<content, readers, writers, pc, interrupted, pkt, messages_relayed, sent, reports>>,
                    interrupted' = {}
             PROVE  WCalm' /\ WCounting'
  BY DEF WInv
<1>1. WCalm /\ WCounting
  BY DEF WInv
<1>2. WLeft' = WLeft /\ Range(content[W!reports_pipe])' = Range(content[W!reports_pipe])
  BY DEF WLeft, Range
<1>3. WType' /\ WPipes' /\ WEnds' /\ WPlaces' /\ WReports' /\ WStay'
  BY <1>1, <1>2 DEF WCalm, WType, WPipes, WEnds, WPlaces, WReports, WStay, W!Open
<1>4. WCounting'
  BY <1>1, WKeeps DEF WStage
<1> QED
  BY <1>3, <1>4 DEF WCalm

\* Every step of the routes keeps its invariant.
LEMMA WNext == WInv /\ W!Next => WInv'
<1> SUFFICES ASSUME WInv, W!Next, interrupted' = {} PROVE WCalm' /\ WCounting'
  BY DEF WInv
<1>1. ~ \E q \in W!Everyone : W!Sigint(q)
  BY DEF W!Sigint
<1>2. CASE W!Rosada
  <2>1. UNCHANGED interrupted
    BY <1>2 DEF W!Rosada, W!OpenFifo, W!Read, W!Pass, W!CloseBoss, W!Collect, W!Wait
  <2> QED
    BY <1>2, <2>1, WReads, WPass, WCloseBoss, WCollect DEF WInv, W!Rosada
<1>3. ASSUME NEW k \in W!Province, W!Act(k) PROVE WCalm' /\ WCounting'
  <2>1. UNCHANGED interrupted
    BY <1>3 DEF W!Act, W!Relay, W!Send, W!Poll, W!Report, W!Leave
  <2> QED
    BY <1>3, <2>1, WRelay, WSend, WPoll, WWritesReport, WLeave DEF WInv, W!Act
<1>4. CASE UNCHANGED W!vars
  BY <1>4, WStutter DEF W!vars, W!pipes, W!local, WInv
<1> QED
  BY <1>1, <1>2, <1>3, <1>4 DEF W!Next

-----------------------------------------------------------------------------
(* The provinces. *)

\* The invariant of the program that is played.
MapInv == (program = "flood" => VInv) /\ (program = "routes" => WInv)

LEMMA MapInitially == MapInit => MapInv
<1> SUFFICES ASSUME MapInit PROVE MapInv
  OBVIOUS
<1>1. CASE program = "flood" /\ V!Init
  BY <1>1, VInitially DEF MapInv
<1>2. CASE program = "routes" /\ W!Init
  BY <1>2, WInitially DEF MapInv
<1> QED
  BY <1>1, <1>2 DEF MapInit

\* A step is one of the program that is played.
LEMMA MapStep == MapInv /\ [MapNext]_mapVars => MapInv'
<1> SUFFICES ASSUME MapInv, [MapNext]_mapVars PROVE MapInv'
  OBVIOUS
<1>1. CASE Flood(V!Next)
  BY <1>1, VNext DEF Flood, MapInv
<1>2. CASE Route(W!Next)
  BY <1>2, WNext DEF Route, MapInv
<1>3. CASE UNCHANGED mapVars
  BY <1>3, VStutter, WStutter DEF mapVars, floodOwn, routeOwn, pipes, MapInv
<1> QED
  BY <1>1, <1>2, <1>3 DEF MapNext

\* The invariants hold of all that the programs with provinces do, on every map.
THEOREM MapInductive == MapSpec => []MapInv
<1>1. MapInit => MapInv
  BY MapInitially
<1>2. MapInv /\ [MapNext]_mapVars => MapInv'
  BY MapStep
<1> QED
  BY <1>1, <1>2, PTL DEF MapSpec

\* Unless SIGINT stops the provinces, what Casa Rosada sends gets everywhere before they end:
\* each directive to every province that roads lead to, each packet along all of its route.
THEOREM MapDirectivesArrive == MapSpec => []DirectivesArrive
<1>1. MapInv => DirectivesArrive
  BY VImplies, WImplies DEF MapInv, DirectivesArrive
<1> QED
  BY <1>1, MapInductive, PTL
=============================================================================
