--------------------------- MODULE TensorOpsProofs ---------------------------
(***************************************************************************)
(* Theorems about TensorViews, OpsDispatch and TensorOps, for tensors of   *)
(* every rank and shape, and any number of views, operations and loads.    *)
(***************************************************************************)
EXTENDS TensorOps, FiniteSetTheorems, FunctionTheorems, SequenceTheorems, WellFoundedInduction, TLAPS

-----------------------------------------------------------------------------
(***************************************************************************)
(* Folds.  g folds the subsets of S, from the element that pick takes on.  *)
(***************************************************************************)
Folds(g, pick, op, base, S) ==
    g = [s \in SUBSET S |->
            IF s = {} THEN base ELSE op[pick[s]][g[s \ {pick[s]}]]]

Picks(pick, S) == \A s \in SUBSET S : s # {} => pick[s] \in s

\* Among sets of finite sets one has the fewest elements.
LEMMA Fewest ==
    ASSUME NEW S, IsFiniteSet(S), NEW F \in SUBSET SUBSET S, F # {}
    PROVE  \E T \in F : \A Q \in F : ~(Cardinality(Q) < Cardinality(T))
<1> DEFINE N == {Cardinality(T) : T \in F}
<1>1. \A T \in F : Cardinality(T) \in Nat
  BY FS_Subset, FS_CardinalityType
<1>2. N \subseteq Nat /\ N # {}
  BY <1>1
<1>n. \A n \in N : \E T \in F : n = Cardinality(T)
  OBVIOUS
<1>m. \A T \in F : Cardinality(T) \in N
  OBVIOUS
<1> HIDE DEF N
<1>3. PICK R : R = OpToRel(<, Nat)
  OBVIOUS
<1>4. IsWellFoundedOn(R, Nat)
  BY <1>3, NatLessThanWellFounded
<1>5. PICK n \in N : \A m \in N : <<m, n>> \notin R
  BY <1>2, <1>4, WFMin
<1>6. \A m \in N : <<m, n>> \in R <=> m < n
  BY <1>2, <1>3 DEF OpToRel
<1>7. PICK T \in F : n = Cardinality(T)
  BY <1>5, <1>n
<1>8. \A Q \in F : ~(Cardinality(Q) < n)
  BY <1>5, <1>6, <1>m
<1> QED
  BY <1>7, <1>8

\* A subset of all but one element has fewer.
LEMMA Fewer ==
    ASSUME NEW S, IsFiniteSet(S), NEW x \in S, NEW T \in SUBSET (S \ {x})
    PROVE  IsFiniteSet(T) /\ Cardinality(T) < Cardinality(S)
<1>1. /\ IsFiniteSet(S \ {x}) /\ Cardinality(S) \in Nat
      /\ Cardinality(S \ {x}) = Cardinality(S) - 1
  BY FS_CardinalityType, FS_RemoveElement
<1>2. IsFiniteSet(T) /\ Cardinality(T) <= Cardinality(S \ {x}) /\ Cardinality(T) \in Nat
  BY <1>1, FS_Subset, FS_CardinalityType
<1> QED
  BY <1>1, <1>2

LEMMA FoldsAgree ==
    ASSUME NEW pick, NEW op, NEW base, NEW f, NEW g, NEW S, NEW T, IsFiniteSet(S),
           Picks(pick, S), Folds(f, pick, op, base, S), Folds(g, pick, op, base, T)
    PROVE  \A R \in SUBSET (S \cap T) : f[R] = g[R]
<1> DEFINE F == {R \in SUBSET (S \cap T) : f[R] # g[R]}
<1> SUFFICES ASSUME F # {} PROVE FALSE
  OBVIOUS
<1>1. F \in SUBSET SUBSET S
  OBVIOUS
<1>2. PICK R \in F : \A Q \in F : ~(Cardinality(Q) < Cardinality(R))
  BY <1>1, Fewest
<1>3. R \in SUBSET S /\ R \in SUBSET T /\ f[R] # g[R]
  OBVIOUS
<1>4. R # {}
  BY <1>3 DEF Folds
<1> DEFINE Q == R \ {pick[R]}
<1>5. pick[R] \in R /\ IsFiniteSet(R)
  BY <1>3, <1>4, FS_Subset DEF Picks
<1>6. Q \notin F
  BY <1>2, <1>5, Fewer
<1>7. f[Q] = g[Q]
  BY <1>3, <1>6
<1>8. f[R] = op[pick[R]][f[Q]] /\ g[R] = op[pick[R]][g[Q]]
  BY <1>3, <1>4 DEF Folds
<1> QED
  BY <1>3, <1>7, <1>8

LEMMA FoldsExist ==
    ASSUME NEW S, IsFiniteSet(S), NEW pick, Picks(pick, S), NEW op, NEW base
    PROVE  \E g : Folds(g, pick, op, base, S)
<1> DEFINE Is(g, s) == Folds(g, pick, op, base, s)
           F == {s \in SUBSET S : ~\E g : Is(g, s)}
<1> HIDE DEF Is
<1>0. SUFFICES ASSUME F # {} PROVE FALSE
  BY DEF Is
<1>f. F \in SUBSET SUBSET S
  OBVIOUS
<1>1. PICK r \in F : \A Q \in F : ~(Cardinality(Q) < Cardinality(r))
  BY <1>0, <1>f, Fewest
<1>r. r \in SUBSET S /\ IsFiniteSet(r)
  BY FS_Subset
<1> DEFINE rest(s) == s \ {pick[s]}
           whole(s) == (CHOOSE k : Is(k, s))[s]
           g == [s \in SUBSET r |-> IF s = {} THEN base ELSE op[pick[s]][whole(rest(s))]]
<1> HIDE DEF F
<1>2. ASSUME NEW s \in SUBSET r, s # r
      PROVE  \E k : Is(k, s)
  <2>1. PICK x \in r : x \notin s
    BY <1>2
  <2>2. Cardinality(s) < Cardinality(r)
    BY <1>r, <2>1, Fewer
  <2> QED
    BY <1>1, <1>r, <2>2 DEF F
<1>3. ASSUME NEW s \in SUBSET r, s # r
      PROVE  g[s] = whole(s)
  <2>1. PICK k : k = CHOOSE j : Is(j, s)
    OBVIOUS
  <2>2. Is(k, s) /\ whole(s) = k[s]
    BY <1>2, <1>3, <2>1
  <2>3. CASE s = {}
    BY <2>2, <2>3 DEF Is, Folds
  <2>4. CASE s # {}
    <3>1. pick[s] \in s
      BY <2>4, <1>r DEF Picks
    <3>2. rest(s) \in SUBSET s /\ rest(s) \in SUBSET r /\ rest(s) # r
      BY <3>1, <1>3
    <3>3. PICK i : i = CHOOSE j : Is(j, rest(s))
      OBVIOUS
    <3>4. Is(i, rest(s)) /\ whole(rest(s)) = i[rest(s)]
      BY <1>2, <3>2, <3>3
    <3>5. IsFiniteSet(s) /\ Picks(pick, s)
      BY <1>r, FS_Subset DEF Picks
    <3>6. k[rest(s)] = i[rest(s)]
      BY <2>2, <3>2, <3>4, <3>5, FoldsAgree DEF Is
    <3>7. k[s] = op[pick[s]][k[rest(s)]]
      BY <2>2, <2>4 DEF Is, Folds
    <3> QED
      BY <2>2, <2>4, <3>4, <3>6, <3>7
  <2> QED
    BY <2>3, <2>4
<1>4. ASSUME NEW s \in SUBSET r, s # {}
      PROVE  rest(s) \in SUBSET r /\ rest(s) # r
  BY <1>4, <1>r DEF Picks
<1>5. \A s \in SUBSET r : s # {} => whole(rest(s)) = g[rest(s)]
  BY <1>3, <1>4
<1> HIDE DEF whole
<1>6. PICK k : k = g
  OBVIOUS
<1>7. \A s \in SUBSET r : s # {} => whole(rest(s)) = k[rest(s)]
  BY <1>5, <1>6
<1>8. k = [s \in SUBSET r |-> IF s = {} THEN base ELSE op[pick[s]][k[rest(s)]]]
  BY <1>6, <1>7
<1>9. Is(k, r)
  BY <1>8 DEF Is, Folds
<1> QED
  BY <1>1, <1>9 DEF F

LEMMA FoldsTyped ==
    ASSUME NEW S, IsFiniteSet(S), NEW pick, Picks(pick, S), NEW V, NEW base \in V,
           NEW op \in [S -> [V -> V]], NEW g, Folds(g, pick, op, base, S)
    PROVE  \A s \in SUBSET S : g[s] \in V
<1> DEFINE F == {s \in SUBSET S : g[s] \notin V}
<1> SUFFICES ASSUME F # {} PROVE FALSE
  OBVIOUS
<1>f. F \in SUBSET SUBSET S
  OBVIOUS
<1>1. PICK s \in F : \A Q \in F : ~(Cardinality(Q) < Cardinality(s))
  BY <1>f, Fewest
<1>2. s \in SUBSET S /\ g[s] \notin V /\ s # {}
  BY DEF Folds
<1>3. pick[s] \in s /\ IsFiniteSet(s)
  BY <1>2, FS_Subset DEF Picks
<1>4. g[s \ {pick[s]}] \in V
  BY <1>1, <1>2, <1>3, Fewer
<1>5. g[s] = op[pick[s]][g[s \ {pick[s]}]]
  BY <1>2 DEF Folds
<1> QED
  BY <1>2, <1>3, <1>4, <1>5

-----------------------------------------------------------------------------
(***************************************************************************)
(* Sums of products, as Dot takes them: the order in which the fold takes  *)
(* the indices is not known, and does not matter.                          *)
(***************************************************************************)
Some(s) == CHOOSE x \in s : TRUE
Dots(g, a, b, S) ==
    g = [s \in SUBSET S |->
            IF s = {} THEN 0 ELSE a[Some(s)] * b[Some(s)] + g[s \ {Some(s)}]]
DotOn(a, b, S) == (CHOOSE g : Dots(g, a, b, S))[S]

\* What is summed are numbers, finitely many.
Valued(a, b, S) == IsFiniteSet(S) /\ \A x \in S : a[x] \in Nat /\ b[x] \in Nat

LEMMA SomeIn == \A s : s # {} => Some(s) \in s
  BY DEF Some

LEMMA DotIsDotOn ==
    ASSUME NEW index, NEW strides
    PROVE  Dot(index, strides) = DotOn(index, strides, DOMAIN index)
<1>1. PICK f : f = CHOOSE g : Dots(g, index, strides, DOMAIN index)
  OBVIOUS
<1>2. Dot(index, strides) = f[DOMAIN index]
  BY <1>1 DEF Dot, MapThenSumSet, MapThenFoldSet, Dots, Some
<1> QED
  BY <1>1, <1>2 DEF DotOn

LEMMA ValuedSubset ==
    ASSUME NEW a, NEW b, NEW S, Valued(a, b, S), NEW T \in SUBSET S
    PROVE  Valued(a, b, T)
  BY FS_Subset DEF Valued

LEMMA ProductNat == \A m, n \in Nat : m * n \in Nat
  OBVIOUS

LEMMA DotsExist ==
    ASSUME NEW a, NEW b, NEW S, Valued(a, b, S)
    PROVE  \E g : Dots(g, a, b, S)
<1> DEFINE pick == [s \in SUBSET S |-> Some(s)]
           op == [x \in S |-> [v \in Nat |-> a[x] * b[x] + v]]
<1>1. Picks(pick, S) /\ IsFiniteSet(S)
  BY SomeIn DEF Picks, Valued
<1>2. \A x \in S : a[x] * b[x] \in Nat
  BY ProductNat DEF Valued
<1>3. op \in [S -> [Nat -> Nat]]
  BY <1>2
<1>4. \A x \in S : \A v \in Nat : op[x][v] = a[x] * b[x] + v
  OBVIOUS
<1>5. \A s \in SUBSET S : pick[s] = Some(s)
  OBVIOUS
<1> HIDE DEF pick, op
<1>6. PICK g : Folds(g, pick, op, 0, S)
  BY <1>1, FoldsExist
<1>7. \A s \in SUBSET S : g[s] \in Nat
  BY <1>1, <1>3, <1>6, FoldsTyped
<1> DEFINE folded(s) == IF s = {} THEN 0 ELSE op[Some(s)][g[s \ {Some(s)}]]
           summed(s) == IF s = {} THEN 0 ELSE a[Some(s)] * b[Some(s)] + g[s \ {Some(s)}]
<1>8. g = [s \in SUBSET S |-> folded(s)]
  BY <1>5, <1>6 DEF Folds
<1>9. \A s \in SUBSET S : s # {} => Some(s) \in S /\ s \ {Some(s)} \in SUBSET S
  BY SomeIn
<1>10. \A s \in SUBSET S : folded(s) = summed(s)
  BY <1>4, <1>7, <1>9
<1>11. Dots(g, a, b, S) <=> g = [s \in SUBSET S |-> summed(s)]
  BY DEF Dots
<1> HIDE DEF folded, summed
<1> QED
  BY <1>8, <1>10, <1>11

LEMMA DotsAgree ==
    ASSUME NEW a, NEW b, NEW f, NEW g, NEW S, IsFiniteSet(S), NEW T,
           Dots(f, a, b, S), Dots(g, a, b, T)
    PROVE  \A R \in SUBSET (S \cap T) : f[R] = g[R]
<1> DEFINE F == {R \in SUBSET (S \cap T) : f[R] # g[R]}
<1> SUFFICES ASSUME F # {} PROVE FALSE
  OBVIOUS
<1>1. F \in SUBSET SUBSET S
  OBVIOUS
<1>2. PICK R \in F : \A Q \in F : ~(Cardinality(Q) < Cardinality(R))
  BY <1>1, Fewest
<1>3. R \in SUBSET S /\ R \in SUBSET T /\ f[R] # g[R]
  OBVIOUS
<1>4. R # {}
  BY <1>3 DEF Dots
<1> DEFINE Q == R \ {Some(R)}
<1>5. Some(R) \in R /\ IsFiniteSet(R)
  BY <1>3, <1>4, FS_Subset, SomeIn
<1>6. Q \notin F
  BY <1>2, <1>5, Fewer
<1>7. f[Q] = g[Q]
  BY <1>3, <1>6
<1>8. f[R] = a[Some(R)] * b[Some(R)] + f[Q] /\ g[R] = a[Some(R)] * b[Some(R)] + g[Q]
  BY <1>3, <1>4 DEF Dots
<1> QED
  BY <1>3, <1>7, <1>8

LEMMA DotOnBy ==
    ASSUME NEW a, NEW b, NEW S, IsFiniteSet(S), NEW g, Dots(g, a, b, S)
    PROVE  DotOn(a, b, S) = g[S]
<1>1. PICK f : f = CHOOSE k : Dots(k, a, b, S)
  OBVIOUS
<1>2. Dots(f, a, b, S) /\ DotOn(a, b, S) = f[S]
  BY <1>1 DEF DotOn
<1> QED
  BY <1>2, DotsAgree

LEMMA DotOnEmpty == \A a, b : DotOn(a, b, {}) = 0
<1> SUFFICES ASSUME NEW a, NEW b PROVE DotOn(a, b, {}) = 0
  OBVIOUS
<1>1. IsFiniteSet({}) /\ Valued(a, b, {})
  BY FS_EmptySet DEF Valued
<1>2. PICK g : Dots(g, a, b, {})
  BY <1>1, DotsExist
<1>3. g[{}] = 0
  BY <1>2 DEF Dots
<1> QED
  BY <1>1, <1>2, <1>3, DotOnBy

\* One step of the fold.
LEMMA DotOnStep ==
    ASSUME NEW a, NEW b, NEW S, Valued(a, b, S), S # {}
    PROVE  /\ Some(S) \in S
           /\ DotOn(a, b, S) = a[Some(S)] * b[Some(S)] + DotOn(a, b, S \ {Some(S)})
<1> DEFINE R == S \ {Some(S)}
<1>1. Some(S) \in S /\ R \in SUBSET S /\ R \in SUBSET (S \cap R)
  BY SomeIn
<1>2. IsFiniteSet(S) /\ IsFiniteSet(R) /\ Valued(a, b, R)
  BY <1>1, ValuedSubset DEF Valued
<1>3. PICK g : Dots(g, a, b, S)
  BY DotsExist
<1>4. PICK f : Dots(f, a, b, R)
  BY <1>2, DotsExist
<1>5. DotOn(a, b, S) = g[S] /\ DotOn(a, b, R) = f[R]
  BY <1>2, <1>3, <1>4, DotOnBy
<1>6. g[R] = f[R]
  BY <1>1, <1>2, <1>3, <1>4, DotsAgree
<1>7. g[S] = a[Some(S)] * b[Some(S)] + g[R]
  BY <1>3 DEF Dots
<1> QED
  BY <1>1, <1>5, <1>6, <1>7

LEMMA DotOnNat ==
    ASSUME NEW a, NEW b, NEW S, Valued(a, b, S)
    PROVE  \A T \in SUBSET S : DotOn(a, b, T) \in Nat
<1> DEFINE F == {T \in SUBSET S : DotOn(a, b, T) \notin Nat}
<1>f. F \in SUBSET SUBSET S
  OBVIOUS
<1>0. SUFFICES ASSUME F # {} PROVE FALSE
  OBVIOUS
<1>1. PICK T \in F : \A Q \in F : ~(Cardinality(Q) < Cardinality(T))
  BY <1>f, <1>0, Fewest DEF Valued
<1>2. T \in SUBSET S /\ DotOn(a, b, T) \notin Nat /\ Valued(a, b, T)
  BY <1>1, ValuedSubset
<1>3. T # {}
  BY <1>2, DotOnEmpty
<1> DEFINE R == T \ {Some(T)}
<1>4. Some(T) \in T /\ DotOn(a, b, T) = a[Some(T)] * b[Some(T)] + DotOn(a, b, R)
  BY <1>2, <1>3, DotOnStep
<1>5. R \in SUBSET S /\ Cardinality(R) < Cardinality(T)
  BY <1>2, <1>4, Fewer DEF Valued
<1>6. DotOn(a, b, R) \in Nat
  BY <1>1, <1>5
<1>7. a[Some(T)] * b[Some(T)] \in Nat
  BY <1>2, <1>4, ProductNat DEF Valued
<1> QED
  BY <1>2, <1>4, <1>6, <1>7

\* An index more adds its own product, whichever the fold takes first.
Adds(a, b, S, x) == Valued(a, b, S \cup {x}) /\ x \notin S
                        => DotOn(a, b, S \cup {x}) = DotOn(a, b, S) + a[x] * b[x]

LEMMA DotOnAdd == \A a, b, S, x : Adds(a, b, S, x)
<1> SUFFICES ASSUME NEW a, NEW b, NEW U, NEW z, ~Adds(a, b, U, z) PROVE FALSE
  OBVIOUS
<1> DEFINE F == {S \in SUBSET U : \E x : ~Adds(a, b, S, x)}
<1>f. F \in SUBSET SUBSET U /\ F # {}
  OBVIOUS
<1>u. IsFiniteSet(U)
  BY FS_Subset DEF Adds, Valued
<1>1. PICK S \in F : \A Q \in F : ~(Cardinality(Q) < Cardinality(S))
  BY <1>f, <1>u, Fewest
<1>p. PICK x : ~Adds(a, b, S, x)
  BY <1>1
<1> DEFINE T == S \cup {x}
           y == Some(T)
           R == S \ {y}
<1>2. /\ S \in SUBSET U /\ x \notin S /\ Valued(a, b, T)
      /\ DotOn(a, b, T) # DotOn(a, b, S) + a[x] * b[x]
  BY <1>1, <1>p DEF Adds
<1>3. /\ y \in T
      /\ DotOn(a, b, T) = a[y] * b[y] + DotOn(a, b, T \ {y})
  BY <1>2, DotOnStep
<1> HIDE DEF y
<1>5. a[x] * b[x] \in Nat /\ a[y] * b[y] \in Nat
  BY <1>2, <1>3, ProductNat DEF Valued
<1>6. DotOn(a, b, S) \in Nat /\ DotOn(a, b, T \ {y}) \in Nat
  BY <1>2, DotOnNat
<1>7. y # x
  <2>1. CASE y = x
    <3>1. T \ {y} = S
      BY <2>1, <1>2
    <3>2. DotOn(a, b, T) = a[x] * b[x] + DotOn(a, b, S)
      BY <3>1, <2>1, <1>3
    <3> QED
      BY <3>2, <1>2, <1>5, <1>6
  <2> QED
    BY <2>1
<1>8. y \in S /\ T \ {y} = R \cup {x} /\ S = R \cup {y} /\ x \notin R /\ y \notin R
  BY <1>2, <1>3, <1>7
<1>9. R \in SUBSET U /\ Cardinality(R) < Cardinality(S)
  BY <1>2, <1>8, <1>u, Fewer, FS_Subset
<1>10. Valued(a, b, R \cup {x}) /\ Valued(a, b, R \cup {y}) /\ R \in SUBSET T
  BY <1>2, <1>8, ValuedSubset
<1>11. \A v : Adds(a, b, R, v)
  BY <1>1, <1>9
<1>12. /\ DotOn(a, b, R \cup {x}) = DotOn(a, b, R) + a[x] * b[x]
       /\ DotOn(a, b, R \cup {y}) = DotOn(a, b, R) + a[y] * b[y]
  BY <1>8, <1>10, <1>11 DEF Adds
<1>13. DotOn(a, b, R) \in Nat
  BY <1>2, <1>10, DotOnNat
<1>14. /\ DotOn(a, b, T) = a[y] * b[y] + (DotOn(a, b, R) + a[x] * b[x])
       /\ DotOn(a, b, S) = DotOn(a, b, R) + a[y] * b[y]
  BY <1>3, <1>8, <1>12
<1> QED
  BY <1>2, <1>5, <1>13, <1>14

\* What b has at p[x] is what a has at x, and p takes no two to one.
Rearranged(a, b, p, S) == \A x \in S : b[p[x]] = a[x]
OneToOne(p, S) == \A x, y \in S : p[x] = p[y] => x = y

\* The sum of other factors that are these ones, differently placed.
Placed(a, b, c, d, p, S, T) ==
    /\ p \in [S -> T] /\ OneToOne(p, S)
    /\ Valued(a, b, S) /\ Valued(c, d, T)
    /\ Rearranged(a, c, p, S) /\ Rearranged(b, d, p, S)

LEMMA DotImage ==
    ASSUME NEW a, NEW b, NEW c, NEW d, NEW S, NEW T, NEW p, Placed(a, b, c, d, p, S, T)
    PROVE  DotOn(c, d, {p[x] : x \in S}) = DotOn(a, b, S)
<1>p. /\ p \in [S -> T] /\ OneToOne(p, S)
      /\ Valued(a, b, S) /\ Valued(c, d, T)
      /\ Rearranged(a, c, p, S) /\ Rearranged(b, d, p, S)
  BY DEF Placed
<1> DEFINE Places(R) == {p[x] : x \in R}
           F == {R \in SUBSET S : DotOn(c, d, Places(R)) # DotOn(a, b, R)}
<1>f. F \in SUBSET SUBSET S
  OBVIOUS
<1>0. SUFFICES ASSUME F # {} PROVE FALSE
  OBVIOUS
<1>1. PICK R \in F : \A Q \in F : ~(Cardinality(Q) < Cardinality(R))
  BY <1>f, <1>0, <1>p, Fewest DEF Valued
<1>2. R \in SUBSET S /\ DotOn(c, d, Places(R)) # DotOn(a, b, R) /\ Valued(a, b, R)
  BY <1>1, <1>p, ValuedSubset
<1>3. R # {}
  <2>1. CASE R = {}
    <3>1. Places(R) = {}
      BY <2>1
    <3> QED
      BY <2>1, <3>1, <1>2, DotOnEmpty
  <2> QED
    BY <2>1
<1>4. PICK x \in R : TRUE
  BY <1>3
<1> DEFINE Q == R \ {x}
<1>5. Q \in SUBSET S /\ Cardinality(Q) < Cardinality(R)
  BY <1>2, <1>4, Fewer DEF Valued
<1>6. DotOn(c, d, Places(Q)) = DotOn(a, b, Q)
  BY <1>1, <1>5
<1>7. R = Q \cup {x} /\ x \notin Q /\ Places(R) = Places(Q) \cup {p[x]} /\ p[x] \notin Places(Q)
  BY <1>2, <1>4, <1>p DEF OneToOne
<1>8. Valued(c, d, Places(R))
  <2>1. Places(R) \in SUBSET T
    BY <1>2, <1>p
  <2> QED
    BY <1>p, <2>1, ValuedSubset
<1> HIDE DEF Places, Q
<1>9. Adds(a, b, Q, x) /\ Adds(c, d, Places(Q), p[x])
  BY DotOnAdd
<1>10. /\ DotOn(a, b, R) = DotOn(a, b, Q) + a[x] * b[x]
       /\ DotOn(c, d, Places(R)) = DotOn(c, d, Places(Q)) + c[p[x]] * d[p[x]]
  BY <1>2, <1>7, <1>8, <1>9 DEF Adds
<1> QED
  BY <1>2, <1>4, <1>6, <1>10, <1>p DEF Rearranged

\* The factors elsewhere do not matter.
LEMMA DotSame ==
    ASSUME NEW a, NEW b, NEW c, NEW d, NEW S, Valued(a, b, S),
           \A x \in S : c[x] = a[x] /\ d[x] = b[x]
    PROVE  DotOn(c, d, S) = DotOn(a, b, S)
<1> DEFINE p == [x \in S |-> x]
<1>1. p \in [S -> S] /\ OneToOne(p, S)
  BY DEF OneToOne
<1>2. Valued(c, d, S) /\ Rearranged(a, c, p, S) /\ Rearranged(b, d, p, S)
  BY DEF Valued, Rearranged
<1>3. {p[x] : x \in S} = S
  OBVIOUS
<1> HIDE DEF p
<1>4. Placed(a, b, c, d, p, S, S)
  BY <1>1, <1>2 DEF Placed
<1> QED
  BY <1>3, <1>4, DotImage

-----------------------------------------------------------------------------
(***************************************************************************)
(* Products: Numel folds a shape from its last dimension down.             *)
(***************************************************************************)
Extents == Nat \ {0}
Greatest(s) == Max(s)
Prods(g, a, S) ==
    g = [s \in SUBSET S |->
            IF s = {} THEN 1 ELSE g[s \ {Greatest(s)}] * a[Greatest(s)]]

LEMMA GreatestIn ==
    ASSUME NEW n \in Nat, NEW s \in SUBSET (1..n), s # {}
    PROVE  Greatest(s) \in s /\ \A y \in s : Greatest(s) >= y
<1> DEFINE N == {n - y : y \in s}
<1>1. N \subseteq Nat /\ N # {}
  <2>1. \A y \in s : n - y \in Nat
    OBVIOUS
  <2> QED
    BY <2>1
<1>n. (\A m \in N : \E y \in s : m = n - y) /\ (\A y \in s : n - y \in N)
  OBVIOUS
<1> HIDE DEF N
<1>2. PICK R : R = OpToRel(<, Nat)
  OBVIOUS
<1>3. IsWellFoundedOn(R, Nat)
  BY <1>2, NatLessThanWellFounded
<1>4. PICK k \in N : \A m \in N : <<m, k>> \notin R
  BY <1>1, <1>3, WFMin
<1>5. \A m \in N : ~(m < k)
  BY <1>1, <1>2, <1>4 DEF OpToRel
<1>6. PICK x \in s : k = n - x
  BY <1>n
<1>7. \A y \in s : x >= y
  BY <1>5, <1>6, <1>n
<1>8. Greatest(s) = CHOOSE z \in s : \A y \in s : z >= y
  BY DEF Greatest, Max
<1> QED
  BY <1>7, <1>8

\* Products have a function that folds them, of positive numbers.
LEMMA ProdsExist ==
    ASSUME NEW n \in Nat, NEW a, \A x \in 1..n : a[x] \in Extents
    PROVE  \E g : Prods(g, a, 1..n) /\ \A s \in SUBSET (1..n) : g[s] \in Extents
<1> DEFINE S == 1..n
           pick == [s \in SUBSET S |-> Greatest(s)]
           op == [x \in S |-> [v \in Extents |-> v * a[x]]]
<1>1. Picks(pick, S) /\ IsFiniteSet(S)
  <2>1. \A s \in SUBSET S : s # {} => Greatest(s) \in s
    BY GreatestIn
  <2>2. IsFiniteSet(S)
    BY FS_Interval
  <2> QED
    BY <2>1, <2>2 DEF Picks
<1>2. \A v, w \in Extents : v * w \in Extents
  BY DEF Extents
<1>3. op \in [S -> [Extents -> Extents]]
  BY <1>2
<1>4. \A x \in S : \A v \in Extents : op[x][v] = v * a[x]
  OBVIOUS
<1>5. \A s \in SUBSET S : pick[s] = Greatest(s)
  OBVIOUS
<1>o. 1 \in Extents
  BY DEF Extents
<1> HIDE DEF pick, op, S
<1>6. PICK g : Folds(g, pick, op, 1, S)
  BY <1>1, FoldsExist
<1>7. \A s \in SUBSET S : g[s] \in Extents
  BY <1>1, <1>3, <1>6, <1>o, FoldsTyped
<1> DEFINE folded(s) == IF s = {} THEN 1 ELSE op[Greatest(s)][g[s \ {Greatest(s)}]]
           product(s) == IF s = {} THEN 1 ELSE g[s \ {Greatest(s)}] * a[Greatest(s)]
<1>8. g = [s \in SUBSET S |-> folded(s)]
  BY <1>5, <1>6 DEF Folds
<1>9. \A s \in SUBSET S : s # {} => Greatest(s) \in S /\ s \ {Greatest(s)} \in SUBSET S
  BY <1>1, <1>5 DEF Picks
<1>10. \A s \in SUBSET S : folded(s) = product(s)
  BY <1>4, <1>7, <1>9
<1>11. Prods(g, a, S) <=> g = [s \in SUBSET S |-> product(s)]
  BY DEF Prods
<1> HIDE DEF folded, product
<1>12. Prods(g, a, S)
  BY <1>8, <1>10, <1>11
<1> QED
  BY <1>7, <1>12 DEF S

Alike(a, b, m) == \A x \in 1..m : a[x] = b[x]

LEMMA ProdsAgree ==
    ASSUME NEW n \in Nat, NEW m \in 0..n, NEW a, NEW b, Alike(a, b, m),
           NEW f, NEW g, Prods(f, a, 1..m), Prods(g, b, 1..n)
    PROVE  \A s \in SUBSET (1..m) : f[s] = g[s]
<1> DEFINE F == {s \in SUBSET (1..m) : f[s] # g[s]}
<1>0. SUFFICES ASSUME F # {} PROVE FALSE
  OBVIOUS
<1>f. F \in SUBSET SUBSET (1..m) /\ IsFiniteSet(1..m) /\ m \in Nat
  BY FS_Interval
<1>1. PICK s \in F : \A Q \in F : ~(Cardinality(Q) < Cardinality(s))
  BY <1>0, <1>f, Fewest
<1>2. s \in SUBSET (1..m) /\ s \in SUBSET (1..n) /\ f[s] # g[s]
  OBVIOUS
<1>3. s # {}
  BY <1>2 DEF Prods
<1> DEFINE x == Greatest(s)
           Q == s \ {x}
<1>4. x \in s /\ IsFiniteSet(s)
  BY <1>2, <1>3, <1>f, GreatestIn, FS_Subset
<1>5. Q \in SUBSET (1..m) /\ Cardinality(Q) < Cardinality(s)
  BY <1>2, <1>4, Fewer
<1>6. f[Q] = g[Q]
  BY <1>1, <1>5
<1>7. f[s] = f[Q] * a[x] /\ g[s] = g[Q] * b[x]
  BY <1>2, <1>3 DEF Prods
<1>8. a[x] = b[x]
  BY <1>2, <1>4 DEF Alike
<1> QED
  BY <1>2, <1>6, <1>7, <1>8

\* Numel folds by any function that is the fold of the shape, or of a longer one.
LEMMA NumelBy ==
    ASSUME NEW s \in Seq(Extents), NEW n \in Nat, NEW b, NEW g, Prods(g, b, 1..n),
           Len(s) <= n, \A x \in 1..Len(s) : s[x] = b[x]
    PROVE  Numel(s) = g[1..Len(s)]
<1>1. DOMAIN s = 1..Len(s) /\ Len(s) \in Nat /\ \A x \in 1..Len(s) : s[x] \in Extents
  BY LenProperties
<1>2. PICK f : f = CHOOSE k : Prods(k, s, DOMAIN s)
  OBVIOUS
<1>3. Numel(s) = f[DOMAIN s]
  BY <1>2 DEF Numel, FoldLeft, MapThenFoldSet, Prods, Greatest
<1>4. Prods(f, s, 1..Len(s))
  BY <1>1, <1>2, ProdsExist
<1>5. PICK m : m = Len(s) /\ m \in 0..n
  BY <1>1
<1>6. \A r \in SUBSET (1..m) : f[r] = g[r]
  <2>1. Prods(f, s, 1..m) /\ Alike(s, b, m)
    BY <1>4, <1>5 DEF Alike
  <2> QED
    BY <1>5, <2>1, ProdsAgree
<1>7. 1..m \in SUBSET (1..m)
  OBVIOUS
<1> QED
  BY <1>1, <1>3, <1>5, <1>6, <1>7

LEMMA NumelLast ==
    ASSUME NEW s \in Seq(Extents)
    PROVE  /\ Numel(s) \in Extents
           /\ s = <<>> => Numel(s) = 1
           /\ s # <<>> => Numel(s) = Numel(SubSeq(s, 1, Len(s) - 1)) * s[Len(s)]
<1>1. PICK n : n = Len(s) /\ n \in Nat /\ \A x \in 1..n : s[x] \in Extents
  BY LenProperties
<1>2. PICK g : Prods(g, s, 1..n) /\ \A R \in SUBSET (1..n) : g[R] \in Extents
  BY <1>1, ProdsExist
<1>3. Numel(s) = g[1..n]
  BY <1>1, <1>2, NumelBy
<1>4. s = <<>> => Numel(s) = 1
  <2>1. ASSUME s = <<>> PROVE 1..n = {}
    BY <1>1, <2>1
  <2> QED
    BY <1>2, <1>3, <2>1 DEF Prods
<1>5. ASSUME s # <<>>
      PROVE  Numel(s) = Numel(SubSeq(s, 1, Len(s) - 1)) * s[Len(s)]
  <2>1. n # 0
    BY <1>1, <1>5, EmptySeq
  <2>2. PICK r : r = SubSeq(s, 1, n - 1)
    OBVIOUS
  <2>3. r \in Seq(Extents) /\ Len(r) = n - 1 /\ \A x \in 1..Len(r) : r[x] = s[x]
    BY <1>1, <2>1, <2>2, SubSeqProperties
  <2>4. Numel(r) = g[1..n - 1]
    BY <1>1, <1>2, <2>3, NumelBy
  <2>5. 1..n # {} /\ Greatest(1..n) = n
    <3>1. 1..n # {} /\ 1..n \in SUBSET (1..n) /\ n \in 1..n
      BY <1>1, <2>1
    <3>2. Greatest(1..n) \in 1..n /\ Greatest(1..n) >= n
      BY <1>1, <3>1, GreatestIn
    <3> QED
      BY <1>1, <3>1, <3>2
  <2>6. (1..n) \ {n} = 1..n - 1
    BY <1>1
  <2>7. g[1..n] = g[(1..n) \ {n}] * s[n]
    BY <1>2, <2>5 DEF Prods
  <2> QED
    BY <1>1, <1>3, <2>2, <2>4, <2>6, <2>7
<1> QED
  BY <1>2, <1>3, <1>4, <1>5

LEMMA NumelNat == \A s \in Seq(Extents) : Numel(s) \in Nat /\ Numel(s) > 0
<1> SUFFICES ASSUME NEW s \in Seq(Extents) PROVE Numel(s) \in Extents
  BY DEF Extents
<1> QED
  BY NumelLast

LEMMA Least ==
    ASSUME NEW N \in SUBSET Nat, N # {}
    PROVE  \E k \in N : \A m \in N : ~(m < k)
<1>1. PICK R : R = OpToRel(<, Nat)
  OBVIOUS
<1>2. IsWellFoundedOn(R, Nat)
  BY <1>1, NatLessThanWellFounded
<1>3. PICK k \in N : \A m \in N : <<m, k>> \notin R
  BY <1>2, WFMin
<1> QED
  BY <1>1, <1>3 DEF OpToRel

\* The first dimension can be taken apart as well.
FirstApart(s) == s # <<>> => Numel(s) = s[1] * Numel(SubSeq(s, 2, Len(s)))

LEMMA NumelFirst == \A s \in Seq(Extents) : FirstApart(s)
<1> DEFINE N == {Len(s) : s \in {t \in Seq(Extents) : ~FirstApart(t)}}
<1>1. SUFFICES ASSUME N # {} PROVE FALSE
  OBVIOUS
<1>2. N \in SUBSET Nat
  BY LenProperties
<1>3. PICK n \in N : \A m \in N : ~(m < n)
  BY <1>1, <1>2, Least
<1>4. PICK s \in Seq(Extents) : n = Len(s) /\ ~FirstApart(s)
  OBVIOUS
<1>5. \A t \in Seq(Extents) : Len(t) < n => FirstApart(t)
  BY <1>3
<1> HIDE DEF N
<1>6. s # <<>> /\ n \in Nat /\ n # 0 /\ \A i \in 1..n : s[i] \in Extents
  BY <1>4, EmptySeq, LenProperties DEF FirstApart
<1>7. PICK r : r = SubSeq(s, 1, n - 1)
  OBVIOUS
<1>8. PICK v : v = SubSeq(s, 2, n)
  OBVIOUS
<1>9. /\ r \in Seq(Extents) /\ Len(r) = n - 1 /\ \A i \in 1..n - 1 : r[i] = s[i]
      /\ v \in Seq(Extents) /\ Len(v) = n - 1 /\ \A i \in 1..n - 1 : v[i] = s[i + 1]
  <2>1. /\ SubSeq(s, 1, n - 1) \in Seq(Extents) /\ Len(SubSeq(s, 1, n - 1)) = n - 1
        /\ \A i \in 1..n - 1 : SubSeq(s, 1, n - 1)[i] = s[i]
    BY <1>4, <1>6, SubSeqProperties
  <2>2. /\ SubSeq(s, 2, n) \in Seq(Extents) /\ Len(SubSeq(s, 2, n)) = n - 1
        /\ \A i \in 1..n - 1 : SubSeq(s, 2, n)[i] = s[i + 1]
    BY <1>4, <1>6, SubSeqProperties
  <2> QED
    BY <1>7, <1>8, <2>1, <2>2
<1>10. Numel(s) = Numel(r) * s[n]
  BY <1>4, <1>6, <1>7, NumelLast
<1>11. /\ Numel(s) \in Extents /\ Numel(r) \in Extents /\ Numel(v) \in Extents
       /\ s[1] \in Extents /\ s[n] \in Extents
  BY <1>6, <1>9, NumelLast
<1>12. CASE n = 1
  <2>1. r = <<>> /\ v = <<>>
    BY <1>9, <1>12, EmptySeq
  <2>2. Numel(r) = 1 /\ Numel(v) = 1
    BY <1>9, <2>1, NumelLast
  <2>3. Numel(s) = s[1] * Numel(v)
    BY <1>10, <1>11, <1>12, <2>2 DEF Extents
  <2> QED
    BY <1>4, <1>8, <2>3 DEF FirstApart
<1>13. CASE n # 1
  <2>1. r # <<>> /\ v # <<>>
    BY <1>6, <1>9, <1>13, EmptySeq
  <2>2. PICK u : u = SubSeq(r, 2, n - 1)
    OBVIOUS
  <2>3. Numel(r) = s[1] * Numel(u)
    <3>1. FirstApart(r) /\ r[1] = s[1]
      BY <1>5, <1>6, <1>9, <1>13
    <3> QED
      BY <1>9, <2>1, <2>2, <3>1 DEF FirstApart
  <2>4. Numel(v) = Numel(SubSeq(v, 1, n - 2)) * s[n]
    <3>1. v[n - 1] = s[n] /\ Len(v) - 1 = n - 2
      BY <1>6, <1>9, <1>13
    <3> QED
      BY <1>9, <2>1, <3>1, NumelLast
  <2>5. /\ u \in Seq(Extents) /\ Len(u) = n - 2 /\ \A i \in 1..n - 2 : u[i] = r[i + 1]
    BY <1>6, <1>9, <1>13, <2>2, SubSeqProperties
  <2>6. /\ SubSeq(v, 1, n - 2) \in Seq(Extents) /\ Len(SubSeq(v, 1, n - 2)) = n - 2
        /\ \A i \in 1..n - 2 : SubSeq(v, 1, n - 2)[i] = v[i]
    BY <1>6, <1>9, <1>13, SubSeqProperties
  <2>7. \A i \in 1..n - 2 : r[i + 1] = v[i]
    BY <1>6, <1>9
  <2>8. SubSeq(v, 1, n - 2) = u
    BY <2>5, <2>6, <2>7, SeqEqual
  <2>9. Numel(u) \in Extents
    BY <2>5, NumelLast
  <2>10. Numel(s) = (s[1] * Numel(u)) * s[n] /\ Numel(v) = Numel(u) * s[n]
    BY <1>10, <2>3, <2>4, <2>8
  <2>11. Numel(s) = s[1] * Numel(v)
    <3>1. \A i, j, k \in Nat : (i * j) * k = i * (j * k)
      OBVIOUS
    <3>2. s[1] \in Nat /\ Numel(u) \in Nat /\ s[n] \in Nat
      BY <1>11, <2>9 DEF Extents
    <3> QED
      BY <2>10, <3>1, <3>2
  <2> QED
    BY <1>4, <1>8, <2>11 DEF FirstApart
<1> QED
  BY <1>12, <1>13

-----------------------------------------------------------------------------
(***************************************************************************)
(* Mixed radix: what an index counts in each dimension is a digit, of the  *)
(* weight that ContiguousStrides gives the dimension.                      *)
(***************************************************************************)
LEMMA DivMod ==
    ASSUME NEW m \in Nat, NEW d \in Extents
    PROVE  m \div d \in Nat /\ m % d \in 0..(d - 1) /\ m = (m \div d) * d + (m % d)
  BY DEF Extents

LEMMA MultipleBelow ==
    ASSUME NEW k \in Int, NEW d \in Extents, k * d < d, k * d > -d
    PROVE  k = 0
<1>1. CASE k >= 1
  <2>1. (k - 1) * d >= 0
    BY <1>1 DEF Extents
  <2>2. (k - 1) * d = k * d - d
    BY DEF Extents
  <2> QED
    BY <2>1, <2>2 DEF Extents
<1>2. CASE k <= -1
  <2>1. (-1 - k) * d >= 0
    BY <1>2 DEF Extents
  <2>2. (-1 - k) * d = -(k * d) - d
    BY DEF Extents
  <2> QED
    BY <2>1, <2>2 DEF Extents
<1> QED
  BY <1>1, <1>2

LEMMA DivUnique ==
    ASSUME NEW q \in Nat, NEW d \in Extents, NEW r \in 0..(d - 1), NEW m \in Nat, m = q * d + r
    PROVE  m \div d = q /\ m % d = r
<1>1. PICK k \in Nat : k = m \div d
  BY DivMod
<1>2. PICK l \in 0..(d - 1) : l = m % d /\ m = k * d + l
  BY <1>1, DivMod
<1>3. (k - q) * d = r - l
  BY <1>2 DEF Extents
<1>4. k - q = 0
  BY <1>3, MultipleBelow DEF Extents
<1> QED
  BY <1>1, <1>2, <1>4 DEF Extents

LEMMA ProductBelow ==
    ASSUME NEW s \in Extents, NEW d \in Extents, NEW x \in 0..(s - 1), NEW r \in 0..(d - 1)
    PROVE  r + x * d \in 0..(s * d - 1)
<1>1. x * d \in Nat /\ (s - 1 - x) * d \in Nat /\ s * d \in Nat
  BY DEF Extents
<1>2. (s - 1 - x) * d = s * d - d - x * d
  BY DEF Extents
<1> QED
  BY <1>1, <1>2 DEF Extents

\* The last two digits of a number.
LEMMA TwoDigits ==
    ASSUME NEW m \in Nat, NEW s \in Extents, NEW d \in Extents
    PROVE  m % (s * d) = (m % d) + ((m \div d) % s) * d
<1>1. PICK q \in Nat, r \in 0..(d - 1) : q = m \div d /\ r = m % d /\ m = q * d + r
  BY DivMod
<1>2. PICK p \in Nat, x \in 0..(s - 1) : p = q \div s /\ x = q % s /\ q = p * s + x
  BY DivMod
<1>3. r + x * d \in 0..(s * d - 1) /\ s * d \in Extents
  BY ProductBelow DEF Extents
<1>4. m = p * (s * d) + (r + x * d)
  <2>1. q * d = (p * s + x) * d
    BY <1>2
  <2>2. (p * s + x) * d = (p * s) * d + x * d /\ (p * s) * d = p * (s * d)
    BY DEF Extents
  <2>3. q * d \in Nat /\ x * d \in Nat /\ p * (s * d) \in Nat
    BY DEF Extents
  <2> QED
    BY <1>1, <2>1, <2>2, <2>3
<1>5. m % (s * d) = r + x * d
  BY <1>3, <1>4, DivUnique
<1> QED
  BY <1>1, <1>2, <1>5

\* A digit of a number.
LEMMA DigitOf ==
    ASSUME NEW q \in Nat, NEW s \in Extents, NEW d \in Extents,
           NEW x \in 0..(s - 1), NEW r \in 0..(d - 1)
    PROVE  /\ (q * s + x) * d + r \in Nat
           /\ (((q * s + x) * d + r) \div d) % s = x
<1>1. PICK p \in Nat : p = q * s + x
  BY DEF Extents
<1>2. PICK m \in Nat : m = p * d + r
  BY DEF Extents
<1>3. m \div d = p
  BY <1>2, DivUnique
<1>4. p % s = x
  BY <1>1, DivUnique
<1> QED
  BY <1>1, <1>2, <1>3, <1>4

\* weight[i] elements lie behind each step of dimension i, weight[0] in all.
Radix(s, c, weight, n) ==
    /\ n \in Nat
    /\ \A i \in 1..n : s[i] \in Extents /\ c[i] = weight[i]
    /\ \A i \in 0..n : weight[i] \in Extents
    /\ weight[n] = 1
    /\ \A i \in 1..n : weight[i - 1] = s[i] * weight[i]

LEMMA StridesRadix ==
    ASSUME NEW s \in Seq(Extents)
    PROVE  /\ ContiguousStrides(s) \in Seq(Extents)
           /\ Len(ContiguousStrides(s)) = Len(s)
           /\ \E w : Radix(s, ContiguousStrides(s), w, Len(s)) /\ w[0] = Numel(s)
<1>1. PICK n : n = Len(s) /\ n \in Nat /\ DOMAIN s = 1..n /\ \A i \in 1..n : s[i] \in Extents
  BY LenProperties
<1> DEFINE w == [i \in 0..n |-> Numel(SubSeq(s, i + 1, n))]
<1>2. ASSUME NEW i \in 0..n
      PROVE  /\ SubSeq(s, i + 1, n) \in Seq(Extents) /\ Len(SubSeq(s, i + 1, n)) = n - i
             /\ \A j \in 1..n - i : SubSeq(s, i + 1, n)[j] = s[i + j]
  BY <1>1, <1>2, SubSeqProperties
<1>3. \A i \in 0..n : w[i] \in Extents
  BY <1>2, NumelLast
<1>4. w[n] = 1
  <2>1. n \in 0..n /\ n - n = 0
    BY <1>1
  <2>2. SubSeq(s, n + 1, n) = <<>>
    BY <1>2, <2>1, EmptySeq
  <2> QED
    BY <1>2, <2>1, <2>2, NumelLast
<1>5. ASSUME NEW i \in 1..n
      PROVE  w[i - 1] = s[i] * w[i]
  <2>1. PICK k \in 0..n : k = i - 1 /\ k + 1 = i /\ k < n
    BY <1>1, <1>5
  <2>2. PICK r : r = SubSeq(s, k + 1, n)
    OBVIOUS
  <2>3. r \in Seq(Extents) /\ Len(r) = n - k /\ \A j \in 1..n - k : r[j] = s[k + j]
    BY <1>2, <2>2
  <2>4. r # <<>> /\ r[1] = s[i] /\ n - k \in Nat
    BY <1>1, <2>1, <2>3, EmptySeq
  <2>5. PICK u : u = SubSeq(r, 2, n - k)
    OBVIOUS
  <2>6. u \in Seq(Extents) /\ Len(u) = n - i /\ \A j \in 1..n - i : u[j] = r[j + 1]
    BY <1>1, <2>1, <2>3, <2>4, <2>5, SubSeqProperties
  <2>7. i \in 0..n
    BY <1>1
  <2>8. \A j \in 1..n - i : j + 1 \in 1..n - k /\ k + (j + 1) = i + j
    BY <1>1, <2>1
  <2>9. SubSeq(s, i + 1, n) = u
    <3>1. PICK x : x = SubSeq(s, i + 1, n)
      OBVIOUS
    <3>2. x \in Seq(Extents) /\ Len(x) = n - i /\ \A j \in 1..n - i : x[j] = s[i + j]
      BY <1>2, <2>7, <3>1
    <3>3. \A j \in 1..n - i : x[j] = u[j]
      <4> SUFFICES ASSUME NEW j \in 1..n - i PROVE x[j] = u[j]
        OBVIOUS
      <4>1. u[j] = r[j + 1] /\ x[j] = s[i + j]
        BY <2>6, <3>2
      <4>2. r[j + 1] = s[k + (j + 1)]
        BY <2>3, <2>8
      <4> QED
        BY <2>8, <4>1, <4>2
    <3> QED
      BY <2>6, <3>1, <3>2, <3>3, SeqEqual
  <2>10. Numel(r) = s[i] * Numel(u)
    BY <2>3, <2>4, <2>5, NumelFirst DEF FirstApart
  <2> QED
    BY <2>1, <2>2, <2>7, <2>9, <2>10
<1>6. w[0] = Numel(s)
  <2>1. 0 \in 0..n /\ 0 + 1 = 1
    BY <1>1
  <2>2. w[0] = Numel(SubSeq(s, 1, n))
    BY <2>1
  <2>3. SubSeq(s, 1, n) = s
    BY <1>1, SubSeqFull
  <2> QED
    BY <2>2, <2>3
<1>7. \A i \in 1..n : ContiguousStrides(s)[i] = w[i]
  BY <1>1 DEF ContiguousStrides
<1>8. ContiguousStrides(s) = [i \in 1..n |-> w[i]]
  BY <1>1 DEF ContiguousStrides
<1> HIDE DEF w
<1>9. Radix(s, ContiguousStrides(s), w, n)
  BY <1>1, <1>3, <1>4, <1>5, <1>7 DEF Radix
<1>10. \A i \in 1..n : w[i] \in Extents
  BY <1>1, <1>3
<1>11. [i \in 1..n |-> w[i]] \in Seq(Extents) /\ Len([i \in 1..n |-> w[i]]) = n
  BY <1>1, <1>10, IsASeq
<1> QED
  BY <1>1, <1>6, <1>8, <1>9, <1>11

\* The sum over the dimensions after i, and over one more.
TailSum(a, c, n, i) == DotOn(a, c, (i + 1)..n)

Numbers(a, c, n) == \A i \in 1..n : a[i] \in Nat /\ c[i] \in Nat

LEMMA TailSums ==
    ASSUME NEW n \in Nat, NEW a, NEW c, Numbers(a, c, n)
    PROVE  /\ TailSum(a, c, n, n) = 0
           /\ \A i \in 0..n : TailSum(a, c, n, i) \in Nat
           /\ \A i \in 1..n : TailSum(a, c, n, i - 1) = TailSum(a, c, n, i) + a[i] * c[i]
<1>1. Valued(a, c, 1..n)
  BY FS_Interval DEF Valued, Numbers
<1>2. TailSum(a, c, n, n) = 0
  <2>1. (n + 1)..n = {}
    OBVIOUS
  <2> QED
    BY <2>1, DotOnEmpty DEF TailSum
<1>3. ASSUME NEW i \in 0..n PROVE TailSum(a, c, n, i) \in Nat
  <2>1. (i + 1)..n \in SUBSET (1..n)
    OBVIOUS
  <2> QED
    BY <1>1, <2>1, DotOnNat DEF TailSum
<1>4. ASSUME NEW i \in 1..n
      PROVE  TailSum(a, c, n, i - 1) = TailSum(a, c, n, i) + a[i] * c[i]
  <2>1. (i - 1) + 1 = i /\ i..n = ((i + 1)..n) \cup {i} /\ i \notin (i + 1)..n
    OBVIOUS
  <2>2. Valued(a, c, i..n)
    <3>1. i..n \in SUBSET (1..n)
      OBVIOUS
    <3> QED
      BY <1>1, <3>1, ValuedSubset
  <2>3. Adds(a, c, (i + 1)..n, i)
    BY DotOnAdd
  <2>4. DotOn(a, c, i..n) = DotOn(a, c, (i + 1)..n) + a[i] * c[i]
    BY <2>1, <2>2, <2>3 DEF Adds
  <2> QED
    BY <2>1, <2>4 DEF TailSum
<1> QED
  BY <1>2, <1>3, <1>4

\* What dimensions are left to be shown: from the last one down, a property
\* that goes from i to i - 1 holds of all.
LEMMA FromLast ==
    ASSUME NEW n \in Nat, NEW P \in SUBSET (0..n), n \in P,
           \A i \in 1..n : i \in P => i - 1 \in P
    PROVE  P = 0..n
<1> DEFINE N == {n - i : i \in (0..n) \ P}
<1>1. SUFFICES ASSUME (0..n) \ P # {} PROVE FALSE
  OBVIOUS
<1>2. N \in SUBSET Nat /\ N # {}
  BY <1>1
<1>3. PICK k \in N : \A m \in N : ~(m < k)
  BY <1>2, Least
<1>4. PICK i \in (0..n) \ P : k = n - i
  OBVIOUS
<1>5. i # n /\ i + 1 \in 1..n /\ (i + 1) - 1 = i
  BY <1>4
<1>6. i + 1 \notin P
  BY <1>4, <1>5
<1>7. n - (i + 1) \in N /\ n - (i + 1) < n - i
  BY <1>5, <1>6
<1> HIDE DEF N
<1> QED
  BY <1>3, <1>4, <1>7

InRange(a, s, n) == \A i \in 1..n : a[i] \in 0..(s[i] - 1)
AreDigits(a, m, s, c, n) == \A i \in 1..n : a[i] = (m \div c[i]) % s[i]

\* The digits of m add up to it.
LEMMA DigitsAddUp ==
    ASSUME NEW s, NEW c, NEW w, NEW n, Radix(s, c, w, n), NEW a, NEW m \in Nat,
           AreDigits(a, m, s, c, n)
    PROVE  /\ InRange(a, s, n)
           /\ TailSum(a, c, n, 0) = m % w[0]
<1>1. n \in Nat /\ \A i \in 1..n : s[i] \in Extents /\ c[i] \in Extents /\ c[i] = w[i] /\ w[i - 1] = s[i] * w[i]
  BY DEF Radix
<1>d. \A i \in 1..n : a[i] = (m \div c[i]) % s[i]
  BY DEF AreDigits
<1>2. ASSUME NEW i \in 1..n PROVE a[i] \in 0..(s[i] - 1)
  <2>1. m \div c[i] \in Nat
    BY <1>1, DivMod
  <2> QED
    BY <1>1, <1>d, <2>1, DivMod
<1>3. Numbers(a, c, n)
  BY <1>1, <1>2 DEF Extents, Numbers
<1> DEFINE P == {i \in 0..n : TailSum(a, c, n, i) = m % w[i]}
<1>4. n \in P
  <2>1. TailSum(a, c, n, n) = 0 /\ w[n] = 1 /\ n \in 0..n
    BY <1>1, <1>3, TailSums DEF Radix
  <2>2. m % 1 = 0
    OBVIOUS
  <2> QED
    BY <2>1, <2>2
<1>5. ASSUME NEW i \in 1..n, i \in P PROVE i - 1 \in P
  <2>1. TailSum(a, c, n, i - 1) = TailSum(a, c, n, i) + a[i] * c[i]
    BY <1>1, <1>3, TailSums
  <2>2. TailSum(a, c, n, i) = m % c[i]
    BY <1>1, <1>5
  <2>3. m % (s[i] * c[i]) = (m % c[i]) + ((m \div c[i]) % s[i]) * c[i]
    BY <1>1, TwoDigits
  <2>4. TailSum(a, c, n, i - 1) = m % w[i - 1]
    BY <1>1, <1>d, <2>1, <2>2, <2>3
  <2> QED
    BY <1>1, <2>4
<1>6. P = 0..n
  <2>1. P \in SUBSET (0..n)
    OBVIOUS
  <2> HIDE DEF P
  <2> QED
    BY <1>1, <1>4, <1>5, <2>1, FromLast
<1>7. 0 \in P
  BY <1>1, <1>6
<1> QED
  BY <1>2, <1>7 DEF InRange

\* An index whose digits are in range: its sum, and its digits in the sum.
LEMMA SumHasDigits ==
    ASSUME NEW s, NEW c, NEW w, NEW n, Radix(s, c, w, n), NEW a, InRange(a, s, n)
    PROVE  /\ TailSum(a, c, n, 0) \in 0..(w[0] - 1)
           /\ AreDigits(a, TailSum(a, c, n, 0), s, c, n)
<1>1. n \in Nat /\ \A i \in 1..n : s[i] \in Extents /\ c[i] \in Extents /\ c[i] = w[i] /\ w[i - 1] = s[i] * w[i]
  BY DEF Radix
<1>a. \A i \in 1..n : a[i] \in 0..(s[i] - 1)
  BY DEF InRange
<1>2. Numbers(a, c, n) /\ \A i \in 1..n : a[i] \in Nat /\ c[i] \in Nat
  BY <1>1, <1>a DEF Extents, Numbers
<1>3. /\ TailSum(a, c, n, n) = 0
      /\ \A i \in 0..n : TailSum(a, c, n, i) \in Nat
      /\ \A i \in 1..n : TailSum(a, c, n, i - 1) = TailSum(a, c, n, i) + a[i] * c[i]
  BY <1>1, <1>2, TailSums
<1> DEFINE P == {i \in 0..n : TailSum(a, c, n, i) \in 0..(w[i] - 1)}
<1>4. n \in P
  BY <1>1, <1>3 DEF Radix
<1>5. ASSUME NEW i \in 1..n, i \in P PROVE i - 1 \in P
  <2>1. TailSum(a, c, n, i) \in 0..(c[i] - 1)
    BY <1>1, <1>5
  <2>2. TailSum(a, c, n, i) + a[i] * c[i] \in 0..(s[i] * c[i] - 1)
    BY <1>1, <1>a, <2>1, ProductBelow
  <2>3. TailSum(a, c, n, i - 1) \in 0..(w[i - 1] - 1)
    BY <1>1, <1>3, <2>2
  <2> QED
    BY <1>1, <2>3
<1>6. P = 0..n
  <2>1. P \in SUBSET (0..n)
    OBVIOUS
  <2> HIDE DEF P
  <2> QED
    BY <1>1, <1>4, <1>5, <2>1, FromLast
<1>7. \A i \in 0..n : TailSum(a, c, n, i) \in 0..(w[i] - 1)
  BY <1>6
<1>8. PICK m : m = TailSum(a, c, n, 0) /\ m \in Nat
  BY <1>1, <1>3
<1> DEFINE Q == {i \in 0..n : \E q \in Nat : m = q * w[n - i] + TailSum(a, c, n, n - i)}
<1>9. n \in Q
  <2>1. w[0] \in Extents /\ n - n = 0 /\ n \in 0..n
    BY <1>1 DEF Radix
  <2>2. m = 0 * w[0] + TailSum(a, c, n, 0)
    BY <1>8, <2>1 DEF Extents
  <2> QED
    BY <2>1, <2>2
<1>10. ASSUME NEW j \in 1..n, j \in Q PROVE j - 1 \in Q
  <2>1. PICK i \in 1..n : n - j = i - 1 /\ n - (j - 1) = i
    BY <1>1
  <2>2. PICK q \in Nat : m = q * w[i - 1] + TailSum(a, c, n, i - 1)
    BY <1>10, <2>1
  <2>3. m = q * (s[i] * c[i]) + (TailSum(a, c, n, i) + a[i] * c[i])
    BY <1>1, <1>3, <2>2
  <2>4. TailSum(a, c, n, i) \in Nat /\ a[i] \in Nat /\ s[i] \in Nat /\ c[i] \in Nat
    BY <1>1, <1>2, <1>3 DEF Extents
  <2>5. q * s[i] + a[i] \in Nat /\ m = (q * s[i] + a[i]) * c[i] + TailSum(a, c, n, i)
    BY <2>3, <2>4
  <2>6. j - 1 \in 0..n /\ w[n - (j - 1)] = c[i] /\ TailSum(a, c, n, n - (j - 1)) = TailSum(a, c, n, i)
    BY <1>1, <2>1
  <2> QED
    BY <2>5, <2>6
<1>11. Q = 0..n
  <2>1. Q \in SUBSET (0..n)
    OBVIOUS
  <2> HIDE DEF Q
  <2> QED
    BY <1>1, <1>9, <1>10, <2>1, FromLast
<1>12. ASSUME NEW i \in 1..n PROVE (m \div c[i]) % s[i] = a[i]
  <2>1. PICK j \in Q : n - j = i - 1
    <3>1. n - (i - 1) \in 0..n /\ n - (n - (i - 1)) = i - 1
      BY <1>1
    <3> QED
      BY <1>11, <3>1
  <2>2. PICK q \in Nat : m = q * w[i - 1] + TailSum(a, c, n, i - 1)
    BY <2>1
  <2>3. m = q * (s[i] * c[i]) + (TailSum(a, c, n, i) + a[i] * c[i])
    BY <1>1, <1>3, <2>2
  <2>4. TailSum(a, c, n, i) \in 0..(c[i] - 1) /\ a[i] \in 0..(s[i] - 1) /\ s[i] \in Extents /\ c[i] \in Extents
    BY <1>1, <1>7, <1>a
  <2>5. m = (q * s[i] + a[i]) * c[i] + TailSum(a, c, n, i)
    <3>1. TailSum(a, c, n, i) \in Nat /\ a[i] \in Nat /\ s[i] \in Nat /\ c[i] \in Nat
      BY <1>2, <1>3, <2>4 DEF Extents
    <3> QED
      BY <2>3, <3>1
  <2> QED
    BY <2>4, <2>5, DigitOf
<1> QED
  BY <1>1, <1>7, <1>8, <1>12 DEF AreDigits

-----------------------------------------------------------------------------
(***************************************************************************)
(* Indices and ranks are each other's inverse.                             *)
(***************************************************************************)
Indices(s) == {a \in [1..Len(s) -> Nat] : \A i \in 1..Len(s) : a[i] < s[i]}

LEMMA DotIsTailSum ==
    ASSUME NEW n \in Nat, NEW a, DOMAIN a = 1..n, NEW c
    PROVE  Dot(a, c) = TailSum(a, c, n, 0)
<1>1. 0 + 1 = 1
  OBVIOUS
<1> QED
  BY <1>1, DotIsDotOn DEF TailSum

LEMMA RankOfIndex ==
    ASSUME NEW s \in Seq(Extents), NEW m \in 0..(Numel(s) - 1)
    PROVE  Index(s, m) \in Indices(s) /\ Rank(s, Index(s, m)) = m
<1>1. PICK n : n = Len(s) /\ n \in Nat /\ DOMAIN s = 1..n
  BY LenProperties
<1>2. PICK c : c = ContiguousStrides(s)
  OBVIOUS
<1>3. PICK w : Radix(s, c, w, n) /\ w[0] = Numel(s)
  BY <1>1, <1>2, StridesRadix
<1>4. PICK a : a = Index(s, m)
  OBVIOUS
<1>5. a = [i \in 1..n |-> (m \div c[i]) % s[i]]
  BY <1>1, <1>2, <1>4 DEF Index
<1>6. DOMAIN a = 1..n /\ AreDigits(a, m, s, c, n)
  BY <1>5 DEF AreDigits
<1>7. Numel(s) \in Extents /\ m \in Nat
  BY NumelLast
<1>8. /\ InRange(a, s, n)
      /\ TailSum(a, c, n, 0) = m % w[0]
  BY <1>3, <1>6, <1>7, DigitsAddUp
<1>9. m % w[0] = m
  <2>1. m = 0 * w[0] + m /\ w[0] \in Extents /\ m \in 0..(w[0] - 1)
    BY <1>3, <1>7 DEF Extents
  <2> QED
    BY <1>7, <2>1, DivUnique
<1>10. a \in Indices(s)
  <2>1. \A i \in 1..n : s[i] \in Nat /\ a[i] \in Nat /\ a[i] < s[i]
    <3>1. \A i \in 1..n : s[i] \in Nat
      BY <1>3 DEF Radix, Extents
    <3>2. \A i \in 1..n : a[i] \in 0..(s[i] - 1)
      BY <1>8 DEF InRange
    <3> QED
      BY <3>1, <3>2
  <2>2. a \in [1..n -> Nat]
    BY <1>5, <1>6, <2>1
  <2> QED
    BY <1>1, <2>1, <2>2 DEF Indices
<1> QED
  BY <1>1, <1>2, <1>4, <1>6, <1>8, <1>9, <1>10, DotIsTailSum DEF Rank

LEMMA IndexOfRank ==
    ASSUME NEW s \in Seq(Extents), NEW a \in Indices(s)
    PROVE  Rank(s, a) \in 0..(Numel(s) - 1) /\ Index(s, Rank(s, a)) = a
<1>1. PICK n : n = Len(s) /\ n \in Nat /\ DOMAIN s = 1..n /\ \A i \in 1..n : s[i] \in Extents
  BY LenProperties
<1>2. PICK c : c = ContiguousStrides(s)
  OBVIOUS
<1>3. PICK w : Radix(s, c, w, n) /\ w[0] = Numel(s)
  BY <1>1, <1>2, StridesRadix
<1>4. a \in [1..n -> Nat] /\ InRange(a, s, n)
  BY <1>1 DEF Indices, Extents, InRange
<1>5. PICK m : m = Rank(s, a)
  OBVIOUS
<1>6. DOMAIN a = 1..n
  BY <1>4
<1>7. m = TailSum(a, c, n, 0)
  BY <1>1, <1>2, <1>5, <1>6, DotIsTailSum DEF Rank
<1>8. m \in 0..(w[0] - 1) /\ AreDigits(a, m, s, c, n)
  BY <1>3, <1>4, <1>7, SumHasDigits
<1>9. Index(s, m) = [i \in 1..n |-> (m \div c[i]) % s[i]]
  BY <1>1, <1>2 DEF Index
<1>10. Index(s, m) = a
  BY <1>4, <1>8, <1>9 DEF AreDigits
<1> QED
  BY <1>3, <1>5, <1>8, <1>10

-----------------------------------------------------------------------------
(***************************************************************************)
(* Views.                                                                  *)
(***************************************************************************)
Tensor == [buf : Nat, shape : Seq(Extents), strides : Seq(Nat), offset : Nat, elems : Seq(Nat)]

\* There is an element for each index, and where the strides lead to it.
Denotes(t) ==
    /\ Len(t.elems) = Numel(t.shape)
    /\ ~Broken(t) => \A n \in 1..Numel(t.shape) :
                        t.elems[n] = t.offset + Dot(Index(t.shape, n - 1), t.strides)

\* The elements of one are elements of the other.
Among(v, t) ==
    /\ v.buf = t.buf
    /\ \A n \in 1..Len(v.elems) : \E m \in 1..Len(t.elems) : v.elems[n] = t.elems[m]

\* Each index of the new shape leads where the old one of the same element did.
Leads(t, shape, strides, offset, old) ==
    \A n \in 1..Numel(shape) :
        /\ old[n] \in Indices(t.shape)
        /\ offset + Dot(Index(shape, n - 1), strides) = t.offset + Dot(old[n], t.strides)

\* The elements a view has, as Reindexed gives them.
Taken(t, shape, old) == [n \in 1..Numel(shape) |-> t.elems[Rank(t.shape, old[n]) + 1]]

LEMMA ViewDenotes ==
    ASSUME NEW t \in Tensor, Denotes(t), ~Broken(t), NEW shape \in Seq(Extents),
           NEW strides \in Seq(Nat), NEW offset \in Nat, NEW old,
           Leads(t, shape, strides, offset, old),
           NEW v, v = View(t, shape, strides, offset, Taken(t, shape, old))
    PROVE  v \in Tensor /\ Denotes(v) /\ Among(v, t)
<1>1. PICK N : N = Numel(shape) /\ N \in Nat
  BY NumelLast DEF Extents
<1>2. PICK M : M = Numel(t.shape) /\ M \in Nat /\ t.shape \in Seq(Extents)
  BY NumelLast DEF Extents, Tensor
<1>3. t.elems \in Seq(Nat) /\ Len(t.elems) = M
  BY <1>2 DEF Tensor, Denotes
<1>4. ASSUME NEW n \in 1..N
      PROVE  /\ Rank(t.shape, old[n]) + 1 \in 1..M
             /\ t.elems[Rank(t.shape, old[n]) + 1] \in Nat
             /\ t.elems[Rank(t.shape, old[n]) + 1] = offset + Dot(Index(shape, n - 1), strides)
  <2>1. /\ old[n] \in Indices(t.shape)
        /\ offset + Dot(Index(shape, n - 1), strides) = t.offset + Dot(old[n], t.strides)
    BY <1>1 DEF Leads
  <2>2. PICK m : m = Rank(t.shape, old[n]) /\ m \in 0..(M - 1) /\ Index(t.shape, m) = old[n]
    BY <1>2, <2>1, IndexOfRank
  <2>3. m + 1 \in 1..M /\ (m + 1) - 1 = m
    BY <1>2, <2>2
  <2>4. t.elems[m + 1] = t.offset + Dot(Index(t.shape, m), t.strides)
    BY <1>2, <2>3 DEF Denotes
  <2>5. t.elems[m + 1] \in Nat
    BY <1>3, <2>3, ElementOfSeq
  <2> QED
    BY <2>1, <2>2, <2>3, <2>4, <2>5
<1>5. PICK e : e = Taken(t, shape, old)
  OBVIOUS
<1>6. e = [n \in 1..N |-> t.elems[Rank(t.shape, old[n]) + 1]]
  BY <1>1, <1>5 DEF Taken
<1>7. e \in Seq(Nat) /\ Len(e) = N /\ \A n \in 1..N : e[n] = t.elems[Rank(t.shape, old[n]) + 1]
  <2>1. DOMAIN e = 1..N /\ \A n \in 1..N : e[n] = t.elems[Rank(t.shape, old[n]) + 1]
    BY <1>6
  <2>2. \A n \in 1..N : e[n] \in Nat
    BY <1>4, <2>1
  <2>3. e = [n \in 1..N |-> e[n]]
    BY <1>6, <2>1
  <2>4. e \in Seq(Nat) /\ Len(e) = N
    <3>1. N \in Nat
      BY <1>1
    <3>2. e \in Seq(Nat)
      BY <2>2, <2>3, <3>1, IsASeq, SMTT(60)
    <3> QED
      BY <2>1, <3>1, <3>2, LenProperties
  <2> QED
    BY <2>1, <2>4
<1>8. /\ v \in Tensor /\ v.buf = t.buf /\ v.shape = shape /\ v.strides = strides
      /\ v.offset = offset /\ v.elems = e
  <2>1. v = [t EXCEPT !.shape = shape, !.strides = strides, !.offset = offset, !.elems = e]
    BY <1>5 DEF View
  <2> QED
    BY <1>7, <2>1 DEF Tensor
<1>9. Denotes(v)
  BY <1>1, <1>4, <1>7, <1>8 DEF Denotes
<1>10. Among(v, t)
  BY <1>3, <1>4, <1>7, <1>8 DEF Among
<1> QED
  BY <1>8, <1>9, <1>10

Permutation(p, n) ==
    /\ p \in [1..n -> 1..n]
    /\ OneToOne(p, 1..n)
    /\ \A y \in 1..n : \E x \in 1..n : p[x] = y

Reordered(a, b, c, d, p, n) ==
    /\ n \in Nat /\ Permutation(p, n)
    /\ {a, b, c, d} \subseteq [1..n -> Nat]
    /\ Rearranged(a, c, p, 1..n) /\ Rearranged(b, d, p, 1..n)

LEMMA DotReordered ==
    ASSUME NEW a, NEW b, NEW c, NEW d, NEW p, NEW n, Reordered(a, b, c, d, p, n)
    PROVE  Dot(c, d) = Dot(a, b)
<1>r. /\ n \in Nat /\ Permutation(p, n)
      /\ a \in [1..n -> Nat] /\ b \in [1..n -> Nat] /\ c \in [1..n -> Nat] /\ d \in [1..n -> Nat]
      /\ Rearranged(a, c, p, 1..n) /\ Rearranged(b, d, p, 1..n)
  BY DEF Reordered
<1>1. Valued(a, b, 1..n) /\ Valued(c, d, 1..n)
  <2>1. IsFiniteSet(1..n)
    BY <1>r, FS_Interval
  <2> QED
    BY <1>r, <2>1 DEF Valued
<1>2. p \in [1..n -> 1..n] /\ OneToOne(p, 1..n) /\ \A y \in 1..n : \E x \in 1..n : p[x] = y
  BY <1>r DEF Permutation
<1>3. {p[x] : x \in 1..n} = 1..n
  BY <1>2
<1>4. DotOn(c, d, {p[x] : x \in 1..n}) = DotOn(a, b, 1..n)
  <2>1. PICK D : D = 1..n
    OBVIOUS
  <2>2. Placed(a, b, c, d, p, D, D)
    BY <1>1, <1>2, <1>r, <2>1 DEF Placed
  <2>3. DotOn(c, d, {p[x] : x \in D}) = DotOn(a, b, D)
    BY <2>2, DotImage
  <2> QED
    BY <2>1, <2>3
<1>5. DOMAIN a = 1..n /\ DOMAIN c = 1..n
  BY <1>r
<1> QED
  BY <1>3, <1>4, <1>5, DotIsDotOn

\* The dimensions of a view that puts them in another order, and the strides.
LEMMA RearrangedLeads ==
    ASSUME NEW t \in Tensor, ~Broken(t), NEW p, Permutation(p, Len(t.shape)),
           NEW shape, shape = [x \in 1..Len(t.shape) |-> t.shape[p[x]]],
           NEW strides, strides = [x \in 1..Len(t.shape) |-> t.strides[p[x]]],
           NEW old,
           \A n \in 1..Numel(shape) : /\ old[n] \in [1..Len(t.shape) -> Nat]
                                      /\ Rearranged(Index(shape, n - 1), old[n], p, 1..Len(t.shape))
    PROVE  /\ shape \in Seq(Extents) /\ strides \in Seq(Nat)
           /\ Leads(t, shape, strides, t.offset, old)
<1>1. PICK r : /\ r = Len(t.shape) /\ r \in Nat /\ t.shape \in Seq(Extents) /\ t.strides \in Seq(Nat)
               /\ Len(t.strides) = r
  BY LenProperties DEF Tensor, Broken
<1>2. /\ \A x \in 1..r : t.shape[x] \in Extents /\ t.strides[x] \in Nat
      /\ t.strides \in [1..r -> Nat]
  BY <1>1, LenProperties
<1>3. Permutation(p, r) /\ p \in [1..r -> 1..r] /\ \A y \in 1..r : \E x \in 1..r : p[x] = y
  BY <1>1 DEF Permutation
<1>4. /\ shape = [x \in 1..r |-> t.shape[p[x]]] /\ \A x \in 1..r : t.shape[p[x]] \in Extents
      /\ strides = [x \in 1..r |-> t.strides[p[x]]] /\ \A x \in 1..r : t.strides[p[x]] \in Nat
  BY <1>1, <1>2, <1>3
<1>5. shape \in Seq(Extents) /\ Len(shape) = r /\ \A x \in 1..r : shape[x] = t.shape[p[x]]
  BY <1>1, <1>4, IsASeq
<1>6. strides \in Seq(Nat) /\ Len(strides) = r /\ \A x \in 1..r : strides[x] = t.strides[p[x]]
  BY <1>1, <1>4, IsASeq
<1>7. strides \in [1..r -> Nat] /\ Rearranged(strides, t.strides, p, 1..r)
  BY <1>4, <1>6 DEF Rearranged
<1>n. PICK N : N = Numel(shape) /\ N \in Nat
  BY <1>5, NumelNat
<1>8. ASSUME NEW n \in 1..Numel(shape)
      PROVE  /\ old[n] \in Indices(t.shape)
             /\ t.offset + Dot(Index(shape, n - 1), strides) = t.offset + Dot(old[n], t.strides)
  <2>1. PICK a : a = Index(shape, n - 1)
    OBVIOUS
  <2>2. n - 1 \in 0..(Numel(shape) - 1)
    BY <1>n
  <2>3. a \in Indices(shape)
    BY <1>5, <2>1, <2>2, RankOfIndex
  <2>4. a \in [1..r -> Nat] /\ \A x \in 1..r : a[x] < t.shape[p[x]]
    BY <1>5, <2>3 DEF Indices
  <2>5. old[n] \in [1..r -> Nat] /\ Rearranged(a, old[n], p, 1..r)
    BY <1>1, <2>1
  <2>6. Dot(old[n], t.strides) = Dot(a, strides)
    <3>1. PICK o : o = old[n] /\ o \in [1..r -> Nat] /\ Rearranged(a, o, p, 1..r)
      BY <2>5
    <3>2. PICK d : d = t.strides /\ d \in [1..r -> Nat] /\ Rearranged(strides, d, p, 1..r)
      BY <1>2, <1>7
    <3>3. Reordered(a, strides, o, d, p, r)
      BY <1>1, <1>3, <1>7, <2>4, <3>1, <3>2 DEF Reordered
    <3>4. Dot(o, d) = Dot(a, strides)
      BY <3>3, DotReordered
    <3> QED
      BY <3>1, <3>2, <3>4
  <2>7. \A y \in 1..r : old[n][y] < t.shape[y]
    <3> SUFFICES ASSUME NEW y \in 1..r PROVE old[n][y] < t.shape[y]
      OBVIOUS
    <3>1. PICK x \in 1..r : p[x] = y
      BY <1>3
    <3>2. old[n][p[x]] = a[x]
      BY <2>5 DEF Rearranged
    <3> QED
      BY <2>4, <3>1, <3>2
  <2>8. old[n] \in Indices(t.shape)
    BY <1>1, <2>5, <2>7 DEF Indices
  <2> QED
    BY <2>1, <2>6, <2>8
<1> QED
  BY <1>5, <1>6, <1>8 DEF Leads

\* The members of s that p takes.
Selects(m, s, p, n) == p \in [1..n -> 1..Len(s)] /\ m = [x \in 1..n |-> s[p[x]]]

LEMMA Mapped ==
    ASSUME NEW S, NEW s \in Seq(S), NEW n \in Nat, NEW p, NEW m, Selects(m, s, p, n)
    PROVE  m \in Seq(S) /\ Len(m) = n
<1>1. \A x \in 1..Len(s) : s[x] \in S
  BY LenProperties
<1>2. m = [x \in 1..n |-> s[p[x]]] /\ \A x \in 1..n : s[p[x]] \in S
  BY <1>1 DEF Selects
<1> QED
  BY <1>2, IsASeq

\* A permutation of finitely many is onto.
LEMMA InjectivePermutes ==
    ASSUME NEW n \in Nat, NEW p \in [1..n -> 1..n], IsInjective(p)
    PROVE  Permutation(p, n)
<1>1. IsFiniteSet(1..n)
  BY FS_Interval
<1>2. p \in Injection(1..n, 1..n)
  BY DEF Injection
<1>3. p \in Surjection(1..n, 1..n)
  BY <1>1, <1>2, FS_Injection
<1>4. OneToOne(p, 1..n)
  BY DEF OneToOne, IsInjective
<1> QED
  BY <1>3, <1>4 DEF Permutation, Surjection

Undoes(q, p, n) == \A x \in 1..n : q[x] \in 1..n /\ q[p[x]] = x

\* What was at x is now at q[x].
Turns(old, shape, q, r) ==
    \A n \in 1..Numel(shape) : old[n] = [x \in 1..r |-> Index(shape, n - 1)[q[x]]]

LEMMA PermutedDenotes ==
    ASSUME NEW t \in Tensor, Denotes(t), ~Broken(t),
           NEW r \in Nat, r = Len(t.shape), NEW p, Permutation(p, r), NEW q, Undoes(q, p, r),
           NEW shape, shape = [x \in 1..r |-> t.shape[p[x]]],
           NEW strides, strides = [x \in 1..r |-> t.strides[p[x]]],
           NEW old, Turns(old, shape, q, r),
           NEW v, v = View(t, shape, strides, t.offset, Taken(t, shape, old))
    PROVE  v \in Tensor /\ Denotes(v) /\ Among(v, t)
<1>1. t.shape \in Seq(Extents) /\ t.offset \in Nat
  BY DEF Tensor
<1>2. p \in [1..r -> 1..r]
  BY DEF Permutation
<1>3. \A x \in 1..r : p[x] \in 1..r /\ q[x] \in 1..r /\ q[p[x]] = x
  BY <1>2 DEF Undoes
<1>4. shape \in Seq(Extents) /\ Len(shape) = r
  <2>1. Selects(shape, t.shape, p, r)
    BY <1>2 DEF Selects
  <2> QED
    BY <1>1, <2>1, Mapped
<1>5. PICK N : N = Numel(shape) /\ N \in Nat
  BY <1>4, NumelNat
<1>6. ASSUME NEW n \in 1..N
      PROVE  /\ old[n] \in [1..r -> Nat]
             /\ Rearranged(Index(shape, n - 1), old[n], p, 1..r)
  <2>1. n - 1 \in 0..(N - 1)
    BY <1>5
  <2>2. PICK a : a = Index(shape, n - 1) /\ a \in Indices(shape)
    BY <1>4, <1>5, <2>1, RankOfIndex
  <2>3. a \in [1..r -> Nat]
    BY <1>4, <2>2 DEF Indices
  <2>4. PICK o : o = old[n]
    OBVIOUS
  <2>5. o = [x \in 1..r |-> a[q[x]]]
    BY <1>5, <2>2, <2>4 DEF Turns
  <2>6. o \in [1..r -> Nat]
    BY <1>3, <2>3, <2>5
  <2>7. Rearranged(a, o, p, 1..r)
    BY <1>3, <2>5 DEF Rearranged
  <2> QED
    BY <2>2, <2>4, <2>6, <2>7
<1>7. strides \in Seq(Nat) /\ Leads(t, shape, strides, t.offset, old)
  BY <1>5, <1>6, RearrangedLeads
<1> QED
  BY <1>1, <1>4, <1>7, ViewDenotes
\* A tensor more, a view of t.
Grows(t) ==
    \E v \in Tensor : /\ Denotes(v) /\ Among(v, t)
                      /\ tensors' = Append(tensors, v) /\ buffers' = buffers

LEMMA PermuteGrows ==
    ASSUME NEW h, tensors[h] \in Tensor, Denotes(tensors[h]), NEW order,
           order \in [DOMAIN tensors[h].shape -> DOMAIN tensors[h].shape], IsInjective(order),
           Permute(h, order)
    PROVE  Grows(tensors[h])
<1> DEFINE t == tensors[h]
           shape == [i \in DOMAIN order |-> t.shape[order[i]]]
           inverse == [i \in DOMAIN order |-> CHOOSE j \in DOMAIN order : order[j] = i]
           strides == [i \in DOMAIN order |-> t.strides[order[i]]]
           elems == [n \in 1..Numel(shape) |->
                       t.elems[Rank(t.shape, [d \in DOMAIN order |-> Index(shape, n - 1)[inverse[d]]]) + 1]]
           v == View(t, shape, strides, t.offset, elems)
<1>1. ~Broken(t) /\ tensors' = Append(tensors, v) /\ buffers' = buffers
  BY DEF Permute, Keeps, Reindexed
<1>2. PICK r : r = Len(t.shape) /\ r \in Nat /\ DOMAIN t.shape = 1..r
  BY LenProperties DEF Tensor
<1>3. order \in [1..r -> 1..r] /\ DOMAIN order = 1..r /\ Permutation(order, r)
  <2>1. order \in [1..r -> 1..r] /\ DOMAIN order = 1..r
    BY <1>2
  <2> QED
    BY <1>2, <2>1, InjectivePermutes
<1>4. PICK q : q = inverse
  OBVIOUS
<1>5. Undoes(q, order, r)
  <2> SUFFICES ASSUME NEW x \in 1..r PROVE q[x] \in 1..r /\ q[order[x]] = x
    BY DEF Undoes
  <2>1. \A y \in 1..r : q[y] = CHOOSE j \in 1..r : order[j] = y
    BY <1>3, <1>4
  <2>2. \E j \in 1..r : order[j] = x
    BY <1>3 DEF Permutation
  <2>3. q[x] \in 1..r
    BY <2>1, <2>2
  <2>4. order[x] \in 1..r
    BY <1>3
  <2>5. q[order[x]] \in 1..r /\ order[q[order[x]]] = order[x]
    BY <2>1, <2>4
  <2> QED
    BY <1>3, <2>3, <2>5 DEF Permutation, OneToOne
<1>6. shape = [x \in 1..r |-> t.shape[order[x]]] /\ strides = [x \in 1..r |-> t.strides[order[x]]]
  BY <1>3
<1> DEFINE old == [n \in 1..Numel(shape) |-> [x \in 1..r |-> Index(shape, n - 1)[q[x]]]]
<1>7. elems = Taken(t, shape, old)
  <2> HIDE DEF shape, inverse
  <2>1. \A n \in 1..Numel(shape) :
           [d \in DOMAIN order |-> Index(shape, n - 1)[inverse[d]]] = [x \in 1..r |-> Index(shape, n - 1)[q[x]]]
    BY <1>3, <1>4
  <2>2. \A n \in 1..Numel(shape) :
           [d \in DOMAIN order |-> Index(shape, n - 1)[inverse[d]]] = old[n]
    BY <2>1
  <2> QED
    BY <2>2, Zenon DEF Taken
<1>8. Turns(old, shape, q, r)
  <2> HIDE DEF shape
  <2> QED
    BY DEF Turns
<1> HIDE DEF shape, strides, elems, old
<1>9. PICK u : u = v
  OBVIOUS
<1> HIDE DEF inverse
<1>10. u = View(t, shape, strides, t.offset, Taken(t, shape, old))
  BY <1>7, <1>9
<1>t. t \in Tensor /\ Denotes(t)
  OBVIOUS
<1> HIDE DEF t, v
<1>11. u \in Tensor /\ Denotes(u) /\ Among(u, t)
  BY <1>t, <1>1, <1>2, <1>3, <1>5, <1>6, <1>8, <1>10, PermutedDenotes
<1> QED
  BY <1>1, <1>9, <1>11 DEF Grows, t

LEMMA Distributes == \A a, s, d \in Nat : (a + s) * d = a * d + s * d
  OBVIOUS

\* A part of a dimension, from start.
Part(t, dim, start, length) ==
    /\ dim \in 1..Len(t.shape) /\ start \in Nat /\ length \in Extents
    /\ start + length <= t.shape[dim]

From(a, dim, start) == [a EXCEPT ![dim] = a[dim] + start]

Starts(o, a, d, dim, start, r) ==
    /\ r \in Nat /\ dim \in 1..r /\ start \in Nat
    /\ a \in [1..r -> Nat] /\ d \in [1..r -> Nat] /\ o = From(a, dim, start)

LEMMA FromStart ==
    ASSUME NEW o, NEW a, NEW d, NEW dim, NEW start, NEW r, Starts(o, a, d, dim, start, r)
    PROVE  /\ o \in [1..r -> Nat] /\ o[dim] = a[dim] + start
           /\ \A x \in 1..r : x # dim => o[x] = a[x]
           /\ Dot(o, d) = Dot(a, d) + start * d[dim]
<1>a. /\ r \in Nat /\ dim \in 1..r /\ start \in Nat
      /\ a \in [1..r -> Nat] /\ d \in [1..r -> Nat] /\ o = From(a, dim, start)
  BY DEF Starts
<1>1. /\ o \in [1..r -> Nat] /\ o[dim] = a[dim] + start
      /\ \A x \in 1..r : x # dim => o[x] = a[x]
  BY <1>a DEF From
<1>2. PICK D : D = 1..r
  OBVIOUS
<1> DEFINE R == D \ {dim}
<1>3. R \in SUBSET D /\ R \cup {dim} = D /\ dim \notin R /\ \A x \in R : x \in 1..r /\ x # dim
  BY <1>a, <1>2
<1> HIDE DEF R
<1>4. Valued(a, d, D) /\ Valued(o, d, D)
  <2>1. IsFiniteSet(D)
    BY <1>a, <1>2, FS_Interval
  <2> QED
    BY <1>a, <1>1, <1>2, <2>1 DEF Valued
<1>5. Valued(a, d, R)
  BY <1>3, <1>4, ValuedSubset
<1>6. \A x \in R : o[x] = a[x] /\ d[x] = d[x]
  BY <1>1, <1>3
<1>7. DotOn(o, d, R) = DotOn(a, d, R)
  BY <1>5, <1>6, DotSame
<1>8. /\ DotOn(o, d, D) = DotOn(o, d, R) + o[dim] * d[dim]
      /\ DotOn(a, d, D) = DotOn(a, d, R) + a[dim] * d[dim]
  <2>1. Adds(o, d, R, dim) /\ Adds(a, d, R, dim)
    BY DotOnAdd
  <2> QED
    BY <1>3, <1>4, <2>1 DEF Adds
<1>9. Dot(o, d) = DotOn(o, d, D) /\ Dot(a, d) = DotOn(a, d, D)
  <2>1. DOMAIN o = D /\ DOMAIN a = D
    BY <1>a, <1>1, <1>2
  <2> QED
    BY <2>1, DotIsDotOn
<1>10. o[dim] * d[dim] = a[dim] * d[dim] + start * d[dim]
  <2>1. a[dim] \in Nat /\ d[dim] \in Nat
    BY <1>a
  <2> QED
    BY <1>a, <1>1, <2>1, Distributes
<1>11. PICK i, j, k : /\ i = DotOn(a, d, R) /\ j = a[dim] * d[dim] /\ k = start * d[dim]
                      /\ i \in Nat /\ j \in Nat /\ k \in Nat
  <2>1. a[dim] \in Nat /\ d[dim] \in Nat
    BY <1>a
  <2>2. DotOn(a, d, R) \in Nat
    BY <1>3, <1>4, DotOnNat
  <2> QED
    BY <1>a, <2>1, <2>2, ProductNat
<1>12. Dot(o, d) = i + (j + k) /\ Dot(a, d) = i + j
  BY <1>7, <1>8, <1>9, <1>10, <1>11
<1>13. Dot(o, d) = Dot(a, d) + k
  BY <1>11, <1>12
<1> QED
  BY <1>1, <1>11, <1>13
\* What was at an index is now start before.
Moves(old, shape, dim, start) ==
    \A n \in 1..Numel(shape) : old[n] = From(Index(shape, n - 1), dim, start)

LEMMA PartLeads ==
    ASSUME NEW t \in Tensor, ~Broken(t), NEW dim, NEW start, NEW length, Part(t, dim, start, length),
           NEW shape, shape = [t.shape EXCEPT ![dim] = length],
           NEW offset, offset = t.offset + start * t.strides[dim],
           NEW old, Moves(old, shape, dim, start)
    PROVE  shape \in Seq(Extents) /\ offset \in Nat /\ Leads(t, shape, t.strides, offset, old)
<1>1. PICK r : /\ r = Len(t.shape) /\ r \in Nat /\ t.shape \in Seq(Extents) /\ t.strides \in Seq(Nat)
               /\ Len(t.strides) = r /\ t.offset \in Nat
  BY LenProperties DEF Tensor, Broken
<1>2. t.shape \in [1..r -> Extents] /\ t.strides \in [1..r -> Nat]
  BY <1>1, LenProperties
<1>3. dim \in 1..r /\ start \in Nat /\ length \in Extents /\ start + length <= t.shape[dim]
  BY <1>1 DEF Part
<1>4. shape \in [1..r -> Extents] /\ shape[dim] = length /\ \A x \in 1..r : x # dim => shape[x] = t.shape[x]
  BY <1>2, <1>3
<1>5. shape \in Seq(Extents) /\ Len(shape) = r
  <2>1. dim \in 1..Len(t.shape)
    BY <1>1, <1>3
  <2> QED
    BY <1>1, <1>3, <2>1, ExceptSeq
<1>6. PICK k : k = start * t.strides[dim] /\ k \in Nat
  BY <1>2, <1>3, ProductNat
<1>7. PICK N : N = Numel(shape) /\ N \in Nat
  BY <1>5, NumelNat
<1>8. ASSUME NEW n \in 1..N
      PROVE  /\ old[n] \in Indices(t.shape)
             /\ offset + Dot(Index(shape, n - 1), t.strides) = t.offset + Dot(old[n], t.strides)
  <2>1. n - 1 \in 0..(N - 1)
    BY <1>7
  <2>2. PICK a : a = Index(shape, n - 1) /\ a \in Indices(shape)
    BY <1>5, <1>7, <2>1, RankOfIndex
  <2>3. a \in [1..r -> Nat] /\ \A x \in 1..r : a[x] < shape[x]
    BY <1>5, <2>2 DEF Indices
  <2>4. PICK o : o = old[n] /\ o = From(a, dim, start)
    BY <1>7, <2>2 DEF Moves
  <2>5. PICK d : d = t.strides /\ d \in [1..r -> Nat]
    BY <1>2
  <2>6. /\ o \in [1..r -> Nat] /\ o[dim] = a[dim] + start
        /\ \A x \in 1..r : x # dim => o[x] = a[x]
        /\ Dot(o, d) = Dot(a, d) + start * d[dim]
    <3>1. r \in Nat /\ dim \in 1..r /\ start \in Nat
      BY <1>1, <1>3
    <3>2. d \in [1..r -> Nat] /\ a \in [1..r -> Nat] /\ o = From(a, dim, start)
      BY <2>3, <2>4, <2>5
    <3>3. Starts(o, a, d, dim, start, r)
      BY <3>1, <3>2 DEF Starts
    <3> QED
      BY <3>3, FromStart
  <2>7. \A x \in 1..r : o[x] < t.shape[x]
    <3> SUFFICES ASSUME NEW x \in 1..r PROVE o[x] < t.shape[x]
      OBVIOUS
    <3>1. a[dim] \in Nat /\ t.shape[dim] \in Nat /\ length \in Nat
      BY <1>2, <1>3, <2>3 DEF Extents
    <3>2. CASE x = dim
      BY <1>3, <1>4, <2>3, <2>6, <3>1, <3>2
    <3>3. CASE x # dim
      BY <1>4, <2>3, <2>6, <3>3
    <3> QED
      BY <3>2, <3>3
  <2>8. o \in Indices(t.shape)
    BY <1>1, <2>6, <2>7 DEF Indices
  <2>9. Dot(a, d) \in Nat
    <3>1. PICK D : D = 1..r /\ IsFiniteSet(D)
      BY <1>1, FS_Interval
    <3>2. DOMAIN a = D /\ Valued(a, d, D)
      BY <2>3, <2>5, <3>1 DEF Valued
    <3> QED
      BY <3>2, DotIsDotOn, DotOnNat
  <2>10. offset + Dot(a, d) = t.offset + Dot(o, d)
    <3>1. Dot(o, d) = Dot(a, d) + k
      BY <1>6, <2>5, <2>6
    <3>2. offset = t.offset + k /\ t.offset \in Nat /\ k \in Nat
      BY <1>1, <1>6
    <3> QED
      BY <2>9, <3>1, <3>2
  <2> QED
    BY <2>2, <2>4, <2>5, <2>8, <2>10
<1>9. offset \in Nat
  BY <1>1, <1>6
<1> QED
  BY <1>5, <1>7, <1>8, <1>9 DEF Leads

LEMMA SliceGrows ==
    ASSUME NEW h, tensors[h] \in Tensor, Denotes(tensors[h]), NEW dim \in DOMAIN tensors[h].shape,
           NEW start \in Nat, NEW length \in Extents, Slice(h, dim, start, length)
    PROVE  Grows(tensors[h])
<1> DEFINE t == tensors[h]
           shape == [t.shape EXCEPT ![dim] = length]
           offset == t.offset + start * t.strides[dim]
           elems == [n \in 1..Numel(shape) |->
                       t.elems[Rank(t.shape, [Index(shape, n - 1) EXCEPT ![dim] = @ + start]) + 1]]
           v == View(t, shape, t.strides, offset, elems)
<1>1. /\ ~Broken(t) /\ start + length <= t.shape[dim]
      /\ tensors' = Append(tensors, v) /\ buffers' = buffers
  BY DEF Slice, Keeps, Reindexed
<1>2. Part(t, dim, start, length)
  <2>1. DOMAIN t.shape = 1..Len(t.shape)
    BY LenProperties DEF Tensor
  <2> QED
    BY <1>1, <2>1 DEF Part
<1> DEFINE old == [n \in 1..Numel(shape) |-> From(Index(shape, n - 1), dim, start)]
<1>3. elems = Taken(t, shape, old) /\ Moves(old, shape, dim, start)
  <2> HIDE DEF shape
  <2>1. \A n \in 1..Numel(shape) : [Index(shape, n - 1) EXCEPT ![dim] = @ + start] = old[n]
    BY DEF From
  <2> QED
    BY <2>1, Zenon DEF Taken, Moves
<1> HIDE DEF elems, old
<1>4. PICK u : u = View(t, shape, t.strides, offset, Taken(t, shape, old)) /\ u = v
  BY <1>3
<1>t. t \in Tensor /\ Denotes(t) /\ t.strides \in Seq(Nat)
  BY DEF Tensor
<1>5. PICK s, o : s = shape /\ o = offset
  OBVIOUS
<1>6. /\ s = [t.shape EXCEPT ![dim] = length] /\ o = t.offset + start * t.strides[dim]
      /\ u = View(t, s, t.strides, o, Taken(t, s, old)) /\ Moves(old, s, dim, start)
  BY <1>3, <1>4, <1>5
<1> HIDE DEF t, v, shape, offset
<1>7. s \in Seq(Extents) /\ o \in Nat /\ Leads(t, s, t.strides, o, old)
  BY <1>t, <1>1, <1>2, <1>6, PartLeads
<1>8. u \in Tensor /\ Denotes(u) /\ Among(u, t)
  BY <1>t, <1>1, <1>6, <1>7, ViewDenotes
<1> QED
  BY <1>1, <1>4, <1>8 DEF Grows, t

\* i and j trade places.
Exchange(i, j, n) == [x \in 1..n |-> IF x = i THEN j ELSE IF x = j THEN i ELSE x]

LEMMA ExchangePermutes ==
    ASSUME NEW n \in Nat, NEW i \in 1..n, NEW j \in 1..n, NEW p, p = Exchange(i, j, n)
    PROVE  Permutation(p, n) /\ Undoes(p, p, n)
<1>1. p \in [1..n -> 1..n] /\ \A x \in 1..n : p[x] \in 1..n /\ p[p[x]] = x
  BY DEF Exchange
<1>2. \A x, y \in 1..n : p[x] = p[y] => x = y
  BY <1>1
<1> QED
  BY <1>1, <1>2 DEF Permutation, OneToOne, Undoes

Along(s, n) == s = [x \in 1..n |-> s[x]]
After(m, s, p, n) == m = [x \in 1..n |-> s[p[x]]]

Exchanges(p, i, j, n) == n \in Nat /\ i \in 1..n /\ j \in 1..n /\ p = Exchange(i, j, n)

LEMMA SwappedExchanges ==
    ASSUME NEW p, NEW i, NEW j, NEW n, Exchanges(p, i, j, n), NEW s, Along(s, n)
    PROVE  After(Swapped(s, i, j), s, p, n)
<1>a. n \in Nat /\ i \in 1..n /\ j \in 1..n /\ p = Exchange(i, j, n)
  BY DEF Exchanges
<1>1. \A x \in 1..n : s[p[x]] = IF x = i THEN s[j] ELSE IF x = j THEN s[i] ELSE s[x]
  BY <1>a DEF Exchange
<1>2. PICK m : m = Swapped(s, i, j)
  OBVIOUS
<1>3. m = [s EXCEPT ![i] = s[j], ![j] = s[i]]
  BY <1>2 DEF Swapped
<1>4. DOMAIN s = 1..n
  BY DEF Along
<1>5. m = [x \in 1..n |-> m[x]]
  BY <1>a, <1>3, <1>4
<1>6. \A x \in 1..n : m[x] = s[p[x]]
  BY <1>a, <1>1, <1>3, <1>4
<1> QED
  BY <1>2, <1>5, <1>6 DEF After

LEMMA TransposeGrows ==
    ASSUME NEW h, tensors[h] \in Tensor, Denotes(tensors[h]),
           NEW dim0, NEW dim1, Transpose(h, dim0, dim1)
    PROVE  Grows(tensors[h])
<1> DEFINE t == tensors[h]
           shape == Swapped(t.shape, dim0, dim1)
           strides == Swapped(t.strides, dim0, dim1)
           elems == [n \in 1..Numel(shape) |->
                       t.elems[Rank(t.shape, Swapped(Index(shape, n - 1), dim0, dim1)) + 1]]
           v == View(t, shape, strides, t.offset, elems)
<1>1. /\ ~Broken(t) /\ {dim0, dim1} \subseteq DOMAIN t.shape
      /\ tensors' = Append(tensors, v) /\ buffers' = buffers
  BY DEF Transpose, Keeps, Reindexed
<1>2. PICK r : /\ r = Len(t.shape) /\ r \in Nat /\ DOMAIN t.shape = 1..r
               /\ Along(t.shape, r) /\ Along(t.strides, r)
  <2>1. Len(t.strides) = Len(t.shape)
    BY <1>1 DEF Broken
  <2> QED
    BY <2>1, LenProperties DEF Tensor, Along
<1>3. dim0 \in 1..r /\ dim1 \in 1..r
  BY <1>1, <1>2
<1>4. PICK p : p = Exchange(dim0, dim1, r)
  OBVIOUS
<1>5. Permutation(p, r) /\ Undoes(p, p, r)
  BY <1>2, <1>3, <1>4, ExchangePermutes
<1>x. Exchanges(p, dim0, dim1, r)
  BY <1>2, <1>3, <1>4 DEF Exchanges
<1>6. PICK s, d : s = shape /\ d = strides
  OBVIOUS
<1>7. s = [x \in 1..r |-> t.shape[p[x]]] /\ d = [x \in 1..r |-> t.strides[p[x]]]
  <2> HIDE DEF t
  <2> QED
    <3>1. After(s, t.shape, p, r) /\ After(d, t.strides, p, r)
      BY <1>2, <1>6, <1>x, SwappedExchanges
    <3> QED
      BY <3>1 DEF After
<1> DEFINE old == [n \in 1..Numel(s) |-> [x \in 1..r |-> Index(s, n - 1)[p[x]]]]
<1>8. elems = Taken(t, s, old) /\ Turns(old, s, p, r)
  <2>s. DOMAIN s = 1..r
    BY <1>7
  <2> HIDE DEF shape
  <2>1. ASSUME NEW n \in 1..Numel(s) PROVE Swapped(Index(s, n - 1), dim0, dim1) = old[n]
    <3>1. PICK a : a = Index(s, n - 1) /\ Along(a, r)
      BY <2>s DEF Index, Along
    <3>2. Swapped(a, dim0, dim1) = [x \in 1..r |-> a[p[x]]]
      <4>1. After(Swapped(a, dim0, dim1), a, p, r)
        BY <1>x, <3>1, SwappedExchanges
      <4> QED
        BY <4>1 DEF After
    <3>3. old[n] = [x \in 1..r |-> Index(s, n - 1)[p[x]]]
      OBVIOUS
    <3> QED
      BY <3>1, <3>2, <3>3
  <2>2. Turns(old, s, p, r)
    BY DEF Turns
  <2>3. elems = Taken(t, s, old)
    <3> HIDE DEF old
    <3> QED
      BY <1>6, <2>1, Zenon DEF Taken
  <2> QED
    BY <2>2, <2>3
<1> HIDE DEF elems, old, shape, strides
<1>9. PICK u : u = View(t, s, d, t.offset, Taken(t, s, old)) /\ u = v
  BY <1>6, <1>8
<1>t. t \in Tensor /\ Denotes(t)
  OBVIOUS
<1> HIDE DEF t, v
<1>r. r \in Nat /\ r = Len(t.shape) /\ ~Broken(t)
  BY <1>1, <1>2
<1>10. u \in Tensor /\ Denotes(u) /\ Among(u, t)
  BY <1>t, <1>r, <1>5, <1>7, <1>8, <1>9, PermutedDenotes
<1> QED
  BY <1>1, <1>9, <1>10 DEF Grows, t
-----------------------------------------------------------------------------
(***************************************************************************)
(* Contiguous tensors.                                                     *)
(***************************************************************************)
\* The elements of t lie one after the other.
Dense(t) == \A n \in 1..Numel(t.shape) : t.elems[n] = t.offset + (n - 1)

LEMMA ContiguousDots ==
    ASSUME NEW t, t.shape \in Seq(Extents), IsContiguous(t)
    PROVE  /\ ~Broken(t) /\ Numel(t.shape) \in Nat
           /\ \A n \in 1..Numel(t.shape) : Dot(Index(t.shape, n - 1), t.strides) = n - 1
<1>1. PICK N : N = Numel(t.shape) /\ N \in Nat
  BY NumelNat
<1>2. PICK s : s = t.shape /\ s \in Seq(Extents)
  OBVIOUS
<1>3. t.strides = ContiguousStrides(s) /\ Len(ContiguousStrides(s)) = Len(s)
  BY <1>2, StridesRadix DEF IsContiguous
<1>4. ASSUME NEW n \in 1..N PROVE Dot(Index(s, n - 1), ContiguousStrides(s)) = n - 1
  <2>1. PICK m : m = n - 1 /\ m \in 0..(N - 1)
    BY <1>1
  <2>2. Rank(s, Index(s, m)) = m
    BY <1>1, <1>2, <2>1, RankOfIndex
  <2> QED
    BY <2>1, <2>2 DEF Rank
<1> QED
  BY <1>1, <1>2, <1>3, <1>4 DEF Broken

LEMMA DenotesDense ==
    ASSUME NEW t \in Tensor, Denotes(t), IsContiguous(t)
    PROVE  Dense(t)
<1>1. t.shape \in Seq(Extents)
  BY DEF Tensor
<1> QED
  BY <1>1, ContiguousDots DEF Denotes, Dense

LEMMA DenseDenotes ==
    ASSUME NEW t, t.shape \in Seq(Extents), IsContiguous(t), Len(t.elems) = Numel(t.shape), Dense(t)
    PROVE  Denotes(t)
BY ContiguousDots DEF Denotes, Dense

LEMMA FreshDenotes ==
    ASSUME NEW shape \in Seq(Extents), NEW buf \in Nat, NEW v, v = Fresh(buf, shape)
    PROVE  /\ v \in Tensor /\ Denotes(v) /\ v.buf = buf
           /\ Len(v.elems) = Numel(shape) /\ \A n \in 1..Numel(shape) : v.elems[n] = n - 1
<1>1. PICK N : N = Numel(shape) /\ N \in Nat
  BY NumelNat
<1>2. PICK e : e = [n \in 1..N |-> n - 1]
  OBVIOUS
<1>3. e \in Seq(Nat) /\ Len(e) = N /\ \A n \in 1..N : e[n] = n - 1
  <2>1. \A n \in 1..N : n - 1 \in Nat
    BY <1>1
  <2> QED
    BY <1>1, <1>2, <2>1, IsASeq
<1>4. PICK c : c = ContiguousStrides(shape) /\ c \in Seq(Nat)
  <2>1. ContiguousStrides(shape) \in Seq(Extents)
    BY StridesRadix
  <2>2. ContiguousStrides(shape) \in Seq(Nat)
    BY <2>1 DEF Extents
  <2> QED
    BY <2>2
<1>5. v = [buf |-> buf, shape |-> shape, strides |-> c, offset |-> 0, elems |-> e]
  BY <1>1, <1>2, <1>4 DEF Fresh
<1>6. v \in Tensor
  BY <1>3, <1>4, <1>5 DEF Tensor
<1>7. IsContiguous(v)
  BY <1>4, <1>5 DEF IsContiguous
<1>8. Dense(v)
  BY <1>1, <1>3, <1>5 DEF Dense
<1>9. v.shape \in Seq(Extents) /\ Len(v.elems) = Numel(v.shape)
  BY <1>1, <1>3, <1>5
<1> QED
  BY <1>1, <1>3, <1>5, <1>6, <1>7, <1>8, <1>9, DenseDenotes

LEMMA ReshapeGrows ==
    ASSUME NEW h, tensors[h] \in Tensor, Denotes(tensors[h]),
           NEW new_shape \in Seq(Extents), Reshape(h, new_shape)
    PROVE  Grows(tensors[h])
<1>1. PICK t : t = tensors[h] /\ t \in Tensor /\ Denotes(t)
  OBVIOUS
<1>2. PICK c : c = ContiguousStrides(new_shape) /\ c \in Seq(Nat) /\ Len(c) = Len(new_shape)
  <2>1. ContiguousStrides(new_shape) \in Seq(Extents) /\ Len(ContiguousStrides(new_shape)) = Len(new_shape)
    BY StridesRadix
  <2>2. ContiguousStrides(new_shape) \in Seq(Nat)
    BY <2>1 DEF Extents
  <2> QED
    BY <2>1, <2>2
<1>3. PICK strides \in {c, <<>>} :
         /\ tensors' = Append(tensors, View(t, new_shape, strides, t.offset, t.elems))
         /\ buffers' = buffers
  BY <1>1, <1>2 DEF Reshape, Keeps
<1>4. IsContiguous(t) /\ Numel(new_shape) = Numel(t.shape)
  BY <1>1 DEF Reshape
<1>5. PICK v : v = View(t, new_shape, strides, t.offset, t.elems)
  OBVIOUS
<1>6. /\ v \in Tensor /\ v.buf = t.buf /\ v.shape = new_shape /\ v.strides = strides
      /\ v.offset = t.offset /\ v.elems = t.elems
  <2>1. strides \in Seq(Nat)
    BY <1>2, EmptySeq
  <2> QED
    BY <1>1, <1>5, <2>1 DEF View, Tensor
<1>7. Dense(v) /\ Len(v.elems) = Numel(v.shape)
  <2>1. Dense(t) /\ Len(t.elems) = Numel(t.shape)
    BY <1>1, <1>4, DenotesDense DEF Denotes
  <2> QED
    BY <1>4, <1>6, <2>1 DEF Dense
<1>8. Denotes(v)
  <2>1. CASE strides = c
    <3>1. IsContiguous(v)
      BY <1>2, <1>6, <2>1 DEF IsContiguous
    <3> QED
      BY <1>6, <1>7, <3>1, DenseDenotes
  <2>2. CASE strides = <<>> /\ Len(new_shape) = 0
    <3>1. c = <<>>
      BY <1>2, <2>2, EmptySeq
    <3> QED
      BY <2>1, <2>2, <3>1
  <2>3. CASE strides = <<>> /\ Len(new_shape) # 0
    <3>1. Broken(v)
      BY <1>6, <2>3, EmptySeq DEF Broken
    <3> QED
      BY <1>7, <3>1 DEF Denotes
  <2> QED
    BY <2>1, <2>2, <2>3
<1>9. Among(v, t)
  BY <1>6 DEF Among
<1> QED
  BY <1>1, <1>3, <1>5, <1>6, <1>8, <1>9 DEF Grows

-----------------------------------------------------------------------------
(***************************************************************************)
(* The invariant of views: no step loses a tensor or a buffer, and every   *)
(* tensor denotes elements of its buffer.                                  *)
(***************************************************************************)
\* The elements of t are inside of its buffer, one of room.
Inside(t, room) ==
    /\ t.buf \in 1..Len(room)
    /\ \A n \in 1..Len(t.elems) : t.elems[n] < room[t.buf]

ViewsInv ==
    /\ tensors \in Seq(Tensor) /\ buffers \in Seq(Extents)
    /\ \A h \in 1..Len(tensors) : Denotes(tensors[h]) /\ Inside(tensors[h], buffers)

LEMMA GrowsKeeps ==
    ASSUME ViewsInv, NEW h \in 1..Len(tensors), Grows(tensors[h])
    PROVE  ViewsInv'
<1>1. PICK v \in Tensor : /\ Denotes(v) /\ Among(v, tensors[h])
                          /\ tensors' = Append(tensors, v) /\ buffers' = buffers
  BY DEF Grows
<1>2. tensors \in Seq(Tensor) /\ buffers \in Seq(Extents)
  BY DEF ViewsInv
<1>3. /\ tensors' \in Seq(Tensor) /\ Len(tensors') = Len(tensors) + 1
      /\ \A i \in 1..Len(tensors) : tensors'[i] = tensors[i]
      /\ tensors'[Len(tensors) + 1] = v
  BY <1>1, <1>2, AppendProperties
<1>4. Inside(v, buffers)
  <2>1. Inside(tensors[h], buffers)
    BY DEF ViewsInv
  <2> QED
    BY <1>1, <2>1 DEF Inside, Among
<1>5. ASSUME NEW i \in 1..Len(tensors') PROVE Denotes(tensors'[i]) /\ Inside(tensors'[i], buffers)
  <2>1. Len(tensors) \in Nat
    BY <1>2, LenProperties
  <2>2. CASE i \in 1..Len(tensors)
    BY <1>3, <2>2 DEF ViewsInv
  <2>3. CASE i = Len(tensors) + 1
    BY <1>1, <1>3, <1>4, <2>3
  <2> QED
    BY <1>3, <2>1, <2>2, <2>3
<1> QED
  BY <1>1, <1>2, <1>3, <1>5 DEF ViewsInv

\* The room for a new tensor, and the tensor.
Makes(shape) ==
    /\ buffers' = Append(buffers, Numel(shape))
    /\ tensors' = Append(tensors, Fresh(Len(buffers) + 1, shape))

LEMMA MakesKeeps ==
    ASSUME ViewsInv, NEW shape \in Seq(Extents), Makes(shape)
    PROVE  ViewsInv'
<1>1. PICK N : N = Numel(shape) /\ N \in Extents
  BY NumelLast
<1>2. tensors \in Seq(Tensor) /\ buffers \in Seq(Extents) /\ Len(tensors) \in Nat /\ Len(buffers) \in Nat
  BY LenProperties DEF ViewsInv
<1>3. PICK v : v = Fresh(Len(buffers) + 1, shape)
  OBVIOUS
<1>4. /\ v \in Tensor /\ Denotes(v) /\ v.buf = Len(buffers) + 1
      /\ Len(v.elems) = N /\ \A n \in 1..N : v.elems[n] = n - 1
  <2>1. Len(buffers) + 1 \in Nat
    BY <1>2
  <2> QED
    BY <1>1, <1>3, <2>1, FreshDenotes
<1>5. /\ tensors' \in Seq(Tensor) /\ Len(tensors') = Len(tensors) + 1
      /\ \A i \in 1..Len(tensors) : tensors'[i] = tensors[i]
      /\ tensors'[Len(tensors) + 1] = v
  BY <1>2, <1>3, <1>4, AppendProperties DEF Makes
<1>6. /\ buffers' \in Seq(Extents) /\ Len(buffers') = Len(buffers) + 1
      /\ \A i \in 1..Len(buffers) : buffers'[i] = buffers[i]
      /\ buffers'[Len(buffers) + 1] = N
  BY <1>1, <1>2, AppendProperties DEF Makes
<1>7. Inside(v, buffers')
  BY <1>1, <1>2, <1>4, <1>6 DEF Inside, Extents
<1>8. ASSUME NEW i \in 1..Len(tensors') PROVE Denotes(tensors'[i]) /\ Inside(tensors'[i], buffers')
  <2>1. CASE i \in 1..Len(tensors)
    <3>1. Denotes(tensors[i]) /\ Inside(tensors[i], buffers)
      BY <2>1 DEF ViewsInv
    <3>2. Inside(tensors[i], buffers')
      <4>1. PICK t, b : t = tensors[i] /\ b = t.buf
        OBVIOUS
      <4>2. b \in 1..Len(buffers) /\ \A n \in 1..Len(t.elems) : t.elems[n] < buffers[b]
        BY <3>1, <4>1 DEF Inside
      <4>3. b \in 1..Len(buffers') /\ buffers'[b] = buffers[b]
        BY <1>2, <1>6, <4>2
      <4> QED
        BY <4>1, <4>2, <4>3 DEF Inside
    <3> QED
      BY <1>5, <2>1, <3>1, <3>2
  <2>2. CASE i = Len(tensors) + 1
    BY <1>4, <1>5, <1>7, <2>2
  <2> QED
    BY <1>2, <1>5, <2>1, <2>2
<1> QED
  BY <1>5, <1>6, <1>8 DEF ViewsInv
LEMMA ViewsStep ==
    ASSUME ViewsInv, ViewsNext
    PROVE  ViewsInv'
<1>1. PICK h \in Handles :
         \/ \E dim0, dim1 \in DOMAIN tensors[h].shape : dim0 < dim1 /\ Transpose(h, dim0, dim1)
         \/ \E order \in [DOMAIN tensors[h].shape -> DOMAIN tensors[h].shape] :
               IsInjective(order) /\ Permute(h, order)
         \/ \E dim \in DOMAIN tensors[h].shape :
               \E start \in 0..(tensors[h].shape[dim] - 1), length \in 1..tensors[h].shape[dim] :
                  Slice(h, dim, start, length)
         \/ \E shape \in Shapes : Reshape(h, shape)
  BY DEF ViewsNext
<1>2. h \in 1..Len(tensors) /\ tensors[h] \in Tensor /\ Denotes(tensors[h])
  <2>1. tensors \in Seq(Tensor)
    BY DEF ViewsInv
  <2>2. h \in 1..Len(tensors)
    BY <2>1, LenProperties DEF Handles
  <2> QED
    BY <2>1, <2>2, ElementOfSeq DEF ViewsInv
<1>3. Grows(tensors[h])
  <2>1. CASE \E dim0, dim1 \in DOMAIN tensors[h].shape : dim0 < dim1 /\ Transpose(h, dim0, dim1)
    BY <1>2, <2>1, TransposeGrows
  <2>2. CASE \E order \in [DOMAIN tensors[h].shape -> DOMAIN tensors[h].shape] :
                IsInjective(order) /\ Permute(h, order)
    BY <1>2, <2>2, PermuteGrows
  <2>3. CASE \E dim \in DOMAIN tensors[h].shape :
                \E start \in 0..(tensors[h].shape[dim] - 1), length \in 1..tensors[h].shape[dim] :
                   Slice(h, dim, start, length)
    <3>d. PICK dim \in DOMAIN tensors[h].shape :
             \E start \in 0..(tensors[h].shape[dim] - 1), length \in 1..tensors[h].shape[dim] :
                Slice(h, dim, start, length)
      BY <2>3
    <3>1. PICK start \in 0..(tensors[h].shape[dim] - 1), length \in 1..tensors[h].shape[dim] :
             Slice(h, dim, start, length)
      BY <3>d
    <3>2. tensors[h].shape[dim] \in Nat
      BY <1>2, LenProperties DEF Tensor, Extents
    <3>3. start \in Nat /\ length \in Extents
      BY <3>2 DEF Extents
    <3> QED
      BY <1>2, <3>1, <3>3, SliceGrows
  <2>4. CASE \E shape \in Shapes : Reshape(h, shape)
    BY <1>2, <2>4, ShapesAssumption, ReshapeGrows DEF Extents
  <2> QED
    BY <1>1, <2>1, <2>2, <2>3, <2>4
<1> QED
  BY <1>2, <1>3, GrowsKeeps

LEMMA TensorAt ==
    ASSUME ViewsInv, NEW h \in Handles
    PROVE  /\ h \in 1..Len(tensors) /\ tensors[h] \in Tensor /\ tensors[h].shape \in Seq(Extents)
           /\ Denotes(tensors[h]) /\ Inside(tensors[h], buffers)
<1>1. tensors \in Seq(Tensor)
  BY DEF ViewsInv
<1>2. h \in 1..Len(tensors)
  BY <1>1, LenProperties DEF Handles
<1>3. tensors[h] \in Tensor
  BY <1>1, <1>2, ElementOfSeq
<1> QED
  BY <1>2, <1>3 DEF ViewsInv, Tensor

LEMMA ViewsStart ==
    ASSUME ViewsInit
    PROVE  ViewsInv
<1>1. PICK shape \in FirstShapes : tensors = <<Fresh(1, shape)>> /\ buffers = <<Numel(shape)>>
  BY DEF ViewsInit
<1>2. shape \in Seq(Extents)
  BY ShapesAssumption DEF Extents
<1>3. PICK N : N = Numel(shape) /\ N \in Extents
  BY <1>2, NumelLast
<1>4. PICK v : /\ v = Fresh(1, shape) /\ v \in Tensor /\ Denotes(v) /\ v.buf = 1
               /\ Len(v.elems) = N /\ \A n \in 1..N : v.elems[n] = n - 1
  BY <1>2, <1>3, FreshDenotes
<1>5. tensors = <<v>> /\ buffers = <<N>>
  BY <1>1, <1>3, <1>4
<1>6. Inside(v, <<N>>)
  BY <1>3, <1>4 DEF Inside, Extents
<1> QED
  BY <1>4, <1>5, <1>6, <1>3 DEF ViewsInv

-----------------------------------------------------------------------------
(***************************************************************************)
(* The dispatch of operations.                                             *)
(***************************************************************************)
DispatchInv ==
    /\ gpu \in Gpus /\ dtype \in DTypes
    /\ loaded \subseteq Kernels
    /\ modules \in [Kernels -> 0..MaxModules]
    /\ ModuleOncePerKernel

LEMMA GetFunctionKeeps ==
    ASSUME DispatchInv, NEW kernel \in Kernels, GetFunction(kernel)
    PROVE  DispatchInv'
<1>1. /\ modules \in [Kernels -> 0..MaxModules] /\ modules[kernel] < MaxModules /\ MaxModules \in Nat
      /\ loaded \subseteq Kernels /\ dtype \in DTypes /\ dtype' = dtype
      /\ gpu \in Gpus /\ gpu' = gpu
  BY DispatchAssumption DEF DispatchInv, GetFunction
<1>2. /\ loaded' \subseteq Kernels
      /\ HasFunction(kernel) => loaded' = loaded \cup {kernel}
      /\ ~HasFunction(kernel) => loaded' = loaded
  BY <1>1 DEF GetFunction
<1>3. CASE gpu \in Arch /\ HasCubin(kernel) /\ kernel \notin loaded
  <2>1. modules' = [modules EXCEPT ![kernel] = modules[kernel] + 1]
    BY <1>3 DEF GetFunction
  <2>2. modules' \in [Kernels -> 0..MaxModules]
    BY <1>1, <2>1
  <2>3. \A k \in Kernels : modules'[k] = IF k = kernel THEN modules[k] + 1 ELSE modules[k]
    BY <1>1, <2>1
  <2>4. ModuleOncePerKernel'
    <3> SUFFICES ASSUME NEW k \in Kernels, HasEntry(k)
                 PROVE  modules'[k] = (IF k \in loaded' THEN 1 ELSE 0)
      BY DEF ModuleOncePerKernel, HasEntry
    <3>1. modules[k] = (IF k \in loaded THEN 1 ELSE 0)
      BY DEF DispatchInv, ModuleOncePerKernel
    <3> QED
      BY <1>2, <1>3, <2>3, <3>1 DEF HasFunction
  <2> QED
    BY <1>1, <1>2, <2>2, <2>4 DEF DispatchInv
<1>4. CASE ~(gpu \in Arch /\ HasCubin(kernel) /\ kernel \notin loaded)
  <2>1. modules' = modules /\ loaded' = loaded
    BY <1>2, <1>4 DEF GetFunction, HasFunction
  <2> QED
    BY <1>1, <2>1 DEF DispatchInv, ModuleOncePerKernel, HasEntry
<1> QED
  BY <1>3, <1>4

LEMMA PreferenceOf ==
    /\ Preference("Add") = <<"CuTensor", "Custom">> /\ Preference("Mul") = <<"CuTensor", "Custom">>
    /\ Preference("MatMul") = <<"CuBLAS", "CuTensor", "Custom">>
    /\ Preference("Softmax") = <<"CuDNN", "Custom">>
    /\ Preference("Gelu") = <<"Custom">> /\ Preference("Contiguous") = <<"Custom">>
BY Zenon DEF Preference

LEMMA KernelOfOp ==
    /\ KernelOf("Add") = "add" /\ KernelOf("Mul") = "mul" /\ KernelOf("MatMul") = "matmul_wmma"
    /\ KernelOf("Softmax") = "softmax" /\ KernelOf("Gelu") = "gelu"
    /\ KernelOf("Contiguous") = "contiguous"
BY Zenon DEF KernelOf

LEMMA ImageOfKernel ==
    /\ ImageOf("add") = AddImage /\ ImageOf("mul") = MulImage
    /\ ImageOf("contiguous") = ContiguousImage /\ ImageOf("gelu") = GeluImage
    /\ ImageOf("softmax") = SoftmaxImage /\ ImageOf("matmul_wmma") = MatmulImage
BY Zenon DEF ImageOf

LEMMA FunctionOf ==
    ASSUME dtype \in DType
    PROVE  /\ ~HasFunction("add") /\ ~HasFunction("mul")
           /\ HasFunction("contiguous") <=> gpu \in Architectures
           /\ HasFunction("gelu") <=> gpu \in Architectures /\ dtype # "int8"
           /\ HasFunction("softmax") => dtype # "int8"
           /\ HasFunction("matmul_wmma") => dtype # "int8"
<1>1. \A kernel \in Kernels : HasEntry(kernel) <=> kernel \notin {"add", "mul"}
  BY EntriesAssumption
<1>2. /\ ImageOf("contiguous").dtypes = DType /\ ImageOf("gelu").dtypes = Floats
      /\ ImageOf("softmax").dtypes = Floats /\ ImageOf("matmul_wmma").dtypes = {"bf16", "fp16"}
  BY ImageOfKernel DEF ContiguousImage, GeluImage, SoftmaxImage, MatmulImage, Image
<1>3. dtype \in Floats <=> dtype # "int8"
  BY DEF DType, Floats
<1> QED
  BY <1>1, <1>2, <1>3 DEF HasFunction, HasCubin, Kernels, Arch, Architectures

\* Those that dispatch_op is called for.
Dispatched == GeneratedOps \cup {"Contiguous"}

\* Who takes first is who computes.
LEMMA ResolveAuto ==
    ASSUME NEW op, NEW order, order = Preference(op), NEW i \in DOMAIN order,
           dtype \in SupportedDTypes(op, order[i]),
           \A j \in 1..(i - 1) : dtype \notin SupportedDTypes(op, order[j]),
           DOMAIN order \subseteq Nat \ {0}
    PROVE  Resolve(op, "Auto") = Resolution(order[i], dtype)
<1> DEFINE First(k) == /\ dtype \in SupportedDTypes(op, order[k])
                       /\ \A j \in 1..(k - 1) : ~(dtype \in SupportedDTypes(op, order[j]))
<1>1. PICK first : first = CHOOSE k \in DOMAIN order : First(k)
  OBVIOUS
<1>2. First(i)
  OBVIOUS
<1>3. first \in DOMAIN order /\ First(first)
  BY <1>1, <1>2
<1>4. first = i
  <2>1. first \in Nat \ {0} /\ i \in Nat \ {0}
    BY <1>3
  <2>2. ~(first < i)
    BY <1>3, <2>1
  <2>3. ~(i < first)
    BY <1>3, <2>1
  <2> QED
    BY <2>1, <2>2, <2>3
<1>5. Resolve(op, "Auto") = Resolution(order[first], dtype)
  BY <1>1 DEF Resolve
<1> QED
  BY <1>4, <1>5

LEMMA ResolveFirst ==
    ASSUME dtype \in DType
    PROVE  /\ \A op \in Binary : Resolve(op, "Auto") = Resolution(IF dtype = "int8" THEN "Custom" ELSE "CuTensor", dtype)
           /\ Resolve("MatMul", "Auto") = Resolution(IF dtype = "int8" THEN "Custom" ELSE "CuBLAS", dtype)
           /\ Resolve("Softmax", "Auto") = Resolution(IF dtype = "int8" THEN "Custom" ELSE "CuDNN", dtype)
           /\ Resolve("Gelu", "Auto") = Resolution("Custom", dtype)
           /\ Resolve("Contiguous", "Auto") = Resolution("Custom", dtype)
<1>1. /\ \A op : dtype \in SupportedDTypes(op, "Custom")
      /\ \A op \in GeneratedOps, backend \in {"CuTensor", "CuBLAS", "CuDNN"} :
            dtype \in SupportedDTypes(op, backend) <=> dtype # "int8"
  BY DEF SupportedDTypes, DType, Floats, GeneratedOps, Binary
<1>2. ASSUME NEW op \in Binary
      PROVE  Resolve(op, "Auto") = Resolution(IF dtype = "int8" THEN "Custom" ELSE "CuTensor", dtype)
  <2>1. Preference(op) = <<"CuTensor", "Custom">>
    BY PreferenceOf DEF Binary
  <2>2. op \in GeneratedOps
    BY DEF GeneratedOps
  <2>3. CASE dtype = "int8"
    BY <1>1, <2>1, <2>2, <2>3, ResolveAuto
  <2>4. CASE dtype # "int8"
    BY <1>1, <2>1, <2>2, <2>4, ResolveAuto
  <2> QED
    BY <2>3, <2>4
<1>3. Resolve("MatMul", "Auto") = Resolution(IF dtype = "int8" THEN "Custom" ELSE "CuBLAS", dtype)
  <2>1. Preference("MatMul") = <<"CuBLAS", "CuTensor", "Custom">> /\ "MatMul" \in GeneratedOps
    BY PreferenceOf DEF GeneratedOps
  <2>2. CASE dtype = "int8"
    BY <1>1, <2>1, <2>2, ResolveAuto
  <2>3. CASE dtype # "int8"
    BY <1>1, <2>1, <2>3, ResolveAuto
  <2> QED
    BY <2>2, <2>3
<1>4. Resolve("Softmax", "Auto") = Resolution(IF dtype = "int8" THEN "Custom" ELSE "CuDNN", dtype)
  <2>1. Preference("Softmax") = <<"CuDNN", "Custom">> /\ "Softmax" \in GeneratedOps
    BY PreferenceOf DEF GeneratedOps
  <2>2. CASE dtype = "int8"
    BY <1>1, <2>1, <2>2, ResolveAuto
  <2>3. CASE dtype # "int8"
    BY <1>1, <2>1, <2>3, ResolveAuto
  <2> QED
    BY <2>2, <2>3
<1>5. Resolve("Gelu", "Auto") = Resolution("Custom", dtype)
  BY <1>1, PreferenceOf, ResolveAuto
<1>6. Resolve("Contiguous", "Auto") = Resolution("Custom", dtype)
  BY <1>1, PreferenceOf, ResolveAuto
<1> QED
  BY <1>2, <1>3, <1>4, <1>5, <1>6

\* Whoever it is, it is a back end.
LEMMA ResolveTyped ==
    ASSUME dtype \in DType, NEW op \in Dispatched, NEW requested \in Backend
    PROVE  Resolve(op, requested).backend \in Backend
<1>1. CASE requested = "Auto"
  <2>1. op \in Binary \/ op \in {"MatMul", "Softmax", "Gelu", "Contiguous"}
    BY DEF Dispatched, GeneratedOps
  <2>2. \E backend \in Backend : Resolve(op, "Auto") = Resolution(backend, dtype)
    BY <2>1, ResolveFirst DEF Backend
  <2> QED
    BY <1>1, <2>2 DEF Resolution
<1>2. CASE requested # "Auto"
  <2>1. Resolve(op, requested) = IF dtype \in SupportedDTypes(op, requested)
                                 THEN Resolution(requested, dtype) ELSE Downgrade(op, requested)
    BY <1>2, Zenon DEF Resolve
  <2>2. "Custom" \in Backend
    BY DEF Backend
  <2> QED
    BY <2>1, <2>2 DEF Downgrade, Resolution
<1> QED
  BY <1>1, <1>2

-----------------------------------------------------------------------------
(***************************************************************************)
(* Calls.                                                                  *)
(***************************************************************************)
\* How a call of op may end, and what it may leave.
Answers(op, requested, by, x, y, status) ==
    /\ \/ tensors' = tensors /\ buffers' = buffers
       \/ \E h \in Handles : Makes(tensors[h].shape)
    /\ \E shape, effect : Called(op, requested, by, x, y, shape, status, effect)

\* What a call of op may do.
Outcome(op, requested, x, y) ==
    /\ \E by \in Backend, status \in Status : Answers(op, requested, by, x, y, status)
    /\ \/ gpu' = gpu /\ dtype' = dtype /\ loaded' = loaded /\ modules' = modules
       \/ \E kernel \in Kernels : GetFunction(kernel)

LEMMA AnswerFields ==
    ASSUME NEW op, NEW requested, NEW by, NEW x, NEW y, NEW status,
           Answers(op, requested, by, x, y, status)
    PROVE  /\ call'.op = op /\ call'.requested = requested /\ call'.by = by
           /\ call'.x = x /\ call'.y = y /\ call'.status = status
BY DEF Answers, Called

LEMMA FailsAnswers ==
    ASSUME NEW op, NEW requested, NEW by, NEW x, NEW y, NEW status,
           Fails(op, requested, by, x, y, status)
    PROVE  Answers(op, requested, by, x, y, status)
BY DEF Fails, Answers

LEMMA ReturnsAnswers ==
    ASSUME NEW op, NEW requested, NEW by, NEW x \in Handles, NEW y, NEW effect,
           Returns(op, requested, by, x, y, tensors[x].shape, effect)
    PROVE  Answers(op, requested, by, x, y, "ok")
BY DEF Returns, Answers, Makes

\* No one computes it: a generated operation on INT8, or one that is left to a
\* kernel on a device that kernels are not compiled for.
Unreached(op) ==
    \/ op \in GeneratedOps /\ dtype = "int8"
    \/ gpu \notin Architectures /\ op \in {"Gelu", "Contiguous"}

\* For these Auto finds no one, and for no others.
LEMMA DispatchOutcome ==
    ASSUME dtype \in DType, NEW op \in Dispatched, NEW requested \in Backend,
           NEW x \in Handles, NEW y \in Handles, Dispatch(op, requested, x, y, tensors[x].shape)
    PROVE  /\ Outcome(op, requested, x, y)
           /\ requested = "Auto" => (call'.status = "threw" <=> Unreached(op))
<1>1. PICK r : r = Resolve(op, requested) /\ r.backend \in Backend
  BY ResolveTyped
<1>2. PICK kernel \in Kernels : kernel = KernelOf(op)
  BY KernelOfOp DEF Kernels, Dispatched, GeneratedOps, Binary
<1> DEFINE Ends(by, status) == Answers(op, requested, by, x, y, status)
<1>3. ASSUME NEW by \in Backend, NEW threw \in BOOLEAN,
             IF threw THEN Ends(by, "threw") ELSE Ends(by, "fault") \/ Ends(by, "ok")
      PROVE  /\ \E status \in Status : Ends(by, status)
             /\ call'.status = "threw" <=> threw
  <2>1. \A status : Ends(by, status) => call'.status = status
    BY AnswerFields
  <2> HIDE DEF Ends
  <2> QED
    BY <1>3, <2>1 DEF Status
<1>4. CASE r.backend = "Custom"
  <2>1. /\ GetFunction(kernel)
        /\ IF ~HasFunction(kernel) THEN Ends("Custom", "threw")
           ELSE Ends("Custom", "fault") \/ Ends("Custom", "ok")
    <3> HIDE DEF Ends
    <3>1. \A status : Fails(op, requested, "Custom", x, y, status) => Ends("Custom", status)
      BY FailsAnswers DEF Ends
    <3>2. \A effect : Returns(op, requested, "Custom", x, y, tensors[x].shape, effect) => Ends("Custom", "ok")
      BY ReturnsAnswers DEF Ends
    <3> QED
      BY <1>1, <1>2, <1>4, <3>1, <3>2 DEF Dispatch
  <2>2. Outcome(op, requested, x, y) /\ (call'.status = "threw" <=> ~HasFunction(kernel))
    <3>1. PICK threw \in BOOLEAN : threw = ~HasFunction(kernel) /\ "Custom" \in Backend
      BY DEF Backend
    <3>2. /\ \E status \in Status : Ends("Custom", status)
          /\ call'.status = "threw" <=> threw
      <4> HIDE DEF Ends
      <4> QED
        BY <1>3, <2>1, <3>1
    <3> QED
      BY <2>1, <3>1, <3>2 DEF Outcome, Answers
  <2>3. ASSUME requested = "Auto" PROVE HasFunction(kernel) <=> ~Unreached(op)
    <3>1. CASE op \in Binary \cup {"MatMul", "Softmax"}
      <4>1. dtype = "int8" /\ op \in GeneratedOps
        BY <1>1, <1>4, <2>3, <3>1, ResolveFirst DEF Resolution, GeneratedOps
      <4>2. ~HasFunction(kernel)
        BY <1>2, <3>1, <4>1, KernelOfOp, FunctionOf DEF Binary
      <4> QED
        BY <4>1, <4>2 DEF Unreached
    <3>2. CASE op = "Gelu"
      BY <1>2, <3>2, KernelOfOp, FunctionOf DEF GeneratedOps, Unreached
    <3>3. CASE op = "Contiguous"
      BY <1>2, <3>3, KernelOfOp, FunctionOf DEF GeneratedOps, Binary, Unreached
    <3> QED
      BY <3>1, <3>2, <3>3 DEF Dispatched, GeneratedOps
  <2> QED
    BY <2>2, <2>3
<1>5. CASE r.backend # "Custom"
  <2>1. /\ gpu' = gpu /\ dtype' = dtype /\ loaded' = loaded /\ modules' = modules
        /\ IF <<op, r.backend, r.compute>> \notin Registered THEN Ends(r.backend, "threw")
           ELSE Ends(r.backend, "fault") \/ Ends(r.backend, "ok")
    <3> HIDE DEF Ends
    <3>1. \A status : Fails(op, requested, r.backend, x, y, status) => Ends(r.backend, status)
      BY FailsAnswers DEF Ends
    <3>2. \A effect : Returns(op, requested, r.backend, x, y, tensors[x].shape, effect) => Ends(r.backend, "ok")
      BY ReturnsAnswers DEF Ends
    <3> QED
      BY <1>1, <1>5, <3>1, <3>2 DEF Dispatch, dispatch
  <2>2. Outcome(op, requested, x, y) /\ (call'.status = "threw" <=> <<op, r.backend, r.compute>> \notin Registered)
    <3>1. PICK threw \in BOOLEAN : threw = (<<op, r.backend, r.compute>> \notin Registered)
      OBVIOUS
    <3>2. /\ \E status \in Status : Ends(r.backend, status)
          /\ call'.status = "threw" <=> threw
      <4> HIDE DEF Ends
      <4> QED
        BY <1>1, <1>3, <2>1, <3>1
    <3> QED
      BY <1>1, <2>1, <3>1, <3>2 DEF Outcome
  <2>3. ASSUME requested = "Auto"
        PROVE  <<op, r.backend, r.compute>> \in Registered /\ ~Unreached(op)
    <3>1. op \in Binary \cup {"MatMul", "Softmax"} /\ dtype # "int8"
      BY <1>1, <1>5, <2>3, ResolveFirst DEF Resolution, Dispatched, GeneratedOps
    <3>2. dtype \in Floats /\ ~Unreached(op)
      BY <3>1 DEF DType, Floats, Unreached, Binary
    <3>3. CASE op \in Binary
      <4>1. r.backend = "CuTensor" /\ r.compute = dtype
        BY <1>1, <2>3, <3>1, <3>3, ResolveFirst DEF Resolution
      <4> QED
        BY <3>1, <3>2, <3>3, <4>1 DEF Registered, RegisteredCuTensor, Binary
    <3>4. CASE op = "MatMul"
      <4>1. r.backend = "CuBLAS" /\ r.compute = dtype
        BY <1>1, <2>3, <3>1, <3>4, ResolveFirst DEF Resolution
      <4> QED
        BY <3>1, <3>2, <3>4, <4>1 DEF Registered, RegisteredCuBLAS
    <3>5. CASE op = "Softmax"
      <4>1. r.backend = "CuDNN" /\ r.compute = dtype
        BY <1>1, <2>3, <3>1, <3>5, ResolveFirst DEF Resolution
      <4> QED
        BY <3>1, <3>2, <3>5, <4>1 DEF Registered, RegisteredCuDNN
    <3> QED
      BY <3>1, <3>3, <3>4, <3>5
  <2> QED
    BY <2>2, <2>3
<1> QED
  BY <1>4, <1>5

\* What AutoReachesWhatExists says of a call, with its tensors.
Reaches(op, requested, x, y, status) ==
    requested = "Auto" /\ op \in Dispatched =>
        (status = "threw" <=> \/ op \in GeneratedOps /\ ~ChecksPass(op, tensors[x], tensors[y])
                              \/ op \in GeneratedOps /\ dtype = "int8"
                              \/ /\ gpu \notin Architectures
                                 /\ op = "Gelu" \/ (op = "Contiguous" /\ ~IsContiguous(tensors[x])))

LEMMA CallOutcome ==
    ASSUME ViewsInv, dtype \in DType, Call
    PROVE  \E op \in Ops, requested \in Backend, x, y \in Handles :
              Outcome(op, requested, x, y) /\ Reaches(op, requested, x, y, call'.status)
<1>b. Backends \subseteq Backend /\ "Auto" \in Backend
  BY DispatchAssumption DEF Backend
<1>1. CASE \E op \in GeneratedOps, requested \in Backends, x, y \in Handles : Generated(op, requested, x, y)
  <2>1. PICK op \in GeneratedOps, requested \in Backends, x \in Handles, y \in Handles :
           Generated(op, requested, x, y)
    BY <1>1
  <2>2. op \in Ops /\ op \in Dispatched /\ requested \in Backend
    BY <1>b DEF Ops, Dispatched
  <2>3. Outcome(op, requested, x, y) /\ Reaches(op, requested, x, y, call'.status)
    <3>1. CASE ~ChecksPass(op, tensors[x], tensors[y])
      <4>1. Fails(op, requested, "Auto", x, y, "threw") /\ UNCHANGED dispatch
        BY <2>1, <3>1 DEF Generated
      <4> QED
        BY <1>b, <3>1, <4>1, FailsAnswers, AnswerFields DEF Outcome, Reaches, dispatch, Status
    <3>2. CASE ChecksPass(op, tensors[x], tensors[y])
      <4>1. Dispatch(op, requested, x, y, tensors[x].shape)
        BY <2>1, <3>2 DEF Generated
      <4>2. /\ Outcome(op, requested, x, y)
            /\ requested = "Auto" => (call'.status = "threw" <=> Unreached(op))
        BY <2>2, <4>1, DispatchOutcome
      <4>3. op # "Contiguous"
        BY DEF GeneratedOps, Binary
      <4> QED
        BY <2>1, <3>2, <4>2, <4>3 DEF Reaches, Unreached
    <3> QED
      BY <3>1, <3>2
  <2> QED
    BY <2>2, <2>3
<1>2. CASE \E requested \in Backends, x \in Handles : Contiguous(requested, x)
  <2>1. PICK requested \in Backends, x \in Handles : Contiguous(requested, x)
    BY <1>2
  <2>2. "Contiguous" \in Ops /\ "Contiguous" \in Dispatched /\ requested \in Backend /\ "Contiguous" \notin GeneratedOps
    BY <1>b DEF Ops, Dispatched, GeneratedOps, Binary
  <2>3. Outcome("Contiguous", requested, x, x) /\ Reaches("Contiguous", requested, x, x, call'.status)
    <3>1. CASE IsContiguous(tensors[x])
      <4>1. /\ \E shape, effect : Called("Contiguous", requested, "Auto", x, x, shape, "ok", effect)
            /\ UNCHANGED <<tensors, buffers, dispatch>>
        BY <2>1, <3>1 DEF Contiguous
      <4>2. Answers("Contiguous", requested, "Auto", x, x, "ok") /\ "ok" \in Status
        BY <4>1 DEF Answers, Status
      <4>3. call'.status = "ok"
        BY <4>2, AnswerFields
      <4>4. Outcome("Contiguous", requested, x, x)
        BY <1>b, <4>1, <4>2 DEF Outcome, dispatch
      <4> QED
        BY <2>2, <3>1, <4>3, <4>4 DEF Reaches
    <3>2. CASE ~IsContiguous(tensors[x])
      <4>1. Dispatch("Contiguous", requested, x, x, tensors[x].shape)
        BY <2>1, <3>2 DEF Contiguous
      <4>2. /\ Outcome("Contiguous", requested, x, x)
            /\ requested = "Auto" => (call'.status = "threw" <=> Unreached("Contiguous"))
        BY <2>2, <4>1, DispatchOutcome
      <4> QED
        BY <2>2, <3>2, <4>2 DEF Reaches, Unreached
    <3> QED
      BY <3>1, <3>2
  <2> QED
    BY <2>2, <2>3
<1>3. CASE \E x \in Handles : ToHost(x)
  <2>1. PICK x \in Handles : ToHost(x)
    BY <1>3
  <2>2. "ToHost" \in Ops /\ "ToHost" \notin Dispatched
    BY DEF Ops, Dispatched, GeneratedOps, Binary
  <2>3. /\ \E status \in Status : \E shape, effect : Called("ToHost", "Auto", "Auto", x, x, shape, status, effect)
        /\ UNCHANGED <<tensors, buffers, dispatch>>
    BY <2>1 DEF ToHost, Status
  <2>4. Outcome("ToHost", "Auto", x, x)
    BY <1>b, <2>3 DEF Answers, Outcome, dispatch
  <2> QED
    BY <1>b, <2>2, <2>4 DEF Reaches
<1> QED
  BY <1>1, <1>2, <1>3 DEF Call

-----------------------------------------------------------------------------
(***************************************************************************)
(* Launches: the pieces that cover a size, the threads of a grid, and how  *)
(* many of them a word counts.                                             *)
(***************************************************************************)
\* Words and warps are powers of two.
LEMMA Launched ==
    /\ BlockThreads \in Extents /\ TileM \in Extents /\ TileN \in Extents /\ GroupSizeM \in Extents
    /\ LaneBits \in Nat /\ Lanes \in Extents
    /\ Word \in Extents /\ Word = (Word \div 2) * 2
    /\ Word \div 2 \in Extents /\ (Word \div 2) % BlockThreads = 0
<1>1. LaneBits \in Nat /\ WordBits \in Nat /\ WordBits > 0
  BY LaunchAssumption
<1>2. PICK p : p = [n \in 0..(LaneBits + WordBits) + 1 |-> 2^n]
  OBVIOUS
<1>3. \A n \in 0..(LaneBits + WordBits) : p[n] \in Nat /\ p[n + 1] = 2 * p[n]
  <2> SUFFICES ASSUME NEW n \in 0..(LaneBits + WordBits) PROVE p[n] \in Nat /\ p[n + 1] = 2 * p[n]
    OBVIOUS
  <2>1. 2^n \in Nat /\ 2^(n + 1) = 2 * 2^n
    BY PowersAssumption
  <2>2. n \in 0..(LaneBits + WordBits) + 1 /\ n + 1 \in 0..(LaneBits + WordBits) + 1
    BY <1>1
  <2>3. p[n] = 2^n /\ p[n + 1] = 2^(n + 1)
    BY <1>2, <2>2
  <2> QED
    BY <2>1, <2>3
<1>4. p[0] = 1
  BY <1>1, <1>2
<1>5. \A n \in 0..(LaneBits + WordBits) : p[n] > 0
  <2> DEFINE N == {n \in 0..(LaneBits + WordBits) : ~(p[n] > 0)}
  <2> SUFFICES ASSUME N # {} PROVE FALSE
    OBVIOUS
  <2>1. N \in SUBSET Nat
    OBVIOUS
  <2>2. PICK k \in N : \A m \in N : ~(m < k)
    BY <2>1, Least
  <2>3. k # 0
    BY <1>4
  <2>4. PICK j \in 0..(LaneBits + WordBits) : k = j + 1
    BY <2>3, <1>1
  <2>5. p[j] > 0
    BY <2>2, <2>4
  <2> QED
    BY <1>3, <2>2, <2>4, <2>5
<1>6. Lanes = p[LaneBits] /\ Word = p[WordBits]
  BY <1>1, <1>2 DEF Lanes, Word
<1>7. PICK h : h = p[WordBits - 1] /\ h \in Nat /\ h > 0 /\ Word = 2 * h
  <2>1. WordBits - 1 \in 0..(LaneBits + WordBits) /\ (WordBits - 1) + 1 = WordBits
    BY <1>1
  <2> QED
    BY <1>3, <1>5, <1>6, <2>1
<1>8. (2 * h) \div 2 = h
  BY <1>7
<1> QED
  BY <1>1, <1>3, <1>5, <1>6, <1>7, <1>8, LaunchAssumption DEF Extents

\* The pieces of size d that cover n elements.
LEMMA Covers ==
    ASSUME NEW n \in Nat, NEW d \in Extents
    PROVE  /\ CeilDiv(n, d) \in Nat
           /\ CeilDiv(n, d) * d \in Nat
           /\ CeilDiv(n, d) * d >= n
           /\ CeilDiv(n, d) * d < n + d
<1>1. PICK m \in Nat : m = n + d - 1
  BY DEF Extents
<1>2. PICK q \in Nat, r \in 0..(d - 1) : q = m \div d /\ m = q * d + r
  BY DivMod
<1>3. q * d \in Nat
  BY DEF Extents
<1> QED
  BY <1>1, <1>2, <1>3 DEF CeilDiv, Extents

\* What lies in piece q of size d lies before the end of n, if the piece does.
LEMMA PieceOf ==
    ASSUME NEW n \in Nat, NEW d \in Extents, NEW i \in 0..(n - 1)
    PROVE  i \div d \in 0..(CeilDiv(n, d) - 1)
<1>1. PICK c \in Nat : c = CeilDiv(n, d) /\ c * d >= n /\ c * d < n + d
  BY Covers
<1>2. PICK q \in Nat, r \in 0..(d - 1) : q = i \div d /\ i = q * d + r
  BY DivMod
<1>3. ASSUME q >= c PROVE FALSE
  <2>1. (q - c) * d >= 0
    BY <1>3 DEF Extents
  <2>2. (q - c) * d = q * d - c * d
    BY DEF Extents
  <2>3. q * d \in Nat /\ c * d \in Nat
    BY DEF Extents
  <2> QED
    BY <1>1, <1>2, <2>1, <2>2, <2>3
<1> QED
  BY <1>1, <1>2, <1>3

\* Every element has its thread, and no other passes the test of the index.
LEMMA BelowThreads ==
    ASSUME NEW n \in Nat
    PROVE  Below(Threads(n), n) = 0..(n - 1)
<1>1. PICK k \in Nat : k = CeilDiv(n, BlockThreads) * BlockThreads /\ k >= n
  BY Launched, Covers
<1> QED
  BY <1>1 DEF Below, Threads

\* The threads of a grid do not go past a multiple of the size of a block.
LEMMA ThreadsWithin ==
    ASSUME NEW n \in Nat, NEW q \in Nat, NEW room \in Nat,
           room = q * BlockThreads, n <= room
    PROVE  \A x \in Threads(n) : x \in 0..(room - 1)
<1>1. PICK d \in Extents : d = BlockThreads
  BY Launched
<1>2. PICK c \in Nat : c = CeilDiv(n, d) /\ c * d < n + d
  BY Covers
<1>3. c <= q
  <2>1. SUFFICES ASSUME c >= q + 1 PROVE FALSE
    OBVIOUS
  <2>2. (c - 1 - q) * d >= 0
    BY <2>1 DEF Extents
  <2>3. (c - 1 - q) * d = c * d - d - q * d
    BY DEF Extents
  <2>4. c * d \in Nat /\ q * d \in Nat
    BY DEF Extents
  <2> QED
    BY <1>1, <1>2, <2>2, <2>3, <2>4 DEF Extents
<1>4. c * d <= room
  <2>1. (q - c) * d >= 0
    BY <1>3 DEF Extents
  <2>2. (q - c) * d = q * d - c * d
    BY DEF Extents
  <2>3. c * d \in Nat /\ q * d \in Nat
    BY DEF Extents
  <2> QED
    BY <1>1, <2>1, <2>2, <2>3
<1>5. c * d \in Nat
  BY DEF Extents
<1> QED
  BY <1>1, <1>2, <1>4, <1>5 DEF Threads

\* gelu and contiguous count every thread that they should.
LEMMA IntsCount ==
    ASSUME NEW n \in Nat
    PROVE  /\ n <= Word \div 2 => Below({Signed(x) : x \in Threads(n)}, n) = 0..(n - 1)
           /\ n <= Word => Below({Unsigned(x) : x \in Threads(n)}, n) = 0..(n - 1)
<1>1. PICK h \in Extents, d \in Extents, w \in Extents :
         h = Word \div 2 /\ d = BlockThreads /\ w = Word /\ w = h * 2 /\ h % d = 0
  BY Launched
<1>2. PICK q \in Nat : h = q * d
  <2>1. h \in Nat
    BY DEF Extents
  <2>2. PICK q \in Nat : h = q * d + (h % d)
    BY <2>1, DivMod
  <2>3. q * d \in Nat
    BY DEF Extents
  <2>4. h = q * d
    <3>1. PICK z : z = q * d /\ z \in Nat
      BY <2>3
    <3>2. h = z + 0
      BY <1>1, <2>2, <3>1
    <3> QED
      BY <3>1, <3>2
  <2> QED
    BY <2>4
<1>3. w = (2 * q) * d /\ 2 * q \in Nat
  BY <1>1, <1>2 DEF Extents
<1>s. \A x \in 0..(w - 1) : x % w = x
  <2> SUFFICES ASSUME NEW x \in 0..(w - 1) PROVE x % w = x
    OBVIOUS
  <2>1. x \in Nat /\ x = 0 * w + x
    BY DEF Extents
  <2> QED
    BY <2>1, DivUnique
<1>4. ASSUME n <= h
      PROVE  Below({Signed(x) : x \in Threads(n)}, n) = 0..(n - 1)
  <2>1. \A x \in Threads(n) : x \in 0..(h - 1)
    BY <1>1, <1>2, <1>4, ThreadsWithin DEF Extents
  <2>2. \A x \in Threads(n) : Signed(x) = x
    BY <1>1, <1>s, <2>1 DEF Signed, Extents
  <2>3. {Signed(x) : x \in Threads(n)} = Threads(n)
    BY <2>2
  <2> QED
    BY <2>3, BelowThreads
<1>5. ASSUME n <= w
      PROVE  Below({Unsigned(x) : x \in Threads(n)}, n) = 0..(n - 1)
  <2>1. \A x \in Threads(n) : x \in 0..(w - 1)
    BY <1>1, <1>3, <1>5, ThreadsWithin DEF Extents
  <2>2. \A x \in Threads(n) : Unsigned(x) = x
    BY <1>1, <1>s, <2>1 DEF Unsigned
  <2>3. {Unsigned(x) : x \in Threads(n)} = Threads(n)
    BY <2>2
  <2> QED
    BY <2>3, BelowThreads
<1> QED
  BY <1>1, <1>4, <1>5

-----------------------------------------------------------------------------
(***************************************************************************)
(* The elementwise kernels, and the digits that the kernel of contiguous   *)
(* takes off an index one by one.                                          *)
(***************************************************************************)
\* The elements of a contiguous tensor, from data() on.
LEMMA DenseAt ==
    ASSUME NEW t \in Tensor, Denotes(t), IsContiguous(t), NEW i \in 0..(Numel(t.shape) - 1)
    PROVE  At(t, i, 1) = t.elems[i + 1]
<1>1. Dense(t)
  BY DenotesDense
<1>2. PICK N \in Nat : N = Numel(t.shape)
  BY NumelNat DEF Tensor
<1>3. t.offset \in Nat /\ i + 1 \in 1..N
  BY <1>2 DEF Tensor
<1>4. t.elems[i + 1] = t.offset + ((i + 1) - 1)
  BY <1>1, <1>2, <1>3 DEF Dense
<1> QED
  BY <1>2, <1>3, <1>4 DEF At

\* The elements of one tensor, and of two, in their order.
Copied(t) == [i \in 0..(Numel(t.shape) - 1) |-> <<<<t.elems[i + 1]>>>>]
Paired(a, b) == [i \in 0..(Numel(a.shape) - 1) |-> <<<<a.elems[i + 1], b.elems[i + 1]>>>>]

LEMMA BinaryRight ==
    ASSUME NEW a \in Tensor, NEW b \in Tensor, Denotes(a), Denotes(b),
           IsContiguous(a), IsContiguous(b), a.shape = b.shape
    PROVE  BinaryKernel(a, b) = Paired(a, b)
<1>1. PICK N \in Nat : N = Numel(a.shape) /\ N = Numel(b.shape)
  BY NumelNat DEF Tensor
<1>2. Below(Threads(N), N) = 0..(N - 1)
  BY BelowThreads
<1>3. \A i \in 0..(N - 1) : At(a, i, 1) = a.elems[i + 1] /\ At(b, i, 1) = b.elems[i + 1]
  BY <1>1, DenseAt
<1> QED
  BY <1>1, <1>2, <1>3 DEF BinaryKernel, Paired

LEMMA GeluRight ==
    ASSUME NEW a \in Tensor, Denotes(a), IsContiguous(a), Numel(a.shape) <= Word \div 2
    PROVE  GeluKernel(a) = Copied(a)
<1>1. PICK N \in Nat : N = Numel(a.shape)
  BY NumelNat DEF Tensor
<1>2. Below({Signed(x) : x \in Threads(N)}, N) = 0..(N - 1)
  BY <1>1, IntsCount
<1>3. \A i \in 0..(N - 1) : At(a, i, 1) = a.elems[i + 1]
  BY <1>1, DenseAt
<1> QED
  BY <1>1, <1>2, <1>3 DEF GeluKernel, Copied

\* g folds the digits of the dimensions in S.
Smallest(s) == Min(s)
Digits(t) == [d \in DOMAIN t.shape |-> d]
Walks(g, t, i, S) ==
    g = [s \in SUBSET S |->
            IF s = {} THEN [rest |-> i, src |-> 0]
            ELSE [rest |-> g[s \ {Smallest(s)}].rest \div t.shape[Digits(t)[Smallest(s)]],
                  src |-> g[s \ {Smallest(s)}].src
                          + (g[s \ {Smallest(s)}].rest % t.shape[Digits(t)[Smallest(s)]])
                            * t.strides[Digits(t)[Smallest(s)]]]]

LEMMA WalkedBy ==
    ASSUME NEW t, NEW i
    PROVE  SourceIndex(t, i) = (CHOOSE g : Walks(g, t, i, DOMAIN Digits(t)))[DOMAIN Digits(t)].src
BY DEF SourceIndex, FoldRight, MapThenFoldSet, Walks, Digits, Smallest

LEMMA SmallestIn ==
    ASSUME NEW n \in Nat, NEW s \in SUBSET (1..n), s # {}
    PROVE  Smallest(s) \in s /\ \A y \in s : Smallest(s) <= y
<1>1. s \in SUBSET Nat
  OBVIOUS
<1>2. PICK k \in s : \A m \in s : ~(m < k)
  BY <1>1, Least
<1>3. \A y \in s : k <= y
  BY <1>1, <1>2
<1>4. Smallest(s) = CHOOSE z \in s : \A y \in s : z <= y
  BY DEF Smallest, Min
<1> QED
  BY <1>3, <1>4

LEMMA DivDiv ==
    ASSUME NEW m \in Nat, NEW s \in Extents, NEW d \in Extents
    PROVE  (m \div d) \div s = m \div (s * d)
<1>1. PICK q \in Nat, r \in 0..(d - 1) : q = m \div d /\ m = q * d + r
  BY DivMod
<1>2. PICK p \in Nat, x \in 0..(s - 1) : p = q \div s /\ q = p * s + x
  BY DivMod
<1>3. r + x * d \in 0..(s * d - 1) /\ s * d \in Extents
  BY ProductBelow DEF Extents
<1>4. m = p * (s * d) + (r + x * d)
  <2>1. q * d = (p * s + x) * d
    BY <1>2
  <2>2. (p * s + x) * d = (p * s) * d + x * d /\ (p * s) * d = p * (s * d)
    BY DEF Extents
  <2>3. q * d \in Nat /\ x * d \in Nat /\ p * (s * d) \in Nat
    BY DEF Extents
  <2> QED
    BY <1>1, <2>1, <2>2, <2>3
<1>5. PICK k \in Extents : k = s * d
  BY <1>3
<1>6. PICK y \in 0..(k - 1) : y = r + x * d
  BY <1>3, <1>5
<1>7. m = p * k + y
  BY <1>4, <1>5, <1>6
<1>8. m \div k = p
  BY <1>7, DivUnique
<1> QED
  BY <1>1, <1>2, <1>5, <1>8

\* What is left of the index, and where it leads so far.
Place == [rest : Nat, src : Nat]

LEMMA DimensionsFinite == \A n \in Nat : IsFiniteSet(1..n)
BY FS_Interval

LEMMA WalksExist ==
    ASSUME NEW t, NEW n \in Nat, Digits(t) = [d \in 1..n |-> d], NEW i \in Nat,
           \A d \in 1..n : t.shape[d] \in Extents /\ t.strides[d] \in Nat
    PROVE  \E g : Walks(g, t, i, 1..n) /\ \A s \in SUBSET (1..n) : g[s] \in Place
<1>0. IsFiniteSet(1..n)
  BY DimensionsFinite
<1> DEFINE S == 1..n
           pick == [s \in SUBSET S |-> Smallest(s)]
           base == [rest |-> i, src |-> 0]
           moved(d, v) == [rest |-> v.rest \div t.shape[d],
                           src |-> v.src + (v.rest % t.shape[d]) * t.strides[d]]
           op == [d \in S |-> [v \in Place |-> moved(d, v)]]
<1>1. Picks(pick, S) /\ IsFiniteSet(S)
  <2>1. \A s \in SUBSET S : s # {} => Smallest(s) \in s
    BY SmallestIn
  <2> QED
    BY <1>0, <2>1 DEF Picks
<1>2. ASSUME NEW d \in S, NEW v \in Place PROVE moved(d, v) \in Place
  <2>1. PICK e \in Extents, c \in Nat : e = t.shape[d] /\ c = t.strides[d]
    OBVIOUS
  <2>2. PICK q \in Nat, r \in Nat : q = v.rest /\ r = v.src
    BY DEF Place
  <2>3. q \div e \in Nat /\ q % e \in Nat
    <3>1. q % e \in 0..(e - 1) /\ q \div e \in Nat
      BY DivMod
    <3> QED
      BY <3>1 DEF Extents
  <2>4. (q % e) * c \in Nat
    BY <2>3, ProductNat
  <2>5. r + (q % e) * c \in Nat
    BY <2>4
  <2> QED
    BY <2>1, <2>2, <2>3, <2>5 DEF Place
<1> HIDE DEF moved
<1>3. op \in [S -> [Place -> Place]]
  BY <1>2
<1>4. \A x \in S : \A v \in Place : op[x][v] = moved(x, v)
  OBVIOUS
<1>5. \A s \in SUBSET S : pick[s] = Smallest(s)
  OBVIOUS
<1>o. base \in Place
  BY DEF Place
<1> HIDE DEF pick, op, base, S
<1>6. PICK g : Folds(g, pick, op, base, S)
  BY <1>1, FoldsExist
<1>7. \A s \in SUBSET S : g[s] \in Place
  BY <1>1, <1>3, <1>6, <1>o, FoldsTyped
<1> DEFINE folded(s) == IF s = {} THEN base ELSE op[Smallest(s)][g[s \ {Smallest(s)}]]
           walked(s) == IF s = {} THEN base ELSE moved(Smallest(s), g[s \ {Smallest(s)}])
<1>8. g = [s \in SUBSET S |-> folded(s)]
  BY <1>5, <1>6 DEF Folds
<1>9. \A s \in SUBSET S : s # {} => Smallest(s) \in S /\ s \ {Smallest(s)} \in SUBSET S
  BY <1>1, <1>5 DEF Picks
<1>10. \A s \in SUBSET S : folded(s) = walked(s)
  BY <1>4, <1>7, <1>9
<1>11. g = [s \in SUBSET S |-> walked(s)]
  <2> HIDE DEF folded, walked
  <2> QED
    BY <1>8, <1>10
<1>12. \A s \in SUBSET S : s # {} => Digits(t)[Smallest(s)] = Smallest(s)
  BY <1>9 DEF S
<1> DEFINE step(s) ==
            IF s = {} THEN [rest |-> i, src |-> 0]
            ELSE [rest |-> g[s \ {Smallest(s)}].rest \div t.shape[Digits(t)[Smallest(s)]],
                  src |-> g[s \ {Smallest(s)}].src
                          + (g[s \ {Smallest(s)}].rest % t.shape[Digits(t)[Smallest(s)]])
                            * t.strides[Digits(t)[Smallest(s)]]]
<1>13. \A s \in SUBSET S : walked(s) = step(s)
  BY <1>12 DEF moved, base
<1>14. Walks(g, t, i, S) <=> g = [s \in SUBSET S |-> step(s)]
  BY DEF Walks
<1> HIDE DEF walked, step
<1>15. Walks(g, t, i, S)
  BY <1>11, <1>13, <1>14
<1> QED
  BY <1>7, <1>15 DEF S

\* The digits taken off are those that the strides count.
LEMMA SourceLeads ==
    ASSUME NEW t \in Tensor, ~Broken(t), NEW i \in 0..(Numel(t.shape) - 1)
    PROVE  SourceIndex(t, i) = Dot(Index(t.shape, i), t.strides) /\ SourceIndex(t, i) \in Nat
<1>1. PICK s, n : /\ s = t.shape /\ s \in Seq(Extents) /\ n = Len(s) /\ n \in Nat /\ DOMAIN s = 1..n
                  /\ \A d \in 1..n : s[d] \in Extents
  BY LenProperties DEF Tensor
<1>2. PICK k : k = t.strides /\ \A d \in 1..n : k[d] \in Nat
  BY <1>1, LenProperties DEF Tensor, Broken
<1>3. PICK c : c = ContiguousStrides(s)
  OBVIOUS
<1>4. PICK w : Radix(s, c, w, n)
  BY <1>1, <1>3, StridesRadix
<1>r. /\ \A d \in 1..n : c[d] = w[d] /\ w[d] \in Extents /\ w[d - 1] = s[d] * w[d]
      /\ w[n] = 1
  BY <1>1, <1>4 DEF Radix
<1>i. i \in Nat
  BY <1>1, NumelNat
<1>5. PICK a : a = [d \in 1..n |-> (i \div c[d]) % s[d]]
  OBVIOUS
<1>6. Index(s, i) = a
  BY <1>1, <1>3, <1>5 DEF Index
<1>7. ASSUME NEW d \in 1..n PROVE a[d] = (i \div w[d]) % s[d] /\ a[d] \in Nat
  <2>1. i \div w[d] \in Nat
    BY <1>i, <1>r, DivMod
  <2>2. (i \div w[d]) % s[d] \in 0..(s[d] - 1)
    BY <1>1, <2>1, DivMod
  <2>3. a[d] = (i \div c[d]) % s[d] /\ c[d] = w[d] /\ s[d] \in Nat
    BY <1>1, <1>5, <1>r DEF Extents
  <2> QED
    BY <2>2, <2>3
<1>8. Numbers(a, k, n)
  BY <1>2, <1>7 DEF Numbers
<1>9. Digits(t) = [d \in 1..n |-> d] /\ DOMAIN Digits(t) = 1..n
  BY <1>1 DEF Digits
<1>10. PICK f : f = CHOOSE g : Walks(g, t, i, 1..n)
  OBVIOUS
<1>11. Walks(f, t, i, 1..n)
  <2>1. \E g : Walks(g, t, i, 1..n)
    BY <1>1, <1>2, <1>9, <1>i, WalksExist
  <2> QED
    BY <1>10, <2>1
<1>12. SourceIndex(t, i) = f[1..n].src
  BY <1>9, <1>10, WalkedBy
<1> DEFINE P == {j \in 0..n : /\ f[(j + 1)..n].rest = i \div w[j]
                              /\ f[(j + 1)..n].src = TailSum(a, k, n, j)}
<1>13. n \in P
  <2>1. (n + 1)..n = {} /\ {} \in SUBSET (1..n) /\ n \in 0..n
    BY <1>1
  <2>2. f[{}] = [rest |-> i, src |-> 0]
    BY <1>11, <2>1 DEF Walks
  <2>3. TailSum(a, k, n, n) = 0
    BY <1>1, <1>8, TailSums
  <2>4. i \div 1 = i
    BY <1>i
  <2> QED
    BY <1>r, <2>1, <2>2, <2>3, <2>4
<1>14. ASSUME NEW j \in 1..n, j \in P PROVE j - 1 \in P
  <2>1. PICK r : r = j..n
    OBVIOUS
  <2>2. r \in SUBSET (1..n) /\ r # {} /\ r \ {j} = (j + 1)..n /\ (j - 1) + 1 = j /\ j - 1 \in 0..n
    BY <1>1, <2>1
  <2>3. Smallest(r) = j
    <3>1. Smallest(r) \in r /\ \A y \in r : Smallest(r) <= y
      BY <1>1, <2>2, SmallestIn
    <3>2. j \in r /\ Smallest(r) \in Int
      BY <1>1, <2>1, <3>1
    <3> QED
      BY <2>1, <3>1, <3>2
  <2>4. Digits(t)[j] = j
    BY <1>9
  <2>5. PICK v : v = f[r \ {j}]
    OBVIOUS
  <2>6. /\ f[r].rest = v.rest \div s[j]
        /\ f[r].src = v.src + (v.rest % s[j]) * k[j]
    <3>1. f[r] = [rest |-> f[r \ {Smallest(r)}].rest \div t.shape[Digits(t)[Smallest(r)]],
                  src |-> f[r \ {Smallest(r)}].src
                          + (f[r \ {Smallest(r)}].rest % t.shape[Digits(t)[Smallest(r)]])
                            * t.strides[Digits(t)[Smallest(r)]]]
      BY <1>11, <2>2 DEF Walks
    <3> QED
      BY <1>1, <1>2, <2>3, <2>4, <2>5, <3>1
  <2>7. v.rest = i \div w[j] /\ v.src = TailSum(a, k, n, j)
    BY <1>14, <2>2, <2>5
  <2>8. (i \div w[j]) \div s[j] = i \div w[j - 1]
    BY <1>1, <1>i, <1>r, DivDiv
  <2>9. TailSum(a, k, n, j - 1) = TailSum(a, k, n, j) + a[j] * k[j]
    BY <1>1, <1>8, TailSums
  <2>10. a[j] = (i \div w[j]) % s[j]
    BY <1>7
  <2>11. f[r].rest = i \div w[j - 1] /\ f[r].src = TailSum(a, k, n, j - 1)
    BY <2>6, <2>7, <2>8, <2>9, <2>10
  <2> QED
    BY <2>1, <2>2, <2>11
<1>15. 0 \in P
  <2>1. P \in SUBSET (0..n)
    OBVIOUS
  <2> HIDE DEF P
  <2>2. P = 0..n
    BY <1>1, <1>13, <1>14, <2>1, FromLast
  <2> QED
    BY <1>1, <2>2
<1>16. f[1..n].src = TailSum(a, k, n, 0)
  BY <1>15
<1>17. Dot(a, k) = TailSum(a, k, n, 0) /\ TailSum(a, k, n, 0) \in Nat
  BY <1>1, <1>5, <1>8, DotIsTailSum, TailSums
<1> QED
  BY <1>1, <1>2, <1>6, <1>12, <1>16, <1>17

LEMMA ContiguousRight ==
    ASSUME NEW t \in Tensor, Denotes(t), ~Broken(t), Numel(t.shape) <= Word
    PROVE  ContiguousKernel(t) = Copied(t)
<1>1. PICK N \in Nat : N = Numel(t.shape)
  BY NumelNat DEF Tensor
<1>2. Below({Unsigned(x) : x \in Threads(N)}, N) = 0..(N - 1)
  BY <1>1, IntsCount
<1>3. ASSUME NEW i \in 0..(N - 1) PROVE At(t, SourceIndex(t, i), 1) = t.elems[i + 1]
  <2>1. SourceIndex(t, i) = Dot(Index(t.shape, i), t.strides) /\ SourceIndex(t, i) \in Nat
    BY <1>1, SourceLeads
  <2>2. i + 1 \in 1..N /\ (i + 1) - 1 = i
    BY <1>1
  <2>3. t.elems[i + 1] = t.offset + Dot(Index(t.shape, i), t.strides)
    BY <1>1, <2>2 DEF Denotes
  <2>4. t.offset \in Nat
    BY DEF Tensor
  <2> QED
    BY <2>1, <2>3, <2>4 DEF At
<1> QED
  BY <1>1, <1>2, <1>3 DEF ContiguousKernel, Copied

-----------------------------------------------------------------------------
(***************************************************************************)
(* Sequences of single elements, put together.                             *)
(***************************************************************************)
\* What holds at the first step and is kept by each holds at the last.
LEMMA FromFirst ==
    ASSUME NEW n \in Nat, NEW P \in SUBSET (0..n), 0 \in P,
           \A i \in 0..(n - 1) : i \in P => i + 1 \in P
    PROVE  P = 0..n
<1>1. SUFFICES ASSUME (0..n) \ P # {} PROVE FALSE
  OBVIOUS
<1>2. (0..n) \ P \in SUBSET Nat
  OBVIOUS
<1>3. PICK k \in (0..n) \ P : \A m \in (0..n) \ P : ~(m < k)
  BY <1>1, <1>2, Least
<1>4. k # 0 /\ k - 1 \in 0..(n - 1) /\ (k - 1) + 1 = k /\ k - 1 \in 0..n
  BY <1>3
<1>5. k - 1 \notin P
  BY <1>4
<1> QED
  BY <1>3, <1>4, <1>5

\* A sequence of sequences of one element each, put together.
Singles(x, m) == [c \in 1..m |-> [n \in 1..1 |-> x[c]]]
Flattens(f, seqs) ==
    f = [i \in 1..Len(seqs) |-> IF i = 1 THEN seqs[i] ELSE f[i - 1] \o seqs[i]]
FlatOf(seqs) == (CHOOSE f : Flattens(f, seqs))[Len(seqs)]

LEMMA FlattenBy ==
    ASSUME NEW seqs, Len(seqs) # 0
    PROVE  FlattenSeq(seqs) = FlatOf(seqs)
BY DEF FlattenSeq, Flattens, FlatOf

LEMMA FlattenSingles ==
    ASSUME NEW m \in Extents, NEW S, NEW x \in [1..m -> S]
    PROVE  FlattenSeq(Singles(x, m)) = [c \in 1..m |-> x[c]]
<1> DEFINE upto(i) == [j \in 1..i |-> x[j]]
<1>1. m \in Nat /\ m >= 1
  BY DEF Extents
<1>2. ASSUME NEW i \in 1..m PROVE upto(i) \in Seq(S) /\ Len(upto(i)) = i /\ [n \in 1..1 |-> x[i]] \in Seq(S) /\ Len([n \in 1..1 |-> x[i]]) = 1
  <2>1. i \in Nat /\ \A j \in 1..i : x[j] \in S
    BY <1>1
  <2>2. upto(i) \in Seq(S)
    BY <2>1, IsASeq
  <2>3. [n \in 1..1 |-> x[i]] \in Seq(S)
    BY <2>1
  <2> QED
    BY <2>1, <2>2, <2>3
<1>3. ASSUME NEW i \in 2..m PROVE upto(i - 1) \o [n \in 1..1 |-> x[i]] = upto(i)
  <2>1. PICK a, b, u : a = upto(i - 1) /\ b = [n \in 1..1 |-> x[i]] /\ u = upto(i)
    OBVIOUS
  <2>2. i \in 1..m /\ i - 1 \in 1..m
    BY <1>1
  <2>3. /\ a \in Seq(S) /\ Len(a) = i - 1 /\ b \in Seq(S) /\ Len(b) = 1
        /\ u \in Seq(S) /\ Len(u) = i
    BY <1>2, <2>1, <2>2
  <2>4. /\ \A j \in 1..(i - 1) : a[j] = x[j]
        /\ b[1] = x[i]
        /\ \A j \in 1..i : u[j] = x[j]
    BY <2>1
  <2> HIDE DEF upto
  <2>5. /\ a \o b \in Seq(S) /\ Len(a \o b) = (i - 1) + 1
        /\ \A j \in 1..(i - 1) + 1 : (a \o b)[j] = IF j <= i - 1 THEN a[j] ELSE b[j - (i - 1)]
    <3>1. /\ a \o b \in Seq(S) /\ Len(a \o b) = Len(a) + Len(b)
          /\ \A j \in 1..Len(a) + Len(b) : (a \o b)[j] = IF j <= Len(a) THEN a[j] ELSE b[j - Len(a)]
      BY <2>3, ConcatProperties
    <3> QED
      BY <2>3, <3>1
  <2>6. \A j \in 1..i : (a \o b)[j] = u[j]
    BY <2>2, <2>4, <2>5
  <2> QED
    BY <2>1, <2>2, <2>3, <2>5, <2>6, SeqEqual
<1>4. PICK seqs : seqs = Singles(x, m)
  OBVIOUS
<1>5. Len(seqs) = m /\ \A c \in 1..m : seqs[c] = [n \in 1..1 |-> x[c]]
  BY <1>1, <1>4 DEF Singles
<1>6. PICK h : h = [i \in 1..m |-> upto(i)]
  OBVIOUS
<1>7. Flattens(h, seqs)
  <2>1. \A i \in 1..m : h[i] = IF i = 1 THEN seqs[i] ELSE h[i - 1] \o seqs[i]
    <3> SUFFICES ASSUME NEW i \in 1..m PROVE h[i] = IF i = 1 THEN seqs[i] ELSE h[i - 1] \o seqs[i]
      OBVIOUS
    <3>1. CASE i = 1
      BY <1>5, <1>6, <3>1
    <3>2. CASE i # 1
      <4>1. i \in 2..m /\ i - 1 \in 1..m
        BY <1>1, <3>2
      <4> HIDE DEF upto
      <4> QED
        BY <1>3, <1>5, <1>6, <3>2, <4>1
    <3> QED
      BY <3>1, <3>2
  <2> QED
    BY <1>5, <1>6, <2>1 DEF Flattens
<1> HIDE DEF upto
<1>8. PICK f : f = CHOOSE g : Flattens(g, seqs)
  OBVIOUS
<1>9. Flattens(f, seqs)
  BY <1>7, <1>8
<1>10. f[m] = h[m]
  <2> DEFINE N == {i \in 1..m : f[i] # h[i]}
  <2>1. SUFFICES ASSUME N # {} PROVE FALSE
    BY <1>1
  <2>2. N \in SUBSET Nat
    OBVIOUS
  <2>3. PICK k \in N : \A j \in N : ~(j < k)
    BY <2>1, <2>2, Least
  <2>4. CASE k = 1
    BY <1>5, <1>7, <1>9, <2>3, <2>4 DEF Flattens
  <2>5. CASE k # 1
    <3>1. k - 1 \in 1..m /\ k - 1 < k
      BY <1>1, <2>3, <2>5
    <3>2. f[k - 1] = h[k - 1]
      BY <2>3, <3>1
    <3>3. f[k] = f[k - 1] \o seqs[k] /\ h[k] = h[k - 1] \o seqs[k]
      BY <1>5, <1>7, <1>9, <2>3, <2>5 DEF Flattens
    <3> QED
      BY <2>3, <3>2, <3>3
  <2> QED
    BY <2>4, <2>5
<1>11. h[m] = [c \in 1..m |-> x[c]]
  BY <1>1, <1>6 DEF upto
<1>12. FlattenSeq(seqs) = f[m]
  BY <1>1, <1>5, <1>8, FlattenBy DEF FlatOf
<1> QED
  BY <1>4, <1>10, <1>11, <1>12

-----------------------------------------------------------------------------
(***************************************************************************)
(* The reduction of a warp.                                                *)
(***************************************************************************)
\* How often a lane has each column, and one step of the reduction, as
\* WarpReduce has them; g folds the steps in S.
Lane == 0..(Lanes - 1)
Column(cols) == 0..(cols - 1)
Tallies(cols) == [Lane -> [Column(cols) -> Nat]]
Own(cols) ==
    [lane \in 0..(Lanes - 1) |->
        [c \in 0..(cols - 1) |-> IF c \in LaneColumns(lane, cols) THEN 1 ELSE 0]]
Partner(lane, offset) == IF lane + offset < Lanes THEN lane + offset ELSE lane
Shuffled(val, offset) ==
    [lane \in DOMAIN val |->
        [c \in DOMAIN val[lane] |-> val[lane][c] + val[Partner(lane, offset)][c]]]
Offsets == [i \in 1..LaneBits |-> 2^(LaneBits - i)]
Reduces(g, cols, S) ==
    g = [s \in SUBSET S |->
            IF s = {} THEN Own(cols)
            ELSE Shuffled(g[s \ {Greatest(s)}], Offsets[Greatest(s)])]

LEMMA ReducedBy ==
    ASSUME NEW cols
    PROVE  WarpReduce(cols) = (CHOOSE g : Reduces(g, cols, DOMAIN Offsets))[DOMAIN Offsets]
BY DEF WarpReduce, FoldLeft, MapThenFoldSet, Reduces, Own, Shuffled, Partner, Offsets, Greatest

\* The powers of two up to the number of lanes.
Powers(p) ==
    /\ \A i \in 0..LaneBits : p[i] \in Extents /\ p[i] <= Lanes
    /\ p[0] = Lanes /\ p[LaneBits] = 1
    /\ \A i \in 1..LaneBits : p[i - 1] = 2 * p[i] /\ Offsets[i] = p[i]

LEMMA PowersExist ==
    \E p : Powers(p)
<1>1. LaneBits \in Nat /\ WordBits \in Nat /\ Lanes \in Extents
  BY Launched, LaunchAssumption
<1>2. PICK q : q = [n \in 0..LaneBits |-> 2^n]
  OBVIOUS
<1>3. \A n \in 0..(LaneBits - 1) : q[n] \in Nat /\ q[n + 1] = 2 * q[n]
  <2> SUFFICES ASSUME NEW n \in 0..(LaneBits - 1) PROVE q[n] \in Nat /\ q[n + 1] = 2 * q[n]
    OBVIOUS
  <2>1. n \in 0..(LaneBits + WordBits) /\ n \in 0..LaneBits /\ n + 1 \in 0..LaneBits
    BY <1>1
  <2>2. 2^n \in Nat /\ 2^(n + 1) = 2 * 2^n
    BY <2>1, PowersAssumption
  <2>3. q[n] = 2^n /\ q[n + 1] = 2^(n + 1)
    BY <1>2, <2>1
  <2> QED
    BY <2>2, <2>3
<1>4. q[0] = 1 /\ q[LaneBits] = Lanes
  BY <1>1, <1>2 DEF Lanes
<1>5. \A i \in 1..LaneBits : Offsets[i] = q[LaneBits - i]
  <2> SUFFICES ASSUME NEW i \in 1..LaneBits PROVE Offsets[i] = q[LaneBits - i]
    OBVIOUS
  <2>1. LaneBits - i \in 0..LaneBits
    BY <1>1
  <2> QED
    BY <1>2, <2>1 DEF Offsets
<1> DEFINE p == [i \in 0..LaneBits |-> q[LaneBits - i]]
           P == {i \in 0..LaneBits : p[i] \in Extents /\ p[i] <= Lanes}
<1>6. ASSUME NEW i \in 1..LaneBits PROVE p[i - 1] = 2 * p[i] /\ p[i] \in Nat
  <2>1. LaneBits - i \in 0..(LaneBits - 1) /\ LaneBits - (i - 1) = (LaneBits - i) + 1
        /\ i - 1 \in 0..LaneBits /\ i \in 0..LaneBits
    BY <1>1
  <2> QED
    BY <1>3, <2>1
<1>7. 0 \in P
  <2>1. 0 \in 0..LaneBits /\ LaneBits - 0 = LaneBits
    BY <1>1
  <2>2. p[0] = Lanes
    BY <1>4, <2>1
  <2> QED
    BY <1>1, <2>1, <2>2 DEF Extents
<1>8. ASSUME NEW i \in 0..(LaneBits - 1), i \in P PROVE i + 1 \in P
  <2>1. i + 1 \in 1..LaneBits /\ (i + 1) - 1 = i /\ i + 1 \in 0..LaneBits
    BY <1>1
  <2>2. p[i] = 2 * p[i + 1] /\ p[i + 1] \in Nat
    BY <1>6, <2>1
  <2>3. p[i] \in Extents /\ p[i] <= Lanes
    BY <1>8
  <2> HIDE DEF p
  <2>4. p[i + 1] \in Extents /\ p[i + 1] <= Lanes
    BY <1>1, <2>2, <2>3 DEF Extents
  <2> QED
    BY <2>1, <2>4
<1>9. P = 0..LaneBits
  <2>1. P \in SUBSET (0..LaneBits)
    OBVIOUS
  <2> HIDE DEF P
  <2> QED
    BY <1>1, <1>7, <1>8, <2>1, FromFirst
<1>10. p[0] = Lanes /\ p[LaneBits] = 1
  <2>1. LaneBits - 0 = LaneBits /\ LaneBits - LaneBits = 0 /\ 0 \in 0..LaneBits /\ LaneBits \in 0..LaneBits
    BY <1>1
  <2> QED
    BY <1>4, <2>1
<1>11. \A i \in 1..LaneBits : Offsets[i] = p[i]
  BY <1>1, <1>5
<1>12. \A i \in 0..LaneBits : p[i] \in Extents /\ p[i] <= Lanes
  BY <1>9
<1> HIDE DEF p, P
<1> QED
  BY <1>6, <1>10, <1>11, <1>12 DEF Powers

LEMMA ShuffledTyped ==
    ASSUME NEW cols, NEW val \in Tallies(cols), NEW offset \in Nat
    PROVE  Shuffled(val, offset) \in Tallies(cols)
<1>1. \A lane \in Lane, c \in Column(cols) : val[lane][c] \in Nat
  BY DEF Tallies
<1>2. \A lane \in Lane : Partner(lane, offset) \in Lane
  BY Launched DEF Partner, Lane, Extents
<1>3. \A lane \in Lane, c \in Column(cols) : val[lane][c] + val[Partner(lane, offset)][c] \in Nat
  BY <1>1, <1>2
<1>4. Shuffled(val, offset) =
        [lane \in Lane |-> [c \in Column(cols) |-> val[lane][c] + val[Partner(lane, offset)][c]]]
  <2>1. DOMAIN val = Lane /\ \A lane \in Lane : DOMAIN val[lane] = Column(cols)
    BY DEF Tallies
  <2> QED
    BY <2>1 DEF Shuffled
<1> QED
  BY <1>3, <1>4 DEF Tallies

LEMMA ReducesExist ==
    ASSUME NEW cols
    PROVE  \E g : Reduces(g, cols, 1..LaneBits)
<1> DEFINE S == 1..LaneBits
           pick == [s \in SUBSET S |-> Greatest(s)]
           op == [i \in S |-> [v \in Tallies(cols) |-> Shuffled(v, Offsets[i])]]
<1>1. Picks(pick, S) /\ IsFiniteSet(S)
  <2>0. LaneBits \in Nat
    BY Launched
  <2>1. \A s \in SUBSET S : s # {} => Greatest(s) \in s
    BY <2>0, GreatestIn
  <2>2. IsFiniteSet(1..LaneBits)
    BY <2>0, FS_Interval
  <2> QED
    BY <2>1, <2>2 DEF Picks
<1>2. \A i \in S : Offsets[i] \in Nat
  BY Launched, PowersExist DEF Powers, Extents
<1>3. op \in [S -> [Tallies(cols) -> Tallies(cols)]]
  <2>1. \A i \in S, v \in Tallies(cols) : Shuffled(v, Offsets[i]) \in Tallies(cols)
    BY <1>2, ShuffledTyped
  <2> QED
    BY <2>1
<1>4. \A x \in S : \A v \in Tallies(cols) : op[x][v] = Shuffled(v, Offsets[x])
  OBVIOUS
<1>5. \A s \in SUBSET S : pick[s] = Greatest(s)
  OBVIOUS
<1>o. Own(cols) \in Tallies(cols)
  BY DEF Own, Tallies, Lane, Column
<1> HIDE DEF pick, op, S
<1>6. PICK g : Folds(g, pick, op, Own(cols), S)
  BY <1>1, FoldsExist
<1>7. \A s \in SUBSET S : g[s] \in Tallies(cols)
  BY <1>1, <1>3, <1>6, <1>o, FoldsTyped
<1> DEFINE folded(s) == IF s = {} THEN Own(cols) ELSE op[Greatest(s)][g[s \ {Greatest(s)}]]
           reduced(s) == IF s = {} THEN Own(cols) ELSE Shuffled(g[s \ {Greatest(s)}], Offsets[Greatest(s)])
<1>8. g = [s \in SUBSET S |-> folded(s)]
  BY <1>5, <1>6 DEF Folds
<1>9. \A s \in SUBSET S : s # {} => Greatest(s) \in S /\ s \ {Greatest(s)} \in SUBSET S
  BY <1>1, <1>5 DEF Picks
<1>10. \A s \in SUBSET S : folded(s) = reduced(s)
  BY <1>4, <1>7, <1>9
<1>11. Reduces(g, cols, S) <=> g = [s \in SUBSET S |-> reduced(s)]
  BY DEF Reduces
<1> HIDE DEF folded, reduced
<1>12. Reduces(g, cols, S)
  BY <1>8, <1>10, <1>11
<1> QED
  BY <1>12 DEF S

\* Half as many lanes hold each column once as did before.
LEMMA ModHalf ==
    ASSUME NEW c \in Nat, NEW h \in Extents, NEW lane \in 0..(h - 1)
    PROVE  /\ c % h = lane <=> c % (2 * h) = lane \/ c % (2 * h) = lane + h
           /\ ~(c % (2 * h) = lane /\ c % (2 * h) = lane + h)
<1>1. h \in Nat /\ h > 0
  BY DEF Extents
<1>2. PICK q \in Nat, r \in 0..(h - 1) : q = c \div h /\ r = c % h
  BY DivMod
<1>3. c % (2 * h) = r + (q % 2) * h
  <2>1. 2 \in Extents
    BY DEF Extents
  <2>2. c % (2 * h) = (c % h) + ((c \div h) % 2) * h
    BY <2>1, TwoDigits
  <2> QED
    BY <1>2, <2>2
<1>4. q % 2 = 0 \/ q % 2 = 1
  BY <1>2
<1>5. c % (2 * h) = r \/ c % (2 * h) = r + h
  <2>1. 0 * h = 0 /\ 1 * h = h
    BY <1>1
  <2> QED
    BY <1>1, <1>2, <1>3, <1>4, <2>1
<1> QED
  BY <1>1, <1>2, <1>5

\* In the end lane 0 has every column once.
LEMMA ReducesOnce ==
    ASSUME NEW cols \in Nat
    PROVE  /\ DOMAIN WarpReduce(cols)[0] = Column(cols)
           /\ \A c \in Column(cols) : WarpReduce(cols)[0][c] = 1
<1>1. LaneBits \in Nat /\ Lanes \in Nat /\ Lanes > 0
  BY Launched DEF Extents
<1>2. DOMAIN Offsets = 1..LaneBits
  BY DEF Offsets
<1>3. PICK g : g = CHOOSE f : Reduces(f, cols, 1..LaneBits)
  OBVIOUS
<1>4. Reduces(g, cols, 1..LaneBits)
  BY <1>3, ReducesExist
<1>5. WarpReduce(cols) = g[1..LaneBits]
  BY <1>2, <1>3, ReducedBy
<1>6. PICK p : Powers(p)
  BY PowersExist
<1> DEFINE Half(v, q) == \A lane \in Lane : lane < q =>
                            \A c \in Column(cols) : v[lane][c] = IF c % q = lane THEN 1 ELSE 0
           P == {j \in 0..LaneBits : g[1..j] \in Tallies(cols) /\ Half(g[1..j], p[j])}
<1>7. 0 \in P
  <2>1. 1..0 = {} /\ 0 \in 0..LaneBits /\ {} \in SUBSET (1..LaneBits)
    BY <1>1
  <2>2. g[{}] = Own(cols)
    BY <1>4, <2>1 DEF Reduces
  <2>3. Own(cols) \in Tallies(cols)
    BY DEF Own, Tallies, Lane, Column
  <2>4. Half(Own(cols), Lanes)
    BY DEF Own, Lane, Column, LaneColumns
  <2>5. p[0] = Lanes
    BY <1>6 DEF Powers
  <2> HIDE DEF Half
  <2> QED
    BY <2>1, <2>2, <2>3, <2>4, <2>5
<1>8. ASSUME NEW j \in 0..(LaneBits - 1), j \in P PROVE j + 1 \in P
  <2>1. PICK i : i = j + 1 /\ i \in 1..LaneBits /\ i - 1 = j /\ i \in Nat
    BY <1>1
  <2>2. PICK h : /\ h = p[i] /\ h \in Extents /\ h \in Nat /\ h > 0
                 /\ p[j] = 2 * h /\ 2 * h <= Lanes /\ Offsets[i] = h
    BY <1>1, <1>6, <2>1 DEF Powers, Extents
  <2>3. PICK v : v = g[1..j] /\ v \in Tallies(cols) /\ Half(v, 2 * h)
    BY <1>8, <2>2
  <2>4. g[1..i] = Shuffled(v, h)
    <3>1. 1..i \in SUBSET (1..LaneBits) /\ 1..i # {} /\ (1..i) \ {i} = 1..j
      <4>1. i \in 1..i /\ i <= LaneBits /\ j \in Nat
        BY <1>1, <2>1
      <4>2. (1..i) \ {i} = 1..j
        BY <2>1, <4>1
      <4> QED
        BY <1>1, <2>1, <4>1, <4>2
    <3>2. Greatest(1..i) = i
      <4>1. Greatest(1..i) \in 1..i /\ \A y \in 1..i : Greatest(1..i) >= y
        BY <2>1, <3>1, GreatestIn
      <4>2. i \in 1..i
        BY <2>1
      <4> QED
        BY <2>1, <4>1, <4>2
    <3>3. g[1..i] = Shuffled(g[(1..i) \ {Greatest(1..i)}], Offsets[Greatest(1..i)])
      BY <1>4, <3>1 DEF Reduces
    <3> QED
      BY <2>2, <2>3, <3>1, <3>2, <3>3
  <2>5. PICK u : /\ u = Shuffled(v, h) /\ u \in Tallies(cols)
                 /\ \A lane \in Lane, c \in Column(cols) : u[lane][c] = v[lane][c] + v[Partner(lane, h)][c]
    <3>1. Shuffled(v, h) \in Tallies(cols)
      BY <2>2, <2>3, ShuffledTyped
    <3>2. Shuffled(v, h) =
            [lane \in Lane |-> [c \in Column(cols) |-> v[lane][c] + v[Partner(lane, h)][c]]]
      <4>1. DOMAIN v = Lane /\ \A lane \in Lane : DOMAIN v[lane] = Column(cols)
        BY <2>3 DEF Tallies
      <4> QED
        BY <4>1 DEF Shuffled
    <3> QED
      BY <3>1, <3>2
  <2>6. Half(u, h)
    <3> SUFFICES ASSUME NEW lane \in Lane, lane < h, NEW c \in Column(cols)
                 PROVE  u[lane][c] = IF c % h = lane THEN 1 ELSE 0
      OBVIOUS
    <3>1. /\ lane \in 0..(h - 1) /\ lane \in Nat /\ lane < 2 * h /\ lane + h < 2 * h
          /\ lane + h \in Lane /\ Partner(lane, h) = lane + h /\ c \in Nat
      BY <1>1, <2>2 DEF Lane, Column, Partner
    <3>2. /\ v[lane][c] = IF c % (2 * h) = lane THEN 1 ELSE 0
          /\ v[lane + h][c] = IF c % (2 * h) = lane + h THEN 1 ELSE 0
      BY <2>3, <3>1
    <3>3. u[lane][c] = v[lane][c] + v[lane + h][c]
      BY <2>5, <3>1
    <3>4. /\ c % h = lane <=> c % (2 * h) = lane \/ c % (2 * h) = lane + h
          /\ ~(c % (2 * h) = lane /\ c % (2 * h) = lane + h)
      <4> HIDE DEF Half, P
      <4>1. h \in Extents /\ lane \in 0..(h - 1) /\ c \in Nat
        BY <2>2, <3>1
      <4> QED
        BY <4>1, ModHalf
    <3> QED
      BY <3>2, <3>3, <3>4
  <2> HIDE DEF Half
  <2>7. j + 1 \in 0..LaneBits
    BY <2>1
  <2> QED
    BY <2>1, <2>2, <2>4, <2>5, <2>6, <2>7
<1>9. LaneBits \in P
  <2>1. P \in SUBSET (0..LaneBits)
    OBVIOUS
  <2> HIDE DEF P
  <2>2. P = 0..LaneBits
    BY <1>1, <1>7, <1>8, <2>1, FromFirst
  <2> QED
    BY <1>1, <2>2
<1>10. p[LaneBits] = 1 /\ 0 \in Lane /\ \A c \in Column(cols) : c % 1 = 0
  BY <1>1, <1>6 DEF Powers, Lane, Column
<1>11. g[1..LaneBits] \in Tallies(cols) /\ Half(g[1..LaneBits], 1)
  BY <1>9, <1>10
<1>12. \A c \in Column(cols) : g[1..LaneBits][0][c] = 1
  BY <1>10, <1>11
<1>13. DOMAIN g[1..LaneBits][0] = Column(cols)
  BY <1>10, <1>11 DEF Tallies
<1> QED
  BY <1>5, <1>12, <1>13

-----------------------------------------------------------------------------
(***************************************************************************)
(* Tensors of two dimensions, and softmax: the lanes of a warp, halved again*)
(* and again, sum every column of a row once.                              *)
(***************************************************************************)
Flat(t, rows, cols) ==
    /\ t \in Tensor /\ Denotes(t) /\ IsContiguous(t)
    /\ rows \in Extents /\ cols \in Extents
    /\ Len(t.shape) = 2 /\ t.shape[1] = rows /\ t.shape[2] = cols

LEMMA FlatTensor ==
    ASSUME NEW t \in Tensor, Denotes(t), IsContiguous(t), Len(t.shape) = 2
    PROVE  \E rows, cols : Flat(t, rows, cols)
<1>1. t.shape \in Seq(Extents)
  BY DEF Tensor
<1>2. t.shape[1] \in Extents /\ t.shape[2] \in Extents
  BY <1>1, ElementOfSeq
<1> QED
  BY <1>2 DEF Flat

LEMMA NumelFlat ==
    ASSUME NEW s \in Seq(Extents), Len(s) = 2
    PROVE  Numel(s) = s[1] * s[2]
<1>1. PICK r : r = SubSeq(s, 1, 1)
  OBVIOUS
<1>2. s # <<>>
  BY EmptySeq
<1>3. Numel(s) = Numel(r) * s[2]
  <2>1. Len(s) - 1 = 1
    OBVIOUS
  <2>2. Numel(s) = Numel(SubSeq(s, 1, Len(s) - 1)) * s[Len(s)]
    BY <1>2, NumelLast
  <2> QED
    BY <1>1, <2>1, <2>2
<1>4. r \in Seq(Extents) /\ Len(r) = 1 /\ r[1] = s[1]
  BY <1>1, SubSeqProperties
<1>5. PICK e : e = SubSeq(r, 1, 0)
  OBVIOUS
<1>6. e \in Seq(Extents) /\ Len(e) = 0
  BY <1>4, <1>5, SubSeqProperties
<1>7. e = <<>> /\ r # <<>>
  <2>1. e = <<>>
    BY <1>6, EmptySeq
  <2>2. Len(<<>>) = 0
    BY EmptySeq
  <2>3. Len(r) # Len(<<>>)
    BY <1>4, <2>2
  <2>4. r # <<>>
    BY <2>3, Zenon
  <2> QED
    BY <2>1, <2>4
<1>8. Numel(e) = 1
  BY <1>6, <1>7, NumelLast
<1>9. Numel(r) = Numel(e) * r[1]
  BY <1>4, <1>5, <1>7, NumelLast
<1>10. s[1] \in Extents
  BY ElementOfSeq
<1> QED
  BY <1>3, <1>4, <1>8, <1>9, <1>10 DEF Extents

\* Where element i of a tensor of two dimensions is.
LEMMA RowColumn ==
    ASSUME NEW rows \in Extents, NEW cols \in Extents, NEW i \in 0..(rows * cols - 1)
    PROVE  /\ i \in Nat /\ i \div cols \in 0..(rows - 1) /\ i % cols \in 0..(cols - 1)
           /\ i = (i % cols) + (i \div cols) * cols
<1>1. rows * cols \in Nat /\ i \in Nat
  BY DEF Extents
<1>2. PICK q \in Nat, r \in 0..(cols - 1) : q = i \div cols /\ r = i % cols /\ i = q * cols + r
  BY <1>1, DivMod
<1>3. ASSUME q >= rows PROVE FALSE
  <2>1. (q - rows) * cols >= 0
    BY <1>3 DEF Extents
  <2>2. (q - rows) * cols = q * cols - rows * cols
    BY DEF Extents
  <2>3. q * cols \in Nat
    BY DEF Extents
  <2> QED
    BY <1>1, <1>2, <2>1, <2>2, <2>3
<1>4. q * cols \in Nat
  BY DEF Extents
<1> QED
  BY <1>1, <1>2, <1>3, <1>4 DEF Extents

\* What is at row r and column c, from data() on.
LEMMA FlatAt ==
    ASSUME NEW t, NEW rows, NEW cols, Flat(t, rows, cols)
    PROVE  /\ Numel(t.shape) = rows * cols /\ rows * cols \in Nat
           /\ \A r \in 0..(rows - 1), c \in 0..(cols - 1) :
                 /\ r * cols \in Nat
                 /\ r * cols + c \in 0..(rows * cols - 1)
                 /\ At(t, r * cols + c, 1) = t.elems[r * cols + c + 1]
<1>1. t \in Tensor /\ Denotes(t) /\ IsContiguous(t) /\ rows \in Extents /\ cols \in Extents
  BY DEF Flat
<1>2. Numel(t.shape) = rows * cols
  <2>1. t.shape \in Seq(Extents) /\ Len(t.shape) = 2
    BY DEF Flat, Tensor
  <2> QED
    BY <2>1, NumelFlat DEF Flat
<1>3. rows * cols \in Nat
  BY <1>1 DEF Extents
<1>4. ASSUME NEW r \in 0..(rows - 1), NEW c \in 0..(cols - 1)
      PROVE  /\ r * cols \in Nat
             /\ r * cols + c \in 0..(rows * cols - 1)
             /\ At(t, r * cols + c, 1) = t.elems[r * cols + c + 1]
  <2>1. r * cols \in Nat
    BY <1>1 DEF Extents
  <2>2. c + r * cols \in 0..(rows * cols - 1)
    BY <1>1, ProductBelow
  <2>3. PICK i : i = r * cols + c /\ i \in 0..(Numel(t.shape) - 1)
    BY <1>2, <1>3, <2>1, <2>2
  <2>4. At(t, i, 1) = t.elems[i + 1]
    BY <1>1, <2>3, DenseAt
  <2> QED
    BY <1>2, <2>1, <2>3, <2>4
<1> QED
  BY <1>2, <1>3, <1>4

\* An element of a row, and the row.
Softened(t, i, cols) ==
    <<<<t.elems[i + 1]>>>> \o [c \in 1..cols |-> <<t.elems[(i \div cols) * cols + c]>>]

\* The kernel and cuDNN name the same elements, when each column is there once.
LEMMA SoftmaxOfAt ==
    ASSUME NEW t, NEW rows, NEW cols, Flat(t, rows, cols),
           NEW times, \A c \in Column(cols) : times[c] = 1,
           NEW i \in 0..(rows * cols - 1)
    PROVE  SoftmaxOf(t, i, cols, times, 1) = Softened(t, i, cols)
<1>1. rows \in Extents /\ cols \in Extents /\ cols \in Nat
  BY DEF Flat, Extents
<1>2. PICK q, r : /\ q = i \div cols /\ q \in 0..(rows - 1) /\ r = i % cols /\ r \in 0..(cols - 1)
                  /\ i = r + q * cols
  BY <1>1, RowColumn
<1>3. PICK row \in Nat : row = q * cols
  BY <1>1, <1>2 DEF Extents
<1>4. At(t, i, 1) = t.elems[i + 1]
  <2>1. At(t, q * cols + r, 1) = t.elems[q * cols + r + 1]
    BY <1>2, FlatAt
  <2>2. i = q * cols + r
    BY <1>1, <1>2, <1>3
  <2> QED
    BY <2>1, <2>2
<1>5. ASSUME NEW c \in 1..cols PROVE At(t, row + c - 1, 1) = t.elems[row + c] /\ times[c - 1] = 1
  <2>1. PICK d : d = c - 1 /\ d \in 0..(cols - 1)
    BY <1>1
  <2>2. At(t, q * cols + d, 1) = t.elems[q * cols + d + 1]
    BY <1>2, <2>1, FlatAt
  <2>3. q * cols + d = row + c - 1 /\ q * cols + d + 1 = row + c
    BY <1>1, <1>3, <2>1
  <2> QED
    BY <2>1, <2>2, <2>3 DEF Column
<1>6. PICK x : x = [c \in 1..cols |-> <<t.elems[row + c]>>]
  OBVIOUS
<1>7. x \in [1..cols -> {x[c] : c \in 1..cols}]
  BY <1>6
<1>8. FlattenSeq(Singles(x, cols)) = [c \in 1..cols |-> x[c]]
  BY <1>1, <1>7, FlattenSingles
<1>9. [c \in 1..cols |-> [n \in 1..times[c - 1] |-> <<At(t, row + c - 1, 1)>>]] = Singles(x, cols)
  BY <1>5, <1>6 DEF Singles
<1>10. [c \in 1..cols |-> x[c]] = [c \in 1..cols |-> <<t.elems[row + c]>>]
  BY <1>6
<1>11. SoftmaxOf(t, i, cols, times, 1) =
         <<<<At(t, i, 1)>>>> \o
         FlattenSeq([c \in 1..cols |-> [n \in 1..times[c - 1] |-> <<At(t, row + c - 1, 1)>>]])
  BY <1>2, <1>3 DEF SoftmaxOf
<1>12. Softened(t, i, cols) = <<<<t.elems[i + 1]>>>> \o [c \in 1..cols |-> <<t.elems[row + c]>>]
  BY <1>2, <1>3 DEF Softened
<1> QED
  BY <1>4, <1>8, <1>9, <1>10, <1>11, <1>12

Softmaxed(t, cols) == [i \in 0..(Numel(t.shape) - 1) |-> Softened(t, i, cols)]

LEMMA SoftmaxRight ==
    ASSUME NEW t, NEW rows, NEW cols, Flat(t, rows, cols)
    PROVE  SoftmaxKernel(t) = Softmaxed(t, cols)
<1>1. /\ rows \in Extents /\ cols \in Extents /\ t.shape[1] = rows /\ t.shape[2] = cols
      /\ rows * cols \in Nat /\ Numel(t.shape) = rows * cols /\ cols \in Nat /\ rows \in Nat
  BY FlatAt DEF Flat, Extents
<1>2. PICK times : times = WarpReduce(cols)[0] /\ \A c \in Column(cols) : times[c] = 1
  BY <1>1, ReducesOnce
<1> DEFINE piece(row, lane) == {row * cols + c : c \in LaneColumns(lane, cols)}
           written == UNION {piece(row, lane) : row \in 0..(rows - 1), lane \in 0..(Lanes - 1)}
<1>3. written = 0..(rows * cols - 1)
  <2>1. ASSUME NEW row \in 0..(rows - 1), NEW lane \in 0..(Lanes - 1), NEW c \in LaneColumns(lane, cols)
        PROVE  row * cols + c \in 0..(rows * cols - 1)
    <3>1. c \in 0..(cols - 1)
      BY DEF LaneColumns
    <3> QED
      BY <3>1, FlatAt
  <2>2. ASSUME NEW i \in 0..(rows * cols - 1)
        PROVE  \E row \in 0..(rows - 1), lane \in 0..(Lanes - 1) : \E c \in LaneColumns(lane, cols) :
                  i = row * cols + c
    <3> HIDE DEF written
    <3>1. PICK q, r : /\ q = i \div cols /\ q \in 0..(rows - 1) /\ r = i % cols /\ r \in 0..(cols - 1)
                      /\ i = r + q * cols
      <4>1. rows \in Extents /\ cols \in Extents
        BY <1>1
      <4> QED
        BY <4>1, RowColumn
    <3>2. PICK lane : lane = r % Lanes /\ lane \in 0..(Lanes - 1)
      <4>1. r \in Nat /\ Lanes \in Extents
        BY <1>1, <3>1, Launched
      <4> QED
        BY <4>1, DivMod
    <3>3. r \in LaneColumns(lane, cols)
      BY <3>1, <3>2 DEF LaneColumns
    <3>4. i = q * cols + r
      BY <1>1, <3>1 DEF Extents
    <3> QED
      BY <3>1, <3>2, <3>3, <3>4
  <2>3. ASSUME NEW i \in written PROVE i \in 0..(rows * cols - 1)
    <3>1. PICK row \in 0..(rows - 1), lane \in 0..(Lanes - 1) : i \in piece(row, lane)
      <4> HIDE DEF piece
      <4> QED
        OBVIOUS
    <3>2. PICK c \in LaneColumns(lane, cols) : i = row * cols + c
      BY <3>1
    <3> QED
      BY <2>1, <3>2
  <2>4. ASSUME NEW i \in 0..(rows * cols - 1) PROVE i \in written
    <3>1. PICK row \in 0..(rows - 1), lane \in 0..(Lanes - 1) : \E c \in LaneColumns(lane, cols) : i = row * cols + c
      BY <2>2
    <3>2. i \in piece(row, lane)
      BY <3>1
    <3> HIDE DEF piece
    <3> QED
      BY <3>2
  <2> HIDE DEF written
  <2> QED
    BY <2>3, <2>4
<1>4. SoftmaxKernel(t) = [i \in written |-> SoftmaxOf(t, i, cols, times, 1)]
  BY <1>1, <1>2 DEF SoftmaxKernel
<1>5. \A i \in 0..(rows * cols - 1) : SoftmaxOf(t, i, cols, times, 1) = Softened(t, i, cols)
  BY <1>2, SoftmaxOfAt
<1> HIDE DEF written
<1> QED
  BY <1>1, <1>3, <1>4, <1>5 DEF Softmaxed

\* The libraries, when the buffers are not read as another dtype.
LEMMA WidenedOnce ==
    ASSUME NEW effect, DOMAIN effect \in SUBSET Int
    PROVE  Widened(effect, 1) = [i \in DOMAIN effect |-> effect[i]]
<1>1. \A x \in DOMAIN effect : 1 * x + 1 - 1 = x /\ x \div 1 = x
  OBVIOUS
<1>2. {1 * x + 1 - 1 : x \in DOMAIN effect} = DOMAIN effect
  BY <1>1
<1> QED
  BY <1>1, <1>2 DEF Widened

LEMMA CuTensorRight ==
    ASSUME NEW a \in Tensor, NEW b \in Tensor, Denotes(a), Denotes(b),
           IsContiguous(a), IsContiguous(b), a.shape = b.shape
    PROVE  CuTensorElementwise(a, b, 1) = Paired(a, b)
<1>1. PICK N \in Nat : N = Numel(a.shape) /\ N = Numel(b.shape)
  BY NumelNat DEF Tensor
<1>2. \A i \in 0..(N - 1) : At(a, i, 1) = a.elems[i + 1] /\ At(b, i, 1) = b.elems[i + 1]
  BY <1>1, DenseAt
<1>3. PICK e : e = [i \in 0..(N - 1) |-> <<<<At(a, i, 1), At(b, i, 1)>>>>]
  OBVIOUS
<1>4. DOMAIN e \in SUBSET Int
  BY <1>3
<1>5. Widened(e, 1) = [i \in DOMAIN e |-> e[i]]
  BY <1>4, WidenedOnce
<1>6. CuTensorElementwise(a, b, 1) = Widened(e, 1)
  BY <1>1, <1>3 DEF CuTensorElementwise
<1> QED
  BY <1>1, <1>2, <1>3, <1>5, <1>6 DEF Paired

LEMMA CudnnRight ==
    ASSUME NEW t, NEW rows, NEW cols, Flat(t, rows, cols)
    PROVE  CudnnSoftmax(t, 1) = Softmaxed(t, cols)
<1>1. /\ t.shape[2] = cols /\ rows * cols \in Nat /\ Numel(t.shape) = rows * cols
  BY FlatAt DEF Flat
<1>2. PICK times : times = [c \in 0..(cols - 1) |-> 1]
  OBVIOUS
<1>3. \A c \in Column(cols) : times[c] = 1
  BY <1>2 DEF Column
<1>4. PICK e : e = [i \in 0..(rows * cols - 1) |-> SoftmaxOf(t, i, cols, times, 1)]
  OBVIOUS
<1>5. DOMAIN e \in SUBSET Int
  BY <1>4
<1>6. Widened(e, 1) = [i \in DOMAIN e |-> e[i]]
  BY <1>5, WidenedOnce
<1>7. CudnnSoftmax(t, 1) = Widened(e, 1)
  BY <1>1, <1>2, <1>4 DEF CudnnSoftmax
<1>8. \A i \in 0..(rows * cols - 1) : SoftmaxOf(t, i, cols, times, 1) = Softened(t, i, cols)
  BY <1>3, SoftmaxOfAt
<1> QED
  BY <1>1, <1>4, <1>6, <1>7, <1>8 DEF Softmaxed

-----------------------------------------------------------------------------
(***************************************************************************)
(* MatMul: every tile of the result has its block, and cuBLAS, which is    *)
(* given the factors in the other order, computes the same.                *)
(***************************************************************************)
LEMMA MinOfTwo ==
    ASSUME NEW x \in Int, NEW y \in Int
    PROVE  Min({x, y}) = IF x <= y THEN x ELSE y
BY DEF Min

LEMMA Times ==
    ASSUME NEW x \in Int, NEW y \in Int, NEW z \in Int
    PROVE  /\ x * y \in Int
           /\ (x + y) * z = x * z + y * z /\ (x - y) * z = x * z - y * z
           /\ (x * y) * z = x * (y * z)
OBVIOUS

LEMMA TimesLeq ==
    ASSUME NEW x \in Int, NEW y \in Int, NEW z \in Nat, x <= y
    PROVE  x * z <= y * z
<1>1. (y - x) * z >= 0 /\ (y - x) * z = y * z - x * z /\ x * z \in Int /\ y * z \in Int
  OBVIOUS
<1> QED
  BY <1>1

\* m is q times d, and r is left.
Splits(m, q, d, r) == m \in Nat /\ q \in Nat /\ d \in Extents /\ r \in 0..(d - 1) /\ m = q * d + r

LEMMA SplitsOnce ==
    ASSUME NEW m, NEW q, NEW d, NEW r, Splits(m, q, d, r)
    PROVE  m \div d = q /\ m % d = r
BY DivUnique DEF Splits

LEMMA FlatCell ==
    ASSUME NEW t, NEW rows, NEW cols, Flat(t, rows, cols), NEW r \in 0..(rows - 1), NEW c \in 0..(cols - 1)
    PROVE  r * cols \in Nat /\ At(t, r * cols + c, 1) = t.elems[r * cols + c + 1]
BY FlatAt

\* Every tile of the result is some block's.
LEMMA TileHasBlock ==
    ASSUME NEW gm \in Extents, NEW gn \in Extents, NEW x \in 0..(gm - 1), NEW y \in 0..(gn - 1)
    PROVE  \E pid \in 0..(gm * gn - 1) : BlockOf(pid, gm, gn) = <<x, y>>
<1>1. PICK G : G = GroupSizeM /\ G \in Extents /\ G \in Nat /\ G > 0
  BY Launched DEF Extents
<1>2. gm \in Nat /\ gn \in Nat /\ gn > 0 /\ x \in Nat /\ y \in Nat
  BY DEF Extents
<1>3. PICK g \in Nat, r \in 0..(G - 1) : g = x \div G /\ r = x % G /\ x = g * G + r
  <2>1. x \div G \in Nat /\ x % G \in 0..(G - 1) /\ x = (x \div G) * G + (x % G)
    BY <1>1, <1>2, DivMod
  <2> QED
    BY <2>1
<1>4. PICK first \in Nat : first = g * G /\ x = first + r /\ first < gm
  <2>1. g * G \in Nat
    BY <1>1, ProductNat
  <2> QED
    BY <1>2, <1>3, <2>1
<1>5. PICK size : size = Min({gm - first, G})
  OBVIOUS
<1>6. size \in Extents /\ size \in Nat /\ size <= G /\ size <= gm - first /\ r \in 0..(size - 1)
  <2>1. size = IF gm - first <= G THEN gm - first ELSE G
    BY <1>1, <1>2, <1>4, <1>5, MinOfTwo
  <2> QED
    BY <1>1, <1>2, <1>3, <1>4, <2>1 DEF Extents
<1>7. PICK ing : ing = r + y * size /\ ing \in 0..(gn * size - 1)
  BY <1>6, ProductBelow
<1>8. PICK w : w = G * gn /\ w \in Extents /\ w \in Nat
  <2>1. G * gn > 0 /\ G * gn \in Nat
    BY <1>1, <1>2
  <2> QED
    BY <2>1 DEF Extents
<1>9. gn * size \in Nat /\ gn * size <= w /\ gn * size <= gn * (gm - first)
  <2>1. size * gn <= G * gn /\ size * gn <= (gm - first) * gn
    BY <1>1, <1>2, <1>4, <1>6, TimesLeq
  <2>2. size * gn = gn * size /\ (gm - first) * gn = gn * (gm - first) /\ gn * size \in Nat
    BY <1>2, <1>4, <1>6
  <2> QED
    BY <1>8, <2>1, <2>2
<1>10. PICK pid : pid = g * w + ing
  OBVIOUS
<1>11. g * w \in Nat /\ pid \in Nat /\ ing \in 0..(w - 1)
  BY <1>7, <1>8, <1>9, <1>10, ProductNat
<1>12. pid \div w = g /\ pid % w = ing
  BY <1>8, <1>10, <1>11, DivUnique
<1>13. pid \in 0..(gm * gn - 1)
  <2>1. g * w = first * gn
    <3>1. (g * G) * gn = g * (G * gn)
      BY <1>1, <1>2, Times
    <3> QED
      BY <1>4, <1>8, <3>1
  <2>2. gn * (gm - first) = gm * gn - first * gn /\ first * gn \in Nat /\ gm * gn \in Nat
    BY <1>2, <1>4
  <2>3. gn * (gm - first) \in Int
    BY <2>2
  <2> QED
    BY <1>7, <1>9, <1>10, <1>11, <2>1, <2>2, <2>3
<1>14. ing % size = r /\ ing \div size = y
  <2>1. y * size \in Nat
    BY <1>2, <1>6, ProductNat
  <2>2. ing = y * size + r /\ ing \in Nat
    BY <1>6, <1>7, <2>1
  <2>3. Splits(ing, y, size, r)
    BY <1>2, <1>6, <2>2 DEF Splits
  <2> QED
    BY <2>3, SplitsOnce
<1>15. BlockOf(pid, gm, gn) = <<first + (ing % size), ing \div size>>
  BY <1>1, <1>4, <1>5, <1>8, <1>12 DEF BlockOf
<1> QED
  BY <1>4, <1>13, <1>14, <1>15

\* The rows of a times the columns of b.
Multiplied(a, b) ==
    [i \in 0..(a.shape[1] * b.shape[2] - 1) |->
        [k \in 1..a.shape[2] |->
            <<a.elems[(i \div b.shape[2]) * a.shape[2] + k],
              b.elems[(k - 1) * b.shape[2] + (i % b.shape[2]) + 1]>>]]

Factors(a, b, M, K, N) == Flat(a, M, K) /\ Flat(b, K, N)

LEMMA FactorsAt ==
    ASSUME NEW a, NEW b, NEW M, NEW K, NEW N, Factors(a, b, M, K, N),
           NEW r \in 0..(M - 1), NEW c \in 0..(N - 1), NEW k \in 1..K
    PROVE  /\ At(a, r * K + k - 1, 1) = a.elems[r * K + k]
           /\ At(b, (k - 1) * N + c, 1) = b.elems[(k - 1) * N + c + 1]
           /\ At(a, (k - 1) + r * K, 1) = a.elems[r * K + k]
           /\ At(b, c + (k - 1) * N, 1) = b.elems[(k - 1) * N + c + 1]
<1>1. Flat(a, M, K) /\ Flat(b, K, N) /\ K \in Nat /\ N \in Nat /\ M \in Nat
  BY DEF Factors, Flat, Extents
<1>2. PICK j : j = k - 1 /\ j \in 0..(K - 1) /\ j \in Nat
  BY <1>1
<1>3. r * K \in Nat /\ At(a, r * K + j, 1) = a.elems[r * K + j + 1]
  BY <1>1, <1>2, FlatCell
<1>4. j * N \in Nat /\ At(b, j * N + c, 1) = b.elems[j * N + c + 1]
  BY <1>1, <1>2, FlatCell
<1>5. r * K + j = r * K + k - 1 /\ r * K + j + 1 = r * K + k /\ r * K + j = (k - 1) + r * K
  BY <1>1, <1>2, <1>3
<1>6. j * N + c = c + j * N
  BY <1>1, <1>4
<1> QED
  BY <1>2, <1>3, <1>4, <1>5, <1>6

LEMMA MatmulRight ==
    ASSUME NEW a, NEW b, NEW M, NEW K, NEW N, Factors(a, b, M, K, N)
    PROVE  MatmulKernel(a, b) = Multiplied(a, b)
<1>1. /\ Flat(a, M, K) /\ Flat(b, K, N) /\ M \in Extents /\ K \in Extents /\ N \in Extents
      /\ a.shape[1] = M /\ a.shape[2] = K /\ b.shape[2] = N
      /\ M \in Nat /\ K \in Nat /\ N \in Nat
  BY DEF Factors, Flat, Extents
<1>2. PICK gm, gn : /\ gm = CeilDiv(M, TileM) /\ gn = CeilDiv(N, TileN)
  OBVIOUS
<1>3. PICK blocks : blocks = {BlockOf(pid, gm, gn) : pid \in 0..(gm * gn - 1)}
  OBVIOUS
<1> DEFINE tile(i) == <<(i \div N) \div TileM, (i % N) \div TileN>>
<1>4. ASSUME NEW i \in 0..(M * N - 1) PROVE tile(i) \in blocks
  <2>1. PICK r, c : r = i \div N /\ r \in 0..(M - 1) /\ c = i % N /\ c \in 0..(N - 1)
    <3>1. M \in Extents /\ N \in Extents
      BY <1>1
    <3>2. i \div N \in 0..(M - 1) /\ i % N \in 0..(N - 1)
      BY <3>1, RowColumn
    <3> QED
      BY <3>2
  <2>2. TileM \in Extents /\ TileN \in Extents
    BY Launched
  <2>3. PICK x, y : x = r \div TileM /\ y = c \div TileN
    OBVIOUS
  <2>4. x \in 0..(gm - 1) /\ y \in 0..(gn - 1)
    BY <1>1, <1>2, <2>1, <2>2, <2>3, PieceOf
  <2>5. gm \in Extents /\ gn \in Extents
    <3>1. gm \in Nat /\ gn \in Nat
      BY <1>1, <1>2, <2>2, Covers
    <3> QED
      BY <2>4, <3>1 DEF Extents
  <2>6. PICK pid \in 0..(gm * gn - 1) : BlockOf(pid, gm, gn) = <<x, y>>
    BY <2>4, <2>5, TileHasBlock
  <2> QED
    BY <1>3, <2>1, <2>3, <2>6
<1>5. {i \in 0..(M * N - 1) : tile(i) \in blocks} = 0..(M * N - 1)
  BY <1>4
<1>6. MatmulKernel(a, b) =
        [i \in {i \in 0..(M * N - 1) : tile(i) \in blocks} |-> Product(a, b, i \div N, i % N, 1)]
  BY <1>1, <1>2, <1>3 DEF MatmulKernel
<1>7. ASSUME NEW i \in 0..(M * N - 1)
      PROVE  Product(a, b, i \div N, i % N, 1) =
                [k \in 1..K |-> <<a.elems[(i \div N) * K + k], b.elems[(k - 1) * N + (i % N) + 1]>>]
  <2>1. PICK r, c : r = i \div N /\ r \in 0..(M - 1) /\ c = i % N /\ c \in 0..(N - 1)
    <3>1. M \in Extents /\ N \in Extents
      BY <1>1
    <3>2. i \div N \in 0..(M - 1) /\ i % N \in 0..(N - 1)
      BY <3>1, RowColumn
    <3> QED
      BY <3>2
  <2>2. \A k \in 1..K : /\ At(a, r * K + k - 1, 1) = a.elems[r * K + k]
                        /\ At(b, (k - 1) * N + c, 1) = b.elems[(k - 1) * N + c + 1]
    BY <2>1, FactorsAt
  <2>3. Product(a, b, r, c, 1) = [k \in 1..K |-> <<At(a, r * K + k - 1, 1), At(b, (k - 1) * N + c, 1)>>]
    BY <1>1 DEF Product
  <2> QED
    BY <2>1, <2>2, <2>3
<1> HIDE DEF tile
<1>8. Multiplied(a, b) =
        [i \in 0..(M * N - 1) |->
            [k \in 1..K |-> <<a.elems[(i \div N) * K + k], b.elems[(k - 1) * N + (i % N) + 1]>>]]
  BY <1>1 DEF Multiplied
<1> QED
  BY <1>5, <1>6, <1>7, <1>8

\* The product of the transposes, in the other order, read by columns.
LEMMA CublasRight ==
    ASSUME NEW a, NEW b, NEW M, NEW K, NEW N, Factors(a, b, M, K, N)
    PROVE  CublasGemm(a, b, 1) = Multiplied(a, b)
<1>1. /\ Flat(a, M, K) /\ Flat(b, K, N) /\ M \in Extents /\ K \in Extents /\ N \in Extents
      /\ a.shape[1] = M /\ a.shape[2] = K /\ b.shape[2] = N
      /\ M \in Nat /\ K \in Nat /\ N \in Nat
  BY DEF Factors, Flat, Extents
<1>2. PICK g : g = GemmArguments(a, b)
  OBVIOUS
<1>3. /\ g.m = N /\ g.n = M /\ g.k = K /\ g.A = b /\ g.lda = N /\ g.B = a /\ g.ldb = K /\ g.ldc = N
  BY <1>1, <1>2 DEF GemmArguments
<1> DEFINE cells == (0..(N - 1)) \X (0..(M - 1))
           cell(x) == CHOOSE c \in cells : c[1] + c[2] * N = x
           term(i, j, l) == <<At(a, l + j * K, 1), At(b, i + l * N, 1)>>
           places == {c[1] + c[2] * N : c \in cells}
           e == [x \in places |-> [l \in 1..K |-> term(cell(x)[1], cell(x)[2], l - 1)]]
<1>4. CublasGemm(a, b, 1) = Widened(e, 1)
  BY <1>2, <1>3 DEF CublasGemm
<1>5. places = 0..(M * N - 1)
  <2>1. ASSUME NEW c \in cells PROVE c[1] + c[2] * N \in 0..(M * N - 1)
    BY <1>1, ProductBelow
  <2>2. ASSUME NEW x \in 0..(M * N - 1) PROVE \E c \in cells : c[1] + c[2] * N = x
    <3>1. x \div N \in 0..(M - 1) /\ x % N \in 0..(N - 1) /\ x = (x % N) + (x \div N) * N
      <4> HIDE DEF e, places, term, cell, cells
      <4> QED
        BY <1>1, RowColumn
    <3>2. PICK c : c = <<x % N, x \div N>>
      OBVIOUS
    <3>3. c \in cells /\ c[1] = x % N /\ c[2] = x \div N
      BY <3>1, <3>2
    <3> HIDE DEF cells
    <3> QED
      BY <3>1, <3>3
  <2> HIDE DEF cells
  <2> QED
    BY <2>1, <2>2
<1>6. ASSUME NEW x \in 0..(M * N - 1)
      PROVE  [l \in 1..K |-> term(cell(x)[1], cell(x)[2], l - 1)] =
                [k \in 1..K |-> <<a.elems[(x \div N) * K + k], b.elems[(k - 1) * N + (x % N) + 1]>>]
  <2>1. PICK j, i : /\ j = x \div N /\ j \in 0..(M - 1) /\ i = x % N /\ i \in 0..(N - 1)
                    /\ x = i + j * N
    <3> HIDE DEF e, places, term, cell, cells
    <3>1. M \in Extents /\ N \in Extents
      BY <1>1
    <3>2. x \div N \in 0..(M - 1) /\ x % N \in 0..(N - 1) /\ x = (x % N) + (x \div N) * N
      BY <3>1, RowColumn
    <3> QED
      BY <3>2
  <2>2. cell(x) = <<i, j>>
    <3>1. <<i, j>> \in cells /\ <<i, j>>[1] + <<i, j>>[2] * N = x
      BY <2>1
    <3>2. ASSUME NEW c \in cells, c[1] + c[2] * N = x PROVE c = <<i, j>>
      <4>1. PICK u \in 0..(N - 1), v \in 0..(M - 1) : c = <<u, v>>
        OBVIOUS
      <4>2. v * N \in Nat /\ u \in Nat /\ v \in Nat /\ x \in Nat /\ x = v * N + u
        <5>1. v * N \in Nat /\ v \in Nat
          BY <1>1, ProductNat
        <5> QED
          BY <1>1, <3>2, <4>1, <5>1
      <4>3. x \div N = v /\ x % N = u
        <5>1. Splits(x, v, N, u)
          BY <1>1, <4>1, <4>2 DEF Splits
        <5> QED
          BY <5>1, SplitsOnce
      <4> QED
        BY <2>1, <4>1, <4>3
    <3> HIDE DEF cells
    <3> QED
      BY <3>1, <3>2
  <2>3. \A k \in 1..K : /\ At(a, (k - 1) + j * K, 1) = a.elems[j * K + k]
                        /\ At(b, i + (k - 1) * N, 1) = b.elems[(k - 1) * N + i + 1]
    BY <2>1, FactorsAt
  <2> HIDE DEF cell
  <2>4. cell(x)[1] = i /\ cell(x)[2] = j
    BY <2>2
  <2> QED
    BY <2>1, <2>3, <2>4
<1>7. DOMAIN e = places /\ \A x \in places : e[x] = [l \in 1..K |-> term(cell(x)[1], cell(x)[2], l - 1)]
  BY DEF e
<1>8. Multiplied(a, b) =
        [i \in 0..(M * N - 1) |->
            [k \in 1..K |-> <<a.elems[(i \div N) * K + k], b.elems[(k - 1) * N + (i % N) + 1]>>]]
  BY <1>1 DEF Multiplied
<1> HIDE DEF e, places, term, cell
<1>9. Widened(e, 1) = [i \in DOMAIN e |-> e[i]]
  <2>1. DOMAIN e \in SUBSET Int
    BY <1>5, <1>7
  <2> QED
    BY <2>1, WidenedOnce
<1> QED
  BY <1>4, <1>5, <1>6, <1>7, <1>8, <1>9

-----------------------------------------------------------------------------
(***************************************************************************)
(* What a call computes, wherever it is dispatched to.                     *)
(***************************************************************************)
LEMMA KernelEffects ==
    ASSUME NEW a, NEW b
    PROVE  /\ \A op \in Binary : KernelEffect(op, a, b) = BinaryKernel(a, b)
           /\ KernelEffect("Gelu", a, b) = GeluKernel(a)
           /\ KernelEffect("Softmax", a, b) = SoftmaxKernel(a)
           /\ KernelEffect("MatMul", a, b) = MatmulKernel(a, b)
           /\ KernelEffect("Contiguous", a, b) = ContiguousKernel(a)
<1>1. /\ "Gelu" \notin Binary /\ "Softmax" \notin Binary /\ "MatMul" \notin Binary /\ "Contiguous" \notin Binary
      /\ \A op \in Binary : op # "Gelu" /\ op # "Softmax" /\ op # "MatMul" /\ op # "Contiguous"
  BY DEF Binary
<1> QED
  BY <1>1, Zenon DEF KernelEffect

LEMMA VendorEffects ==
    ASSUME NEW a, NEW b, NEW scale
    PROVE  /\ \A op \in Binary : VendorEffect(op, a, b, scale) = CuTensorElementwise(a, b, scale)
           /\ VendorEffect("Softmax", a, b, scale) = CudnnSoftmax(a, scale)
           /\ VendorEffect("MatMul", a, b, scale) = CublasGemm(a, b, scale)
<1>1. /\ "Softmax" \notin Binary /\ "MatMul" \notin Binary
      /\ \A op \in Binary : op # "Softmax" /\ op # "MatMul"
  BY DEF Binary
<1> QED
  BY <1>1, Zenon DEF VendorEffect

LEMMA Checks ==
    ASSUME NEW a, NEW b
    PROVE  /\ \A op \in Binary : ChecksPass(op, a, b) <=> a.shape = b.shape
           /\ ChecksPass("Gelu", a, b) <=> IsContiguous(a)
           /\ ChecksPass("Softmax", a, b) <=> Len(a.shape) = 2 /\ IsContiguous(a)
           /\ ChecksPass("MatMul", a, b) <=>
                 /\ Len(a.shape) = 2 /\ Len(b.shape) = 2 /\ a.shape[2] = b.shape[1]
                 /\ IsContiguous(a) /\ IsContiguous(b)
<1>1. /\ "Gelu" \notin Binary /\ "Softmax" \notin Binary /\ "MatMul" \notin Binary
      /\ \A op \in Binary : op # "Gelu" /\ op # "Softmax" /\ op # "MatMul"
  BY DEF Binary
<1> QED
  BY <1>1, Zenon DEF ChecksPass

LEMMA WidthRatio ==
    ASSUME NEW d \in DType
    PROVE  Width(d) \div Width(d) = 1
<1>1. /\ Width("int8") = 1 /\ Width("fp32") = 4 /\ Width("bf16") = 2 /\ Width("fp16") = 2
  BY Zenon DEF Width
<1>2. PICK w : w = Width(d) /\ w \in {1, 2, 4}
  BY <1>1 DEF DType
<1>3. w \div w = 1
  BY <1>2
<1> QED
  BY <1>2, <1>3

\* INT8 is what libraries do not take.
Downgraded(op, requested) == requested \notin {"Auto", "Custom"} /\ dtype = "int8" /\ op \in GeneratedOps

\* A call that is not downgraded is computed in the dtype of the tensors.
LEMMA ComputesInDType ==
    ASSUME dtype \in DType, NEW op \in Dispatched, NEW requested \in Backend, ~Downgraded(op, requested)
    PROVE  Resolve(op, requested).compute = dtype
<1>1. CASE requested = "Auto"
  <2>1. op \in Binary \/ op \in {"MatMul", "Softmax", "Gelu", "Contiguous"}
    BY DEF Dispatched, GeneratedOps
  <2>2. \E backend \in Backend : Resolve(op, "Auto") = Resolution(backend, dtype)
    BY <2>1, ResolveFirst DEF Backend
  <2> QED
    BY <1>1, <2>2 DEF Resolution
<1>2. CASE requested # "Auto"
  <2>1. Resolve(op, requested) = IF dtype \in SupportedDTypes(op, requested)
                                 THEN Resolution(requested, dtype) ELSE Downgrade(op, requested)
    BY <1>2, Zenon DEF Resolve
  <2>2. CASE dtype \in SupportedDTypes(op, requested)
    BY <2>1, <2>2 DEF Resolution
  <2>3. CASE dtype \notin SupportedDTypes(op, requested)
    <3>1. requested # "Custom"
      BY <2>3 DEF SupportedDTypes
    <3>2. op = "Contiguous"
      BY <1>2, <2>3, <3>1 DEF SupportedDTypes, Downgraded, Dispatched, DType, Floats
    <3>3. Downgrade(op, requested) = Resolution("Custom", dtype)
      BY <3>1, <3>2 DEF Downgrade, SupportedDTypes
    <3> QED
      BY <2>1, <2>3, <3>3 DEF Resolution
  <2> QED
    BY <2>2, <2>3
<1> QED
  BY <1>1, <1>2

\* What an operation is to compute, and when it does not.
Right(op, a, b, effect) ==
    /\ op \in Binary => effect = Paired(a, b)
    /\ op \in {"Gelu", "Contiguous", "ToHost"} => effect = Copied(a)
    /\ op = "Softmax" => effect = Softmaxed(a, a.shape[2])
    /\ op = "MatMul" => effect = Multiplied(a, b)

Excused(op, requested, a, b) ==
    \/ Downgraded(op, requested)
    \/ op \in Binary /\ ~(IsContiguous(a) /\ IsContiguous(b))
    \/ op = "Gelu" /\ Numel(a.shape) > Word \div 2
    \/ op = "Contiguous" /\ ~IsContiguous(a) /\ Numel(a.shape) > Word

\* What is known of a call, from what it was given and what it answers.
Computes(op, requested, a, b, shape, status, effect) ==
    status = "ok" =>
        /\ shape = a.shape
        /\ op \in GeneratedOps => ChecksPass(op, a, b)
        /\ ~Excused(op, requested, a, b) => Right(op, a, b, effect)

LEMMA FactorsOf ==
    ASSUME NEW a \in Tensor, NEW b \in Tensor, Denotes(a), Denotes(b), ChecksPass("MatMul", a, b)
    PROVE  \E M, K, N : Factors(a, b, M, K, N)
<1>1. /\ Len(a.shape) = 2 /\ Len(b.shape) = 2 /\ a.shape[2] = b.shape[1]
      /\ IsContiguous(a) /\ IsContiguous(b)
  BY Checks
<1>2. PICK M, K : Flat(a, M, K)
  BY <1>1, FlatTensor
<1>3. PICK L, N : Flat(b, L, N)
  BY <1>1, FlatTensor
<1>4. K = L
  BY <1>1, <1>2, <1>3 DEF Flat
<1> QED
  BY <1>2, <1>3, <1>4 DEF Factors

\* What the kernel and what the library computes, on tensors that pass the checks.
LEMMA KernelRight ==
    ASSUME NEW op \in Dispatched, NEW requested, NEW a \in Tensor, NEW b \in Tensor, Denotes(a), Denotes(b),
           op \in GeneratedOps => ChecksPass(op, a, b),
           op = "Contiguous" => ~IsContiguous(a) /\ ~Broken(a),
           ~Excused(op, requested, a, b)
    PROVE  Right(op, a, b, KernelEffect(op, a, b))
<1>0. Numel(a.shape) \in Nat /\ Word \in Nat /\ Word \div 2 \in Nat
  BY Launched, NumelNat DEF Tensor, Extents
<1>1. CASE op \in Binary
  <2>1. IsContiguous(a) /\ IsContiguous(b) /\ a.shape = b.shape
    BY <1>1, Checks DEF Excused, GeneratedOps
  <2>2. KernelEffect(op, a, b) = Paired(a, b)
    BY <1>1, <2>1, KernelEffects, BinaryRight
  <2> QED
    BY <1>1, <2>2 DEF Right, Binary
<1>2. CASE op = "Gelu"
  <2>1. IsContiguous(a) /\ Numel(a.shape) <= Word \div 2
    BY <1>0, <1>2, Checks DEF Excused, GeneratedOps
  <2>2. KernelEffect(op, a, b) = Copied(a)
    BY <1>2, <2>1, KernelEffects, GeluRight
  <2> QED
    BY <1>2, <2>2 DEF Right, Binary
<1>3. CASE op = "Contiguous"
  <2>1. ~Broken(a) /\ Numel(a.shape) <= Word
    BY <1>0, <1>3 DEF Excused
  <2>2. KernelEffect(op, a, b) = Copied(a)
    BY <1>3, <2>1, KernelEffects, ContiguousRight
  <2> QED
    BY <1>3, <2>2 DEF Right, Binary
<1>4. CASE op = "Softmax"
  <2>1. Len(a.shape) = 2 /\ IsContiguous(a)
    BY <1>4, Checks DEF GeneratedOps
  <2>2. PICK rows, cols : Flat(a, rows, cols)
    BY <2>1, FlatTensor
  <2>3. a.shape[2] = cols
    BY <2>2 DEF Flat
  <2>4. KernelEffect(op, a, b) = Softmaxed(a, a.shape[2])
    BY <1>4, <2>2, <2>3, KernelEffects, SoftmaxRight
  <2> QED
    BY <1>4, <2>4 DEF Right, Binary
<1>5. CASE op = "MatMul"
  <2>1. ChecksPass("MatMul", a, b)
    BY <1>5 DEF GeneratedOps
  <2>2. PICK M, K, N : Factors(a, b, M, K, N)
    BY <2>1, FactorsOf
  <2>3. KernelEffect(op, a, b) = Multiplied(a, b)
    BY <1>5, <2>2, KernelEffects, MatmulRight
  <2> QED
    BY <1>5, <2>3 DEF Right, Binary
<1> QED
  BY <1>1, <1>2, <1>3, <1>4, <1>5 DEF Dispatched, GeneratedOps

LEMMA VendorRight ==
    ASSUME NEW op, NEW backend, NEW compute, <<op, backend, compute>> \in Registered,
           NEW requested, NEW a \in Tensor, NEW b \in Tensor, Denotes(a), Denotes(b),
           ChecksPass(op, a, b), ~Excused(op, requested, a, b)
    PROVE  Right(op, a, b, VendorEffect(op, a, b, 1))
<1>0. op \in Binary \/ op = "MatMul" \/ op = "Softmax"
  BY DEF Registered, RegisteredCuBLAS, RegisteredCuDNN, RegisteredCuTensor, Binary
<1>1. CASE op \in Binary
  <2>1. IsContiguous(a) /\ IsContiguous(b) /\ a.shape = b.shape
    BY <1>1, Checks DEF Excused
  <2>2. VendorEffect(op, a, b, 1) = Paired(a, b)
    BY <1>1, <2>1, VendorEffects, CuTensorRight
  <2> QED
    BY <1>1, <2>2 DEF Right, Binary
<1>4. CASE op = "Softmax"
  <2>1. Len(a.shape) = 2 /\ IsContiguous(a)
    BY <1>4, Checks
  <2>2. PICK rows, cols : Flat(a, rows, cols)
    BY <2>1, FlatTensor
  <2>3. a.shape[2] = cols
    BY <2>2 DEF Flat
  <2>4. VendorEffect(op, a, b, 1) = Softmaxed(a, a.shape[2])
    BY <1>4, <2>2, <2>3, VendorEffects, CudnnRight
  <2> QED
    BY <1>4, <2>4 DEF Right, Binary
<1>5. CASE op = "MatMul"
  <2>1. ChecksPass("MatMul", a, b)
    BY <1>5
  <2>2. PICK M, K, N : Factors(a, b, M, K, N)
    BY <2>1, FactorsOf
  <2>3. VendorEffect(op, a, b, 1) = Multiplied(a, b)
    BY <1>5, <2>2, VendorEffects, CublasRight
  <2> QED
    BY <1>5, <2>3 DEF Right, Binary
<1> QED
  BY <1>0, <1>1, <1>4, <1>5

\* What call' says of the call of op.
Records(op, requested, x, y) ==
    \E by, shape, status, effect :
        /\ Called(op, requested, by, x, y, shape, status, effect)
        /\ Computes(op, requested, tensors[x], tensors[y], shape, status, effect)

LEMMA FailsRecords ==
    ASSUME NEW op, NEW requested, NEW by, NEW x, NEW y, NEW status, status # "ok",
           Fails(op, requested, by, x, y, status)
    PROVE  Records(op, requested, x, y)
BY DEF Fails, Records, Computes

LEMMA ReturnsRecords ==
    ASSUME NEW op, NEW requested, NEW by, NEW x, NEW y, NEW effect,
           Returns(op, requested, by, x, y, tensors[x].shape, effect),
           op \in GeneratedOps => ChecksPass(op, tensors[x], tensors[y]),
           ~Excused(op, requested, tensors[x], tensors[y]) => Right(op, tensors[x], tensors[y], effect)
    PROVE  Records(op, requested, x, y)
<1>1. Called(op, requested, by, x, y, tensors[x].shape, "ok", effect)
  BY DEF Returns
<1>2. Computes(op, requested, tensors[x], tensors[y], tensors[x].shape, "ok", effect)
  BY DEF Computes
<1> QED
  BY <1>1, <1>2 DEF Records

LEMMA DispatchRecords ==
    ASSUME ViewsInv, dtype \in DType, NEW op \in Dispatched, NEW requested \in Backend,
           NEW x \in Handles, NEW y \in Handles,
           op \in GeneratedOps => ChecksPass(op, tensors[x], tensors[y]),
           op = "Contiguous" => ~IsContiguous(tensors[x]) /\ ~Broken(tensors[x]),
           Dispatch(op, requested, x, y, tensors[x].shape)
    PROVE  Records(op, requested, x, y)
<1>1. PICK r : r = Resolve(op, requested)
  OBVIOUS
<1>2. PICK a, b : /\ a = tensors[x] /\ b = tensors[y] /\ a \in Tensor /\ b \in Tensor
                  /\ Denotes(a) /\ Denotes(b)
  BY TensorAt
<1>3. CASE r.backend = "Custom"
  <2>1. \/ Fails(op, requested, "Custom", x, y, "threw") \/ Fails(op, requested, "Custom", x, y, "fault")
        \/ Returns(op, requested, "Custom", x, y, tensors[x].shape, KernelEffect(op, a, b))
    BY <1>1, <1>2, <1>3 DEF Dispatch
  <2>2. ~Excused(op, requested, a, b) => Right(op, a, b, KernelEffect(op, a, b))
    BY <1>2, KernelRight
  <2> QED
    BY <1>2, <2>1, <2>2, FailsRecords, ReturnsRecords
<1>4. CASE r.backend # "Custom"
  <2>1. PICK scale : scale = Width(r.compute) \div Width(dtype)
    OBVIOUS
  <2>2. \/ Fails(op, requested, r.backend, x, y, "threw") \/ Fails(op, requested, r.backend, x, y, "fault")
        \/ /\ <<op, r.backend, r.compute>> \in Registered
           /\ Returns(op, requested, r.backend, x, y, tensors[x].shape, VendorEffect(op, a, b, scale))
    BY <1>1, <1>2, <1>4, <2>1 DEF Dispatch
  <2>3. ASSUME <<op, r.backend, r.compute>> \in Registered, ~Excused(op, requested, a, b)
        PROVE  Right(op, a, b, VendorEffect(op, a, b, scale))
    <3>1. scale = 1
      <4>1. ~Downgraded(op, requested)
        BY <2>3 DEF Excused
      <4>2. r.compute = dtype
        BY <1>1, <4>1, ComputesInDType
      <4> QED
        BY <2>1, <4>2, WidthRatio
    <3>2. op \in GeneratedOps
      BY <2>3 DEF Registered, RegisteredCuBLAS, RegisteredCuDNN, RegisteredCuTensor, GeneratedOps, Binary
    <3> QED
      BY <1>2, <2>3, <3>1, <3>2, VendorRight
  <2> QED
    BY <1>2, <2>2, <2>3, FailsRecords, ReturnsRecords
<1> QED
  BY <1>3, <1>4

\* A contiguous tensor is handed on, or copied, as it lies.
LEMMA CopyRight ==
    ASSUME ViewsInv, NEW x \in Handles, IsContiguous(tensors[x])
    PROVE  [i \in 0..(Numel(tensors[x].shape) - 1) |-> <<<<At(tensors[x], i, 1)>>>>] = Copied(tensors[x])
<1>1. PICK t : t = tensors[x] /\ t \in Tensor /\ Denotes(t) /\ IsContiguous(t)
  BY TensorAt
<1>2. \A i \in 0..(Numel(t.shape) - 1) : At(t, i, 1) = t.elems[i + 1]
  BY <1>1, DenseAt
<1> QED
  BY <1>1, <1>2 DEF Copied

\* Every call computes what its operation is to compute, or is excused.
LEMMA CallRecords ==
    ASSUME ViewsInv, dtype \in DType, Call
    PROVE  \E op, requested, x, y : Records(op, requested, x, y)
<1>b. Backends \subseteq Backend
  BY DispatchAssumption
<1>1. CASE \E op \in GeneratedOps, requested \in Backends, x, y \in Handles : Generated(op, requested, x, y)
  <2>1. PICK op \in GeneratedOps, requested \in Backends, x \in Handles, y \in Handles :
           Generated(op, requested, x, y)
    BY <1>1
  <2>2. op \in Dispatched /\ requested \in Backend /\ op # "Contiguous"
    BY <1>b DEF Dispatched, GeneratedOps, Binary
  <2>3. CASE ~ChecksPass(op, tensors[x], tensors[y])
    <3>1. Fails(op, requested, "Auto", x, y, "threw")
      BY <2>1, <2>3 DEF Generated
    <3>2. Records(op, requested, x, y)
      BY <3>1, FailsRecords
    <3> QED
      BY <3>2
  <2>4. CASE ChecksPass(op, tensors[x], tensors[y])
    <3>1. Dispatch(op, requested, x, y, tensors[x].shape)
      BY <2>1, <2>4 DEF Generated
    <3>2. Records(op, requested, x, y)
      BY <2>2, <2>4, <3>1, DispatchRecords
    <3> QED
      BY <3>2
  <2> QED
    BY <2>3, <2>4
<1>2. CASE \E requested \in Backends, x \in Handles : Contiguous(requested, x)
  <2>1. PICK requested \in Backends, x \in Handles : Contiguous(requested, x)
    BY <1>2
  <2>2. "Contiguous" \in Dispatched /\ requested \in Backend /\ "Contiguous" \notin GeneratedOps
        /\ "Contiguous" \notin Binary
    BY <1>b DEF Dispatched, GeneratedOps, Binary
  <2>3. CASE IsContiguous(tensors[x])
    <3>1. Called("Contiguous", requested, "Auto", x, x, tensors[x].shape, "ok", Copied(tensors[x]))
      BY <2>1, <2>3, CopyRight DEF Contiguous
    <3>2. Right("Contiguous", tensors[x], tensors[x], Copied(tensors[x]))
      BY <2>2 DEF Right
    <3>3. Computes("Contiguous", requested, tensors[x], tensors[x], tensors[x].shape, "ok", Copied(tensors[x]))
      BY <2>2, <3>2 DEF Computes
    <3>4. Records("Contiguous", requested, x, x)
      BY <3>1, <3>3 DEF Records
    <3> QED
      BY <3>4
  <2>4. CASE ~IsContiguous(tensors[x])
    <3>1. Dispatch("Contiguous", requested, x, x, tensors[x].shape) /\ ~Broken(tensors[x])
      BY <2>1, <2>4 DEF Contiguous
    <3>2. Records("Contiguous", requested, x, x)
      BY <2>2, <2>4, <3>1, DispatchRecords
    <3> QED
      BY <3>2
  <2> QED
    BY <2>3, <2>4
<1>3. CASE \E x \in Handles : ToHost(x)
  <2>1. PICK x \in Handles : ToHost(x)
    BY <1>3
  <2>2. "ToHost" \notin GeneratedOps /\ "ToHost" \notin Binary
    BY DEF GeneratedOps, Binary
  <2>3. CASE IsContiguous(tensors[x])
    <3>1. Called("ToHost", "Auto", "Auto", x, x, tensors[x].shape, "ok", Copied(tensors[x]))
      BY <2>1, <2>3, CopyRight DEF ToHost
    <3>2. Right("ToHost", tensors[x], tensors[x], Copied(tensors[x]))
      BY <2>2 DEF Right
    <3>3. Computes("ToHost", "Auto", tensors[x], tensors[x], tensors[x].shape, "ok", Copied(tensors[x]))
      BY <2>2, <3>2 DEF Computes
    <3>4. Records("ToHost", "Auto", x, x)
      BY <3>1, <3>3 DEF Records
    <3> QED
      BY <3>4
  <2>4. CASE ~IsContiguous(tensors[x])
    <3>1. Called("ToHost", "Auto", "Auto", x, x, <<>>, "threw", <<>>)
      BY <2>1, <2>4 DEF ToHost
    <3>2. Computes("ToHost", "Auto", tensors[x], tensors[x], <<>>, "threw", <<>>)
      BY DEF Computes
    <3>3. Records("ToHost", "Auto", x, x)
      BY <3>1, <3>2 DEF Records
    <3> QED
      BY <3>3
  <2> QED
    BY <2>3, <2>4
<1> QED
  BY <1>1, <1>2, <1>3 DEF Call

CallComputes ==
    call # NoCall => Computes(call.op, call.requested, tensors[call.x], tensors[call.y],
                              call.shape, call.status, call.effect)

\* Wanted, operation by operation.
LEMMA WantedIs ==
    ASSUME NEW n
    PROVE  /\ call.op \in Binary => Wanted(n) = <<<<X.elems[n], Y.elems[n]>>>>
           /\ call.op \in {"Gelu", "Contiguous", "ToHost"} => Wanted(n) = <<<<X.elems[n]>>>>
           /\ call.op = "Softmax" =>
                 Wanted(n) = <<<<X.elems[n]>>>> \o [c \in 1..X.shape[2] |-> <<X.elems[Row(X, n) + c]>>]
           /\ call.op = "MatMul" =>
                 Wanted(n) = LET r == (n - 1) \div Y.shape[2]
                                 c == (n - 1) % Y.shape[2]
                             IN [k \in 1..X.shape[2] |->
                                   <<X.elems[r * X.shape[2] + k], Y.elems[(k - 1) * Y.shape[2] + c + 1]>>]
<1>1. /\ \A op \in Binary : op \notin {"Gelu", "Contiguous", "ToHost"} /\ op # "Softmax" /\ op # "MatMul"
      /\ "Softmax" \notin {"Gelu", "Contiguous", "ToHost"} /\ "MatMul" \notin {"Gelu", "Contiguous", "ToHost"}
      /\ "MatMul" # "Softmax"
  BY DEF Binary
<1> QED
  BY <1>1, Zenon DEF Wanted

\* What OpsDenote wants is what the operation is to compute.
LEMMA ComputesDenote ==
    ASSUME CallComputes, call # NoCall => call.op \in Ops
    PROVE  OpsDenote
<1> SUFFICES ASSUME Done, ~Reinterpreted, ~Strided, ~TooLong
             PROVE  call.effect = [i \in 0..(WantedSize - 1) |-> Wanted(i + 1)]
  BY DEF OpsDenote
<1>1. /\ call.op \in Ops /\ call.shape = X.shape
      /\ Right(call.op, X, Y, call.effect)
  <2>1. ~Excused(call.op, call.requested, X, Y)
    BY DEF Reinterpreted, Strided, TooLong, Excused, Downgraded
  <2> QED
    BY <2>1 DEF CallComputes, Computes, Done, Made, X, Y
<1>2. CASE call.op \in Binary
  <2>1. call.effect = Paired(X, Y) /\ WantedSize = Numel(X.shape)
    BY <1>1, <1>2 DEF Right, WantedSize, Binary
  <2>2. \A i \in 0..(Numel(X.shape) - 1) : Wanted(i + 1) = <<<<X.elems[i + 1], Y.elems[i + 1]>>>>
    BY <1>2, WantedIs
  <2> QED
    BY <2>1, <2>2 DEF Paired
<1>3. CASE call.op \in {"Gelu", "Contiguous", "ToHost"}
  <2>1. call.effect = Copied(X) /\ WantedSize = Numel(X.shape)
    BY <1>1, <1>3 DEF Right, WantedSize
  <2>2. \A i \in 0..(Numel(X.shape) - 1) : Wanted(i + 1) = <<<<X.elems[i + 1]>>>>
    BY <1>3, WantedIs
  <2> QED
    BY <2>1, <2>2 DEF Copied
<1>4. CASE call.op = "Softmax"
  <2>1. call.effect = Softmaxed(X, X.shape[2]) /\ WantedSize = Numel(X.shape)
    BY <1>1, <1>4 DEF Right, WantedSize
  <2>2. \A i \in 0..(Numel(X.shape) - 1) : Wanted(i + 1) = Softened(X, i, X.shape[2])
    <3> SUFFICES ASSUME NEW i \in 0..(Numel(X.shape) - 1) PROVE Wanted(i + 1) = Softened(X, i, X.shape[2])
      OBVIOUS
    <3>1. PICK n : n = i + 1
      OBVIOUS
    <3>2. Wanted(n) = <<<<X.elems[n]>>>> \o [c \in 1..X.shape[2] |-> <<X.elems[Row(X, n) + c]>>]
      BY <1>4, WantedIs
    <3>3. n - 1 = i
      BY <3>1
    <3>4. Row(X, n) = (i \div X.shape[2]) * X.shape[2]
      BY <3>3 DEF Row
    <3> QED
      BY <3>1, <3>2, <3>4 DEF Softened
  <2> QED
    BY <2>1, <2>2 DEF Softmaxed
<1>5. CASE call.op = "MatMul"
  <2>1. call.effect = Multiplied(X, Y) /\ WantedSize = X.shape[1] * Y.shape[2]
    BY <1>1, <1>5 DEF Right, WantedSize
  <2>2. \A i \in 0..(X.shape[1] * Y.shape[2] - 1) :
           Wanted(i + 1) = [k \in 1..X.shape[2] |->
                               <<X.elems[(i \div Y.shape[2]) * X.shape[2] + k],
                                 Y.elems[(k - 1) * Y.shape[2] + (i % Y.shape[2]) + 1]>>]
    <3> SUFFICES ASSUME NEW i \in 0..(X.shape[1] * Y.shape[2] - 1)
                 PROVE Wanted(i + 1) = [k \in 1..X.shape[2] |->
                               <<X.elems[(i \div Y.shape[2]) * X.shape[2] + k],
                                 Y.elems[(k - 1) * Y.shape[2] + (i % Y.shape[2]) + 1]>>]
      OBVIOUS
    <3>1. PICK n : n = i + 1
      OBVIOUS
    <3>2. n - 1 = i
      BY <3>1
    <3>3. Wanted(n) = LET r == (n - 1) \div Y.shape[2]
                          c == (n - 1) % Y.shape[2]
                      IN [k \in 1..X.shape[2] |->
                            <<X.elems[r * X.shape[2] + k], Y.elems[(k - 1) * Y.shape[2] + c + 1]>>]
      BY <1>5, WantedIs
    <3> QED
      BY <3>1, <3>2, <3>3
  <2> QED
    BY <2>1, <2>2 DEF Multiplied
<1> QED
  BY <1>1, <1>2, <1>3, <1>4, <1>5 DEF Ops, GeneratedOps

\* The elements of a tensor are inside of its buffer.
LEMMA ElemsInside ==
    ASSUME ViewsInv, NEW h \in 1..Len(tensors), NEW t, t = tensors[h]
    PROVE  /\ t \in Tensor /\ Denotes(t) /\ Numel(t.shape) \in Nat
           /\ \A n \in 1..Numel(t.shape) : t.elems[n] \in 0..(buffers[t.buf] - 1)
<1>1. h \in Handles
  BY LenProperties DEF ViewsInv, Handles
<1>2. t \in Tensor /\ Denotes(t) /\ Inside(t, buffers)
  BY <1>1, TensorAt
<1>3. PICK N, e : N = Numel(t.shape) /\ N \in Nat /\ e = t.elems /\ e \in Seq(Nat) /\ Len(e) = N
  BY <1>2, NumelNat DEF Tensor, Denotes
<1>4. PICK room : room = buffers[t.buf] /\ room \in Nat
  BY <1>2, ElementOfSeq DEF ViewsInv, Inside, Extents
<1>5. \A n \in 1..N : e[n] < room /\ e[n] \in Nat
  <2>1. \A n \in 1..N : e[n] < room
    BY <1>2, <1>3, <1>4 DEF Inside
  <2>2. \A n \in 1..N : e[n] \in Nat
    BY <1>3, ElementOfSeq
  <2> QED
    BY <2>1, <2>2
<1>6. \A n \in 1..N : e[n] \in 0..(room - 1)
  BY <1>4, <1>5
<1> QED
  BY <1>2, <1>3, <1>4, <1>6

\* The sources of an element lie in buffers of u and v elements.
Within(source, u, v) ==
    \A src \in ToSet(source) : src[1] \in 0..(u - 1) /\ (Len(src) = 2 => src[2] \in 0..(v - 1))

\* An element and its row.
LEMMA SoftenedWithin ==
    ASSUME NEW t, NEW rows, NEW cols, Flat(t, rows, cols), NEW u, NEW v,
           \A n \in 1..Numel(t.shape) : t.elems[n] \in 0..(u - 1),
           NEW i \in 0..(Numel(t.shape) - 1)
    PROVE  Within(Softened(t, i, cols), u, v)
<1>1. /\ rows \in Extents /\ cols \in Extents /\ cols \in Nat
      /\ rows * cols \in Nat /\ Numel(t.shape) = rows * cols
  BY FlatAt DEF Flat, Extents
<1>2. PICK q : q = i \div cols /\ q \in 0..(rows - 1)
  BY <1>1, RowColumn
<1> DEFINE S == {<<z>> : z \in 0..(u - 1)}
           head == <<<<t.elems[i + 1]>>>>
           row == [c \in 1..cols |-> <<t.elems[q * cols + c]>>]
<1>3. t.elems[i + 1] \in 0..(u - 1)
  <2>1. i + 1 \in 1..Numel(t.shape)
    BY <1>1
  <2> QED
    BY <2>1
<1>4. \A c \in 1..cols : t.elems[q * cols + c] \in 0..(u - 1)
  <2> SUFFICES ASSUME NEW c \in 1..cols PROVE t.elems[q * cols + c] \in 0..(u - 1)
    OBVIOUS
  <2>1. PICK d : d = c - 1 /\ d \in 0..(cols - 1)
    BY <1>1
  <2>2. q * cols \in Nat /\ q * cols + d \in 0..(rows * cols - 1)
    BY <1>2, <2>1, FlatAt
  <2>3. q * cols + c \in 1..Numel(t.shape)
    BY <1>1, <2>1, <2>2
  <2> QED
    BY <2>3
<1>5. head \in Seq(S) /\ row \in Seq(S)
  <2>1. head \in Seq(S)
    BY <1>3
  <2>2. \A c \in 1..cols : <<t.elems[q * cols + c]>> \in S
    BY <1>4
  <2>3. row \in Seq(S)
    <3> HIDE DEF S
    <3> QED
      BY <1>1, <2>2, IsASeq
  <2> QED
    BY <2>1, <2>3
<1>6. PICK w : w = head \o row /\ w \in Seq(S)
  <2> HIDE DEF head, row, S
  <2> QED
    BY <1>5, ConcatProperties
<1>7. Softened(t, i, cols) = w
  BY <1>2, <1>6 DEF Softened
<1>8. \A src \in ToSet(w) : src \in S
  <2> HIDE DEF S
  <2>1. DOMAIN w = 1..Len(w) /\ \A j \in 1..Len(w) : w[j] \in S
    BY <1>6, LenProperties
  <2> QED
    BY <2>1 DEF ToSet
<1>9. \A src \in S : src[1] \in 0..(u - 1) /\ Len(src) = 1
  OBVIOUS
<1> HIDE DEF S
<1> QED
  BY <1>7, <1>8, <1>9 DEF Within

\* A row of a and a column of b.
LEMMA MultipliedWithin ==
    ASSUME NEW a, NEW b, NEW M, NEW K, NEW N, Factors(a, b, M, K, N), NEW u, NEW v,
           \A n \in 1..Numel(a.shape) : a.elems[n] \in 0..(u - 1),
           \A n \in 1..Numel(b.shape) : b.elems[n] \in 0..(v - 1),
           NEW i \in DOMAIN Multiplied(a, b)
    PROVE  i \in 0..(M * N - 1) /\ Within(Multiplied(a, b)[i], u, v)
<1>1. /\ Flat(a, M, K) /\ Flat(b, K, N) /\ M \in Extents /\ K \in Extents /\ N \in Extents
      /\ a.shape[1] = M /\ a.shape[2] = K /\ b.shape[2] = N
      /\ M \in Nat /\ K \in Nat /\ N \in Nat
  BY DEF Factors, Flat, Extents
<1>2. /\ Numel(a.shape) = M * K /\ M * K \in Nat /\ Numel(b.shape) = K * N /\ K * N \in Nat
  BY <1>1, FlatAt
<1>3. i \in 0..(M * N - 1)
  BY <1>1 DEF Multiplied
<1>4. PICK r, c : r = i \div N /\ r \in 0..(M - 1) /\ c = i % N /\ c \in 0..(N - 1)
  <2>1. M \in Extents /\ N \in Extents
    BY <1>1
  <2>2. i \div N \in 0..(M - 1) /\ i % N \in 0..(N - 1)
    BY <1>3, <2>1, RowColumn
  <2> QED
    BY <2>2
<1>5. Multiplied(a, b)[i] = [k \in 1..K |-> <<a.elems[r * K + k], b.elems[(k - 1) * N + c + 1]>>]
  BY <1>1, <1>3, <1>4 DEF Multiplied
<1>6. ASSUME NEW k \in 1..K
      PROVE  a.elems[r * K + k] \in 0..(u - 1) /\ b.elems[(k - 1) * N + c + 1] \in 0..(v - 1)
  <2>1. PICK j : j = k - 1 /\ j \in 0..(K - 1)
    BY <1>1
  <2>2. r * K \in Nat /\ r * K + j \in 0..(M * K - 1)
    BY <1>1, <1>4, <2>1, FlatAt
  <2>3. j * N \in Nat /\ j * N + c \in 0..(K * N - 1)
    BY <1>1, <1>4, <2>1, FlatAt
  <2>4. r * K + k \in 1..Numel(a.shape)
    BY <1>2, <2>1, <2>2
  <2>5. j * N + c + 1 \in 1..Numel(b.shape)
    BY <1>2, <2>1, <2>3
  <2> QED
    BY <2>1, <2>4, <2>5
<1>7. Within(Multiplied(a, b)[i], u, v)
  <2> SUFFICES ASSUME NEW src \in ToSet(Multiplied(a, b)[i])
               PROVE  src[1] \in 0..(u - 1) /\ src[2] \in 0..(v - 1)
    BY DEF Within
  <2>1. PICK k \in 1..K : src = <<a.elems[r * K + k], b.elems[(k - 1) * N + c + 1]>>
    BY <1>5 DEF ToSet
  <2> QED
    BY <1>6, <2>1
<1> QED
  BY <1>3, <1>7

\* What the operation is to compute is inside of the buffers.
LEMMA ComputesInside ==
    ASSUME ViewsInv, CallComputes,
           call # NoCall => call.op \in Ops /\ call.x \in 1..Len(tensors) /\ call.y \in 1..Len(tensors)
    PROVE  InBounds
<1> SUFFICES ASSUME Done, ~Reinterpreted, ~Strided, ~TooLong, ~Narrow
             PROVE  \A i \in DOMAIN call.effect : /\ i \in 0..(Numel(X.shape) - 1)
                                                  /\ Within(call.effect[i], buffers[X.buf], buffers[Y.buf])
  <2>1. Done => call.shape = X.shape
    BY DEF CallComputes, Computes, Done, Made, X, Y
  <2> QED
    BY <2>1 DEF InBounds, Within
<1>1. call.op \in Ops /\ Right(call.op, X, Y, call.effect) /\ (call.op \in GeneratedOps => ChecksPass(call.op, X, Y))
  <2>1. ~Excused(call.op, call.requested, X, Y)
    BY DEF Reinterpreted, Strided, TooLong, Excused, Downgraded
  <2> QED
    BY <2>1 DEF CallComputes, Computes, Done, Made, X, Y
<1>2. PICK a, u : /\ a = X /\ a \in Tensor /\ Denotes(a) /\ Numel(a.shape) \in Nat
                  /\ u = buffers[X.buf] /\ \A n \in 1..Numel(a.shape) : a.elems[n] \in 0..(u - 1)
  BY ElemsInside DEF X, Done, Made
<1>3. PICK b, v : /\ b = Y /\ b \in Tensor /\ Denotes(b) /\ Numel(b.shape) \in Nat
                  /\ v = buffers[Y.buf] /\ \A n \in 1..Numel(b.shape) : b.elems[n] \in 0..(v - 1)
  BY ElemsInside DEF Y, Done, Made
<1>4. PICK N \in Nat : N = Numel(a.shape)
  BY <1>2
<1>5. \A i \in 0..(N - 1) : i + 1 \in 1..N
  BY <1>4
<1> SUFFICES \A i \in DOMAIN call.effect : i \in 0..(N - 1) /\ Within(call.effect[i], u, v)
  BY <1>2, <1>3, <1>4
<1>6. CASE call.op \in Binary
  <2>1. call.effect = Paired(a, b) /\ a.shape = b.shape
    BY <1>1, <1>2, <1>3, <1>6, Checks DEF Right, GeneratedOps
  <2>2. ASSUME NEW i \in 0..(N - 1) PROVE Within(<<<<a.elems[i + 1], b.elems[i + 1]>>>>, u, v)
    <3>1. a.elems[i + 1] \in 0..(u - 1) /\ b.elems[i + 1] \in 0..(v - 1)
      BY <1>2, <1>3, <1>4, <1>5, <2>1
    <3> QED
      BY <3>1 DEF Within, ToSet
  <2> QED
    BY <1>4, <2>1, <2>2 DEF Paired
<1>7. CASE call.op \in {"Gelu", "Contiguous", "ToHost"}
  <2>1. call.effect = Copied(a)
    BY <1>1, <1>2, <1>7 DEF Right
  <2>2. ASSUME NEW i \in 0..(N - 1) PROVE Within(<<<<a.elems[i + 1]>>>>, u, v)
    <3>1. a.elems[i + 1] \in 0..(u - 1)
      BY <1>2, <1>4, <1>5
    <3> QED
      BY <3>1 DEF Within, ToSet
  <2> QED
    BY <1>4, <2>1, <2>2 DEF Copied
<1>8. CASE call.op = "Softmax"
  <2>1. call.effect = Softmaxed(a, a.shape[2]) /\ Len(a.shape) = 2 /\ IsContiguous(a)
    BY <1>1, <1>2, <1>8, Checks DEF Right, GeneratedOps
  <2>2. PICK rows, cols : Flat(a, rows, cols) /\ a.shape[2] = cols
    BY <1>2, <2>1, FlatTensor DEF Flat
  <2>3. \A i \in 0..(N - 1) : Within(Softened(a, i, cols), u, v)
    BY <1>2, <1>4, <2>2, SoftenedWithin
  <2> QED
    BY <1>4, <2>1, <2>2, <2>3 DEF Softmaxed
<1>9. CASE call.op = "MatMul"
  <2>1. call.effect = Multiplied(a, b) /\ ChecksPass("MatMul", a, b)
    BY <1>1, <1>2, <1>3, <1>9 DEF Right, GeneratedOps
  <2>2. PICK M, K, L : Factors(a, b, M, K, L)
    BY <1>2, <1>3, <2>1, FactorsOf
  <2>3. M * L <= M * K /\ N = M * K /\ M * L \in Nat
    <3>1. /\ Flat(a, M, K) /\ M \in Nat /\ K \in Nat /\ L \in Nat /\ a.shape[2] = K /\ b.shape[2] = L
      BY <2>2 DEF Factors, Flat, Extents
    <3>2. L <= K
      BY <1>2, <1>3, <1>9, <3>1 DEF Narrow
    <3>3. L * M <= K * M
      BY <3>1, <3>2, TimesLeq
    <3>4. N = M * K
      BY <1>4, <3>1, FlatAt
    <3> QED
      BY <3>1, <3>3, <3>4
  <2>4. ASSUME NEW i \in DOMAIN Multiplied(a, b)
        PROVE  i \in 0..(M * L - 1) /\ Within(Multiplied(a, b)[i], u, v)
    BY <1>2, <1>3, <2>2, MultipliedWithin
  <2> QED
    BY <2>1, <2>3, <2>4
<1> QED
  BY <1>1, <1>6, <1>7, <1>8, <1>9 DEF Ops, GeneratedOps

-----------------------------------------------------------------------------
(***************************************************************************)
(* The theorems.                                                           *)
(***************************************************************************)
CallInv ==
    call # NoCall =>
        /\ call.op \in Ops /\ call.status \in Status /\ call.by \in Backend
        /\ call.x \in 1..Len(tensors) /\ call.y \in 1..Len(tensors)
        /\ Reaches(call.op, call.requested, call.x, call.y, call.status)

Inv == ViewsInv /\ DispatchInv /\ CallInv /\ CallComputes

LEMMA TensorsAre ==
    ASSUME ViewsInv, NEW t \in ToSet(tensors)
    PROVE  t \in Tensor /\ Denotes(t) /\ Inside(t, buffers)
<1>1. PICK h \in Handles : t = tensors[h]
  BY DEF ToSet, Handles
<1> QED
  BY <1>1, TensorAt

LEMMA InitInv == Init => Inv
<1> SUFFICES ASSUME Init PROVE Inv
  OBVIOUS
<1>1. ViewsInv
  BY ViewsStart DEF Init
<1>2. DispatchInv
  <2>1. gpu \in Gpus /\ dtype \in DTypes /\ loaded = {} /\ modules = [kernel \in Kernels |-> 0] /\ 0 \in 0..MaxModules
    BY DispatchAssumption DEF Init, DispatchInit
  <2> QED
    BY <2>1 DEF DispatchInv, ModuleOncePerKernel
<1> QED
  BY <1>1, <1>2 DEF Init, Inv, CallInv, CallComputes

LEMMA StepInv ==
    ASSUME Inv, [Next]_vars
    PROVE  Inv'
<1>i. ViewsInv /\ DispatchInv /\ CallInv /\ CallComputes /\ dtype \in DType
  BY DispatchAssumption DEF Inv, DispatchInv
<1>1. CASE call = NoCall /\ ViewsNext /\ UNCHANGED <<dispatch, call>>
  <2>1. ViewsInv'
    BY <1>i, <1>1, ViewsStep
  <2>2. DispatchInv'
    BY <1>i, <1>1 DEF DispatchInv, ModuleOncePerKernel, HasEntry, dispatch
  <2>3. CallInv'
    BY <1>1 DEF CallInv
  <2>4. CallComputes'
    BY <1>1 DEF CallComputes
  <2> QED
    BY <2>1, <2>2, <2>3, <2>4 DEF Inv
<1>2. CASE call = NoCall /\ Counted /\ Call
  <2>1. PICK op \in Ops, requested \in Backend, x \in Handles, y \in Handles :
           Outcome(op, requested, x, y) /\ Reaches(op, requested, x, y, call'.status)
    BY <1>i, <1>2, CallOutcome
  <2>2. ViewsInv'
    <3>1. CASE tensors' = tensors /\ buffers' = buffers
      BY <1>i, <3>1 DEF ViewsInv
    <3>2. CASE \E h \in Handles : Makes(tensors[h].shape)
      <4>1. PICK h \in Handles : Makes(tensors[h].shape)
        BY <3>2
      <4>2. tensors[h].shape \in Seq(Extents)
        BY <1>i, TensorAt
      <4> QED
        BY <1>i, <4>1, <4>2, MakesKeeps
    <3> QED
      BY <2>1, <3>1, <3>2 DEF Outcome, Answers
  <2>3. DispatchInv'
    <3>1. CASE gpu' = gpu /\ dtype' = dtype /\ loaded' = loaded /\ modules' = modules
      BY <1>i, <3>1 DEF DispatchInv, ModuleOncePerKernel, HasEntry
    <3>2. CASE \E kernel \in Kernels : GetFunction(kernel)
      BY <1>i, <3>2, GetFunctionKeeps
    <3> QED
      BY <2>1, <3>1, <3>2 DEF Outcome
  <2>4. /\ call'.op = op /\ call'.requested = requested /\ call'.x = x /\ call'.y = y
        /\ call'.status \in Status /\ call'.by \in Backend
    BY <2>1, AnswerFields DEF Outcome
  <2>5. /\ x \in 1..Len(tensors) /\ y \in 1..Len(tensors)
        /\ x \in 1..Len(tensors') /\ y \in 1..Len(tensors')
        /\ tensors'[x] = tensors[x] /\ tensors'[y] = tensors[y]
    <3>1. tensors \in Seq(Tensor) /\ DOMAIN tensors = 1..Len(tensors) /\ Len(tensors) \in Nat
      BY <1>i, LenProperties DEF ViewsInv
    <3>2. CASE tensors' = tensors
      BY <3>1, <3>2 DEF Handles
    <3>3. CASE \E h \in Handles : Makes(tensors[h].shape)
      <4>1. PICK h \in Handles : tensors' = Append(tensors, Fresh(Len(buffers) + 1, tensors[h].shape))
        BY <3>3 DEF Makes
      <4>2. PICK v : v = Fresh(Len(buffers) + 1, tensors[h].shape) /\ v \in Tensor
        <5>1. tensors[h].shape \in Seq(Extents) /\ Len(buffers) + 1 \in Nat
          BY <1>i, TensorAt, LenProperties DEF ViewsInv
        <5> QED
          BY <5>1, FreshDenotes
      <4>3. Len(tensors') = Len(tensors) + 1 /\ \A i \in 1..Len(tensors) : tensors'[i] = tensors[i]
        BY <3>1, <4>1, <4>2, AppendProperties
      <4> QED
        BY <3>1, <4>3 DEF Handles
    <3> QED
      BY <2>1, <3>2, <3>3 DEF Outcome, Answers
  <2>6. dtype' = dtype /\ gpu' = gpu
    BY <2>1 DEF Outcome, GetFunction
  <2>7. CallInv'
    <3>1. PICK status : status = call'.status
      OBVIOUS
    <3>2. Reaches(op, requested, x, y, status)'
      BY <2>1, <2>5, <2>6, <3>1 DEF Reaches
    <3>3. Reaches(call.op, call.requested, call.x, call.y, call.status)'
      BY <2>4, <3>1, <3>2 DEF Reaches
    <3> QED
      BY <2>4, <2>5, <3>3 DEF CallInv
  <2>8. CallComputes'
    <3>1. PICK o, r, h, k : Records(o, r, h, k)
      BY <1>i, <1>2, CallRecords
    <3>2. PICK by, shape, status, effect :
             /\ Called(o, r, by, h, k, shape, status, effect)
             /\ Computes(o, r, tensors[h], tensors[k], shape, status, effect)
      BY <3>1 DEF Records
    <3>3. /\ call'.op = o /\ call'.requested = r /\ call'.x = h /\ call'.y = k
          /\ call'.shape = shape /\ call'.status = status /\ call'.effect = effect
      BY <3>2 DEF Called
    <3>4. PICK a, b : a = tensors[h] /\ b = tensors[k] /\ tensors'[h] = a /\ tensors'[k] = b
      BY <2>4, <2>5, <3>3
    <3>5. Computes(o, r, a, b, shape, status, effect)'
      BY <2>6, <3>2, <3>4 DEF Computes, Excused, Downgraded
    <3> QED
      BY <3>3, <3>4, <3>5 DEF CallComputes, Computes, Excused, Downgraded
  <2> QED
    BY <2>2, <2>3, <2>7, <2>8 DEF Inv
<1>3. CASE Resume
  <2>1. ViewsInv'
    BY <1>i, <1>3 DEF Resume, views, ViewsInv
  <2>2. DispatchInv'
    BY <1>i, <1>3 DEF Resume, DispatchInv, ModuleOncePerKernel, HasEntry, dispatch
  <2>3. CallInv'
    BY <1>3 DEF Resume, CallInv
  <2>4. CallComputes'
    BY <1>3 DEF Resume, CallComputes
  <2> QED
    BY <2>1, <2>2, <2>3, <2>4 DEF Inv
<1>4. CASE UNCHANGED vars
  <2>1. ViewsInv'
    BY <1>i, <1>4 DEF vars, views, ViewsInv
  <2>2. DispatchInv'
    BY <1>i, <1>4 DEF vars, DispatchInv, ModuleOncePerKernel, HasEntry, dispatch
  <2>3. CallInv'
    BY <1>i, <1>4 DEF vars, views, dispatch, CallInv, Reaches
  <2>4. CallComputes'
    BY <1>i, <1>4 DEF vars, views, dispatch, CallComputes, Computes, Excused, Downgraded
  <2> QED
    BY <2>1, <2>2, <2>3, <2>4 DEF Inv
<1> QED
  BY <1>1, <1>2, <1>3, <1>4 DEF Next

\* Every tensor has an element for each index, where its strides lead, inside of
\* its buffer; what is loaded; what is known of the last call.
THEOREM OpsInvariant == Spec => []Inv
BY InitInv, StepInv, PTL DEF Spec

\* Tensors, buffers, modules and the last call are what they are declared to be.
THEOREM TensorsTyped == Spec => []TypeOK
<1>1. Inv => TypeOK
  <2> SUFFICES ASSUME Inv PROVE TypeOK
    OBVIOUS
  <2>1. ASSUME NEW t \in ToSet(tensors)
        PROVE  /\ t.buf \in DOMAIN buffers
               /\ t.shape \in Seq(Nat \ {0}) /\ t.strides \in Seq(Nat) /\ t.offset \in Nat
               /\ Len(t.elems) = Numel(t.shape)
    <3>1. t \in Tensor /\ Denotes(t) /\ Inside(t, buffers)
      BY TensorsAre DEF Inv
    <3>2. DOMAIN buffers = 1..Len(buffers)
      BY LenProperties DEF Inv, ViewsInv
    <3> QED
      BY <3>1, <3>2 DEF Tensor, Denotes, Inside, Extents
  <2> QED
    BY <2>1 DEF Inv, TypeOK, ViewsInv, DispatchInv, CallInv, Extents
<1> QED
  BY <1>1, OpsInvariant, PTL

\* Whatever views were taken of views, the strides and the offset lead to the
\* elements the tensor means, inside of its buffer: transpose, permute, slice
\* and reshape compose, in every rank and shape.
THEOREM ViewsLead == Spec => []ViewsDenote
<1>1. Inv => ViewsDenote
  <2> SUFFICES ASSUME Inv, NEW t \in ToSet(tensors), ~Broken(t)
               PROVE  /\ Addresses(t) = t.elems
                      /\ \A n \in DOMAIN t.elems : t.elems[n] \in 0..(buffers[t.buf] - 1)
    BY DEF ViewsDenote
  <2>1. t \in Tensor /\ Denotes(t) /\ Inside(t, buffers)
    BY TensorsAre DEF Inv
  <2>2. PICK N, e : N = Numel(t.shape) /\ e = t.elems /\ e \in Seq(Nat) /\ Len(e) = N /\ N \in Nat
    BY <2>1, LenProperties DEF Tensor, Denotes
  <2>3. e = [n \in 1..N |-> e[n]] /\ DOMAIN e = 1..N /\ \A n \in 1..N : e[n] \in Nat
    BY <2>2, LenProperties
  <2>4. Addresses(t) = e
    <3>1. \A n \in 1..N : e[n] = t.offset + Dot(Index(t.shape, n - 1), t.strides)
      BY <2>1, <2>2 DEF Denotes
    <3>2. Addresses(t) = [n \in 1..N |-> t.offset + Dot(Index(t.shape, n - 1), t.strides)]
      BY <2>2 DEF Addresses
    <3> QED
      BY <2>3, <3>1, <3>2
  <2>5. \A n \in 1..N : e[n] \in 0..(buffers[t.buf] - 1)
    <3>1. PICK room : room = buffers[t.buf] /\ room \in Nat
      BY <2>1, ElementOfSeq DEF Inv, ViewsInv, Inside, Extents
    <3>2. \A n \in 1..N : e[n] < room
      BY <2>1, <2>2, <3>1 DEF Inside
    <3> QED
      BY <2>3, <3>1, <3>2
  <2> QED
    BY <2>2, <2>3, <2>4, <2>5
<1> QED
  BY <1>1, OpsInvariant, PTL

\* The elements of a tensor that is_contiguous accepts lie one after the other
\* from its data().
THEOREM ContiguousLiesDense == Spec => []ContiguousIsDense
<1>1. Inv => ContiguousIsDense
  <2> SUFFICES ASSUME Inv, NEW t \in ToSet(tensors), IsContiguous(t), NEW n \in DOMAIN t.elems
               PROVE  t.elems[n] = t.offset + n - 1
    BY DEF ContiguousIsDense
  <2>1. t \in Tensor /\ Denotes(t)
    BY TensorsAre DEF Inv
  <2>2. n \in 1..Numel(t.shape)
    BY <2>1, LenProperties DEF Tensor, Denotes
  <2>3. t.elems[n] = t.offset + (n - 1)
    BY <2>1, <2>2, DenotesDense DEF Dense
  <2>4. t.offset \in Nat /\ n \in Nat
    BY <2>1, <2>2, NumelNat DEF Tensor
  <2> QED
    BY <2>3, <2>4
<1> QED
  BY <1>1, OpsInvariant, PTL

\* get_function loads the module of a kernel once, unless its entry point has
\* not the name it looks for.
THEOREM ModulesLoadOnce == Spec => []ModuleOncePerKernel
BY OpsInvariant, PTL DEF Inv, DispatchInv

\* Left to Auto, an operation whose operands pass the checks finds someone to
\* compute it, for every dtype but INT8, and on every GPU if a library does
\* (resolve, invoke, map_arch and get_function).
THEOREM AutoReaches == Spec => []AutoReachesWhatExists
<1>1. Inv => AutoReachesWhatExists
  BY DEF Inv, CallInv, AutoReachesWhatExists, Made, X, Y, Reaches, Dispatched, NoLibrary
<1> QED
  BY <1>1, OpsInvariant, PTL

\* Whatever views it was given, wherever dispatch_op sends it and however the
\* kernel splits the work, a call that returns has computed every element of
\* its result from the right elements of its tensors, and written nothing else,
\* unless it is one of those known to go wrong.
THEOREM OperationsDenote == Spec => []OpsDenote
<1>1. Inv => OpsDenote
  BY ComputesDenote DEF Inv, CallInv
<1> QED
  BY <1>1, OpsInvariant, PTL

\* And it has read and written inside of the buffers, unless it is one of
\* those, or a product wider than A, whose result has no room for it.
THEOREM AccessesStayInside == Spec => []InBounds
<1>1. Inv => InBounds
  BY ComputesInside DEF Inv, CallInv
<1> QED
  BY <1>1, OpsInvariant, PTL
=============================================================================
