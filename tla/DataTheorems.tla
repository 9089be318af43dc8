---------------------------- MODULE DataTheorems ----------------------------
(***************************************************************************)
(* Facts about the data the modules compute with: SumFunctionOnSet, the    *)
(* sum of the values a function takes on a finite set, for integer values; *)
(* least and greatest numbers; division and remainders; and the lists that *)
(* are left when entries are removed (module Lists).                       *)
(*                                                                         *)
(* An induction over the subsets of a finite set is a descent: a set of    *)
(* counterexamples that is not empty has a minimal member (MinimalSubset), *)
(* and that member is shown to be no counterexample.                       *)
(***************************************************************************)
EXTENDS Integers, Functions, Lists, FiniteSetTheorems, TLAPS

Pick(s) == CHOOSE x \in s : TRUE

\* g is the table of the partial sums of f over the subsets of S.
IsTable(g, f, S) ==
    g = [s \in SUBSET S |-> IF s = {} THEN 0 ELSE f[Pick(s)] + g[s \ {Pick(s)}]]

\* A set of subsets of a finite set has a minimal member.
LEMMA MinimalSubset ==
    ASSUME NEW S, IsFiniteSet(S), NEW B \in SUBSET (SUBSET S), B # {}
    PROVE  \E T \in B : \A U \in B : U \subseteq T => U = T
PROOF
<1>1. IsWellFoundedOn(StrictSubsetOrdering(S), SUBSET S)
    BY FS_StrictSubsetOrderingWellFounded, FS_FiniteSubsetsOfFinite
<1>2. \E T \in B : \A U \in B : ~ (<<U, T>> \in StrictSubsetOrdering(S))
    BY <1>1, WFMin
<1> QED
    BY <1>2 DEF StrictSubsetOrdering

\* Tables over different sets agree where both are defined.
LEMMA TablesAgree ==
    ASSUME NEW f, NEW S, NEW T, IsFiniteSet(S), NEW g, NEW h,
           IsTable(g, f, S), IsTable(h, f, T)
    PROVE  \A s \in SUBSET (S \cap T) : g[s] = h[s]
PROOF
<1> DEFINE B == {s \in SUBSET (S \cap T) : g[s] # h[s]}
<1> SUFFICES ASSUME B # {} PROVE FALSE
    OBVIOUS
<1>1. IsFiniteSet(S \cap T)
    BY FS_Subset
<1>2. PICK s \in B : \A u \in B : u \subseteq s => u = s
    <2>1. B \in SUBSET (SUBSET (S \cap T))
        OBVIOUS
    <2> HIDE DEF B
    <2> QED
        BY <1>1, <2>1, MinimalSubset
<1>3. CASE s = {}
    BY <1>2, <1>3 DEF IsTable
<1>4. CASE s # {}
    <2> DEFINE u == s \ {Pick(s)}
    <2>1. Pick(s) \in s
        BY <1>4 DEF Pick
    <2>2. u \notin B
        BY <1>2, <2>1
    <2>3. g[u] = h[u]
        BY <1>2, <2>2
    <2>4. g[s] = f[Pick(s)] + g[u] /\ h[s] = f[Pick(s)] + h[u]
        BY <1>2, <1>4 DEF IsTable
    <2> QED
        BY <1>2, <2>3, <2>4
<1> QED
    BY <1>3, <1>4

\* Every finite set has a table.
LEMMA TableExists ==
    ASSUME NEW f, NEW S, IsFiniteSet(S)
    PROVE  \E g : IsTable(g, f, S)
PROOF
<1> DEFINE B == {T \in SUBSET S : ~ \E g : IsTable(g, f, T)}
<1> SUFFICES ASSUME B # {} PROVE FALSE
    OBVIOUS
<1>1. PICK T \in B : \A U \in B : U \subseteq T => U = T
    <2>1. B \in SUBSET (SUBSET S)
        OBVIOUS
    <2> HIDE DEF B
    <2> QED
        BY <2>1, MinimalSubset
<1> DEFINE Tab(u) == CHOOSE g : IsTable(g, f, u)
           G == [s \in SUBSET T |-> IF s = {} THEN 0
                                    ELSE f[Pick(s)] + Tab(s \ {Pick(s)})[s \ {Pick(s)}]]
<1>2. \A u \in SUBSET T : u # T => IsTable(Tab(u), f, u)
    <2> TAKE u \in SUBSET T
    <2> HAVE u # T
    <2>1. \E g : IsTable(g, f, u)
        BY <1>1
    <2> QED
        BY <2>1
<1>3. ASSUME NEW s \in SUBSET T, s # {}
      PROVE  G[s \ {Pick(s)}] = Tab(s \ {Pick(s)})[s \ {Pick(s)}]
    <2> DEFINE u == s \ {Pick(s)}
    <2>1. Pick(s) \in s
        BY <1>3 DEF Pick
    <2>2. u \in SUBSET T /\ u # T
        BY <2>1
    <2>3. IsTable(Tab(u), f, u)
        BY <1>2, <2>2
    <2>4. CASE u = {}
        <3>1. Tab(u)[u] = 0
            BY <2>3, <2>4 DEF IsTable
        <3> QED
            BY <2>2, <2>4, <3>1
    <2>5. CASE u # {}
        <3> DEFINE v == u \ {Pick(u)}
        <3>1. Pick(u) \in u
            BY <2>5 DEF Pick
        <3>2. v \in SUBSET T /\ v # T
            BY <2>2, <3>1
        <3>3. IsTable(Tab(v), f, v)
            BY <1>2, <3>2
        <3>4. IsFiniteSet(u)
            BY <2>2, FS_Subset
        <3>5. Tab(u)[v] = Tab(v)[v]
            <4> HIDE DEF Tab, u, v
            <4>1. v \in SUBSET (u \cap v)
                BY DEF v
            <4> QED
                BY <2>3, <3>3, <3>4, <4>1, TablesAgree
        <3>6. Tab(u)[u] = f[Pick(u)] + Tab(u)[v]
            <4> HIDE DEF Tab
            <4> QED
                BY <2>3, <2>5 DEF IsTable
        <3>7. G[u] = f[Pick(u)] + Tab(v)[v]
            <4> HIDE DEF Tab
            <4> QED
                BY <2>2, <2>5
        <3> QED
            BY <3>5, <3>6, <3>7
    <2> QED
        BY <2>4, <2>5
<1>4. IsTable(G, f, T)
    <2> HIDE DEF Tab
    <2>1. \A s \in SUBSET T : G[s] = IF s = {} THEN 0 ELSE f[Pick(s)] + G[s \ {Pick(s)}]
        BY <1>3
    <2>2. G = [s \in SUBSET T |-> G[s]]
        OBVIOUS
    <2> HIDE DEF G
    <2> QED
        BY <2>1, <2>2 DEF IsTable
<1> QED
    BY <1>1, <1>4

\* The sum over a set is the entry of the whole set in its table.
LEMMA SumByTable ==
    ASSUME NEW f, NEW S, IsFiniteSet(S), NEW g, IsTable(g, f, S), NEW T \in SUBSET S
    PROVE  SumFunctionOnSet(f, T) = g[T]
PROOF
<1> DEFINE h == CHOOSE iter : IsTable(iter, f, T)
<1>1. IsFiniteSet(T)
    BY FS_Subset
<1>2. IsTable(h, f, T)
    BY <1>1, TableExists
<1>3. SumFunctionOnSet(f, T) = h[T]
    BY DEF SumFunctionOnSet, FoldFunctionOnSet, MapThenFoldSet, IsTable, Pick
<1> HIDE DEF h
<1>4. h[T] = g[T]
    BY <1>1, <1>2, TablesAgree
<1> QED
    BY <1>3, <1>4

-----------------------------------------------------------------------------
\* The empty sum.
LEMMA SumEmpty ==
    ASSUME NEW f
    PROVE  SumFunctionOnSet(f, {}) = 0
PROOF
<1>1. IsFiniteSet({})
    BY FS_EmptySet
<1>2. PICK g : IsTable(g, f, {})
    BY <1>1, TableExists
<1>3. g[{}] = 0
    BY <1>2 DEF IsTable
<1> QED
    BY <1>1, <1>2, <1>3, SumByTable

\* The first element picked.
LEMMA SumPick ==
    ASSUME NEW f, NEW S, IsFiniteSet(S), S # {}
    PROVE  /\ Pick(S) \in S
           /\ SumFunctionOnSet(f, S) = f[Pick(S)] + SumFunctionOnSet(f, S \ {Pick(S)})
PROOF
<1>1. Pick(S) \in S
    BY DEF Pick
<1>2. PICK g : IsTable(g, f, S)
    BY TableExists
<1>3. g[S] = f[Pick(S)] + g[S \ {Pick(S)}]
    BY <1>2 DEF IsTable
<1>4. SumFunctionOnSet(f, S) = g[S] /\ SumFunctionOnSet(f, S \ {Pick(S)}) = g[S \ {Pick(S)}]
    BY <1>2, SumByTable
<1> QED
    BY <1>1, <1>3, <1>4

\* A sum of integers is an integer.
LEMMA SumInt ==
    ASSUME NEW f, NEW S, IsFiniteSet(S), \A x \in S : f[x] \in Int
    PROVE  SumFunctionOnSet(f, S) \in Int
PROOF
<1> DEFINE B == {T \in SUBSET S : SumFunctionOnSet(f, T) \notin Int}
<1> SUFFICES ASSUME B # {} PROVE FALSE
    OBVIOUS
<1>1. PICK T \in B : \A U \in B : U \subseteq T => U = T
    <2>1. B \in SUBSET (SUBSET S)
        OBVIOUS
    <2> HIDE DEF B
    <2> QED
        BY <2>1, MinimalSubset
<1>2. T # {}
    <2>1. SumFunctionOnSet(f, {}) \in Int
        BY SumEmpty
    <2> QED
        BY <1>1, <2>1
<1>3. IsFiniteSet(T)
    BY <1>1, FS_Subset
<1>4. Pick(T) \in T /\ SumFunctionOnSet(f, T) = f[Pick(T)] + SumFunctionOnSet(f, T \ {Pick(T)})
    BY <1>2, <1>3, SumPick
<1>5. T \ {Pick(T)} \notin B
    BY <1>1, <1>4
<1> QED
    BY <1>1, <1>4, <1>5

\* Any element can be taken out first.
LEMMA SumRemove ==
    ASSUME NEW f, NEW S, IsFiniteSet(S), \A x \in S : f[x] \in Int, NEW x \in S
    PROVE  SumFunctionOnSet(f, S) = f[x] + SumFunctionOnSet(f, S \ {x})
PROOF
<1> DEFINE Total(T) == SumFunctionOnSet(f, T)
           B == {T \in SUBSET S : \E y \in T : Total(T) # f[y] + Total(T \ {y})}
<1> SUFFICES ASSUME B # {} PROVE FALSE
    OBVIOUS
<1>1. PICK T \in B : \A U \in B : U \subseteq T => U = T
    <2>1. B \in SUBSET (SUBSET S)
        OBVIOUS
    <2> HIDE DEF B
    <2> QED
        BY <2>1, MinimalSubset
<1>2. PICK y \in T : Total(T) # f[y] + Total(T \ {y})
    BY <1>1
<1>3. IsFiniteSet(T)
    BY <1>1, FS_Subset
<1> DEFINE p == Pick(T)
<1>4. p \in T /\ Total(T) = f[p] + Total(T \ {p})
    BY <1>2, <1>3, SumPick
<1>5. p # y
    BY <1>2, <1>4
<1>6. T \ {p} \notin B /\ T \ {y} \notin B
    BY <1>1, <1>2, <1>4
<1>7. Total(T \ {p}) = f[y] + Total((T \ {p}) \ {y}) /\ Total(T \ {y}) = f[p] + Total((T \ {y}) \ {p})
    BY <1>1, <1>2, <1>4, <1>5, <1>6
<1> DEFINE rest == (T \ {p}) \ {y}
<1>8. rest = (T \ {y}) \ {p} /\ rest \in SUBSET S
    BY <1>1
<1>9. Total(rest) \in Int
    <2>1. IsFiniteSet(rest)
        BY <1>8, FS_Subset
    <2> QED
        BY <1>8, <2>1, SumInt
<1>10. f[p] \in Int /\ f[y] \in Int
    BY <1>1, <1>2, <1>4
<1>11. Total(T \ {p}) = f[y] + Total(rest) /\ Total(T \ {y}) = f[p] + Total(rest)
    BY <1>7, <1>8
<1> HIDE DEF Total, p, rest, B
<1> QED
    BY <1>2, <1>4, <1>9, <1>10, <1>11

\* An element that is not in the set is added.
LEMMA SumAdd ==
    ASSUME NEW f, NEW S, IsFiniteSet(S), NEW x, x \notin S, \A y \in S \cup {x} : f[y] \in Int
    PROVE  SumFunctionOnSet(f, S \cup {x}) = f[x] + SumFunctionOnSet(f, S)
PROOF
<1>1. IsFiniteSet(S \cup {x})
    BY FS_AddElement
<1>2. (S \cup {x}) \ {x} = S
    OBVIOUS
<1> QED
    BY <1>1, <1>2, SumRemove

\* Only the values on the set matter.
LEMMA SumSame ==
    ASSUME NEW f, NEW g, NEW S, IsFiniteSet(S), \A x \in S : f[x] = g[x]
    PROVE  SumFunctionOnSet(f, S) = SumFunctionOnSet(g, S)
PROOF
<1> DEFINE B == {T \in SUBSET S : SumFunctionOnSet(f, T) # SumFunctionOnSet(g, T)}
<1> SUFFICES ASSUME B # {} PROVE FALSE
    OBVIOUS
<1>1. PICK T \in B : \A U \in B : U \subseteq T => U = T
    <2>1. B \in SUBSET (SUBSET S)
        OBVIOUS
    <2> HIDE DEF B
    <2> QED
        BY <2>1, MinimalSubset
<1>2. T # {}
    BY <1>1, SumEmpty
<1>3. IsFiniteSet(T)
    BY <1>1, FS_Subset
<1>4. /\ Pick(T) \in T
      /\ SumFunctionOnSet(f, T) = f[Pick(T)] + SumFunctionOnSet(f, T \ {Pick(T)})
      /\ SumFunctionOnSet(g, T) = g[Pick(T)] + SumFunctionOnSet(g, T \ {Pick(T)})
    BY <1>2, <1>3, SumPick
<1>5. T \ {Pick(T)} \notin B
    BY <1>1, <1>4
<1> QED
    BY <1>1, <1>4, <1>5

\* A change at one element changes the sum by as much.
LEMMA SumUpdate ==
    ASSUME NEW f, NEW g, NEW S, IsFiniteSet(S), NEW x \in S,
           \A y \in S : f[y] \in Int /\ g[y] \in Int,
           \A y \in S \ {x} : f[y] = g[y]
    PROVE  SumFunctionOnSet(g, S) = SumFunctionOnSet(f, S) - f[x] + g[x]
PROOF
<1>1. IsFiniteSet(S \ {x})
    BY FS_Subset
<1>2. SumFunctionOnSet(f, S \ {x}) = SumFunctionOnSet(g, S \ {x})
    BY <1>1, SumSame
<1>3. SumFunctionOnSet(f, S \ {x}) \in Int
    BY <1>1, SumInt
<1>4. SumFunctionOnSet(f, S) = f[x] + SumFunctionOnSet(f, S \ {x})
    BY SumRemove
<1>5. SumFunctionOnSet(g, S) = g[x] + SumFunctionOnSet(g, S \ {x})
    BY SumRemove
<1> QED
    BY <1>2, <1>3, <1>4, <1>5

\* Sums are monotone.
LEMMA SumMonotone ==
    ASSUME NEW f, NEW g, NEW S, IsFiniteSet(S),
           \A x \in S : f[x] \in Int /\ g[x] \in Int /\ f[x] <= g[x]
    PROVE  SumFunctionOnSet(f, S) <= SumFunctionOnSet(g, S)
PROOF
<1> DEFINE B == {T \in SUBSET S : ~ (SumFunctionOnSet(f, T) <= SumFunctionOnSet(g, T))}
<1> SUFFICES ASSUME B # {} PROVE FALSE
    OBVIOUS
<1>1. PICK T \in B : \A U \in B : U \subseteq T => U = T
    <2>1. B \in SUBSET (SUBSET S)
        OBVIOUS
    <2> HIDE DEF B
    <2> QED
        BY <2>1, MinimalSubset
<1>2. T # {}
    <2>1. SumFunctionOnSet(f, {}) <= SumFunctionOnSet(g, {})
        BY SumEmpty
    <2> QED
        BY <1>1, <2>1
<1>3. IsFiniteSet(T)
    BY <1>1, FS_Subset
<1> DEFINE p == Pick(T)
<1>4. /\ p \in T
      /\ SumFunctionOnSet(f, T) = f[p] + SumFunctionOnSet(f, T \ {p})
      /\ SumFunctionOnSet(g, T) = g[p] + SumFunctionOnSet(g, T \ {p})
    BY <1>2, <1>3, SumPick
<1>5. T \ {p} \notin B
    BY <1>1, <1>4
<1>6. IsFiniteSet(T \ {p}) /\ T \ {p} \in SUBSET S
    BY <1>1, <1>3, FS_Subset
<1>7. SumFunctionOnSet(f, T \ {p}) \in Int /\ SumFunctionOnSet(g, T \ {p}) \in Int
    BY <1>6, SumInt
<1>8. f[p] \in Int /\ g[p] \in Int /\ f[p] <= g[p]
    BY <1>1, <1>4
<1>9. SumFunctionOnSet(f, T \ {p}) <= SumFunctionOnSet(g, T \ {p})
    BY <1>5, <1>6
<1>10. ~ (SumFunctionOnSet(f, T) <= SumFunctionOnSet(g, T))
    BY <1>1
<1> HIDE DEF p, B
<1> QED
    BY <1>4, <1>7, <1>8, <1>9, <1>10

\* A sum of zeros is zero.
LEMMA SumZero ==
    ASSUME NEW f, NEW S, IsFiniteSet(S), \A x \in S : f[x] = 0
    PROVE  SumFunctionOnSet(f, S) = 0
PROOF
<1> DEFINE B == {T \in SUBSET S : SumFunctionOnSet(f, T) # 0}
<1> SUFFICES ASSUME B # {} PROVE FALSE
    OBVIOUS
<1>1. PICK T \in B : \A U \in B : U \subseteq T => U = T
    <2>1. B \in SUBSET (SUBSET S)
        OBVIOUS
    <2> HIDE DEF B
    <2> QED
        BY <2>1, MinimalSubset
<1>2. T # {}
    BY <1>1, SumEmpty
<1>3. IsFiniteSet(T)
    BY <1>1, FS_Subset
<1>4. Pick(T) \in T /\ SumFunctionOnSet(f, T) = f[Pick(T)] + SumFunctionOnSet(f, T \ {Pick(T)})
    BY <1>2, <1>3, SumPick
<1>5. T \ {Pick(T)} \notin B
    BY <1>1, <1>4
<1> QED
    BY <1>1, <1>4, <1>5

\* A sum of natural numbers is one, and no less than each of them.
LEMMA SumNat ==
    ASSUME NEW f, NEW S, IsFiniteSet(S), \A x \in S : f[x] \in Nat
    PROVE  /\ SumFunctionOnSet(f, S) \in Nat
           /\ \A x \in S : f[x] <= SumFunctionOnSet(f, S)
PROOF
<1>1. ASSUME NEW T \in SUBSET S
      PROVE  SumFunctionOnSet(f, T) \in Nat
    <2> DEFINE zero == [x \in T |-> 0]
    <2>1. IsFiniteSet(T)
        BY FS_Subset
    <2>2. SumFunctionOnSet(f, T) \in Int
        BY <2>1, SumInt
    <2>3. \A x \in T : zero[x] \in Int /\ f[x] \in Int /\ zero[x] <= f[x] /\ zero[x] = 0
        OBVIOUS
    <2> HIDE DEF zero
    <2>4. SumFunctionOnSet(zero, T) = 0
        BY <2>1, <2>3, SumZero
    <2>5. SumFunctionOnSet(zero, T) <= SumFunctionOnSet(f, T)
        BY <2>1, <2>3, SumMonotone
    <2> QED
        BY <2>2, <2>4, <2>5
<1>2. ASSUME NEW x \in S
      PROVE  f[x] <= SumFunctionOnSet(f, S)
    <2>1. SumFunctionOnSet(f, S) = f[x] + SumFunctionOnSet(f, S \ {x})
        BY SumRemove
    <2>2. SumFunctionOnSet(f, S \ {x}) \in Nat
        BY <1>1
    <2> QED
        BY <2>1, <2>2
<1> QED
    BY <1>1, <1>2

\* The sum over a set is the sum over a part of it and over the rest.
LEMMA SumSplit ==
    ASSUME NEW f, NEW S, IsFiniteSet(S), \A x \in S : f[x] \in Int, NEW T \in SUBSET S
    PROVE  SumFunctionOnSet(f, S) = SumFunctionOnSet(f, T) + SumFunctionOnSet(f, S \ T)
PROOF
<1> DEFINE Total(U) == SumFunctionOnSet(f, U)
           B == {U \in SUBSET S : Total(S) # Total(U) + Total(S \ U)}
<1> SUFFICES ASSUME B # {} PROVE FALSE
    OBVIOUS
<1>1. PICK U \in B : \A V \in B : V \subseteq U => V = U
    <2>1. B \in SUBSET (SUBSET S)
        OBVIOUS
    <2> HIDE DEF B
    <2> QED
        BY <2>1, MinimalSubset
<1>2. \A V \in SUBSET S : IsFiniteSet(V) /\ Total(V) \in Int
    <2> TAKE V \in SUBSET S
    <2>1. IsFiniteSet(V)
        BY FS_Subset
    <2> QED
        BY <2>1, SumInt
<1>3. U # {}
    <2>1. Total({}) = 0
        BY SumEmpty
    <2>2. S \ {} = S
        OBVIOUS
    <2>3. Total(S) = Total({}) + Total(S \ {})
        BY <1>2, <2>1, <2>2
    <2> QED
        BY <1>1, <2>3
<1>4. PICK x : x \in U
    BY <1>3
<1> DEFINE V == U \ {x}
           W == S \ U
<1>5. V \in SUBSET S /\ W \in SUBSET S /\ V \notin B /\ x \in S
    BY <1>1, <1>4
<1>6. S \ V = W \cup {x} /\ x \notin W
    BY <1>1, <1>4
<1>7. Total(U) = f[x] + Total(V)
    BY <1>1, <1>2, <1>4, SumRemove
<1>8. Total(W \cup {x}) = f[x] + Total(W)
    BY <1>2, <1>5, <1>6, SumAdd
<1>9. Total(S) = Total(V) + Total(W \cup {x})
    BY <1>5, <1>6
<1>10. Total(V) \in Int /\ Total(W) \in Int /\ f[x] \in Int
    BY <1>2, <1>5
<1>11. Total(S) # Total(U) + Total(W)
    BY <1>1
<1> HIDE DEF Total, V, W, B
<1> QED
    BY <1>7, <1>8, <1>9, <1>10, <1>11

\* A sum does not depend on how its terms are indexed.
LEMMA SumReindex ==
    ASSUME NEW f, NEW g, NEW S, NEW T, IsFiniteSet(T), NEW e \in Bijection(T, S),
           \A t \in T : g[t] = f[e[t]] /\ g[t] \in Int
    PROVE  SumFunctionOnSet(g, T) = SumFunctionOnSet(f, S)
PROOF
<1> DEFINE Image(U) == {e[t] : t \in U}
           B == {U \in SUBSET T : SumFunctionOnSet(g, U) # SumFunctionOnSet(f, Image(U))}
<1>1. /\ \A t \in T : e[t] \in S
      /\ \A t, u \in T : e[t] = e[u] => t = u
      /\ \A y \in S : \E t \in T : e[t] = y
    BY DEF Bijection, Injection, Surjection, IsInjective
<1>2. Image(T) = S
    BY <1>1
<1> SUFFICES ASSUME B # {} PROVE FALSE
    BY <1>2
<1>3. PICK U \in B : \A V \in B : V \subseteq U => V = U
    <2>1. B \in SUBSET (SUBSET T)
        OBVIOUS
    <2> HIDE DEF B
    <2> QED
        BY <2>1, MinimalSubset
<1>4. U # {}
    <2>1. Image({}) = {}
        OBVIOUS
    <2> QED
        BY <1>3, <2>1, SumEmpty
<1>5. IsFiniteSet(U) /\ U \in SUBSET T
    BY <1>3, FS_Subset
<1>6. PICK t : t \in U
    BY <1>4
<1> DEFINE V == U \ {t}
<1>7. V \in SUBSET T /\ V \notin B /\ IsFiniteSet(V)
    BY <1>3, <1>5, <1>6, FS_Subset
<1>8. SumFunctionOnSet(g, V) = SumFunctionOnSet(f, Image(V))
    BY <1>7
<1>9. Image(U) = Image(V) \cup {e[t]} /\ e[t] \notin Image(V)
    BY <1>1, <1>5, <1>6
<1>10. IsFiniteSet(Image(V))
    <2>1. [v \in V |-> e[v]] \in Surjection(V, Image(V))
        BY DEF Surjection
    <2> HIDE DEF V, Image
    <2> QED
        BY <1>7, <2>1, FS_Surjection
<1>11. \A y \in Image(V) \cup {e[t]} : f[y] \in Int
    BY <1>5, <1>6
<1>12. SumFunctionOnSet(f, Image(U)) = f[e[t]] + SumFunctionOnSet(f, Image(V))
    <2> HIDE DEF Image, V
    <2>1. SumFunctionOnSet(f, Image(V) \cup {e[t]}) = f[e[t]] + SumFunctionOnSet(f, Image(V))
        BY <1>9, <1>10, <1>11, SumAdd
    <2> QED
        BY <1>9, <2>1
<1>13. SumFunctionOnSet(g, U) = g[t] + SumFunctionOnSet(g, V)
    BY <1>5, <1>6, SumRemove
<1> QED
    BY <1>3, <1>5, <1>6, <1>8, <1>12, <1>13

\* A common factor.
LEMMA SumScale ==
    ASSUME NEW f, NEW g, NEW S, IsFiniteSet(S), NEW k \in Int,
           \A x \in S : f[x] \in Int /\ g[x] = f[x] * k
    PROVE  SumFunctionOnSet(g, S) = SumFunctionOnSet(f, S) * k
PROOF
<1> DEFINE B == {T \in SUBSET S : SumFunctionOnSet(g, T) # SumFunctionOnSet(f, T) * k}
<1> SUFFICES ASSUME B # {} PROVE FALSE
    OBVIOUS
<1>1. PICK T \in B : \A U \in B : U \subseteq T => U = T
    <2>1. B \in SUBSET (SUBSET S)
        OBVIOUS
    <2> HIDE DEF B
    <2> QED
        BY <2>1, MinimalSubset
<1>2. T # {}
    <2>1. SumFunctionOnSet(g, {}) = SumFunctionOnSet(f, {}) * k
        BY SumEmpty
    <2> QED
        BY <1>1, <2>1
<1>3. IsFiniteSet(T)
    BY <1>1, FS_Subset
<1> DEFINE p == Pick(T)
           U == T \ {p}
<1>4. /\ p \in T
      /\ SumFunctionOnSet(f, T) = f[p] + SumFunctionOnSet(f, U)
      /\ SumFunctionOnSet(g, T) = g[p] + SumFunctionOnSet(g, U)
    BY <1>2, <1>3, SumPick
<1>5. SumFunctionOnSet(g, U) = SumFunctionOnSet(f, U) * k
    BY <1>1, <1>4
<1>6. IsFiniteSet(U) /\ \A x \in U : f[x] \in Int
    BY <1>1, <1>3, FS_Subset
<1>7. SumFunctionOnSet(f, U) \in Int
    BY <1>6, SumInt
<1>8. f[p] \in Int /\ g[p] = f[p] * k
    BY <1>1, <1>4
<1>9. \A a, b \in Int : (a + b) * k = a * k + b * k
    OBVIOUS
<1>10. SumFunctionOnSet(g, T) = SumFunctionOnSet(f, T) * k
    <2> HIDE DEF p, U
    <2> QED
        BY <1>4, <1>5, <1>7, <1>8, <1>9
<1> QED
    BY <1>1, <1>10

\* The shares of natural numbers in a total they do not exceed, each rounded
\* down on its own, do not exceed what is shared.
LEMMA SumShares ==
    ASSUME NEW f, NEW g, NEW S, IsFiniteSet(S), NEW total \in Nat \ {0}, NEW k \in Nat,
           \A x \in S : f[x] \in Nat /\ g[x] = (f[x] * k) \div total,
           SumFunctionOnSet(f, S) <= total
    PROVE  /\ \A x \in S : g[x] \in Nat
           /\ SumFunctionOnSet(g, S) <= k
PROOF
<1>1. \A a \in Nat : a \div total \in Nat /\ (a \div total) * total <= a
    OBVIOUS
<1>2. \A a \in Nat : a * k \in Nat
    OBVIOUS
<1>3. \A x \in S : g[x] \in Nat /\ f[x] \in Nat /\ g[x] * total <= f[x] * k
    BY <1>1, <1>2
<1> DEFINE F == [x \in S |-> f[x] * k]
           G == [x \in S |-> g[x] * total]
<1>4. \A x \in S : F[x] = f[x] * k /\ G[x] = g[x] * total /\ f[x] \in Int /\ g[x] \in Int
    BY <1>3
<1>5. \A x \in S : F[x] \in Int /\ G[x] \in Int /\ G[x] <= F[x]
    BY <1>3
<1> HIDE DEF F, G
<1>6. SumFunctionOnSet(G, S) <= SumFunctionOnSet(F, S)
    BY <1>5, SumMonotone
<1>7. SumFunctionOnSet(F, S) = SumFunctionOnSet(f, S) * k
    <2>1. k \in Int
        OBVIOUS
    <2> QED
        BY <1>4, <2>1, SumScale
<1>8. SumFunctionOnSet(G, S) = SumFunctionOnSet(g, S) * total
    <2>1. total \in Int
        OBVIOUS
    <2> QED
        BY <1>4, <2>1, SumScale
<1>9. SumFunctionOnSet(f, S) \in Nat /\ SumFunctionOnSet(g, S) \in Nat
    BY <1>3, SumNat
<1>10. \A a, b \in Nat : a <= total /\ b * total <= a * k => b <= k
    <2> SUFFICES ASSUME NEW a \in Nat, NEW b \in Nat, a <= total, b * total <= a * k, b > k
                 PROVE  FALSE
        OBVIOUS
    <2>1. a * k <= total * k
        OBVIOUS
    <2>2. total * (k + 1) <= total * b
        OBVIOUS
    <2>3. total * (k + 1) = total * k + total /\ total * b = b * total
        OBVIOUS
    <2>4. total * k \in Nat /\ a * k \in Nat /\ b * total \in Nat
        OBVIOUS
    <2> QED
        BY <2>1, <2>2, <2>3, <2>4
<1>11. SumFunctionOnSet(g, S) * total <= SumFunctionOnSet(f, S) * k
    BY <1>6, <1>7, <1>8
<1> QED
    BY <1>3, <1>9, <1>10, <1>11

\* The sum over a part is no more than the sum over the whole.
LEMMA SumSubset ==
    ASSUME NEW f, NEW S, IsFiniteSet(S), \A x \in S : f[x] \in Nat, NEW T \in SUBSET S
    PROVE  SumFunctionOnSet(f, T) <= SumFunctionOnSet(f, S)
PROOF
<1>1. IsFiniteSet(T) /\ IsFiniteSet(S \ T)
    BY FS_Subset
<1>2. \A x \in T : f[x] \in Nat
    OBVIOUS
<1>3. \A x \in S \ T : f[x] \in Nat
    OBVIOUS
<1>4. SumFunctionOnSet(f, T) \in Nat
    BY <1>1, <1>2, SumNat
<1>5. SumFunctionOnSet(f, S \ T) \in Nat
    BY <1>1, <1>3, SumNat
<1>6. \A x \in S : f[x] \in Int
    OBVIOUS
<1>7. SumFunctionOnSet(f, S) = SumFunctionOnSet(f, T) + SumFunctionOnSet(f, S \ T)
    BY <1>6, SumSplit
<1> QED
    BY <1>4, <1>5, <1>7

-----------------------------------------------------------------------------
(* Least and greatest numbers                                              *)

\* A finite set of numbers that is not empty has a greatest element.
LEMMA GreatestExists ==
    ASSUME NEW S, IsFiniteSet(S), S \subseteq Nat, S # {}
    PROVE  \E i \in S : \A j \in S : j <= i
PROOF
<1> DEFINE Above(j) == {i \in S : i >= j}
           B == {Above(j) : j \in S}
<1>1. B # {} /\ B \in SUBSET (SUBSET S)
    OBVIOUS
<1>2. PICK T \in B : \A U \in B : U \subseteq T => U = T
    <2> HIDE DEF B
    <2> QED
        BY ONLY IsFiniteSet(S), <1>1, MinimalSubset
<1>3. PICK i \in S : T = Above(i)
    BY <1>2
<1>4. ASSUME NEW j \in S, j > i PROVE FALSE
    <2>1. Above(j) \in B
        OBVIOUS
    <2>2. Above(j) \subseteq Above(i)
        <3> HIDE DEF B
        <3>1. i \in Nat /\ j \in Nat
            BY <1>4
        <3>2. ASSUME NEW x \in S, x >= j PROVE x >= i
            BY <1>4, <3>1, <3>2
        <3> QED
            BY <3>2
    <2>3. Above(j) = T
        <3> HIDE DEF Above, B
        <3> QED
            BY <1>2, <1>3, <2>1, <2>2
    <2>4. i \in Above(i) /\ i \notin Above(j)
        BY <1>4
    <2> QED
        BY <1>3, <2>3, <2>4
<1> QED
    BY <1>4

\* It has a least element too.
LEMMA LeastExists ==
    ASSUME NEW S, IsFiniteSet(S), S \subseteq Nat, S # {}
    PROVE  \E i \in S : \A j \in S : i <= j
PROOF
<1> DEFINE Below(j) == {i \in S : i <= j}
           B == {Below(j) : j \in S}
<1>1. B # {} /\ B \in SUBSET (SUBSET S)
    OBVIOUS
<1>2. PICK T \in B : \A U \in B : U \subseteq T => U = T
    <2> HIDE DEF B
    <2> QED
        BY ONLY IsFiniteSet(S), <1>1, MinimalSubset
<1>3. PICK i \in S : T = Below(i)
    BY <1>2
<1>4. ASSUME NEW j \in S, j < i PROVE FALSE
    <2>1. Below(j) \in B
        OBVIOUS
    <2> HIDE DEF B
    <2>2. i \in Nat /\ j \in Nat
        BY <1>4
    <2>3. ASSUME NEW x \in S, x <= j PROVE x <= i
        BY <1>4, <2>2, <2>3
    <2>4. Below(j) \subseteq Below(i)
        BY <2>3
    <2>5. Below(j) = T
        <3> HIDE DEF Below
        <3> QED
            BY <1>2, <1>3, <2>1, <2>4
    <2>6. i \in Below(i) /\ i \notin Below(j)
        BY <1>4, <2>2
    <2> QED
        BY <1>3, <2>5, <2>6
<1> QED
    BY <1>4

\* Induction up to n: a set that holds 0 and with a number below n the next
\* one holds all numbers up to n.
LEMMA InductionUpTo ==
    ASSUME NEW n \in Nat, NEW P, 0 \in P, \A m \in 0..(n - 1) : m \in P => m + 1 \in P
    PROVE  \A m \in 0..n : m \in P
PROOF
<1> DEFINE S == {m \in 0..n : m \notin P}
<1> SUFFICES ASSUME S # {} PROVE FALSE
    OBVIOUS
<1>1. IsFiniteSet(S)
    <2>1. IsFiniteSet(0..n)
        BY FS_Interval
    <2> QED
        BY <2>1, FS_Subset
<1>2. S \subseteq Nat
    OBVIOUS
<1>3. PICK i \in S : \A j \in S : i <= j
    <2> HIDE DEF S
    <2> QED
        BY <1>1, <1>2, LeastExists
<1>4. i # 0 /\ i \in 0..n /\ i \notin P
    BY <1>3
<1>5. i - 1 \in 0..(n - 1) /\ i - 1 \in 0..n /\ ~(i <= i - 1)
    BY <1>4
<1>6. i - 1 \in P
    BY <1>3, <1>5
<1> QED
    BY <1>4, <1>5, <1>6

-----------------------------------------------------------------------------
(* Products, quotients and remainders                                      *)

\* Products are monotone.
LEMMA TimesMonotone ==
    ASSUME NEW a \in Nat, NEW b \in Nat, NEW c \in Nat, a <= b
    PROVE  a * c <= b * c
PROOF
    OBVIOUS

\* A positive factor can be dropped.
LEMMA TimesCancel ==
    ASSUME NEW a \in Nat, NEW b \in Nat, NEW c \in Nat \ {0}, a * c <= b * c
    PROVE  a <= b
PROOF
<1> SUFFICES ASSUME b + 1 <= a PROVE FALSE
    OBVIOUS
<1>1. (b + 1) * c <= a * c
    OBVIOUS
<1>2. (b + 1) * c = b * c + c
    OBVIOUS
<1> QED
    BY <1>1, <1>2

\* T shares worth no more than the product of the amounts a and b stay so when
\* x and y are added for L more, each no less than in proportion.
LEMMA SharesGrow ==
    ASSUME NEW T \in Nat \ {0}, NEW L \in Nat, NEW a \in Nat \ {0}, NEW b \in Nat \ {0},
           NEW x \in Nat, NEW y \in Nat,
           T * T <= a * b, L * a <= x * T, L * b <= y * T
    PROVE  (T + L) * (T + L) <= (a + x) * (b + y)
PROOF
<1>1. (T * T) * L <= (a * b) * L
    BY TimesMonotone
<1>2. (L * a) * b <= (x * T) * b
    BY TimesMonotone
<1>3. (L * b) * a <= (y * T) * a
    BY TimesMonotone
<1>4. L * T <= x * b
    <2>1. /\ L * T \in Nat /\ x * b \in Nat
        OBVIOUS
    <2>2. (L * T) * T <= (x * b) * T
        BY <1>1, <1>2
    <2> QED
        BY <2>1, <2>2, TimesCancel
<1>5. L * T <= y * a
    <2>1. /\ L * T \in Nat /\ y * a \in Nat
        OBVIOUS
    <2>2. (L * T) * T <= (y * a) * T
        BY <1>1, <1>3
    <2> QED
        BY <2>1, <2>2, TimesCancel
<1>6. L * L <= x * y
    <2>1. (L * a) * (L * b) <= (x * T) * (L * b)
        BY TimesMonotone
    <2>2. (L * b) * (x * T) <= (y * T) * (x * T)
        BY TimesMonotone
    <2>3. (T * T) * (x * y) <= (a * b) * (x * y)
        BY TimesMonotone
    <2>4. (L * L) * (a * b) <= (x * y) * (a * b)
        BY <2>1, <2>2, <2>3
    <2>5. L * L \in Nat /\ x * y \in Nat /\ a * b \in Nat \ {0}
        OBVIOUS
    <2> QED
        BY <2>4, <2>5, TimesCancel
<1>7. (T + L) * (T + L) = T * T + 2 * (L * T) + L * L
    OBVIOUS
<1>8. (a + x) * (b + y) = a * b + x * b + y * a + x * y
    OBVIOUS
<1> QED
    BY <1>4, <1>5, <1>6, <1>7, <1>8

\* Remainder and quotient.
LEMMA ModDef ==
    ASSUME NEW W \in Nat \ {0}, NEW x \in Int
    PROVE  /\ x % W \in 0..(W - 1)
           /\ \E q \in Int : x = q * W + (x % W)
PROOF
<1>1. x % W \in 0..(W-1)
    OBVIOUS
<1>2. x = (x \div W) * W + (x % W)
    BY Z3
<1>3. x \div W \in Int
    OBVIOUS
<1> QED
    BY <1>1, <1>2, <1>3

\* A remainder is a number.
LEMMA ModInt ==
    ASSUME NEW W \in Nat \ {0}, NEW x \in Int
    PROVE  x % W \in Int
PROOF
    BY ModDef

\* A number has one remainder.
LEMMA ModUnique ==
    ASSUME NEW W \in Nat \ {0}, NEW p \in Int, NEW q \in Int, NEW r \in 0..(W-1), NEW s \in 0..(W-1),
      p * W + r = q * W + s
    PROVE  r = s
PROOF
<1>1. (p - q) * W = s - r
    OBVIOUS
<1>2. CASE p - q >= 1
    <2>1. (p - q) * W >= W
        BY <1>2
    <2> QED
        BY <2>1, <1>1
<1>3. CASE p - q <= -1
    <2>1. (p - q) * W <= -W
        BY <1>3
    <2> QED
        BY <2>1, <1>1
<1>4. CASE p - q = 0
    BY <1>4, <1>1
<1> QED
    BY <1>2, <1>3, <1>4

\* Multiples of the modulus do not change the remainder.
LEMMA ModShift ==
    ASSUME NEW W \in Nat \ {0}, NEW x \in Int, NEW y \in Int, NEW k \in Int, x = y + k * W
    PROVE  x % W = y % W
PROOF
<1>1. PICK p \in Int : x = p * W + (x % W)
    BY ModDef
<1>2. PICK q \in Int : y = q * W + (y % W)
    BY ModDef
<1>3. x % W \in 0..(W - 1) /\ y % W \in 0..(W - 1)
    BY ModDef
<1>4. p * W + (x % W) = (q + k) * W + (y % W)
    BY <1>1, <1>2, <1>3
<1>5. q + k \in Int
    OBVIOUS
<1> QED
    BY <1>3, <1>4, <1>5, ModUnique

\* An addition may be reduced before or after.
LEMMA ModAdd ==
    ASSUME NEW W \in Nat \ {0}, NEW x \in Int, NEW y \in Int
    PROVE  ((x % W) + y) % W = (x + y) % W
PROOF
<1> DEFINE r == x % W
<1>1. PICK q \in Int : x = q * W + r
    BY ModDef
<1>2. r \in Int
    BY ModDef
<1> HIDE DEF r
<1>3. /\ q * W \in Int
      /\ x + y = (r + y) + q * W
      /\ x + y \in Int /\ r + y \in Int
    BY <1>1, <1>2
<1>4. (x + y) % W = (r + y) % W
    BY <1>3, ModShift
<1> QED
    BY <1>4 DEF r

\* A division rounds down.
LEMMA DivFacts ==
    ASSUME NEW x \in Nat, NEW d \in Nat \ {0}
    PROVE  /\ x \div d \in Nat
           /\ (x \div d) * d <= x
PROOF
<1>1. x = (x \div d) * d + (x % d) /\ x % d \in 0..(d - 1) /\ x \div d \in Int
    BY Z3
<1> DEFINE q == x \div d
           r == x % d
<1> HIDE DEF q, r
<1>2. x = q * d + r /\ r \in Nat /\ q \in Int /\ r < d
    BY <1>1 DEF q, r
<1>3. q >= 0
    <2> SUFFICES ASSUME q <= -1 PROVE FALSE
        BY <1>2
    <2>1. q * d <= -d
        BY <1>2
    <2> QED
        BY <1>2, <2>1
<1>4. q * d <= x
    BY <1>2
<1> QED
    BY <1>2, <1>3, <1>4 DEF q

\* A remainder is no more than the number.
LEMMA ModNat ==
    ASSUME NEW x \in Nat, NEW W \in Nat \ {0}
    PROVE  x % W \in Nat /\ x % W <= x
PROOF
<1> DEFINE r == x % W
<1>1. x \in Int
    OBVIOUS
<1>2. r \in 0..(W - 1) /\ \E q \in Int : x = q * W + r
    BY <1>1, ModDef
<1>3. r \in 0..(W - 1)
    BY <1>2
<1> HIDE DEF r
<1>4. PICK q \in Int : x = q * W + r
    BY <1>2
<1>5. q >= 0
    <2> SUFFICES ASSUME q <= -1 PROVE FALSE
        OBVIOUS
    <2>1. q * W <= -W
        OBVIOUS
    <2> QED
        BY <1>3, <1>4, <2>1
<1>6. q * W >= 0 /\ q * W \in Int
    BY <1>5
<1> QED
    BY <1>3, <1>4, <1>6 DEF r

\* Numbers below the modulus stay as they are.
LEMMA ModSmall ==
    ASSUME NEW W \in Nat \ {0}, NEW x \in 0..(W - 1)
    PROVE  x % W = x
PROOF
    OBVIOUS

-----------------------------------------------------------------------------
(* Lists                                                                   *)

\* The sizes of the segments upto number the elements of S from 1 on.
Numbers(upto, S) ==
    /\ Cardinality(S) \in Nat
    /\ \A i \in S : Cardinality(upto[i]) \in 1..Cardinality(S)
    /\ \A i, k \in S : Cardinality(upto[i]) = Cardinality(upto[k]) => i = k
    /\ \A j \in 1..Cardinality(S) : \E i \in S : Cardinality(upto[i]) = j

\* In a finite set whose initial segments form a chain, the sizes of the
\* segments number the elements from 1 on.
LEMMA SegmentsNumber ==
    ASSUME NEW S, IsFiniteSet(S), NEW upto \in [S -> SUBSET S],
           \A i \in S : i \in upto[i],
           \A i, k \in S : upto[i] \subseteq upto[k] \/ upto[k] \subseteq upto[i],
           \A i, k \in S : upto[i] = upto[k] => i = k
    PROVE  Numbers(upto, S)
PROOF
<1> DEFINE rank == [i \in S |-> Cardinality(upto[i])]
<1>1. Cardinality(S) \in Nat
    BY FS_CardinalityType
<1>2. ASSUME NEW i \in S
      PROVE  IsFiniteSet(upto[i]) /\ Cardinality(upto[i]) \in 1..Cardinality(S)
    <2>1. IsFiniteSet(upto[i]) /\ Cardinality(upto[i]) \in Nat
          /\ Cardinality(upto[i]) <= Cardinality(S)
        BY FS_Subset, FS_CardinalityType
    <2>2. Cardinality(upto[i]) # 0
        BY <2>1, FS_EmptySet
    <2> QED
        BY <1>1, <2>1, <2>2
<1>3. ASSUME NEW i \in S, NEW k \in S, Cardinality(upto[i]) = Cardinality(upto[k]),
             upto[i] \subseteq upto[k]
      PROVE  i = k
    <2>1. upto[i] = upto[k]
        BY <1>2, <1>3, FS_Subset
    <2> QED
        BY <2>1
<1>4. \A i, k \in S : Cardinality(upto[i]) = Cardinality(upto[k]) => i = k
    BY <1>3
<1>5. rank \in Injection(S, 1..Cardinality(S))
    BY <1>2, <1>4 DEF Injection, IsInjective
<1>6. IsFiniteSet(1..Cardinality(S)) /\ Cardinality(1..Cardinality(S)) = Cardinality(S)
    BY <1>1, FS_Interval
<1>7. rank \in Surjection(S, 1..Cardinality(S))
    BY <1>5, <1>6, FS_Injection
<1>8. \A j \in 1..Cardinality(S) : \E i \in S : rank[i] = j
    BY <1>7 DEF Surjection
<1> QED
    BY <1>1, <1>2, <1>4, <1>8 DEF Numbers

\* The rank of a kept position identifies it, and every rank up to the
\* number of kept positions is taken: the CHOOSE of KeepAt always has a witness.
LEMMA RankBijective ==
    ASSUME NEW n \in Nat, NEW kept \in SUBSET (1..n)
    PROVE  /\ Cardinality(kept) \in Nat
           /\ \A i \in kept : Rank(kept, i) \in 1..Cardinality(kept)
           /\ \A i, k \in kept : Rank(kept, i) = Rank(kept, k) => i = k
           /\ \A j \in 1..Cardinality(kept) : \E i \in kept : Rank(kept, i) = j
PROOF
<1> DEFINE upto == [i \in kept |-> {k \in kept : k <= i}]
<1>1. IsFiniteSet(kept)
    <2>1. IsFiniteSet(1..n)
        BY FS_Interval
    <2> QED
        BY <2>1, FS_Subset
<1>2. upto \in [kept -> SUBSET kept] /\ \A i \in kept : i \in upto[i]
    OBVIOUS
<1>3. \A i, k \in kept : upto[i] \subseteq upto[k] \/ upto[k] \subseteq upto[i]
    <2> SUFFICES ASSUME NEW i \in kept, NEW k \in kept
                 PROVE  upto[i] \subseteq upto[k] \/ upto[k] \subseteq upto[i]
        OBVIOUS
    <2>1. CASE i <= k
        <3>1. \A x \in kept : x <= i => x <= k
            BY <2>1
        <3> QED
            BY <3>1
    <2>2. CASE k <= i
        <3>1. \A x \in kept : x <= k => x <= i
            BY <2>2
        <3> QED
            BY <3>1
    <2> QED
        BY <2>1, <2>2
<1>4. \A i, k \in kept : upto[i] = upto[k] => i = k
    <2> SUFFICES ASSUME NEW i \in kept, NEW k \in kept, upto[i] = upto[k] PROVE i = k
        OBVIOUS
    <2>1. i \in upto[k] /\ k \in upto[i]
        BY <1>2
    <2> QED
        BY <2>1
<1>5. \A i \in kept : Rank(kept, i) = Cardinality(upto[i])
    BY DEF Rank
<1> HIDE DEF upto
<1>6. Numbers(upto, kept)
    BY <1>1, <1>2, <1>3, <1>4, SegmentsNumber
<1> QED
    BY <1>5, <1>6 DEF Numbers

\* KeepAt returns the entries at the kept positions, each one once: they are
\* the list's entries along a bijection.
LEMMA KeepAtBijection ==
    ASSUME NEW S, NEW list \in Seq(S), NEW kept \in SUBSET (1..Len(list))
    PROVE  /\ KeepAt(list, kept) \in Seq(S)
           /\ Len(KeepAt(list, kept)) = Cardinality(kept)
           /\ \E e \in Bijection(1..Cardinality(kept), kept) :
                  \A j \in 1..Cardinality(kept) : KeepAt(list, kept)[j] = list[e[j]]
PROOF
<1> DEFINE n == Cardinality(kept)
           at(j) == CHOOSE i \in kept : Rank(kept, i) = j
           e == [j \in 1..n |-> at(j)]
<1>1. Len(list) \in Nat
    OBVIOUS
<1>2. /\ n \in Nat
      /\ \A i \in kept : Rank(kept, i) \in 1..n
      /\ \A i, k \in kept : Rank(kept, i) = Rank(kept, k) => i = k
      /\ \A j \in 1..n : \E i \in kept : Rank(kept, i) = j
    BY <1>1, RankBijective
<1>3. \A j \in 1..n : at(j) \in kept /\ Rank(kept, at(j)) = j
    BY <1>2
<1>4. \A i \in kept : at(Rank(kept, i)) = i
    BY <1>2, <1>3
<1>5. KeepAt(list, kept) = [j \in 1..n |-> list[at(j)]]
    BY DEF KeepAt
<1> HIDE DEF at, n
<1>6. \A j \in 1..n : list[at(j)] \in S
    <2>1. \A i \in 1..Len(list) : list[i] \in S
        OBVIOUS
    <2> QED
        BY <1>3, <2>1
<1>7. KeepAt(list, kept) \in Seq(S) /\ Len(KeepAt(list, kept)) = n
    BY <1>2, <1>5, <1>6
<1>8. e \in [1..n -> kept] /\ \A j \in 1..n : e[j] = at(j)
    BY <1>3
<1> HIDE DEF e
<1>9. e \in Bijection(1..n, kept)
    <2>1. \A i, k \in 1..n : e[i] = e[k] => i = k
        BY <1>3, <1>8
    <2>2. \A y \in kept : \E j \in 1..n : e[j] = y
        BY <1>2, <1>4, <1>8
    <2> QED
        BY <1>8, <2>1, <2>2 DEF Bijection, Injection, Surjection, IsInjective
<1>10. \A j \in 1..n : KeepAt(list, kept)[j] = list[e[j]]
    BY <1>5, <1>8
<1> QED
    BY <1>7, <1>9, <1>10 DEF n

\* A sum over the kept entries is the sum over the kept positions.
LEMMA KeepAtSum ==
    ASSUME NEW S, NEW list \in Seq(S), NEW kept \in SUBSET (1..Len(list)), NEW f, NEW g,
           \A i \in kept : f[i] \in Int,
           \A j \in 1..Cardinality(kept) : \A i \in kept :
               KeepAt(list, kept)[j] = list[i] => g[j] = f[i]
    PROVE  SumFunctionOnSet(g, 1..Cardinality(kept)) = SumFunctionOnSet(f, kept)
PROOF
<1> DEFINE T == 1..Cardinality(kept)
<1>1. IsFiniteSet(T)
    <2>1. Len(list) \in Nat /\ IsFiniteSet(1..Len(list))
        BY FS_Interval
    <2>2. Cardinality(kept) \in Nat
        BY <2>1, FS_Subset, FS_CardinalityType
    <2> QED
        BY <2>2, FS_Interval
<1>2. PICK e \in Bijection(T, kept) : \A j \in T : KeepAt(list, kept)[j] = list[e[j]]
    BY KeepAtBijection
<1> HIDE DEF T
<1>3. \A j \in T : e[j] \in kept
    BY <1>2 DEF Bijection, Injection, Surjection
<1>4. \A j \in T : g[j] = f[e[j]] /\ g[j] \in Int
    BY <1>2, <1>3 DEF T
<1>5. SumFunctionOnSet(g, T) = SumFunctionOnSet(f, kept)
    BY <1>1, <1>2, <1>4, SumReindex
<1> QED
    BY <1>5 DEF T
=============================================================================
