----------------------------- MODULE BooksProofs -----------------------------
(***************************************************************************)
(* Theorems about the arithmetic and the sums of Books, for any journal.   *)
(*                                                                         *)
(* A sum over a finite set is defined by recursion. What it is for every   *)
(* set is shown with a least counterexample: a smallest set for which the  *)
(* claim fails has an element, without which the claim holds.              *)
(***************************************************************************)
EXTENDS Books, FiniteSetTheorems, WellFoundedInduction, TLAPS

-----------------------------------------------------------------------------
(* Sums over finite sets.                                                   *)

\* Among finite sets there is a least one: induction, by the least
\* counterexample.
LEMMA LeastSet ==
  ASSUME NEW S, IsFiniteSet(S), NEW C, C \subseteq SUBSET S, C # {}
  PROVE  \E T \in C : \A U \in C : U \subseteq T => U = T
  <1>1. IsWellFoundedOn(StrictSubsetOrdering(S), FiniteSubsetsOf(S))
    BY FS_StrictSubsetOrderingWellFounded
  <1>2. FiniteSubsetsOf(S) = SUBSET S
    BY FS_FiniteSubsetsOfFinite
  <1>3. PICK T \in C : \A U \in C : <<U, T>> \notin StrictSubsetOrdering(S)
    BY <1>1, <1>2, WFMin
  <1>4. ASSUME NEW U \in C, U \subseteq T PROVE U = T
    <2>1. <<U, T>> \in (SUBSET S) \X (SUBSET S)
      OBVIOUS
    <2> QED BY <1>3, <1>4, <2>1 DEF StrictSubsetOrdering
  <1> QED BY <1>4

Pick(s) == CHOOSE x \in s : TRUE

\* What the recursive function of the library is to be, on the subsets of U.
IsSum(it, f, U) ==
  it = [s \in SUBSET U |-> IF s = {} THEN 0 ELSE f[Pick(s)] + it[s \ {Pick(s)}]]

LEMMA SumIs ==
  ASSUME NEW f, NEW S
  PROVE  SumFunctionOnSet(f, S) = (CHOOSE it : IsSum(it, f, S))[S]
  BY DEF SumFunctionOnSet, FoldFunctionOnSet, MapThenFoldSet, IsSum, Pick

LEMMA PickIn == \A s : s # {} => Pick(s) \in s
  BY DEF Pick

\* Two of them agree where both are defined.
LEMMA SumsAgree ==
  ASSUME NEW f, NEW U, NEW V, NEW a, NEW b, IsSum(a, f, U), IsSum(b, f, V),
         NEW S, IsFiniteSet(S), S \subseteq U, S \subseteq V
  PROVE  a[S] = b[S]
  <1> DEFINE bad == {s \in SUBSET S : a[s] # b[s]}
  <1>1. SUFFICES ASSUME bad # {} PROVE FALSE
    OBVIOUS
  <1>2. PICK s \in bad : \A t \in bad : t \subseteq s => t = s
    <2>1. bad \subseteq SUBSET S
      OBVIOUS
    <2> HIDE DEF bad
    <2> QED BY <1>1, <2>1, LeastSet
  <1>3. /\ a[s] = IF s = {} THEN 0 ELSE f[Pick(s)] + a[s \ {Pick(s)}]
        /\ b[s] = IF s = {} THEN 0 ELSE f[Pick(s)] + b[s \ {Pick(s)}]
    <2>1. s \in SUBSET U /\ s \in SUBSET V
      OBVIOUS
    <2> QED BY <2>1 DEF IsSum
  <1>4. s # {} => a[s \ {Pick(s)}] = b[s \ {Pick(s)}]
    BY <1>2, PickIn
  <1> QED BY <1>3, <1>4

LEMMA SumExists ==
  ASSUME NEW f, NEW S, IsFiniteSet(S)
  PROVE  \E it : IsSum(it, f, S)
  <1> DEFINE bad == {s \in SUBSET S : ~ \E it : IsSum(it, f, s)}
  <1>1. SUFFICES ASSUME bad # {} PROVE FALSE
    OBVIOUS
  <1>2. PICK s \in bad : \A t \in bad : t \subseteq s => t = s
    <2>1. bad \subseteq SUBSET S
      OBVIOUS
    <2> HIDE DEF bad
    <2> QED BY <1>1, <2>1, LeastSet
  <1> DEFINE it(t) == CHOOSE i : IsSum(i, f, t)
             Value(t) == IF t = {} THEN 0 ELSE f[Pick(t)] + it(t \ {Pick(t)})[t \ {Pick(t)}]
             all == [t \in SUBSET s |-> Value(t)]
  <1>3. \A t \in SUBSET s : t # s => IsSum(it(t), f, t)
    BY <1>2
  <1>4. \A t \in SUBSET s : t # s => all[t] = it(t)[t]
    <2> SUFFICES ASSUME NEW t \in SUBSET s, t # s PROVE all[t] = it(t)[t]
      OBVIOUS
    <2>1. IsSum(it(t), f, t)
      BY <1>3
    <2> DEFINE u == t \ {Pick(t)}
    <2>2. it(t)[t] = IF t = {} THEN 0 ELSE f[Pick(t)] + it(t)[u]
      BY <2>1 DEF IsSum
    <2>3. t # {} => it(t)[u] = it(u)[u]
      <3> SUFFICES ASSUME t # {} PROVE it(t)[u] = it(u)[u]
        OBVIOUS
      <3>1. Pick(t) \in t /\ u \in SUBSET s /\ u # s /\ u \subseteq t
        BY PickIn
      <3>2. IsSum(it(u), f, u)
        BY <1>3, <3>1
      <3>3. IsFiniteSet(u)
        BY <3>1, FS_Subset
      <3> HIDE DEF it, u
      <3> QED BY <2>1, <3>1, <3>2, <3>3, SumsAgree
    <2>4. all[t] = Value(t)
      OBVIOUS
    <2> QED BY <2>2, <2>3, <2>4
  <1>5. \A t \in SUBSET s :
          all[t] = IF t = {} THEN 0 ELSE f[Pick(t)] + all[t \ {Pick(t)}]
    <2> SUFFICES ASSUME NEW t \in SUBSET s
                 PROVE  all[t] = IF t = {} THEN 0 ELSE f[Pick(t)] + all[t \ {Pick(t)}]
      OBVIOUS
    <2>0. CASE t = {}
      BY <2>0
    <2> SUFFICES ASSUME t # {} PROVE all[t] = f[Pick(t)] + all[t \ {Pick(t)}]
      BY <2>0
    <2>1. t \ {Pick(t)} \in SUBSET s /\ t \ {Pick(t)} # s
      BY PickIn
    <2>2. all[t \ {Pick(t)}] = it(t \ {Pick(t)})[t \ {Pick(t)}]
      BY <1>4, <2>1
    <2>3. all[t] = f[Pick(t)] + it(t \ {Pick(t)})[t \ {Pick(t)}]
      OBVIOUS
    <2> QED BY <2>2, <2>3
  <1>6. IsSum(all, f, s)
    <2> DEFINE new == [t \in SUBSET s |-> IF t = {} THEN 0 ELSE f[Pick(t)] + all[t \ {Pick(t)}]]
    <2>1. all = [t \in SUBSET s |-> all[t]]
      OBVIOUS
    <2> HIDE DEF all
    <2>2. all = new
      BY <1>5, <2>1
    <2> QED BY <2>2 DEF IsSum
  <1> QED BY <1>6

LEMMA SumEmpty == \A f : SumFunctionOnSet(f, {}) = 0
  <1> SUFFICES ASSUME NEW f PROVE SumFunctionOnSet(f, {}) = 0
    OBVIOUS
  <1>1. \E it : IsSum(it, f, {})
    BY SumExists, FS_EmptySet
  <1>2. IsSum(CHOOSE it : IsSum(it, f, {}), f, {})
    BY <1>1
  <1> QED BY <1>2, SumIs DEF IsSum

LEMMA SumPick ==
  ASSUME NEW f, NEW S, IsFiniteSet(S), S # {}
  PROVE  SumFunctionOnSet(f, S) = f[Pick(S)] + SumFunctionOnSet(f, S \ {Pick(S)})
  <1> DEFINE T == S \ {Pick(S)}
             a == CHOOSE it : IsSum(it, f, S)
             b == CHOOSE it : IsSum(it, f, T)
  <1>1. IsFiniteSet(T) /\ T \subseteq S
    BY FS_Subset
  <1>2. IsSum(a, f, S) /\ IsSum(b, f, T)
    <2>1. IsSum(a, f, S)
      BY SumExists
    <2>2. \E it : IsSum(it, f, T)
      BY <1>1, SumExists
    <2> QED BY <2>1, <2>2
  <1>3. SumFunctionOnSet(f, S) = a[S] /\ SumFunctionOnSet(f, T) = b[T]
    BY SumIs
  <1> HIDE DEF a, b
  <1>4. a[S] = f[Pick(S)] + a[T]
    BY <1>2 DEF IsSum
  <1> HIDE DEF T
  <1>5. a[T] = b[T]
    BY <1>1, <1>2, SumsAgree
  <1> QED BY <1>3, <1>4, <1>5 DEF T

LEMMA SumIsInt ==
  ASSUME NEW S, IsFiniteSet(S), NEW f, \A x \in S : f[x] \in Int
  PROVE  SumFunctionOnSet(f, S) \in Int
  <1> DEFINE bad == {s \in SUBSET S : SumFunctionOnSet(f, s) \notin Int}
  <1>1. SUFFICES ASSUME bad # {} PROVE FALSE
    OBVIOUS
  <1>2. PICK s \in bad : \A t \in bad : t \subseteq s => t = s
    <2>1. bad \subseteq SUBSET S
      OBVIOUS
    <2> HIDE DEF bad
    <2> QED BY <1>1, <2>1, LeastSet
  <1>3. s # {} /\ IsFiniteSet(s) /\ Pick(s) \in s
    <2>1. s \in SUBSET S /\ SumFunctionOnSet(f, s) \notin Int
      OBVIOUS
    <2>2. s # {}
      BY <2>1, SumEmpty
    <2> QED BY <2>1, <2>2, PickIn, FS_Subset
  <1>4. SumFunctionOnSet(f, s \ {Pick(s)}) \in Int
    BY <1>2, <1>3
  <1>5. f[Pick(s)] \in Int
    BY <1>3
  <1> QED BY <1>3, <1>4, <1>5, SumPick

\* Any element may be taken out first.
LEMMA SumRemove ==
  ASSUME NEW S, IsFiniteSet(S), NEW f, \A x \in S : f[x] \in Int, NEW x \in S
  PROVE  SumFunctionOnSet(f, S) = f[x] + SumFunctionOnSet(f, S \ {x})
  <1> DEFINE Good(s) ==
        \A y \in s : SumFunctionOnSet(f, s) = f[y] + SumFunctionOnSet(f, s \ {y})
             bad == {s \in SUBSET S : ~Good(s)}
  <1>1. SUFFICES ASSUME bad # {} PROVE FALSE
    OBVIOUS
  <1>2. PICK s \in bad : \A t \in bad : t \subseteq s => t = s
    <2>1. bad \subseteq SUBSET S
      OBVIOUS
    <2> HIDE DEF bad
    <2> QED BY <1>1, <2>1, LeastSet
  <1>3. PICK y \in s : SumFunctionOnSet(f, s) # f[y] + SumFunctionOnSet(f, s \ {y})
    OBVIOUS
  <1> DEFINE p == Pick(s)
  <1>4. p \in s /\ IsFiniteSet(s)
    BY PickIn, FS_Subset
  <1>5. SumFunctionOnSet(f, s) = f[p] + SumFunctionOnSet(f, s \ {p})
    BY <1>4, SumPick
  <1> HIDE DEF p
  <1>6. y # p
    BY <1>3, <1>5
  <1>7. Good(s \ {p}) /\ Good(s \ {y})
    BY <1>2, <1>4
  <1>8. /\ SumFunctionOnSet(f, s \ {p}) = f[y] + SumFunctionOnSet(f, (s \ {p}) \ {y})
        /\ SumFunctionOnSet(f, s \ {y}) = f[p] + SumFunctionOnSet(f, (s \ {y}) \ {p})
    BY <1>4, <1>6, <1>7
  <1>9. (s \ {p}) \ {y} = (s \ {y}) \ {p}
    OBVIOUS
  <1>10. IsFiniteSet((s \ {y}) \ {p}) /\ (s \ {y}) \ {p} \subseteq S
    BY <1>4, FS_Subset
  <1>11. SumFunctionOnSet(f, (s \ {y}) \ {p}) \in Int /\ f[y] \in Int /\ f[p] \in Int
    BY <1>4, <1>10, SumIsInt
  <1>12. PICK rest \in Int : rest = SumFunctionOnSet(f, (s \ {y}) \ {p})
    BY <1>11
  <1>13. SumFunctionOnSet(f, s \ {p}) = f[y] + rest
    BY <1>8, <1>9, <1>12
  <1>14. SumFunctionOnSet(f, s \ {y}) = f[p] + rest
    BY <1>8, <1>12
  <1>15. f[p] + (f[y] + rest) = f[y] + (f[p] + rest)
    BY <1>11
  <1> QED BY <1>3, <1>5, <1>13, <1>14, <1>15

\* An element that is not there may be added.
LEMMA SumInsert ==
  ASSUME NEW S, IsFiniteSet(S), NEW x, x \notin S,
         NEW f, \A y \in S \cup {x} : f[y] \in Int
  PROVE  SumFunctionOnSet(f, S \cup {x}) = f[x] + SumFunctionOnSet(f, S)
  <1> DEFINE T == S \cup {x}
  <1>1. IsFiniteSet(T)
    BY FS_AddElement
  <1>2. T \ {x} = S /\ x \in T
    OBVIOUS
  <1>3. \A y \in T : f[y] \in Int
    OBVIOUS
  <1> HIDE DEF T
  <1>4. SumFunctionOnSet(f, T) = f[x] + SumFunctionOnSet(f, T \ {x})
    BY <1>1, <1>2, <1>3, SumRemove
  <1> QED BY <1>2, <1>4 DEF T

\* A sum depends on the values on its set only.
LEMMA SumSame ==
  ASSUME NEW S, IsFiniteSet(S), NEW f, NEW g, \A x \in S : f[x] = g[x]
  PROVE  SumFunctionOnSet(f, S) = SumFunctionOnSet(g, S)
  <1> DEFINE bad == {s \in SUBSET S : SumFunctionOnSet(f, s) # SumFunctionOnSet(g, s)}
  <1>1. SUFFICES ASSUME bad # {} PROVE FALSE
    OBVIOUS
  <1>2. PICK s \in bad : \A t \in bad : t \subseteq s => t = s
    <2>1. bad \subseteq SUBSET S
      OBVIOUS
    <2> HIDE DEF bad
    <2> QED BY <1>1, <2>1, LeastSet
  <1>3. s \in SUBSET S /\ SumFunctionOnSet(f, s) # SumFunctionOnSet(g, s)
    OBVIOUS
  <1>4. s # {}
    BY <1>3, SumEmpty
  <1>5. IsFiniteSet(s) /\ Pick(s) \in s
    BY <1>3, <1>4, PickIn, FS_Subset
  <1>6. SumFunctionOnSet(f, s \ {Pick(s)}) = SumFunctionOnSet(g, s \ {Pick(s)})
    BY <1>2, <1>3, <1>5
  <1>7. f[Pick(s)] = g[Pick(s)]
    BY <1>3, <1>5
  <1>8. /\ SumFunctionOnSet(f, s) = f[Pick(s)] + SumFunctionOnSet(f, s \ {Pick(s)})
        /\ SumFunctionOnSet(g, s) = g[Pick(s)] + SumFunctionOnSet(g, s \ {Pick(s)})
    BY <1>4, <1>5, SumPick
  <1> QED BY <1>3, <1>6, <1>7, <1>8

\* The sum of differences is the difference of the sums.
LEMMA SumMinus ==
  ASSUME NEW S, IsFiniteSet(S), NEW f, NEW g, NEW h,
         \A x \in S : f[x] \in Int /\ g[x] \in Int /\ h[x] = f[x] - g[x]
  PROVE  SumFunctionOnSet(h, S) = SumFunctionOnSet(f, S) - SumFunctionOnSet(g, S)
  <1> DEFINE Good(s) ==
        SumFunctionOnSet(h, s) = SumFunctionOnSet(f, s) - SumFunctionOnSet(g, s)
             bad == {s \in SUBSET S : ~Good(s)}
  <1>1. SUFFICES ASSUME bad # {} PROVE FALSE
    OBVIOUS
  <1>2. PICK s \in bad : \A t \in bad : t \subseteq s => t = s
    <2>1. bad \subseteq SUBSET S
      OBVIOUS
    <2> HIDE DEF bad
    <2> QED BY <1>1, <2>1, LeastSet
  <1>3. s \in SUBSET S /\ ~Good(s)
    OBVIOUS
  <1>4. s # {}
    BY <1>3, SumEmpty
  <1>5. PICK x \in s : TRUE
    BY <1>4
  <1> DEFINE rest == s \ {x}
  <1>6. IsFiniteSet(s) /\ rest \in SUBSET S /\ IsFiniteSet(rest)
    BY <1>3, FS_Subset
  <1>7. Good(rest)
    BY <1>2, <1>3, <1>5
  <1>8. \A y \in s : f[y] \in Int /\ g[y] \in Int /\ h[y] \in Int /\ h[y] = f[y] - g[y]
    BY <1>3
  <1>9. /\ SumFunctionOnSet(f, s) = f[x] + SumFunctionOnSet(f, rest)
        /\ SumFunctionOnSet(g, s) = g[x] + SumFunctionOnSet(g, rest)
        /\ SumFunctionOnSet(h, s) = h[x] + SumFunctionOnSet(h, rest)
    BY <1>5, <1>6, <1>8, SumRemove
  <1>10. SumFunctionOnSet(f, rest) \in Int /\ SumFunctionOnSet(g, rest) \in Int
    BY <1>6, <1>8, SumIsInt
  <1> HIDE DEF rest, bad
  <1> QED BY <1>3, <1>5, <1>7, <1>8, <1>9, <1>10

LEMMA SumUnion ==
  ASSUME NEW S, IsFiniteSet(S), NEW T, IsFiniteSet(T), S \cap T = {},
         NEW f, \A x \in S \cup T : f[x] \in Int
  PROVE  SumFunctionOnSet(f, S \cup T)
           = SumFunctionOnSet(f, S) + SumFunctionOnSet(f, T)
  <1> DEFINE Good(s) ==
        SumFunctionOnSet(f, s \cup T) = SumFunctionOnSet(f, s) + SumFunctionOnSet(f, T)
             bad == {s \in SUBSET S : ~Good(s)}
  <1>0. SumFunctionOnSet(f, T) \in Int
    BY SumIsInt
  <1>1. SUFFICES ASSUME bad # {} PROVE FALSE
    OBVIOUS
  <1>2. PICK s \in bad : \A t \in bad : t \subseteq s => t = s
    <2>1. bad \subseteq SUBSET S
      OBVIOUS
    <2> HIDE DEF bad
    <2> QED BY <1>1, <2>1, LeastSet
  <1>3. s \in SUBSET S /\ ~Good(s)
    OBVIOUS
  <1>4. s # {}
    <2>1. {} \cup T = T
      OBVIOUS
    <2> QED BY <1>0, <1>3, <2>1, SumEmpty
  <1>5. PICK x \in s : TRUE
    BY <1>4
  <1> DEFINE rest == s \ {x}
  <1>6. IsFiniteSet(s) /\ rest \in SUBSET S /\ IsFiniteSet(rest)
    BY <1>3, FS_Subset
  <1>7. Good(rest)
    BY <1>2, <1>3, <1>5
  <1>8. /\ (s \cup T) \ {x} = rest \cup T
        /\ IsFiniteSet(s \cup T) /\ x \in s \cup T
        /\ \A y \in s \cup T : f[y] \in Int
    BY <1>3, <1>5, <1>6, FS_Union
  <1>9. SumFunctionOnSet(f, s) = f[x] + SumFunctionOnSet(f, rest)
    BY <1>5, <1>6, <1>8, SumRemove
  <1>10. SumFunctionOnSet(f, s \cup T) = f[x] + SumFunctionOnSet(f, (s \cup T) \ {x})
    BY <1>8, SumRemove
  <1>11. SumFunctionOnSet(f, (s \cup T) \ {x}) = SumFunctionOnSet(f, rest \cup T)
    BY <1>8
  <1>12. SumFunctionOnSet(f, rest) \in Int /\ f[x] \in Int
    BY <1>5, <1>6, <1>8, SumIsInt
  <1> HIDE DEF rest, bad
  <1> QED BY <1>0, <1>3, <1>7, <1>9, <1>10, <1>11, <1>12

\* A sum may be taken over the images under an injection.
LEMMA SumMove ==
  ASSUME NEW S, IsFiniteSet(S), NEW p, \A x, y \in S : p[x] = p[y] => x = y,
         NEW f, NEW g, \A x \in S : g[x] \in Int /\ f[p[x]] = g[x]
  PROVE  SumFunctionOnSet(f, {p[x] : x \in S}) = SumFunctionOnSet(g, S)
  <1> DEFINE Image(s) == {p[x] : x \in s}
             Good(s) == /\ IsFiniteSet(Image(s))
                        /\ SumFunctionOnSet(f, Image(s)) = SumFunctionOnSet(g, s)
             bad == {s \in SUBSET S : ~Good(s)}
  <1>1. SUFFICES ASSUME bad # {} PROVE FALSE
    <2>1. S \in SUBSET S
      OBVIOUS
    <2> QED BY <2>1
  <1>2. PICK s \in bad : \A t \in bad : t \subseteq s => t = s
    <2>1. bad \subseteq SUBSET S
      OBVIOUS
    <2> HIDE DEF bad
    <2> QED BY <1>1, <2>1, LeastSet
  <1>3. s \in SUBSET S /\ ~Good(s)
    OBVIOUS
  <1>4. s # {}
    <2>1. Image({}) = {}
      OBVIOUS
    <2>2. Good({})
      BY <2>1, SumEmpty, FS_EmptySet
    <2> QED BY <1>3, <2>2
  <1>5. PICK x \in s : TRUE
    BY <1>4
  <1> DEFINE rest == s \ {x}
  <1>6. IsFiniteSet(s) /\ rest \in SUBSET S /\ IsFiniteSet(rest)
    BY <1>3, FS_Subset
  <1>7. Good(rest)
    BY <1>2, <1>3, <1>5
  <1>8. Image(s) = Image(rest) \cup {p[x]} /\ p[x] \notin Image(rest)
    BY <1>3, <1>5
  <1>9. \A y \in Image(rest) \cup {p[x]} : f[y] \in Int
    BY <1>3, <1>5
  <1>10. SumFunctionOnSet(g, s) = g[x] + SumFunctionOnSet(g, rest)
    <2>1. \A y \in s : g[y] \in Int
      BY <1>3
    <2> QED BY <1>5, <1>6, <2>1, SumRemove
  <1>11. f[p[x]] = g[x]
    BY <1>3, <1>5
  <1> DEFINE moved == Image(rest)
  <1>12. IsFiniteSet(moved) /\ SumFunctionOnSet(f, moved) = SumFunctionOnSet(g, rest)
    BY <1>7
  <1>13. Image(s) = moved \cup {p[x]} /\ p[x] \notin moved
         /\ \A y \in moved \cup {p[x]} : f[y] \in Int
    BY <1>8, <1>9
  <1>14. ~(IsFiniteSet(Image(s)) /\ SumFunctionOnSet(f, Image(s)) = SumFunctionOnSet(g, s))
    BY <1>3
  <1> HIDE DEF moved, rest, bad, Image, Good
  <1>15. SumFunctionOnSet(f, moved \cup {p[x]}) = f[p[x]] + SumFunctionOnSet(f, moved)
    BY <1>12, <1>13, SumInsert
  <1>16. IsFiniteSet(moved \cup {p[x]})
    BY <1>12, FS_AddElement
  <1> QED BY <1>10, <1>11, <1>12, <1>13, <1>14, <1>15, <1>16

\* The sums over disjoint parts of a set, added up, are the sum over their union.
LEMMA SumParts ==
  ASSUME NEW S, IsFiniteSet(S), NEW f, \A x \in S : f[x] \in Int,
         NEW T, IsFiniteSet(T), NEW part, \A t \in T : part[t] \subseteq S,
         \A t, u \in T : \A x \in part[t] \cap part[u] : t = u,
         NEW sums, \A t \in T : sums[t] = SumFunctionOnSet(f, part[t]),
         NEW whole, \A x : x \in whole <=> \E t \in T : x \in part[t]
  PROVE  SumFunctionOnSet(sums, T) = SumFunctionOnSet(f, whole)
  <1> DEFINE In(u) == {x \in S : \E t \in u : x \in part[t]}
             bad == {u \in SUBSET T :
                       SumFunctionOnSet(sums, u) # SumFunctionOnSet(f, In(u))}
  <1>0. whole = In(T)
    OBVIOUS
  <1>1. SUFFICES ASSUME bad # {} PROVE FALSE
    <2>1. T \in SUBSET T
      OBVIOUS
    <2> QED BY <1>0, <2>1
  <1>2. PICK u \in bad : \A v \in bad : v \subseteq u => v = u
    <2>1. bad \subseteq SUBSET T
      OBVIOUS
    <2> HIDE DEF bad
    <2> QED BY <1>1, <2>1, LeastSet
  <1>3. u \in SUBSET T /\ SumFunctionOnSet(sums, u) # SumFunctionOnSet(f, In(u))
    OBVIOUS
  <1>4. u # {}
    <2>1. In({}) = {}
      OBVIOUS
    <2>2. SumFunctionOnSet(f, In({})) = 0
      BY <2>1, SumEmpty
    <2> QED BY <1>3, <2>2, SumEmpty
  <1>5. PICK t \in u : TRUE
    BY <1>4
  <1> DEFINE rest == u \ {t}
  <1>6. IsFiniteSet(u) /\ rest \in SUBSET T /\ IsFiniteSet(rest)
    BY <1>3, FS_Subset
  <1>7. SumFunctionOnSet(sums, rest) = SumFunctionOnSet(f, In(rest))
    BY <1>2, <1>3, <1>5
  <1>8. \A v \in T : sums[v] \in Int
    <2> SUFFICES ASSUME NEW v \in T PROVE sums[v] \in Int
      OBVIOUS
    <2>1. IsFiniteSet(part[v]) /\ \A x \in part[v] : f[x] \in Int
      BY FS_Subset
    <2> QED BY <2>1, SumIsInt
  <1>9. SumFunctionOnSet(sums, u) = sums[t] + SumFunctionOnSet(sums, rest)
    <2>1. \A v \in u : sums[v] \in Int
      BY <1>3, <1>8
    <2> QED BY <1>5, <1>6, <2>1, SumRemove
  <1>10. sums[t] = SumFunctionOnSet(f, part[t])
    BY <1>3, <1>5
  <1>11. /\ In(u) = part[t] \cup In(rest) /\ part[t] \cap In(rest) = {}
         /\ part[t] \in SUBSET S /\ In(rest) \in SUBSET S
    BY <1>3, <1>5
  <1> HIDE DEF In, rest, bad
  <1>12. /\ IsFiniteSet(part[t]) /\ IsFiniteSet(In(rest))
         /\ \A x \in part[t] \cup In(rest) : f[x] \in Int
    BY <1>11, FS_Subset
  <1>13. SumFunctionOnSet(f, part[t] \cup In(rest))
           = SumFunctionOnSet(f, part[t]) + SumFunctionOnSet(f, In(rest))
    BY <1>11, <1>12, SumUnion
  <1> QED BY <1>3, <1>7, <1>9, <1>10, <1>11, <1>13

-----------------------------------------------------------------------------
(* The arithmetic stays in its types.                                       *)

LEMMA TensIsPositive == \A k \in 0..6 : Tens(k) \in Int /\ Tens(k) > 0
  <1> SUFFICES ASSUME NEW k \in 0..6 PROVE Tens(k) \in Int /\ Tens(k) > 0
    OBVIOUS
  <1>1. k = 0 \/ k = 1 \/ k = 2 \/ k = 3 \/ k = 4 \/ k = 5 \/ k = 6
    OBVIOUS
  <1> QED BY <1>1 DEF Tens

LEMMA QuotientIsInt ==
  ASSUME NEW n \in Int, NEW d \in Int, d > 0 PROVE Quotient(n, d) \in Int
  BY DEF Quotient

LEMMA ScaledIsInt ==
  ASSUME NEW v \in Decimal, NEW places \in 0..6
  PROVE  ToScaledUnits(v, places) \in Int
  <1>1. v.digits \in Int /\ v.places \in 0..6
    BY DEF Decimal
  <1>2. CASE v.places <= places
    <2>1. places - v.places \in 0..6
      BY <1>1, <1>2
    <2>2. PICK t \in Int : t = Tens(places - v.places)
      BY <2>1, TensIsPositive
    <2> QED BY <1>1, <1>2, <2>2 DEF ToScaledUnits
  <1>3. CASE ~(v.places <= places)
    <2>1. v.places - places \in 0..6
      BY <1>1, <1>3
    <2>2. PICK t \in Int : t = Tens(v.places - places) /\ t > 0
      BY <2>1, TensIsPositive
    <2> QED BY <1>1, <1>3, <2>2, QuotientIsInt DEF ToScaledUnits
  <1> QED BY <1>2, <1>3

LEMMA MinorIsInt == \A v \in Decimal : ToMinorUnits(v) \in Int
  BY ScaledIsInt DEF ToMinorUnits

LEMMA ConvertedIsInt ==
  ASSUME NEW v \in Decimal, NEW rate \in Decimal PROVE ConvertWithRate(v, rate) \in Int
  <1>1. PICK a \in Int, b \in Int : a = ToMinorUnits(v) /\ b = ToScaledUnits(rate, 6)
    BY MinorIsInt, ScaledIsInt
  <1>2. PICK t \in Int : t = Tens(6) /\ t > 0
    BY TensIsPositive
  <1>3. a * b \in Int
    OBVIOUS
  <1> QED BY <1>1, <1>2, <1>3, QuotientIsInt DEF ConvertWithRate

LEMMA StoredIsRow == \A line \in Line : Stored(line) \in Row
  <1> SUFFICES ASSUME NEW line \in Line PROVE Stored(line) \in Row
    OBVIOUS
  <1>1. /\ line.account \in Accounts /\ line.debit \in Decimal /\ line.credit \in Decimal
        /\ line.rate \in Decimal /\ line.counterparty \in Dimensions
        /\ line.costCenter \in Dimensions
    BY DEF Line
  <1>2. /\ ToMinorUnits(line.debit) \in Int /\ ToMinorUnits(line.credit) \in Int
        /\ ConvertWithRate(line.debit, line.rate) \in Int
        /\ ConvertWithRate(line.credit, line.rate) \in Int
    BY <1>1, MinorIsInt, ConvertedIsInt
  <1> QED BY <1>1, <1>2 DEF Stored, Row

LEMMA SwappedIsLine == \A row \in Row : Swapped(row) \in Line
  <1> SUFFICES ASSUME NEW row \in Row PROVE Swapped(row) \in Line
    OBVIOUS
  <1>1. /\ row.account \in Accounts /\ row.debit \in Int /\ row.credit \in Int
        /\ row.rate \in Decimal /\ row.counterparty \in Dimensions
        /\ row.costCenter \in Dimensions
    BY DEF Row
  <1>2. FromMinorUnits(row.credit) \in Decimal /\ FromMinorUnits(row.debit) \in Decimal
    BY <1>1 DEF FromMinorUnits, Decimal
  <1> QED BY <1>1, <1>2 DEF Swapped, Line

-----------------------------------------------------------------------------
(* Sums over the rows of a journal.                                         *)

LEMMA SeqIsFinite ==
  ASSUME NEW S, NEW s \in Seq(S)
  PROVE  IsFiniteSet(DOMAIN s) /\ \A k \in DOMAIN s : s[k] \in S
  <1>1. DOMAIN s = 1..Len(s) /\ Len(s) \in Int
    OBVIOUS
  <1>2. IsFiniteSet(DOMAIN s)
    BY <1>1, FS_Interval
  <1> QED BY <1>2

\* A journal of entries that balance, each with finitely many rows.
IsBalanced(journal) ==
  /\ IsFiniteSet(DOMAIN journal)
  /\ \A i \in DOMAIN journal :
       /\ IsFiniteSet(DOMAIN journal[i].lines)
       /\ \A k \in DOMAIN journal[i].lines : journal[i].lines[k] \in Row
       /\ CheckEntryBalance(journal[i].lines)

\* Finitely many rows, with amounts.
HasRows(journal, rows) ==
  IsFiniteSet(rows) /\ \A p \in rows : RowAt(journal, p) \in Row

LEMMA PartHasRows ==
  ASSUME NEW journal, NEW rows, HasRows(journal, rows), NEW part \in SUBSET rows
  PROVE  HasRows(journal, part)
  BY FS_Subset DEF HasRows

LEMMA RowsOfEntries ==
  ASSUME NEW journal, NEW months, NEW p \in RowsOf(journal, months)
  PROVE  \E i \in DOMAIN journal : \E k \in DOMAIN journal[i].lines :
           p = <<i, k>> /\ journal[i].month \in months
  BY DEF RowsOf

LEMMA RowsOfHasRows ==
  ASSUME NEW journal, IsBalanced(journal), NEW months
  PROVE  HasRows(journal, RowsOf(journal, months))
  <1> DEFINE D == {j \in DOMAIN journal : journal[j].month \in months}
             f == [i \in D |-> {i} \X DOMAIN journal[i].lines]
             parts == {{i} \X DOMAIN journal[i].lines : i \in D}
  <1>1. IsFiniteSet(D)
    BY FS_Subset DEF IsBalanced
  <1>2. f \in Surjection(D, parts)
    BY DEF Surjection
  <1>3. IsFiniteSet(parts)
    <2> HIDE DEF D, f, parts
    <2> QED BY <1>1, <1>2, FS_Surjection
  <1>4. \A s \in parts : IsFiniteSet(s)
    <2> SUFFICES ASSUME NEW i \in D PROVE IsFiniteSet({i} \X DOMAIN journal[i].lines)
      OBVIOUS
    <2>1. IsFiniteSet({i}) /\ IsFiniteSet(DOMAIN journal[i].lines)
      BY FS_Singleton DEF IsBalanced
    <2> QED BY <2>1, FS_Product
  <1>5. IsFiniteSet(UNION parts)
    <2> HIDE DEF parts
    <2> QED BY <1>3, <1>4, FS_UNION
  <1>6. RowsOf(journal, months) = UNION parts
    BY DEF RowsOf
  <1>7. \A p \in RowsOf(journal, months) : RowAt(journal, p) \in Row
    BY RowsOfEntries DEF RowAt, IsBalanced
  <1> QED BY <1>5, <1>6, <1>7 DEF HasRows

Amounts == {"debit", "credit"}

LEMMA AmountIsInt == \A row \in Row, column \in Amounts : row[column] \in Int
  BY DEF Row, Amounts

LEMMA TotalIsInt ==
  ASSUME NEW journal, NEW rows, HasRows(journal, rows), NEW column \in Amounts
  PROVE  Total(journal, column, rows) \in Int
  <1> DEFINE f == [p \in rows |-> RowAt(journal, p)[column]]
  <1>1. \A p \in rows : f[p] \in Int
    BY AmountIsInt DEF HasRows
  <1>2. IsFiniteSet(rows)
    BY DEF HasRows
  <1> HIDE DEF f
  <1>3. SumFunctionOnSet(f, rows) \in Int
    BY <1>1, <1>2, SumIsInt
  <1> QED BY <1>3 DEF Total, f

\* What disjoint parts of the rows sum up to, added up, is what they sum up to.
LEMMA TotalOfParts ==
  ASSUME NEW journal, NEW rows, HasRows(journal, rows), NEW column \in Amounts,
         NEW T, IsFiniteSet(T), NEW part,
         \A t, u \in T : \A p \in part[t] \cap part[u] : t = u,
         \A p : p \in rows <=> \E t \in T : p \in part[t],
         NEW sums, \A t \in T : sums[t] = Total(journal, column, part[t])
  PROVE  SumFunctionOnSet(sums, T) = Total(journal, column, rows)
  <1> DEFINE f == [p \in rows |-> RowAt(journal, p)[column]]
  <1>1. \A p \in rows : f[p] \in Int
    BY AmountIsInt DEF HasRows
  <1>2. ASSUME NEW X \in SUBSET rows
        PROVE  Total(journal, column, X) = SumFunctionOnSet(f, X)
    <2> DEFINE g == [p \in X |-> RowAt(journal, p)[column]]
    <2>1. \A p \in X : g[p] = f[p]
      OBVIOUS
    <2>2. IsFiniteSet(X)
      BY FS_Subset DEF HasRows
    <2>3. Total(journal, column, X) = SumFunctionOnSet(g, X)
      BY DEF Total
    <2> HIDE DEF f, g
    <2> QED BY <2>1, <2>2, <2>3, SumSame
  <1>3. IsFiniteSet(rows) /\ \A t \in T : part[t] \subseteq rows
    BY DEF HasRows
  <1> HIDE DEF f
  <1>4. \A t \in T : sums[t] = SumFunctionOnSet(f, part[t])
    BY <1>2, <1>3
  <1>5. SumFunctionOnSet(sums, T) = SumFunctionOnSet(f, rows)
    BY <1>1, <1>3, <1>4, SumParts
  <1> QED BY <1>2, <1>5

\* The rows of one entry.
LEMMA TotalOfEntry ==
  ASSUME NEW journal, IsBalanced(journal), NEW months, NEW column \in Amounts,
         NEW i \in DOMAIN journal, journal[i].month \in months
  PROVE  Total(journal, column, {p \in RowsOf(journal, months) : p[1] = i})
           = SumOf(column, journal[i].lines)
  <1> DEFINE lines == journal[i].lines
             D == DOMAIN lines
             at == [k \in D |-> <<i, k>>]
             rows == {p \in RowsOf(journal, months) : p[1] = i}
             f == [p \in rows |-> RowAt(journal, p)[column]]
             g == [k \in D |-> lines[k][column]]
  <1>1. rows = {at[k] : k \in D}
    <2>1. \A k \in D : at[k] \in rows
      BY DEF RowsOf
    <2>2. ASSUME NEW p \in rows PROVE \E k \in D : p = at[k]
      <3>1. p \in RowsOf(journal, months) /\ p[1] = i
        OBVIOUS
      <3>2. PICK j \in DOMAIN journal : \E k \in DOMAIN journal[j].lines : p = <<j, k>>
        BY <3>1, RowsOfEntries
      <3>3. PICK k \in DOMAIN journal[j].lines : p = <<j, k>>
        BY <3>2
      <3>4. i = j
        BY <3>1, <3>3
      <3>5. k \in D /\ p = at[k]
        BY <3>3, <3>4
      <3> QED BY <3>5
    <2> QED BY <2>1, <2>2
  <1>2. \A k \in D : g[k] \in Int /\ f[at[k]] = g[k]
    <2> SUFFICES ASSUME NEW k \in D PROVE g[k] \in Int /\ f[at[k]] = g[k]
      OBVIOUS
    <2>1. at[k] \in rows
      BY <1>1
    <2>2. f[at[k]] = RowAt(journal, at[k])[column]
      BY <2>1
    <2>3. RowAt(journal, at[k]) = lines[k]
      BY DEF RowAt
    <2>4. lines[k] \in Row
      BY DEF IsBalanced
    <2> QED BY <2>2, <2>3, <2>4, AmountIsInt
  <1>3. \A x, y \in D : at[x] = at[y] => x = y
    OBVIOUS
  <1>4. IsFiniteSet(D)
    BY DEF IsBalanced
  <1>5. Total(journal, column, rows) = SumFunctionOnSet(f, rows)
    BY DEF Total
  <1>6. SumOf(column, lines) = SumFunctionOnSet(g, D)
    BY DEF SumOf
  <1> HIDE DEF lines, D, at, rows, f, g
  <1>7. SumFunctionOnSet(f, {at[k] : k \in D}) = SumFunctionOnSet(g, D)
    BY <1>2, <1>3, <1>4, SumMove
  <1> QED BY <1>1, <1>5, <1>6, <1>7 DEF rows, lines

\* Over any months, debits are credits.
LEMMA TotalsBalance ==
  ASSUME NEW journal, IsBalanced(journal), NEW months
  PROVE  Total(journal, "debit", RowsOf(journal, months))
           = Total(journal, "credit", RowsOf(journal, months))
  <1> DEFINE rows == RowsOf(journal, months)
             D == {i \in DOMAIN journal : journal[i].month \in months}
             part == [i \in D |-> {p \in rows : p[1] = i}]
             sums(column) == [i \in D |-> SumOf(column, journal[i].lines)]
  <1>1. HasRows(journal, rows)
    BY RowsOfHasRows
  <1>2. IsFiniteSet(D)
    BY FS_Subset DEF IsBalanced
  <1>3. \A p : p \in rows <=> \E i \in D : p \in part[i]
    <2>1. ASSUME NEW p \in rows PROVE \E i \in D : p \in part[i]
      <3>1. PICK i \in DOMAIN journal : \E k \in DOMAIN journal[i].lines :
                   p = <<i, k>> /\ journal[i].month \in months
        BY RowsOfEntries
      <3>2. i \in D /\ p[1] = i
        BY <3>1
      <3> QED BY <3>2
    <2> QED BY <2>1
  <1>4. ASSUME NEW column \in Amounts
        PROVE  SumFunctionOnSet(sums(column), D) = Total(journal, column, rows)
    <2> DEFINE s == sums(column)
    <2>1. \A i \in D : s[i] = Total(journal, column, part[i])
      BY TotalOfEntry
    <2>2. \A i, k \in D : \A p \in part[i] \cap part[k] : i = k
      OBVIOUS
    <2> HIDE DEF s, part, rows, D, sums
    <2>3. SumFunctionOnSet(s, D) = Total(journal, column, rows)
      BY <1>1, <1>2, <1>3, <2>1, <2>2, TotalOfParts
    <2> QED BY <2>3 DEF s
  <1>5. \A i \in D : sums("debit")[i] = sums("credit")[i]
    BY DEF IsBalanced, CheckEntryBalance
  <1>6. SumFunctionOnSet(sums("debit"), D) = SumFunctionOnSet(sums("credit"), D)
    <2> HIDE DEF sums, D
    <2> QED BY <1>2, <1>5, SumSame
  <1>7. "debit" \in Amounts /\ "credit" \in Amounts
    BY DEF Amounts
  <1> HIDE DEF sums, D, rows
  <1> QED BY <1>4, <1>6, <1>7 DEF rows

-----------------------------------------------------------------------------
(* The reports.                                                             *)

LEMMA RowIsTyped ==
  ASSUME NEW journal, IsBalanced(journal), NEW months, NEW p \in RowsOf(journal, months)
  PROVE  /\ RowAt(journal, p).account \in Accounts
         /\ RowAt(journal, p).counterparty \in Dimensions
         /\ RowAt(journal, p).costCenter \in Dimensions
  <1>1. RowAt(journal, p) \in Row
    BY RowsOfHasRows DEF HasRows
  <1> QED BY <1>1 DEF Row

\* A column of the trial balance, over some accounts, is the sum of their rows.
LEMMA AccountsSum ==
  ASSUME NEW journal, IsBalanced(journal), NEW months, NEW column \in Amounts,
         NEW S \in SUBSET Accounts
  PROVE  SumOfAccounts(journal, months, column, S)
           = Total(journal, column,
                   {p \in RowsOf(journal, months) : RowAt(journal, p).account \in S})
  <1> DEFINE all == RowsOf(journal, months)
             rows == {p \in all : RowAt(journal, p).account \in S}
             part == [a \in S |-> {p \in all : RowAt(journal, p).account = a}]
             sums == [a \in S |-> TrialBalance(journal, months)[a][column]]
  <1>1. HasRows(journal, rows)
    <2>1. rows \in SUBSET all
      OBVIOUS
    <2> HIDE DEF rows
    <2> QED BY <2>1, RowsOfHasRows, PartHasRows
  <1>2. IsFiniteSet(S)
    BY BooksAssumption, FS_Subset
  <1>3. \A a, b \in S : \A p \in part[a] \cap part[b] : a = b
    OBVIOUS
  <1>4. \A p : p \in rows <=> \E a \in S : p \in part[a]
    OBVIOUS
  <1>5. \A a \in S : sums[a] = Total(journal, column, part[a])
    BY DEF TrialBalance, Amounts
  <1>6. SumOfAccounts(journal, months, column, S) = SumFunctionOnSet(sums, S)
    BY DEF SumOfAccounts
  <1>7. SumFunctionOnSet(sums, S) = Total(journal, column, rows)
    <2> HIDE DEF rows, part, sums
    <2> QED BY <1>1, <1>2, <1>3, <1>4, <1>5, TotalOfParts
  <1> QED BY <1>6, <1>7

\* The trial balance balances.
THEOREM TrialBalanceOfBalanced ==
  ASSUME NEW journal, IsBalanced(journal), NEW months
  PROVE  TrialBalanceBalances(journal, months)
  <1> DEFINE all == RowsOf(journal, months)
  <1>1. {p \in all : RowAt(journal, p).account \in Accounts} = all
    BY RowIsTyped
  <1>2. "debit" \in Amounts /\ "credit" \in Amounts /\ Accounts \in SUBSET Accounts
    BY DEF Amounts
  <1>3. /\ SumOfAccounts(journal, months, "debit", Accounts) = Total(journal, "debit", all)
        /\ SumOfAccounts(journal, months, "credit", Accounts) = Total(journal, "credit", all)
    BY <1>1, <1>2, AccountsSum
  <1> QED BY <1>3, TotalsBalance DEF TrialBalanceBalances

\* The cash flow is that of the cash accounts.
THEOREM CashFlowOfBalanced ==
  ASSUME NEW journal, IsBalanced(journal), NEW months
  PROVE  CashFlowIsCash(journal, months)
  <1>1. "debit" \in Amounts /\ "credit" \in Amounts /\ CashAccounts \in SUBSET Accounts
    BY BooksAssumption DEF Amounts
  <1> QED BY <1>1, AccountsSum DEF CashFlowIsCash, CashFlow

\* The balances of the accounts of a type are the balance of its rows.
LEMMA TypeSum ==
  ASSUME NEW journal, IsBalanced(journal), NEW months, NEW type \in AccountType,
         NEW debit, debit = Total(journal, "debit", RowsOfType(journal, months, type)),
         NEW credit, credit = Total(journal, "credit", RowsOfType(journal, months, type))
  PROVE  /\ debit \in Int /\ credit \in Int
         /\ BalanceOfType(journal, months, type)
              = IF IsDebitNormal(type) THEN debit - credit ELSE credit - debit
  <1> DEFINE S == {a \in Accounts : TypeOf[a] = type}
             balances == TrialBalance(journal, months)
             D == [a \in S |-> balances[a]["debit"]]
             C == [a \in S |-> balances[a]["credit"]]
             B == [a \in S |-> balances[a]["balance"]]
  <1>1. S \in SUBSET Accounts /\ IsFiniteSet(S)
    <2>1. S \in SUBSET Accounts
      OBVIOUS
    <2> HIDE DEF S
    <2> QED BY <2>1, BooksAssumption, FS_Subset
  <1>2. "debit" \in Amounts /\ "credit" \in Amounts
    BY DEF Amounts
  <1>3. {p \in RowsOf(journal, months) : RowAt(journal, p).account \in S}
          = RowsOfType(journal, months, type)
    BY RowIsTyped DEF RowsOfType
  <1>4. SumFunctionOnSet(D, S) = debit /\ SumFunctionOnSet(C, S) = credit
    <2>1. /\ SumFunctionOnSet(D, S) = SumOfAccounts(journal, months, "debit", S)
          /\ SumFunctionOnSet(C, S) = SumOfAccounts(journal, months, "credit", S)
      BY DEF SumOfAccounts
    <2> HIDE DEF S, D, C
    <2> QED BY <1>1, <1>2, <1>3, <2>1, AccountsSum
  <1>5. HasRows(journal, RowsOfType(journal, months, type))
    <2>1. RowsOfType(journal, months, type) \in SUBSET RowsOf(journal, months)
      BY DEF RowsOfType
    <2> QED BY <2>1, RowsOfHasRows, PartHasRows
  <1>6. debit \in Int /\ credit \in Int
    BY <1>2, <1>5, TotalIsInt
  <1>7. ASSUME NEW a \in S
        PROVE  /\ D[a] \in Int /\ C[a] \in Int
               /\ B[a] = IF IsDebitNormal(type) THEN D[a] - C[a] ELSE C[a] - D[a]
    <2> DEFINE rows == {p \in RowsOf(journal, months) : RowAt(journal, p).account = a}
    <2>1. /\ D[a] = Total(journal, "debit", rows) /\ C[a] = Total(journal, "credit", rows)
          /\ B[a] = IF IsDebitNormal(type) THEN D[a] - C[a] ELSE C[a] - D[a]
      BY DEF TrialBalance, IsDebitNormal
    <2>2. HasRows(journal, rows)
      <3>1. rows \in SUBSET RowsOf(journal, months)
        OBVIOUS
      <3> HIDE DEF rows
      <3> QED BY <3>1, RowsOfHasRows, PartHasRows
    <2> HIDE DEF rows
    <2> QED BY <1>2, <2>1, <2>2, TotalIsInt
  <1>8. BalanceOfType(journal, months, type) = SumFunctionOnSet(B, S)
    BY DEF BalanceOfType, SumOfAccounts
  <1> HIDE DEF S, D, C, B
  <1>9. CASE IsDebitNormal(type)
    <2>1. \A a \in S : D[a] \in Int /\ C[a] \in Int /\ B[a] = D[a] - C[a]
      BY <1>7, <1>9
    <2>2. SumFunctionOnSet(B, S) = SumFunctionOnSet(D, S) - SumFunctionOnSet(C, S)
      BY <1>1, <2>1, SumMinus
    <2> QED BY <1>4, <1>6, <1>8, <1>9, <2>2
  <1>10. CASE ~IsDebitNormal(type)
    <2>1. \A a \in S : C[a] \in Int /\ D[a] \in Int /\ B[a] = C[a] - D[a]
      BY <1>7, <1>10
    <2>2. SumFunctionOnSet(B, S) = SumFunctionOnSet(C, S) - SumFunctionOnSet(D, S)
      BY <1>1, <2>1, SumMinus
    <2> QED BY <1>4, <1>6, <1>8, <1>10, <2>2
  <1> QED BY <1>9, <1>10

\* One element more, in a set that is written out.
LEMMA SumAdd ==
  ASSUME NEW f, NEW S, IsFiniteSet(S), NEW x, x \notin S, NEW T, T = S \cup {x},
         \A y \in T : f[y] \in Int
  PROVE  IsFiniteSet(T) /\ SumFunctionOnSet(f, T) = f[x] + SumFunctionOnSet(f, S)
  BY FS_AddElement, SumInsert

LEMMA SumOverTypes ==
  ASSUME NEW f, \A t \in AccountType : f[t] \in Int
  PROVE  /\ IsFiniteSet(AccountType)
         /\ SumFunctionOnSet(f, AccountType)
              = f["ASSET"] + f["LIABILITY"] + f["EQUITY"] + f["INCOME"] + f["EXPENSE"]
  <1> DEFINE one == {"EXPENSE"}
             two == {"INCOME", "EXPENSE"}
             three == {"EQUITY", "INCOME", "EXPENSE"}
             four == {"LIABILITY", "EQUITY", "INCOME", "EXPENSE"}
  <1>0. /\ f["ASSET"] \in Int /\ f["LIABILITY"] \in Int /\ f["EQUITY"] \in Int
        /\ f["INCOME"] \in Int /\ f["EXPENSE"] \in Int
    BY DEF AccountType
  <1>1. /\ one = {} \cup {"EXPENSE"} /\ two = one \cup {"INCOME"}
        /\ three = two \cup {"EQUITY"} /\ four = three \cup {"LIABILITY"}
        /\ AccountType = four \cup {"ASSET"}
    BY DEF AccountType
  <1>2. /\ "EXPENSE" \notin {} /\ "INCOME" \notin one /\ "EQUITY" \notin two
        /\ "LIABILITY" \notin three /\ "ASSET" \notin four
    OBVIOUS
  <1>3. \A t \in four : f[t] \in Int
    BY <1>0
  <1> HIDE DEF one, two, three, four
  <1>4. IsFiniteSet(one) /\ SumFunctionOnSet(f, one) = f["EXPENSE"] + SumFunctionOnSet(f, {})
    BY <1>1, <1>2, <1>3, FS_EmptySet, SumAdd
  <1>5. IsFiniteSet(two) /\ SumFunctionOnSet(f, two) = f["INCOME"] + SumFunctionOnSet(f, one)
    BY <1>1, <1>2, <1>3, <1>4, SumAdd
  <1>6. IsFiniteSet(three) /\ SumFunctionOnSet(f, three) = f["EQUITY"] + SumFunctionOnSet(f, two)
    BY <1>1, <1>2, <1>3, <1>5, SumAdd
  <1>7. IsFiniteSet(four) /\ SumFunctionOnSet(f, four)
                               = f["LIABILITY"] + SumFunctionOnSet(f, three)
    BY <1>1, <1>2, <1>3, <1>6, SumAdd
  <1>8. /\ IsFiniteSet(AccountType)
        /\ SumFunctionOnSet(f, AccountType) = f["ASSET"] + SumFunctionOnSet(f, four)
    BY <1>1, <1>2, <1>7, SumAdd
  <1>9. SumFunctionOnSet(f, {}) = 0
    BY SumEmpty
  <1> QED BY <1>0, <1>4, <1>5, <1>6, <1>7, <1>8, <1>9

\* The net profit is what the assets gained over the liabilities and the equity.
THEOREM ProfitOfBalanced ==
  ASSUME NEW journal, IsBalanced(journal), NEW months
  PROVE  ProfitIsGain(journal, months)
  <1> DEFINE all == RowsOf(journal, months)
             part == [t \in AccountType |-> RowsOfType(journal, months, t)]
             D == [t \in AccountType |-> Total(journal, "debit", part[t])]
             C == [t \in AccountType |-> Total(journal, "credit", part[t])]
             B == [t \in AccountType |-> BalanceOfType(journal, months, t)]
  <1>1. ASSUME NEW t \in AccountType
        PROVE  /\ D[t] \in Int /\ C[t] \in Int
               /\ B[t] = IF IsDebitNormal(t) THEN D[t] - C[t] ELSE C[t] - D[t]
    BY TypeSum
  <1>2. HasRows(journal, all) /\ "debit" \in Amounts /\ "credit" \in Amounts
    BY RowsOfHasRows DEF Amounts
  <1>3. \A t, u \in AccountType : \A p \in part[t] \cap part[u] : t = u
    BY DEF RowsOfType
  <1>4. \A p : p \in all <=> \E t \in AccountType : p \in part[t]
    BY RowIsTyped, BooksAssumption DEF RowsOfType
  <1>5. /\ \A t \in AccountType : D[t] = Total(journal, "debit", part[t])
        /\ \A t \in AccountType : C[t] = Total(journal, "credit", part[t])
    OBVIOUS
  <1>6. NetProfit(journal, months)
          = (C["INCOME"] - D["INCOME"]) - (D["EXPENSE"] - C["EXPENSE"])
    BY DEF NetProfit, ProfitAndLoss, AccountType
  <1>7. ProfitIsGain(journal, months)
          <=> NetProfit(journal, months) = B["ASSET"] - B["LIABILITY"] - B["EQUITY"]
    BY DEF ProfitIsGain, AccountType
  <1> HIDE DEF all, part, D, C, B
  <1>8. /\ SumFunctionOnSet(D, AccountType) = Total(journal, "debit", all)
        /\ SumFunctionOnSet(C, AccountType) = Total(journal, "credit", all)
    <2>1. IsFiniteSet(AccountType)
      BY <1>1, SumOverTypes
    <2> QED BY <1>2, <1>3, <1>4, <1>5, <2>1, TotalOfParts
  <1>9. SumFunctionOnSet(D, AccountType) = SumFunctionOnSet(C, AccountType)
    BY <1>8, TotalsBalance DEF all
  <1>10. D["ASSET"] + D["LIABILITY"] + D["EQUITY"] + D["INCOME"] + D["EXPENSE"]
           = C["ASSET"] + C["LIABILITY"] + C["EQUITY"] + C["INCOME"] + C["EXPENSE"]
    BY <1>1, <1>9, SumOverTypes
  <1>11. /\ B["ASSET"] = D["ASSET"] - C["ASSET"]
         /\ B["LIABILITY"] = C["LIABILITY"] - D["LIABILITY"]
         /\ B["EQUITY"] = C["EQUITY"] - D["EQUITY"]
    BY <1>1 DEF IsDebitNormal, AccountType
  <1>12. \A t \in {"ASSET", "LIABILITY", "EQUITY", "INCOME", "EXPENSE"} :
           D[t] \in Int /\ C[t] \in Int
    BY <1>1 DEF AccountType
  <1> QED BY <1>6, <1>7, <1>10, <1>11, <1>12

\* The counterparties, and the rows without one, make up each account.
THEOREM CounterpartiesOfBalanced ==
  ASSUME NEW journal, IsBalanced(journal), NEW months
  PROVE  CounterpartiesMakeAccount(journal, months)
  <1> SUFFICES ASSUME NEW a \in Accounts
               PROVE  TrialBalance(journal, months)[a].debit
                        - TrialBalance(journal, months)[a].credit
                        = SumFunctionOnSet([c \in Dimensions |->
                            CounterpartyBalance(journal, months, c, a)], Dimensions)
    BY DEF CounterpartiesMakeAccount
  <1> DEFINE rows == {p \in RowsOf(journal, months) : RowAt(journal, p).account = a}
             part == [c \in Dimensions |->
                        {p \in rows : RowAt(journal, p).counterparty = c}]
             D == [c \in Dimensions |-> Total(journal, "debit", part[c])]
             C == [c \in Dimensions |-> Total(journal, "credit", part[c])]
             B == [c \in Dimensions |-> CounterpartyBalance(journal, months, c, a)]
  <1>1. HasRows(journal, rows) /\ "debit" \in Amounts /\ "credit" \in Amounts
    <2>1. rows \in SUBSET RowsOf(journal, months)
      OBVIOUS
    <2> HIDE DEF rows
    <2> QED BY <2>1, RowsOfHasRows, PartHasRows DEF Amounts
  <1>2. /\ \A c, d \in Dimensions : \A p \in part[c] \cap part[d] : c = d
        /\ \A p : p \in rows <=> \E c \in Dimensions : p \in part[c]
    BY RowIsTyped
  <1>3. \A c \in Dimensions : part[c] \in SUBSET rows
    OBVIOUS
  <1>4. ASSUME NEW c \in Dimensions PROVE B[c] = D[c] - C[c]
    <2>1. part[c] = {p \in RowsOf(journal, months) :
                       /\ RowAt(journal, p).counterparty = c
                       /\ RowAt(journal, p).account = a}
      OBVIOUS
    <2> QED BY <2>1 DEF CounterpartyBalance
  <1>5. /\ TrialBalance(journal, months)[a].debit = Total(journal, "debit", rows)
        /\ TrialBalance(journal, months)[a].credit = Total(journal, "credit", rows)
    BY DEF TrialBalance
  <1>6. \A c \in Dimensions : /\ D[c] = Total(journal, "debit", part[c])
                               /\ C[c] = Total(journal, "credit", part[c])
    OBVIOUS
  <1> HIDE DEF rows, part, D, C
  <1>7. \A c \in Dimensions : D[c] \in Int /\ C[c] \in Int
    <2>1. \A c \in Dimensions : HasRows(journal, part[c])
      BY <1>1, <1>3, PartHasRows
    <2> QED BY <1>1, <1>6, <2>1, TotalIsInt
  <1>8. /\ SumFunctionOnSet(D, Dimensions) = Total(journal, "debit", rows)
        /\ SumFunctionOnSet(C, Dimensions) = Total(journal, "credit", rows)
    BY <1>1, <1>2, <1>6, BooksAssumption, TotalOfParts
  <1>9. SumFunctionOnSet(B, Dimensions)
          = SumFunctionOnSet(D, Dimensions) - SumFunctionOnSet(C, Dimensions)
    <2> HIDE DEF B
    <2> QED BY <1>4, <1>7, BooksAssumption, SumMinus
  <1> QED BY <1>5, <1>8, <1>9

\* The actual amounts of a budget line are the balance of its account.
THEOREM ActualOfBalanced ==
  ASSUME NEW journal, IsBalanced(journal), NEW m
  PROVE  ActualIsBalance(journal, m)
  <1> DEFINE Of(a, centers) == Execution(journal, m,
                         [account |-> a, costCenters |-> centers, planned |-> 0])
  <1> SUFFICES ASSUME NEW a \in Accounts
               PROVE  /\ Of(a, Dimensions).deviation
                            = TrialBalance(journal, {m})[a].balance
                      /\ SumFunctionOnSet([c \in Dimensions |-> Of(a, {c}).actual],
                                          Dimensions)
                            = TrialBalance(journal, {m})[a].balance
    BY DEF ActualIsBalance
  <1> DEFINE rows == {p \in RowsOf(journal, {m}) : RowAt(journal, p).account = a}
             part == [c \in Dimensions |->
                        {p \in rows : RowAt(journal, p).costCenter = c}]
             D == [c \in Dimensions |-> Total(journal, "debit", part[c])]
             C == [c \in Dimensions |-> Total(journal, "credit", part[c])]
             B == [c \in Dimensions |-> Of(a, {c}).actual]
             debit == Total(journal, "debit", rows)
             credit == Total(journal, "credit", rows)
             balance == TrialBalance(journal, {m})[a].balance
             normal == IsDebitNormal(TypeOf[a])
  <1>1. HasRows(journal, rows) /\ "debit" \in Amounts /\ "credit" \in Amounts
    <2>1. rows \in SUBSET RowsOf(journal, {m})
      OBVIOUS
    <2> HIDE DEF rows
    <2> QED BY <2>1, RowsOfHasRows, PartHasRows DEF Amounts
  <1>2. /\ \A c, d \in Dimensions : \A p \in part[c] \cap part[d] : c = d
        /\ \A p : p \in rows <=> \E c \in Dimensions : p \in part[c]
    BY RowIsTyped
  <1>3. \A c \in Dimensions : part[c] \in SUBSET rows
    OBVIOUS
  <1>4. balance = IF normal THEN debit - credit ELSE credit - debit
    BY DEF TrialBalance, IsDebitNormal
  <1>5. debit \in Int /\ credit \in Int
    <2> HIDE DEF rows
    <2> QED BY <1>1, TotalIsInt
  <1>6. Of(a, Dimensions).deviation = balance
    <2>1. {p \in RowsOf(journal, {m}) : /\ RowAt(journal, p).account = a
                                        /\ RowAt(journal, p).costCenter \in Dimensions}
            = rows
      BY RowIsTyped
    <2>2. ActualForLine(journal, m, a, Dimensions)
            = IF normal THEN debit - credit ELSE credit - debit
      BY <2>1 DEF ActualForLine
    <2>3. Of(a, Dimensions).deviation = ActualForLine(journal, m, a, Dimensions) - 0
      BY DEF Execution
    <2> HIDE DEF debit, credit, balance, normal, Of
    <2> QED BY <1>4, <1>5, <2>2, <2>3
  <1>7. ASSUME NEW c \in Dimensions
        PROVE  B[c] = IF normal THEN D[c] - C[c] ELSE C[c] - D[c]
    <2>1. {p \in RowsOf(journal, {m}) : /\ RowAt(journal, p).account = a
                                        /\ RowAt(journal, p).costCenter \in {c}}
            = part[c]
      OBVIOUS
    <2>2. B[c] = ActualForLine(journal, m, a, {c})
      BY DEF Execution
    <2> QED BY <2>1, <2>2 DEF ActualForLine
  <1>8. \A c \in Dimensions : /\ D[c] = Total(journal, "debit", part[c])
                               /\ C[c] = Total(journal, "credit", part[c])
    OBVIOUS
  <1>9. SumFunctionOnSet(B, Dimensions) = balance
    <2> HIDE DEF rows, part, D, C, B, balance, normal
    <2>1. \A c \in Dimensions : D[c] \in Int /\ C[c] \in Int
      <3>1. \A c \in Dimensions : HasRows(journal, part[c])
        BY <1>1, <1>3, PartHasRows
      <3> QED BY <1>1, <1>8, <3>1, TotalIsInt
    <2>2. SumFunctionOnSet(D, Dimensions) = debit /\ SumFunctionOnSet(C, Dimensions) = credit
      BY <1>1, <1>2, <1>8, BooksAssumption, TotalOfParts
    <2>3. CASE normal
      <3>1. SumFunctionOnSet(B, Dimensions)
              = SumFunctionOnSet(D, Dimensions) - SumFunctionOnSet(C, Dimensions)
        BY <1>7, <2>1, <2>3, BooksAssumption, SumMinus
      <3> QED BY <1>4, <2>2, <2>3, <3>1
    <2>4. CASE ~normal
      <3>1. SumFunctionOnSet(B, Dimensions)
              = SumFunctionOnSet(C, Dimensions) - SumFunctionOnSet(D, Dimensions)
        BY <1>7, <2>1, <2>4, BooksAssumption, SumMinus
      <3> QED BY <1>4, <2>2, <2>4, <3>1
    <2> QED BY <2>3, <2>4
  <1> QED BY <1>6, <1>9

-----------------------------------------------------------------------------
(* Pairs of lines.                                                          *)

\* A line of a document.
DocumentLine == [debitAccount : Accounts, creditAccount : Accounts,
                 amount : Decimal, costCenter : Dimensions]

LEMMA ZeroIsDecimal == Zero \in Decimal
  BY DEF Zero, FromMinorUnits, Decimal

\* Two lines that were written together are each other's partners.
LEMMA Partners ==
  ASSUME NEW n \in Nat, NEW k \in 1..(2 * n)
  PROVE  /\ Partner(k) \in 1..(2 * n) /\ Partner(Partner(k)) = k
         /\ (Partner(k) % 2 = 1) = (k % 2 # 1)
         /\ (Partner(k) + 1) \div 2 = (k + 1) \div 2
         /\ (k + 1) \div 2 \in 1..n
  <1>1. PICK h \in 1..n : k = 2 * h - 1 \/ k = 2 * h
    <2>1. (k + 1) \div 2 \in 1..n /\ (k = 2 * ((k + 1) \div 2) - 1 \/ k = 2 * ((k + 1) \div 2))
      OBVIOUS
    <2> QED BY <2>1
  <1>2. CASE k = 2 * h - 1
    <2>1. k % 2 = 1 /\ Partner(k) = 2 * h
      BY <1>2 DEF Partner
    <2>2. (2 * h) % 2 = 0 /\ (2 * h + 1) \div 2 = h /\ (k + 1) \div 2 = h
      BY <1>2
    <2> QED BY <1>2, <2>1, <2>2 DEF Partner
  <1>3. CASE k = 2 * h
    <2>1. k % 2 = 0 /\ Partner(k) = 2 * h - 1
      BY <1>3 DEF Partner
    <2>2. (2 * h - 1) % 2 = 1 /\ (2 * h) \div 2 = h /\ (k + 1) \div 2 = h
      BY <1>3
    <2>3. 2 * h - 1 + 1 = 2 * h
      OBVIOUS
    <2> QED BY <1>3, <2>1, <2>2, <2>3 DEF Partner
  <1> QED BY <1>1, <1>2, <1>3

\* What a document posts is lines, in pairs (documents.service.ts:228-263).
THEOREM DocumentsPostPairs ==
  ASSUME NEW lines \in Seq(DocumentLine), NEW rate \in Decimal,
         NEW counterparty \in Dimensions
  PROVE  /\ DocumentLines(lines, rate, counterparty) \in Seq(Line)
         /\ InPairs(DocumentLines(lines, rate, counterparty))
  <1> DEFINE n == Len(lines)
             posted == DocumentLines(lines, rate, counterparty)
  <1>0. n \in Nat /\ \A h \in 1..n : lines[h] \in DocumentLine
    OBVIOUS
  <1>1. DOMAIN posted = 1..(2 * n)
    BY DEF DocumentLines
  <1>2. ASSUME NEW k \in 1..(2 * n), NEW line, line = lines[(k + 1) \div 2]
        PROVE  /\ k % 2 = 1 => /\ posted[k].account = line.debitAccount
                               /\ posted[k].debit = line.amount /\ posted[k].credit = Zero
               /\ k % 2 # 1 => /\ posted[k].account = line.creditAccount
                               /\ posted[k].debit = Zero /\ posted[k].credit = line.amount
               /\ posted[k].rate = rate
               /\ posted[k] \in [account : {posted[k].account}, debit : {posted[k].debit},
                                 credit : {posted[k].credit}, rate : {rate},
                                 counterparty : {counterparty}, costCenter : {line.costCenter}]
    BY <1>2 DEF DocumentLines
  <1> HIDE DEF posted
  <1>3. ASSUME NEW k \in 1..(2 * n) PROVE posted[k] \in Line
    <2>1. PICK line \in DocumentLine : line = lines[(k + 1) \div 2]
      BY <1>0, Partners
    <2>2. /\ line.debitAccount \in Accounts /\ line.creditAccount \in Accounts
          /\ line.amount \in Decimal /\ line.costCenter \in Dimensions
      BY DEF DocumentLine
    <2>3. /\ posted[k].account \in Accounts /\ posted[k].debit \in Decimal
          /\ posted[k].credit \in Decimal
      BY <1>2, <2>1, <2>2, ZeroIsDecimal
    <2>4. posted[k] \in [account : {posted[k].account}, debit : {posted[k].debit},
                         credit : {posted[k].credit}, rate : {rate},
                         counterparty : {counterparty}, costCenter : {line.costCenter}]
      BY <1>2, <2>1
    <2> QED BY <2>2, <2>3, <2>4 DEF Line
  <1>4. posted \in Seq(Line)
    <2>1. posted = [k \in 1..(2 * n) |-> posted[k]]
      BY <1>1 DEF DocumentLines, posted
    <2>2. 2 * n \in Nat
      BY <1>0
    <2> QED BY <1>3, <2>1, <2>2
  <1>5. InPairs(posted)
    <2> SUFFICES ASSUME NEW k \in 1..(2 * n)
                 PROVE  /\ Partner(k) \in 1..(2 * n)
                        /\ posted[Partner(k)].debit = posted[k].credit
                        /\ posted[Partner(k)].rate = posted[k].rate
      BY <1>1 DEF InPairs
    <2>1. /\ Partner(k) \in 1..(2 * n) /\ (Partner(k) % 2 = 1) = (k % 2 # 1)
          /\ (Partner(k) + 1) \div 2 = (k + 1) \div 2
      BY <1>0, Partners
    <2>2. PICK j \in 1..(2 * n) : j = Partner(k)
      BY <2>1
    <2>3. posted[j].debit = posted[k].credit /\ posted[j].rate = posted[k].rate
      BY <1>2, <2>1, <2>2
    <2> QED BY <2>1, <2>2, <2>3
  <1> QED BY <1>4, <1>5 DEF posted

\* What a payment posts is a pair of lines (payments.service.ts:90-119).
THEOREM PaymentsPostPairs ==
  ASSUME NEW outgoing \in BOOLEAN, NEW cash \in Accounts, NEW counter \in Accounts,
         NEW amount \in Decimal, NEW rate \in Decimal, NEW counterparty \in Dimensions
  PROVE  /\ PaymentLines(outgoing, cash, counter, amount, rate, counterparty) \in Seq(Line)
         /\ InPairs(PaymentLines(outgoing, cash, counter, amount, rate, counterparty))
  <1> DEFINE posted == PaymentLines(outgoing, cash, counter, amount, rate, counterparty)
  <1>1. posted \in Seq(Line)
    BY ZeroIsDecimal, BooksAssumption DEF PaymentLines, Line
  <1>2. /\ DOMAIN posted = 1..2 /\ posted[1].debit = posted[2].credit
        /\ posted[1].credit = posted[2].debit /\ posted[1].rate = posted[2].rate
    BY DEF PaymentLines
  <1> HIDE DEF posted
  <1>3. InPairs(posted)
    <2>1. Partner(1) = 2 /\ Partner(2) = 1 /\ 1..2 = {1, 2}
      BY DEF Partner
    <2> QED BY <1>2, <2>1 DEF InPairs
  <1> QED BY <1>1, <1>3 DEF posted

-----------------------------------------------------------------------------
(* The base currency.                                                       *)

\* The base amounts of the rows are their amounts, converted.
Converted(rows) ==
  \A k \in DOMAIN rows :
    /\ rows[k].baseDebit = ConvertWithRate(FromMinorUnits(rows[k].debit), rows[k].rate)
    /\ rows[k].baseCredit = ConvertWithRate(FromMinorUnits(rows[k].credit), rows[k].rate)

LEMMA MinorOfMinor == \A n \in Int : ToMinorUnits(FromMinorUnits(n)) = n
  BY DEF ToMinorUnits, FromMinorUnits, ToScaledUnits, Tens

\* What is stored is truncated to minor units first: converting that is the same.
LEMMA ConvertedOfMinor ==
  ASSUME NEW v \in Decimal, NEW rate
  PROVE  ConvertWithRate(FromMinorUnits(ToMinorUnits(v)), rate) = ConvertWithRate(v, rate)
  <1>1. ToMinorUnits(FromMinorUnits(ToMinorUnits(v))) = ToMinorUnits(v)
    BY MinorIsInt, MinorOfMinor
  <1> QED BY <1>1 DEF ConvertWithRate

\* The rows of lines in pairs are in pairs, and converted.
LEMMA StoredInPairs ==
  ASSUME NEW lines \in Seq(Line), InPairs(lines),
         NEW rows, rows = [k \in DOMAIN lines |-> Stored(lines[k])]
  PROVE  InPairs(rows) /\ Converted(rows)
  <1>1. \A k \in DOMAIN lines : rows[k] = Stored(lines[k]) /\ lines[k] \in Line
    OBVIOUS
  <1>2. DOMAIN rows = DOMAIN lines
    OBVIOUS
  <1>3. \A line : /\ Stored(line).debit = ToMinorUnits(line.debit)
                  /\ Stored(line).credit = ToMinorUnits(line.credit)
                  /\ Stored(line).baseDebit = ConvertWithRate(line.debit, line.rate)
                  /\ Stored(line).baseCredit = ConvertWithRate(line.credit, line.rate)
                  /\ Stored(line).rate = line.rate
    BY DEF Stored
  <1>4. InPairs(rows)
    BY <1>1, <1>2, <1>3 DEF InPairs
  <1>5. Converted(rows)
    <2> SUFFICES ASSUME NEW k \in DOMAIN lines
                 PROVE  /\ rows[k].baseDebit
                             = ConvertWithRate(FromMinorUnits(rows[k].debit), rows[k].rate)
                        /\ rows[k].baseCredit
                             = ConvertWithRate(FromMinorUnits(rows[k].credit), rows[k].rate)
      BY <1>2 DEF Converted
    <2>1. lines[k].debit \in Decimal /\ lines[k].credit \in Decimal
      BY <1>1 DEF Line
    <2> QED BY <1>1, <1>3, <2>1, ConvertedOfMinor
  <1> QED BY <1>4, <1>5

\* The reversal of rows in pairs is in pairs.
LEMMA SwappedInPairs ==
  ASSUME NEW rows, InPairs(rows), DOMAIN rows \subseteq Int,
         NEW lines, lines = [k \in DOMAIN rows |-> Swapped(rows[k])]
  PROVE  InPairs(lines)
  <1>1. /\ DOMAIN lines = DOMAIN rows
        /\ \A k \in DOMAIN rows : lines[k] = Swapped(rows[k])
    OBVIOUS
  <1>2. \A row : /\ Swapped(row).debit = FromMinorUnits(row.credit)
                 /\ Swapped(row).credit = FromMinorUnits(row.debit)
                 /\ Swapped(row).rate = row.rate
    BY DEF Swapped
  <1> SUFFICES ASSUME NEW k \in DOMAIN rows
               PROVE  /\ Partner(k) \in DOMAIN rows
                      /\ lines[Partner(k)].debit = lines[k].credit
                      /\ lines[Partner(k)].rate = lines[k].rate
    BY <1>1 DEF InPairs
  <1>3. PICK j \in DOMAIN rows : /\ j = Partner(k) /\ rows[j].debit = rows[k].credit
                                 /\ rows[j].rate = rows[k].rate
    BY DEF InPairs
  <1>4. Partner(j) = k
    BY <1>3 DEF Partner
  <1>5. rows[k].debit = rows[j].credit
    BY <1>4 DEF InPairs
  <1> QED BY <1>1, <1>2, <1>3, <1>5

\* Pairs balance in the base currency: both of a pair are truncated alike.
LEMMA PairsBalance ==
  ASSUME NEW rows \in Seq(Row), InPairs(rows), Converted(rows)
  PROVE  SumOf("baseDebit", rows) = SumOf("baseCredit", rows)
  <1> DEFINE D == DOMAIN rows
             p == [k \in D |-> Partner(k)]
             f == [k \in D |-> rows[k]["baseDebit"]]
             g == [k \in D |-> rows[k]["baseCredit"]]
  <1>0. IsFiniteSet(D)
    BY SeqIsFinite
  <1>1. \A k \in D : k \in Int /\ rows[k] \in Row
    OBVIOUS
  <1>2. \A k \in D : p[k] \in D /\ Partner(p[k]) = k
    <2>1. \A k \in Int : Partner(Partner(k)) = k
      BY DEF Partner
    <2>2. \A k \in D : Partner(k) \in D
      BY DEF InPairs
    <2> QED BY <1>1, <2>1, <2>2
  <1>3. \A x, y \in D : p[x] = p[y] => x = y
    BY <1>2
  <1>4. {p[k] : k \in D} = D
    <2>1. \A k \in D : p[p[k]] = k /\ p[k] \in D
      BY <1>2
    <2> HIDE DEF p, D
    <2> QED BY <2>1
  <1>5. ASSUME NEW k \in D PROVE g[k] \in Int /\ f[p[k]] = g[k]
    <2>1. PICK j \in D : /\ j = p[k] /\ rows[j].debit = rows[k].credit
                         /\ rows[j].rate = rows[k].rate
      BY <1>2 DEF InPairs
    <2>2. rows[j].baseDebit = rows[k].baseCredit
      BY <2>1 DEF Converted
    <2>3. rows[k].baseCredit \in Int
      BY <1>1 DEF Row
    <2> QED BY <2>1, <2>2, <2>3
  <1>6. SumOf("baseDebit", rows) = SumFunctionOnSet(f, D)
        /\ SumOf("baseCredit", rows) = SumFunctionOnSet(g, D)
    BY DEF SumOf
  <1> HIDE DEF D, p, f, g
  <1>7. SumFunctionOnSet(f, {p[k] : k \in D}) = SumFunctionOnSet(g, D)
    BY <1>0, <1>3, <1>5, SumMove
  <1> QED BY <1>4, <1>6, <1>7

-----------------------------------------------------------------------------
(* Reversals.                                                               *)

\* What one row debits the other credits, on the same account and dimensions.
MirrorsRow(row, original) ==
  /\ row.account = original.account /\ row.counterparty = original.counterparty
  /\ row.costCenter = original.costCenter
  /\ row.debit = original.credit /\ row.credit = original.debit
  /\ row.baseDebit = original.baseCredit /\ row.baseCredit = original.baseDebit

Mirrors(rows, original) ==
  /\ DOMAIN rows = DOMAIN original
  /\ \A k \in DOMAIN rows : MirrorsRow(rows[k], original[k])

\* The rows of a reversal, as they are stored.
LEMMA StoredMirrors ==
  ASSUME NEW original \in Seq(Row), Converted(original),
         NEW lines, lines = [k \in DOMAIN original |-> Swapped(original[k])],
         NEW rows, rows = [k \in DOMAIN lines |-> Stored(lines[k])]
  PROVE  Mirrors(rows, original)
  <1>1. /\ DOMAIN rows = DOMAIN original
        /\ \A k \in DOMAIN original : rows[k] = Stored(Swapped(original[k]))
    OBVIOUS
  <1>2. ASSUME NEW k \in DOMAIN original PROVE MirrorsRow(rows[k], original[k])
    <2>1. PICK row \in Row : row = original[k] /\ row.debit \in Int /\ row.credit \in Int
      <3>1. original[k] \in Row
        OBVIOUS
      <3> QED BY <3>1 DEF Row
    <2>2. /\ row.baseDebit = ConvertWithRate(FromMinorUnits(row.debit), row.rate)
          /\ row.baseCredit = ConvertWithRate(FromMinorUnits(row.credit), row.rate)
      BY <2>1 DEF Converted
    <2>3. rows[k] = Stored(Swapped(row))
      BY <1>1, <2>1
    <2> QED BY <2>1, <2>2, <2>3, MinorOfMinor DEF MirrorsRow, Stored, Swapped
  <1> QED BY <1>1, <1>2 DEF Mirrors

\* Entries whose rows mirror each other cancel.
LEMMA MirrorsCancel ==
  ASSUME NEW original, original.lines \in Seq(Row), NEW reversal,
         reversal.lines \in Seq(Row), Mirrors(reversal.lines, original.lines)
  PROVE  Cancel(original, reversal)
  <1> DEFINE D == DOMAIN original.lines
             pair == <<original, reversal>>
             places == {<<1, k>> : k \in D} \cup {<<2, k>> : k \in D}
             Same(row, other) == /\ row.account = other.account
                                 /\ row.counterparty = other.counterparty
                                 /\ row.costCenter = other.costCenter
             Alike(p) == {q \in places : Same(RowAt(pair, q), RowAt(pair, p))}
             Opposite(q) == <<3 - q[1], q[2]>>
  <1>1. IsFiniteSet(D) /\ DOMAIN reversal.lines = D
    BY SeqIsFinite DEF Mirrors
  <1>2. IsFiniteSet(places)
    <2>1. places \in SUBSET ({1, 2} \X D)
      OBVIOUS
    <2>2. IsFiniteSet({1, 2})
      <3>1. IsFiniteSet({1} \cup {2}) /\ {1} \cup {2} = {1, 2}
        BY FS_Singleton, FS_AddElement
      <3> QED BY <3>1
    <2> HIDE DEF places, D
    <2> QED BY <1>1, <2>1, <2>2, FS_Product, FS_Subset
  <1>3. ASSUME NEW q \in places
        PROVE  /\ RowAt(pair, q) \in Row /\ Opposite(q) \in places
               /\ Opposite(Opposite(q)) = q
               /\ MirrorsRow(RowAt(pair, Opposite(q)), RowAt(pair, q))
    <2>1. PICK k \in D : q = <<1, k>> \/ q = <<2, k>>
      OBVIOUS
    <2>2. /\ RowAt(pair, <<1, k>>) = original.lines[k]
          /\ RowAt(pair, <<2, k>>) = reversal.lines[k]
      BY DEF RowAt
    <2>3. original.lines[k] \in Row /\ reversal.lines[k] \in Row
      BY <1>1
    <2>4. /\ MirrorsRow(reversal.lines[k], original.lines[k])
          /\ MirrorsRow(original.lines[k], reversal.lines[k])
      BY <1>1 DEF Mirrors, MirrorsRow
    <2>5. CASE q = <<1, k>>
      <3>1. Opposite(q) = <<2, k>> /\ Opposite(<<2, k>>) = <<1, k>>
        BY <2>5
      <3> QED BY <2>2, <2>3, <2>4, <2>5, <3>1
    <2>6. CASE q = <<2, k>>
      <3>1. Opposite(q) = <<1, k>> /\ Opposite(<<1, k>>) = <<2, k>>
        BY <2>6
      <3> QED BY <2>2, <2>3, <2>4, <2>6, <3>1
    <2> QED BY <2>1, <2>5, <2>6
  <1> HIDE DEF places, pair, Opposite
  <1>4. ASSUME NEW p \in places, NEW debit, NEW credit,
               \A q \in places : /\ RowAt(pair, q)[credit] \in Int
                                 /\ RowAt(pair, Opposite(q))[debit] = RowAt(pair, q)[credit]
        PROVE  Total(pair, debit, Alike(p)) = Total(pair, credit, Alike(p))
    <2> DEFINE S == Alike(p)
               at == [q \in S |-> Opposite(q)]
               f == [q \in S |-> RowAt(pair, q)[debit]]
               g == [q \in S |-> RowAt(pair, q)[credit]]
    <2>1. IsFiniteSet(S)
      <3>1. S \in SUBSET places
        OBVIOUS
      <3> HIDE DEF S
      <3> QED BY <1>2, <3>1, FS_Subset
    <2>2. \A q \in S : q \in places /\ at[q] \in S
      BY <1>3 DEF MirrorsRow
    <2>3. \A q \in S : at[at[q]] = q
      BY <1>3, <2>2
    <2>4. \A x, y \in S : at[x] = at[y] => x = y
      BY <2>3
    <2>5. {at[q] : q \in S} = S
      <3> HIDE DEF at, S
      <3> QED BY <2>2, <2>3
    <2>6. \A q \in S : g[q] \in Int /\ f[at[q]] = g[q]
      BY <1>4, <2>2
    <2>7. Total(pair, debit, S) = SumFunctionOnSet(f, S)
          /\ Total(pair, credit, S) = SumFunctionOnSet(g, S)
      BY DEF Total
    <2> HIDE DEF S, at, f, g
    <2>8. SumFunctionOnSet(f, {at[q] : q \in S}) = SumFunctionOnSet(g, S)
      BY <2>1, <2>4, <2>6, SumMove
    <2> QED BY <2>5, <2>7, <2>8 DEF S
  <1>5. ASSUME NEW p \in places
        PROVE  /\ Total(pair, "debit", Alike(p)) = Total(pair, "credit", Alike(p))
               /\ Total(pair, "baseDebit", Alike(p)) = Total(pair, "baseCredit", Alike(p))
    <2>1. \A row \in Row : row["credit"] \in Int /\ row["baseCredit"] \in Int
      BY DEF Row
    <2>2. /\ \A q \in places : /\ RowAt(pair, q)["credit"] \in Int
                               /\ RowAt(pair, Opposite(q))["debit"] = RowAt(pair, q)["credit"]
          /\ \A q \in places :
               /\ RowAt(pair, q)["baseCredit"] \in Int
               /\ RowAt(pair, Opposite(q))["baseDebit"] = RowAt(pair, q)["baseCredit"]
      BY <1>3, <2>1 DEF MirrorsRow
    <2> HIDE DEF Alike
    <2> QED BY <1>4, <2>2
  <1> QED BY <1>1, <1>5 DEF Cancel, places, pair

=============================================================================
