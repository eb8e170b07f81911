---------------------------- MODULE SumTheorems ----------------------------
(***************************************************************************)
(* What a sum over a finite set is, for every finite set and every         *)
(* function: the sums by which a balance is the projection of its ledger   *)
(* (LedgerAbs) and a stock level the total of its movements                *)
(* (StockCommands).                                                        *)
(*                                                                         *)
(* The proofs are inductions on the set, each by a smallest                *)
(* counterexample: of the subsets of a finite set for which a claim fails  *)
(* one is minimal, it is not empty, and without its chosen element it      *)
(* would be smaller still.                                                 *)
(***************************************************************************)
EXTENDS Sums, FiniteSetTheorems, WellFoundedInduction, TLAPS

(* A set of sets has a member with no other member inside it.                *)

HasSmallest(W) == \E m \in W : \A s \in W : s \subseteq m => s = m

(* Every set of finite sets that is not empty has one.                       *)
LEMMA SmallestSet ==
    ASSUME NEW S, NEW W, W \subseteq SUBSET S, W # {}, \A s \in W : IsFiniteSet(s)
    PROVE  HasSmallest(W)
<1>1. PICK R : R = StrictSubsetOrdering(S)
  OBVIOUS
<1>2. PICK F : F = FiniteSubsetsOf(S)
  OBVIOUS
<1>3. IsWellFoundedOn(R, F)
  BY <1>1, <1>2, FS_StrictSubsetOrderingWellFounded
<1>4. W \subseteq F
  BY <1>2 DEF FiniteSubsetsOf
<1>5. PICK m \in W : \A s \in W : <<s, m>> \notin R
  BY <1>3, <1>4, WFMin
<1>6. \A s \in W : s \subseteq m /\ s # m => <<s, m>> \in R
  BY <1>1 DEF StrictSubsetOrdering
<1>7. \A s \in W : s \subseteq m => s = m
  BY <1>5, <1>6
<1> QED
  BY <1>7, Zenon DEF HasSmallest

(* The element a sum takes first; and the table of the sums over all subsets *)
(* of T, which is how the sum over T is defined.                             *)
Chosen(s) == CHOOSE x \in s : TRUE
IsTally(g, f, T) == g = [s \in SUBSET T |-> IF s = {} THEN 0 ELSE f[Chosen(s)] + g[s \ {Chosen(s)}]]

(* The sum of the library's definition is an entry of such a table.          *)
LEMMA SumIsTally == \A f, T : SumOver(f, T) = (CHOOSE g : IsTally(g, f, T))[T]
  BY Zenon DEF SumOver, MapThenSumSet, MapThenFoldSet, IsTally, Chosen

(* A set that is not empty has its chosen element.                           *)
LEMMA ChosenIn == \A s : s # {} => Chosen(s) \in s
  BY DEF Chosen

(* An entry is the chosen element and the entry of the rest.                 *)
LEMMA TallyStep ==
    ASSUME NEW f, NEW T, NEW g, IsTally(g, f, T), NEW s, s \subseteq T
    PROVE  g[s] = IF s = {} THEN 0 ELSE f[Chosen(s)] + g[s \ {Chosen(s)}]
  BY DEF IsTally

(* Two tables agree where both have an entry.                                *)
LEMMA TallyUnique ==
    ASSUME NEW f, NEW T, NEW U, NEW g, NEW h, IsTally(g, f, T), IsTally(h, f, U),
           NEW s, s \subseteq T, s \subseteq U, IsFiniteSet(s)
    PROVE  g[s] = h[s]
<1> DEFINE W == {u \in SUBSET s : g[u] # h[u]}
<1> SUFFICES ASSUME W # {} PROVE FALSE
  OBVIOUS
<1>1. \A u \in W : IsFiniteSet(u)
  BY FS_Subset
<1>2. PICK m \in W : \A u \in W : u \subseteq m => u = m
  <2>1. W \subseteq SUBSET s
    OBVIOUS
  <2> HIDE DEF W
  <2>3. HasSmallest(W)
    BY <1>1, <2>1, SmallestSet
  <2> QED
    BY <2>3 DEF HasSmallest
<1>3. /\ g[m] = IF m = {} THEN 0 ELSE f[Chosen(m)] + g[m \ {Chosen(m)}]
      /\ h[m] = IF m = {} THEN 0 ELSE f[Chosen(m)] + h[m \ {Chosen(m)}]
  BY TallyStep
<1>4. m # {} => m \ {Chosen(m)} \in SUBSET s /\ m \ {Chosen(m)} # m /\ m \ {Chosen(m)} \subseteq m
  BY ChosenIn
<1>5. m # {} => m \ {Chosen(m)} \notin W
  BY <1>2, <1>4
<1> QED
  BY <1>3, <1>4, <1>5

(* A finite set has a table: the tables of its proper subsets make up that   *)
(* of the set.                                                               *)
LEMMA TallyExists ==
    ASSUME NEW f, NEW T, IsFiniteSet(T)
    PROVE  \E g : IsTally(g, f, T)
<1> DEFINE Value(s) == (CHOOSE g : IsTally(g, f, s))[s]
           W == {u \in SUBSET T : ~\E g : IsTally(g, f, u)}
<1> SUFFICES ASSUME W # {} PROVE FALSE
  OBVIOUS
<1>1. \A u \in W : IsFiniteSet(u)
  BY FS_Subset
<1>2. PICK m \in W : \A u \in W : u \subseteq m => u = m
  <2>1. W \subseteq SUBSET T
    OBVIOUS
  <2> HIDE DEF W
  <2>3. HasSmallest(W)
    BY <1>1, <2>1, SmallestSet
  <2> QED
    BY <2>3 DEF HasSmallest
<1>3. \A s \in SUBSET m : s # m => \E g : IsTally(g, f, s) /\ Value(s) = g[s]
  <2> SUFFICES ASSUME NEW s \in SUBSET m, s # m
               PROVE  \E g : IsTally(g, f, s) /\ Value(s) = g[s]
    OBVIOUS
  <2>1. \E g : IsTally(g, f, s)
    BY <1>2
  <2>2. PICK g : g = CHOOSE h : IsTally(h, f, s)
    OBVIOUS
  <2>3. IsTally(g, f, s)
    BY <2>1, <2>2, Zenon
  <2> QED
    BY <2>2, <2>3, Zenon
<1>4. \A s \in SUBSET m : IsFiniteSet(s)
  BY <1>1, FS_Subset
<1>5. \A s \in SUBSET m : s # m =>
          Value(s) = IF s = {} THEN 0 ELSE f[Chosen(s)] + Value(s \ {Chosen(s)})
  <2> SUFFICES ASSUME NEW s \in SUBSET m, s # m
               PROVE  Value(s) = IF s = {} THEN 0 ELSE f[Chosen(s)] + Value(s \ {Chosen(s)})
    OBVIOUS
  <2> HIDE DEF Value, W
  <2>1. PICK g : IsTally(g, f, s) /\ Value(s) = g[s]
    BY <1>3
  <2>2. Value(s) = IF s = {} THEN 0 ELSE f[Chosen(s)] + g[s \ {Chosen(s)}]
    BY <2>1, TallyStep
  <2>3. ASSUME s # {} PROVE g[s \ {Chosen(s)}] = Value(s \ {Chosen(s)})
    <3>1. PICK r : r = s \ {Chosen(s)}
      OBVIOUS
    <3>2. r \in SUBSET m /\ r # m /\ r \subseteq s
      BY <3>1, <2>3, ChosenIn
    <3>3. PICK h : IsTally(h, f, r) /\ Value(r) = h[r]
      BY <1>3, <3>2
    <3>4. g[r] = h[r]
      BY <2>1, <3>2, <3>3, <1>4, TallyUnique
    <3> QED
      BY <3>1, <3>3, <3>4
  <2> QED
    BY <2>2, <2>3
<1>6. PICK top : top = IF m = {} THEN 0 ELSE f[Chosen(m)] + Value(m \ {Chosen(m)})
  <2> HIDE DEF Value
  <2> QED
    OBVIOUS
<1>7. PICK G : G = [s \in SUBSET m |-> IF s = m THEN top ELSE Value(s)]
  OBVIOUS
<1>8. ASSUME NEW s \in SUBSET m
      PROVE  G[s] = IF s = {} THEN 0 ELSE f[Chosen(s)] + G[s \ {Chosen(s)}]
  <2> HIDE DEF Value
  <2>1. s # {} => G[s \ {Chosen(s)}] = Value(s \ {Chosen(s)})
    BY <1>7, ChosenIn
  <2> QED
    BY <1>5, <1>6, <1>7, <2>1
<1>9. IsTally(G, f, m)
  BY <1>7, <1>8 DEF IsTally
<1> QED
  BY <1>9

(* The entries of a table are the sums.                                      *)
LEMMA SumFacts ==
    ASSUME NEW f, NEW T, IsFiniteSet(T)
    PROVE  \E g : IsTally(g, f, T) /\ \A s \in SUBSET T : g[s] = SumOver(f, s)
<1>1. PICK g : IsTally(g, f, T)
  BY TallyExists
<1>2. ASSUME NEW s \in SUBSET T PROVE g[s] = SumOver(f, s)
  <2>1. IsFiniteSet(s)
    BY FS_Subset
  <2>2. \E h : IsTally(h, f, s)
    BY <2>1, TallyExists
  <2>3. PICK h : h = CHOOSE k : IsTally(k, f, s)
    OBVIOUS
  <2>4. IsTally(h, f, s)
    BY <2>2, <2>3, Zenon
  <2>5. SumOver(f, s) = h[s]
    BY <2>3, SumIsTally, Zenon
  <2> QED
    BY <1>1, <2>1, <2>4, <2>5, TallyUnique
<1> QED
  BY <1>1, <1>2

(* So a sum is its chosen element and the sum of the rest.                   *)
LEMMA SumStep ==
    ASSUME NEW f, NEW T, IsFiniteSet(T)
    PROVE  SumOver(f, T) = IF T = {} THEN 0 ELSE f[Chosen(T)] + SumOver(f, T \ {Chosen(T)})
<1>1. PICK g : IsTally(g, f, T) /\ \A s \in SUBSET T : g[s] = SumOver(f, s)
  BY SumFacts
<1>2. g[T] = IF T = {} THEN 0 ELSE f[Chosen(T)] + g[T \ {Chosen(T)}]
  BY <1>1, TallyStep
<1>3. T \in SUBSET T /\ T \ {Chosen(T)} \in SUBSET T
  OBVIOUS
<1> QED
  BY <1>1, <1>2, <1>3

(* Nothing adds up to 0.                                                     *)
LEMMA SumEmpty == \A f : SumOver(f, {}) = 0
  BY SumStep, FS_EmptySet

(* Whole numbers add up to a whole number.                                   *)
LEMMA SumType ==
    ASSUME NEW f, NEW T, IsFiniteSet(T), \A t \in T : f[t] \in Int
    PROVE  SumOver(f, T) \in Int
<1> DEFINE W == {u \in SUBSET T : SumOver(f, u) \notin Int}
<1> SUFFICES ASSUME W # {} PROVE FALSE
  OBVIOUS
<1>1. \A u \in W : IsFiniteSet(u)
  BY FS_Subset
<1>2. PICK m \in W : \A u \in W : u \subseteq m => u = m
  <2>1. W \subseteq SUBSET T
    OBVIOUS
  <2> HIDE DEF W
  <2>3. HasSmallest(W)
    BY <1>1, <2>1, SmallestSet
  <2> QED
    BY <2>3 DEF HasSmallest
<1>3. SumOver(f, m) = IF m = {} THEN 0 ELSE f[Chosen(m)] + SumOver(f, m \ {Chosen(m)})
  BY <1>1, SumStep
<1>4. PICK r : r = m \ {Chosen(m)}
  OBVIOUS
<1>5. m # {} => r \in SUBSET T /\ r # m /\ r \subseteq m /\ Chosen(m) \in T
  BY <1>4, ChosenIn
<1>6. m # {} => SumOver(f, r) \in Int
  BY <1>2, <1>5
<1> QED
  BY <1>3, <1>4, <1>5, <1>6

(* Any element may be taken first.                                           *)
LEMMA SumRemove ==
    ASSUME NEW f, NEW T, IsFiniteSet(T), \A t \in T : f[t] \in Int, NEW x \in T
    PROVE  SumOver(f, T) = f[x] + SumOver(f, T \ {x})
<1> DEFINE W == {u \in SUBSET T : \E y \in u : SumOver(f, u) # f[y] + SumOver(f, u \ {y})}
<1> SUFFICES ASSUME W # {} PROVE FALSE
  OBVIOUS
<1>1. \A u \in SUBSET T : IsFiniteSet(u) /\ SumOver(f, u) \in Int
  BY FS_Subset, SumType
<1>2. PICK m \in W : \A u \in W : u \subseteq m => u = m
  <2>1. W \subseteq SUBSET T
    OBVIOUS
  <2> HIDE DEF W
  <2>2. \A u \in W : IsFiniteSet(u)
    BY <1>1, <2>1
  <2>3. HasSmallest(W)
    BY <2>1, <2>2, SmallestSet
  <2> QED
    BY <2>3 DEF HasSmallest
<1>3. PICK y \in m : SumOver(f, m) # f[y] + SumOver(f, m \ {y})
  BY <1>2
<1>4. PICK c : c = Chosen(m)
  OBVIOUS
<1>5. c \in m /\ m # {}
  BY <1>3, <1>4, ChosenIn
<1>6. SumOver(f, m) = f[c] + SumOver(f, m \ {c})
  BY <1>1, <1>4, <1>5, SumStep
<1>7. c # y
  BY <1>3, <1>6
<1>8. m \ {c} \in SUBSET T /\ m \ {c} # m /\ m \ {y} \in SUBSET T /\ m \ {y} # m
  BY <1>5
<1>9. m \ {c} \notin W /\ m \ {y} \notin W
  BY <1>2, <1>8
<1>10. SumOver(f, m \ {c}) = f[y] + SumOver(f, (m \ {c}) \ {y})
  BY <1>7, <1>8, <1>9
<1>11. SumOver(f, m \ {y}) = f[c] + SumOver(f, (m \ {y}) \ {c})
  BY <1>5, <1>7, <1>8, <1>9
<1>12. PICK r : r = (m \ {c}) \ {y}
  OBVIOUS
<1>13. (m \ {y}) \ {c} = r /\ r \in SUBSET T
  BY <1>12
<1>14. f[c] \in Int /\ f[y] \in Int /\ SumOver(f, r) \in Int
  BY <1>1, <1>5, <1>13
<1>15. SumOver(f, m \ {c}) = f[y] + SumOver(f, r) /\ SumOver(f, m \ {y}) = f[c] + SumOver(f, r)
  BY <1>10, <1>11, <1>12, <1>13
<1> QED
  BY <1>3, <1>6, <1>14, <1>15

(* A new element adds its value.                                             *)
LEMMA SumAdd ==
    ASSUME NEW f, NEW T, IsFiniteSet(T), NEW x, x \notin T, f[x] \in Int, \A t \in T : f[t] \in Int
    PROVE  SumOver(f, T \cup {x}) = SumOver(f, T) + f[x]
<1>1. PICK U : U = T \cup {x}
  OBVIOUS
<1>2. IsFiniteSet(U) /\ x \in U /\ (\A t \in U : f[t] \in Int) /\ U \ {x} = T
  BY <1>1, FS_AddElement
<1>3. SumOver(f, U) = f[x] + SumOver(f, T)
  BY <1>2, SumRemove
<1>4. SumOver(f, T) \in Int
  BY SumType
<1> QED
  BY <1>1, <1>3, <1>4

(* Functions that agree on the set have the same sum over it.                *)
LEMMA SumSame ==
    ASSUME NEW f, NEW g, NEW T, IsFiniteSet(T), \A t \in T : f[t] = g[t]
    PROVE  SumOver(f, T) = SumOver(g, T)
<1> DEFINE W == {u \in SUBSET T : SumOver(f, u) # SumOver(g, u)}
<1> SUFFICES ASSUME W # {} PROVE FALSE
  OBVIOUS
<1>1. \A u \in W : IsFiniteSet(u)
  BY FS_Subset
<1>2. PICK m \in W : \A u \in W : u \subseteq m => u = m
  <2>1. W \subseteq SUBSET T
    OBVIOUS
  <2> HIDE DEF W
  <2>3. HasSmallest(W)
    BY <1>1, <2>1, SmallestSet
  <2> QED
    BY <2>3 DEF HasSmallest
<1>3. SumOver(f, m) = IF m = {} THEN 0 ELSE f[Chosen(m)] + SumOver(f, m \ {Chosen(m)})
  BY <1>1, SumStep
<1>4. SumOver(g, m) = IF m = {} THEN 0 ELSE g[Chosen(m)] + SumOver(g, m \ {Chosen(m)})
  BY <1>1, SumStep
<1>5. PICK r : r = m \ {Chosen(m)}
  OBVIOUS
<1>6. m # {} => r \in SUBSET T /\ r # m /\ r \subseteq m /\ f[Chosen(m)] = g[Chosen(m)]
  BY <1>5, ChosenIn
<1>7. m # {} => SumOver(f, r) = SumOver(g, r)
  BY <1>2, <1>6
<1> QED
  BY <1>3, <1>4, <1>5, <1>6, <1>7

(* Where they differ at one element, the sums differ by as much.             *)
LEMMA SumChange ==
    ASSUME NEW f, NEW g, NEW T, IsFiniteSet(T), NEW x \in T,
           \A t \in T : f[t] \in Int, g[x] \in Int, \A t \in T \ {x} : f[t] = g[t]
    PROVE  SumOver(g, T) = SumOver(f, T) + g[x] - f[x]
<1>1. PICK U : U = T \ {x}
  OBVIOUS
<1>2. IsFiniteSet(U) /\ (\A t \in U : f[t] = g[t]) /\ (\A t \in U : f[t] \in Int) /\ (\A t \in T : g[t] \in Int)
  BY <1>1, FS_RemoveElement
<1>3. SumOver(f, T) = f[x] + SumOver(f, U)
  BY <1>1, SumRemove
<1>4. SumOver(g, T) = g[x] + SumOver(g, U)
  BY <1>1, <1>2, SumRemove
<1>5. SumOver(f, U) = SumOver(g, U)
  BY <1>2, SumSame
<1>6. SumOver(f, U) \in Int /\ f[x] \in Int
  BY <1>2, SumType
<1> QED
  BY <1>3, <1>4, <1>5, <1>6

(* The sum over a set is that over a part and that over the rest.            *)
LEMMA SumSplit ==
    ASSUME NEW f, NEW T, IsFiniteSet(T), \A t \in T : f[t] \in Int, NEW P, P \subseteq T
    PROVE  SumOver(f, T) = SumOver(f, P) + SumOver(f, T \ P)
<1> DEFINE W == {u \in SUBSET P : SumOver(f, T) # SumOver(f, u) + SumOver(f, T \ u)}
<1> SUFFICES ASSUME W # {} PROVE FALSE
  OBVIOUS
<1>1. \A u \in SUBSET T : /\ IsFiniteSet(u) /\ IsFiniteSet(T \ u)
                          /\ SumOver(f, u) \in Int /\ SumOver(f, T \ u) \in Int
  BY FS_Subset, SumType
<1>2. PICK m \in W : \A u \in W : u \subseteq m => u = m
  <2>1. W \subseteq SUBSET P /\ \A u \in W : IsFiniteSet(u)
    BY <1>1
  <2> HIDE DEF W
  <2>2. HasSmallest(W)
    BY <2>1, SmallestSet
  <2> QED
    BY <2>2 DEF HasSmallest
<1>3. m # {}
  <2>1. SumOver(f, T) # SumOver(f, m) + SumOver(f, T \ m) /\ T \ {} = T
    OBVIOUS
  <2>2. SumOver(f, T) \in Int
    BY SumType
  <2> QED
    BY <2>1, <2>2, SumEmpty
<1>4. PICK x \in m : TRUE
  BY <1>3
<1>5. PICK u : u = m \ {x}
  OBVIOUS
<1>6. u \subseteq m /\ u # m /\ u \subseteq P /\ m \subseteq T /\ x \in T \ u
  BY <1>4, <1>5
<1>7. SumOver(f, T) = SumOver(f, u) + SumOver(f, T \ u)
  BY <1>2, <1>6
<1>8. SumOver(f, m) = f[x] + SumOver(f, u)
  BY <1>1, <1>4, <1>5, <1>6, SumRemove
<1>9. PICK v : v = T \ u
  OBVIOUS
<1>10. v \ {x} = T \ m
  BY <1>4, <1>5, <1>6, <1>9
<1>11. SumOver(f, v) = f[x] + SumOver(f, v \ {x})
  <2>1. IsFiniteSet(v) /\ x \in v /\ \A t \in v : f[t] \in Int
    BY <1>1, <1>6, <1>9
  <2> QED
    BY <2>1, SumRemove
<1>12. /\ SumOver(f, u) \in Int /\ SumOver(f, v) \in Int /\ SumOver(f, m) \in Int
       /\ SumOver(f, T \ m) \in Int /\ f[x] \in Int
  BY <1>1, <1>6, <1>9
<1>13. SumOver(f, T) # SumOver(f, m) + SumOver(f, T \ m)
  BY <1>2
<1>14. SumOver(f, v) = f[x] + SumOver(f, T \ m) /\ SumOver(f, T) = SumOver(f, u) + SumOver(f, v)
  BY <1>7, <1>9, <1>10, <1>11
<1> QED
  BY <1>8, <1>12, <1>13, <1>14
=============================================================================
