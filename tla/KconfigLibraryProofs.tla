------------------------- MODULE KconfigLibraryProofs -------------------------
(* What holds of parts of the Kconfig library and of menuconfig for every    *)
(* configuration system, file and screen.                                   *)
(*                                                                         *)
(*   - The invalidation may stop at items without a cached visibility: "It's *)
(*     therefore safe to stop the invalidation at symbols with _cached_vis   *)
(*     None" (Symbol._rec_invalidate).  E is the set of entries of the caches *)
(*     and V that of their values; calc gives for an entry the function that *)
(*     calculates it from the values of all entries, of which it may use some. *)
(*   - User values are valid, a load that replaces forgets what was set, and *)
(*     one that merges changes only what the file names.                    *)
(*   - The selected line of a list is on the screen.                        *)
(*   - sync_deps() keeps the promise of IncrementalBuild.                    *)
EXTENDS Invalidation, Scrolling, UserSettings, SyncDeps, FiniteSetTheorems, WellFoundedInduction, TLAPS

\* What holds of 0, and of n + 1 whenever it does of n, holds of all numbers.
LEMMA Inductive ==
    ASSUME NEW S, 0 \in S, \A n \in Nat : n \in S => n + 1 \in S
    PROVE  Nat \subseteq S
<1> DEFINE T == Nat \ S
<1> SUFFICES ASSUME T # {} PROVE FALSE OBVIOUS
<1>1. \E x \in T : \A y \in T : ~(<<y, x>> \in OpToRel(<, Nat))
  <2>1. T \subseteq Nat /\ T # {} OBVIOUS
  <2> HIDE DEF T
  <2>2. QED BY <2>1, WFMin, NatLessThanWellFounded, Zenon
<1>2. PICK x \in T : \A y \in T : ~(y < x) BY <1>1 DEF OpToRel
<1>3. x \in Nat \ {0} OBVIOUS
<1>4. x - 1 \in Nat /\ x - 1 < x BY <1>3
<1>5. x - 1 \in S BY <1>2, <1>4
<1>6. x \in S BY <1>3, <1>4, <1>5
<1>7. QED BY <1>6

----------------------------------------------------------------------------
\* Values of all entries that are the cached ones where there are some.
Agrees(E, V, c) == {g \in [E -> V] : \A x \in E : c[x] # Uncached => g[x] = c[x]}

\* What is cached follows from what else is cached, whatever the rest would be.
\* This is what a calculation ensures that reads entries one by one, leaves some
\* of them out by a short circuit, and caches each that it has read.
Determined(E, V, calc, c) ==
    \A e \in E : c[e] # Uncached => \A g \in Agrees(E, V, c) : calc[e][g] = c[e]

\* An item with anything cached has a cached visibility.
VisibilityFirst(E, c) == \A e \in E : c[e] # Uncached => c[<<e[1], "vis">>] # Uncached

\* An entry is calculated from those of its own item, of MODULES, and of the
\* items that know its item as a dependent.
DependentsKnown(E, V, calc, dependents, modules) ==
    \A e \in E : \A g, h \in [E -> V] :
        (\A x \in E : x[1] \in {e[1], modules} \/ e[1] \in dependents[x[1]] => g[x] = h[x])
            => calc[e][g] = calc[e][h]

\* No entry needs itself: among any there is one that needs none of them.
WithoutLoops(E, V, calc) ==
    \A S \in SUBSET E : S # {} =>
        \E e \in S : \A g, h \in [E -> V] : (\A x \in E \ S : g[x] = h[x]) => calc[e][g] = calc[e][h]

----------------------------------------------------------------------------
\* A value that follows from the cached ones may be cached (the properties of
\* Symbol and Choice).
THEOREM ReadingKeeps ==
    ASSUME NEW E, NEW V, NEW calc, NEW c \in [E -> V \cup {Uncached}],
           Determined(E, V, calc, c),
           NEW r \in E, c[r] = Uncached, NEW v \in V,
           \A g \in Agrees(E, V, c) : calc[r][g] = v
    PROVE  Determined(E, V, calc, [c EXCEPT ![r] = v])
<1> DEFINE d == [c EXCEPT ![r] = v]
<1>1. Agrees(E, V, d) \subseteq Agrees(E, V, c) BY DEF Agrees
<1>2. ASSUME NEW e \in E, d[e] # Uncached, NEW g \in Agrees(E, V, d) PROVE calc[e][g] = d[e]
  <2>1. g \in Agrees(E, V, c) BY <1>1, <1>2
  <2>2. CASE e = r BY <2>1, <2>2
  <2>3. CASE e # r BY <1>2, <2>1, <2>3 DEF Determined
  <2>4. QED BY <2>2, <2>3
<1>3. QED BY <1>2 DEF Determined

\* After a change, calc becomes new, which differs only for items that are
\* invalidated or have nothing cached.  When there is nowhere left to follow to,
\* what is still cached follows from what is (Symbol._rec_invalidate).
THEOREM InvalidationKeeps ==
    ASSUME NEW E, NEW V, NEW calc, NEW new, NEW dependents, NEW modules,
           NEW c \in [E -> V \cup {Uncached}],
           Determined(E, V, calc, c), VisibilityFirst(E, c),
           DependentsKnown(E, V, new, dependents, modules),
           NEW gone, Follow(dependents, modules, c, gone) = gone,
           \A e \in E : new[e] = calc[e] \/ e[1] \in gone \/ c[<<e[1], "vis">>] = Uncached
    PROVE  Determined(E, V, new, Wiped(modules, c, gone))
<1> DEFINE w == Wiped(modules, c, gone)
<1>1. ASSUME NEW e \in E, w[e] # Uncached, NEW g \in Agrees(E, V, w) PROVE new[e][g] = w[e]
  <2> DEFINE h == [x \in E |-> IF c[x] # Uncached THEN c[x] ELSE g[x]]
  <2>1. modules \notin gone /\ e[1] \notin gone /\ w[e] = c[e] BY <1>1 DEF Wiped
  <2>2. c[<<e[1], "vis">>] # Uncached BY <1>1, <2>1 DEF VisibilityFirst
  <2>3. new[e] = calc[e] BY <2>1, <2>2
  <2>4. g \in [E -> V] BY <1>1 DEF Agrees
  <2>5. h \in Agrees(E, V, c)
    <3>1. \A x \in E : c[x] # Uncached => c[x] \in V OBVIOUS
    <3>2. h \in [E -> V] BY <2>4, <3>1
    <3>3. QED BY <3>2 DEF Agrees
  <2>6. ASSUME NEW x \in E, x[1] \in {e[1], modules} \/ e[1] \in dependents[x[1]] PROVE g[x] = h[x]
    <3>1. x[1] \notin gone
      <4>1. CASE x[1] \in {e[1], modules} BY <2>1, <4>1
      <4>2. CASE e[1] \in dependents[x[1]]
        <5> SUFFICES ASSUME x[1] \in gone PROVE FALSE OBVIOUS
        <5>1. x[1] \in gone \ {modules} BY <2>1
        <5>2. e[1] \in Follow(dependents, modules, c, gone) BY <2>2, <4>2, <5>1 DEF Follow
        <5>3. QED BY <2>1, <5>2
      <4>3. QED BY <2>6, <4>1, <4>2
    <3>2. w[x] = c[x] BY <2>1, <3>1 DEF Wiped
    <3>3. c[x] # Uncached => g[x] = c[x] BY <1>1, <3>2 DEF Agrees
    <3>4. QED BY <3>3
  <2>7. new[e][g] = new[e][h]
    <3>1. h \in [E -> V] BY <2>5 DEF Agrees
    <3>2. QED BY <2>4, <2>6, <3>1 DEF DependentsKnown
  <2>8. calc[e][h] = c[e] BY <1>1, <2>1, <2>5 DEF Determined
  <2>9. QED BY <2>1, <2>3, <2>7, <2>8
<1>2. QED BY <1>1 DEF Determined

\* Items lose all that is cached of them or nothing (Symbol._invalidate).
THEOREM VisibilityStaysFirst ==
    ASSUME NEW E, NEW c, DOMAIN c = E, NEW modules, NEW gone,
           \A e \in E : <<e[1], "vis">> \in E, VisibilityFirst(E, c)
    PROVE  VisibilityFirst(E, Wiped(modules, c, gone))
<1> SUFFICES ASSUME NEW e \in E, Wiped(modules, c, gone)[e] # Uncached
             PROVE  Wiped(modules, c, gone)[<<e[1], "vis">>] # Uncached
    BY DEF VisibilityFirst
<1>1. modules \notin gone /\ e[1] \notin gone /\ c[e] # Uncached BY DEF Wiped
<1>2. c[<<e[1], "vis">>] # Uncached BY <1>1 DEF VisibilityFirst
<1>3. QED BY <1>1, <1>2 DEF Wiped

\* In a system without dependency loops, what is cached is what is calculated
\* when nothing is (the values that Symbol and Choice give).
THEOREM CachedIsCalculated ==
    ASSUME NEW E, NEW V, NEW calc, NEW c \in [E -> V \cup {Uncached}],
           Determined(E, V, calc, c), WithoutLoops(E, V, calc),
           NEW full \in [E -> V], \A e \in E : full[e] = calc[e][full]
    PROVE  \A e \in E : c[e] # Uncached => c[e] = full[e]
<1> DEFINE S == {e \in E : c[e] # Uncached /\ c[e] # full[e]}
           h == [x \in E |-> IF c[x] # Uncached THEN c[x] ELSE full[x]]
<1> SUFFICES ASSUME S # {} PROVE FALSE OBVIOUS
<1>1. PICK e \in S : \A g, k \in [E -> V] : (\A x \in E \ S : g[x] = k[x]) => calc[e][g] = calc[e][k]
  <2>1. S \in SUBSET E OBVIOUS
  <2> HIDE DEF S
  <2>2. QED BY <2>1 DEF WithoutLoops
<1>2. h \in Agrees(E, V, c)
  <2>1. \A x \in E : c[x] # Uncached => c[x] \in V OBVIOUS
  <2>2. h \in [E -> V] BY <2>1
  <2>3. QED BY <2>2 DEF Agrees
<1>3. \A x \in E \ S : h[x] = full[x] OBVIOUS
<1>4. h \in [E -> V] BY <1>2 DEF Agrees
<1>5. calc[e][h] = calc[e][full] BY <1>1, <1>3, <1>4
<1>6. calc[e][h] = c[e] BY <1>2 DEF Determined
<1>7. QED BY <1>5, <1>6

----------------------------------------------------------------------------
\* The steps by which Reached goes on.
LEMMA ReachedBySteps ==
    ASSUME NEW items, IsFiniteSet(items), NEW dependents, NEW modules, NEW c, NEW is
    PROVE  \E f : /\ f = [n \in 0..Cardinality(items) |->
                            IF n = 0 THEN is ELSE Follow(dependents, modules, c, f[n - 1])]
                  /\ Reached(items, dependents, modules, c, is) = f[Cardinality(items)]
<1> DEFINE upTo(n, f) == f = [k \in 0..n |-> IF k = 0 THEN is ELSE Follow(dependents, modules, c, f[k - 1])]
           S == {n \in Nat : \E f : upTo(n, f)}
<1>1. 0 \in S
  <2>1. upTo(0, [k \in 0..0 |-> is]) OBVIOUS
  <2>2. QED BY <2>1
<1>2. ASSUME NEW n \in Nat, n \in S PROVE n + 1 \in S
  <2>1. PICK f : upTo(n, f) BY <1>2
  <2> DEFINE g == [k \in 0..n + 1 |-> IF k = n + 1 THEN Follow(dependents, modules, c, f[n]) ELSE f[k]]
             h == [k \in 0..n + 1 |-> IF k = 0 THEN is ELSE Follow(dependents, modules, c, g[k - 1])]
  <2>2. ASSUME NEW k \in 0..n + 1 PROVE g[k] = h[k]
    <3>1. CASE k = n + 1
      <4>1. g[n] = f[n] OBVIOUS
      <4>2. k # 0 /\ k - 1 = n BY <3>1
      <4>3. g[k] = Follow(dependents, modules, c, f[n]) BY <3>1
      <4>4. h[k] = Follow(dependents, modules, c, g[k - 1]) BY <4>2
      <4>5. QED BY <4>1, <4>2, <4>3, <4>4
    <3>2. CASE k # n + 1
      <4>1. k \in 0..n BY <3>2
      <4>2. g[k] = f[k] BY <3>2
      <4>3. CASE k = 0 BY <2>1, <4>1, <4>2, <4>3
      <4>4. CASE k # 0
        <5>1. k - 1 \in 0..n /\ k - 1 # n + 1 /\ k - 1 \in 0..n + 1 BY <4>1, <4>4
        <5>2. g[k - 1] = f[k - 1] BY <5>1
        <5>3. f[k] = Follow(dependents, modules, c, f[k - 1]) BY <2>1, <4>1, <4>4
        <5>4. h[k] = Follow(dependents, modules, c, g[k - 1]) BY <4>4
        <5>5. QED BY <4>2, <5>2, <5>3, <5>4
      <4>5. QED BY <4>3, <4>4
    <3>3. QED BY <3>1, <3>2
  <2>3. g = h BY <2>2
  <2>4. upTo(n + 1, g) BY <2>3
  <2> HIDE DEF g, upTo
  <2>5. QED BY <2>4
<1>3. Cardinality(items) \in S
  <2> HIDE DEF S
  <2>1. QED BY <1>1, <1>2, Inductive, FS_CardinalityType
<1> DEFINE f == CHOOSE f : upTo(Cardinality(items), f)
<1>4. upTo(Cardinality(items), f) BY <1>3
<1>5. Reached(items, dependents, modules, c, is) = f[Cardinality(items)] BY DEF Reached
<1>6. QED BY <1>4, <1>5

\* Reached contains what it starts from, and leads nowhere else: as long as
\* steps add anything, there is one item more after each
\* (Symbol._rec_invalidate, which goes on until there is nothing left).
THEOREM ReachedIsClosed ==
    ASSUME NEW items, IsFiniteSet(items),
           NEW dependents, \A i \in items : dependents[i] \subseteq items,
           NEW modules, NEW c, NEW is \in SUBSET items
    PROVE  LET reached == Reached(items, dependents, modules, c, is)
           IN /\ is \subseteq reached /\ reached \subseteq items
              /\ Follow(dependents, modules, c, reached) = reached
<1> DEFINE N == Cardinality(items)
           next(s) == Follow(dependents, modules, c, s)
<1>1. N \in Nat BY FS_CardinalityType
<1>2. PICK f : /\ f = [n \in 0..N |-> IF n = 0 THEN is ELSE next(f[n - 1])]
               /\ Reached(items, dependents, modules, c, is) = f[N]
  BY ReachedBySteps
<1> HIDE DEF N
<1>3. f[0] = is BY <1>1, <1>2
<1>4. ASSUME NEW n \in Nat, n + 1 <= N PROVE f[n + 1] = next(f[n])
  <2>1. n + 1 \in 0..N /\ n + 1 # 0 /\ (n + 1) - 1 = n BY <1>1, <1>4
  <2> HIDE DEF next
  <2>2. QED BY <1>2, <2>1
<1>5. ASSUME NEW s \in SUBSET items PROVE s \subseteq next(s) /\ next(s) \subseteq items
  BY DEF Follow
<1> HIDE DEF next
<1>6. \A n \in 0..N : is \subseteq f[n] /\ f[n] \subseteq items
  <2> DEFINE S == {n \in Nat : n <= N => is \subseteq f[n] /\ f[n] \subseteq items}
  <2>1. 0 \in S BY <1>3
  <2>2. ASSUME NEW n \in Nat, n \in S PROVE n + 1 \in S
    <3> SUFFICES ASSUME n + 1 <= N PROVE is \subseteq f[n + 1] /\ f[n + 1] \subseteq items OBVIOUS
    <3>1. is \subseteq f[n] /\ f[n] \subseteq items BY <1>1, <2>2
    <3>2. QED BY <1>4, <1>5, <3>1
  <2>3. Nat \subseteq S
    <3> HIDE DEF S
    <3>1. QED BY <2>1, <2>2, Inductive
  <2>4. QED BY <1>1, <2>3
\* If there is a step that still adds something after the last one, every
\* earlier one does.
<1>7. ASSUME next(f[N]) # f[N] PROVE FALSE
  <2>1. ASSUME NEW n \in 0..N, next(f[n]) = f[n] PROVE FALSE
    <3> DEFINE S == {k \in Nat : n + k <= N => f[n + k] = f[n]}
    <3>1. 0 \in S OBVIOUS
    <3>2. ASSUME NEW k \in Nat, k \in S PROVE k + 1 \in S
      <4> SUFFICES ASSUME n + (k + 1) <= N PROVE f[n + (k + 1)] = f[n] OBVIOUS
      <4>1. n + k \in Nat /\ (n + k) + 1 = n + (k + 1) /\ n + k <= N BY <1>1
      <4>2. f[n + k] = f[n] BY <3>2, <4>1
      <4>3. f[(n + k) + 1] = next(f[n + k]) BY <1>4, <4>1
      <4>4. QED BY <2>1, <4>1, <4>2, <4>3
    <3>3. N - n \in S
      <4> HIDE DEF S
      <4>1. N - n \in Nat BY <1>1
      <4>2. QED BY <3>1, <3>2, <4>1, Inductive
    <3>4. n + (N - n) = N BY <1>1
    <3>5. f[N] = f[n] BY <1>1, <3>3, <3>4
    <3>6. QED BY <1>7, <2>1, <3>5
  <2> DEFINE S == {n \in Nat : n <= N => Cardinality(f[n]) >= n}
  <2>2. \A n \in 0..N : IsFiniteSet(f[n]) /\ Cardinality(f[n]) \in Nat
    BY <1>6, FS_Subset, FS_CardinalityType
  <2>3. 0 \in S BY <1>1, <2>2
  <2>4. ASSUME NEW n \in 0..N
        PROVE  /\ IsFiniteSet(next(f[n])) /\ Cardinality(next(f[n])) \in Nat
               /\ Cardinality(next(f[n])) > Cardinality(f[n])
    <3>1. f[n] \subseteq next(f[n]) /\ next(f[n]) \subseteq items BY <1>5, <1>6
    <3>2. next(f[n]) # f[n] BY <2>1
    <3>3. IsFiniteSet(next(f[n])) BY <3>1, FS_Subset
    <3>4. Cardinality(next(f[n])) \in Nat BY <3>3, FS_CardinalityType
    <3>5. Cardinality(f[n]) <= Cardinality(next(f[n])) BY <3>1, <3>3, FS_Subset
    <3>6. Cardinality(f[n]) # Cardinality(next(f[n])) BY <3>1, <3>2, <3>3, FS_Subset
    <3>7. QED BY <2>2, <3>3, <3>4, <3>5, <3>6
  <2>5. ASSUME NEW n \in Nat, n \in S PROVE n + 1 \in S
    <3> SUFFICES ASSUME n + 1 <= N PROVE Cardinality(f[n + 1]) >= n + 1 OBVIOUS
    <3>1. n \in 0..N BY <1>1
    <3>2. Cardinality(f[n]) >= n BY <2>5, <3>1
    <3>3. f[n + 1] = next(f[n]) BY <1>4
    <3>4. Cardinality(f[n]) \in Nat /\ Cardinality(f[n + 1]) \in Nat /\ Cardinality(f[n + 1]) > Cardinality(f[n])
      BY <2>2, <2>4, <3>1, <3>3
    <3>5. QED BY <3>2, <3>4
  <2>6. N \in S
    <3> HIDE DEF S
    <3>1. QED BY <1>1, <2>3, <2>5, Inductive
  <2>7. Cardinality(f[N]) >= N BY <1>1, <2>6
  <2>8. N \in 0..N BY <1>1
  <2>9. Cardinality(next(f[N])) > N BY <1>1, <2>2, <2>4, <2>7, <2>8
  <2>10. Cardinality(next(f[N])) <= N BY <1>5, <1>6, <2>8, FS_Subset DEF N
  <2>11. Cardinality(next(f[N])) \in Nat BY <2>4, <2>8
  <2>12. QED BY <1>1, <2>9, <2>10, <2>11
<1>8. N \in 0..N BY <1>1
<1>9. is \subseteq f[N] /\ f[N] \subseteq items BY <1>6, <1>8
<1>10. next(f[N]) = f[N] BY <1>7
<1>11. QED BY <1>2, <1>9, <1>10 DEF next

\* What a change of the items in is leaves in the caches follows from what else
\* it leaves, and its visibility is cached with it, if the change concerns only
\* them and items with nothing cached (Symbol._rec_invalidate).
THEOREM ChangesKeep ==
    ASSUME NEW items, IsFiniteSet(items),
           NEW dependents, \A i \in items : dependents[i] \subseteq items,
           NEW E, \A e \in E : <<e[1], "vis">> \in E,
           NEW V, NEW calc, NEW new, NEW modules, NEW c \in [E -> V \cup {Uncached}],
           Determined(E, V, calc, c), VisibilityFirst(E, c),
           DependentsKnown(E, V, new, dependents, modules),
           NEW is \in SUBSET items,
           \A e \in E : new[e] = calc[e] \/ e[1] \in is \/ c[<<e[1], "vis">>] = Uncached
    PROVE  LET left == Wiped(modules, c, Reached(items, dependents, modules, c, is))
           IN Determined(E, V, new, left) /\ VisibilityFirst(E, left)
<1> DEFINE gone == Reached(items, dependents, modules, c, is)
<1>1. is \subseteq gone /\ Follow(dependents, modules, c, gone) = gone BY ReachedIsClosed
<1> HIDE DEF gone
<1>2. \A e \in E : new[e] = calc[e] \/ e[1] \in gone \/ c[<<e[1], "vis">>] = Uncached BY <1>1
<1>3. Determined(E, V, new, Wiped(modules, c, gone)) BY <1>1, <1>2, InvalidationKeeps
<1>4. VisibilityFirst(E, Wiped(modules, c, gone)) BY VisibilityStaysFirst
<1>5. QED BY <1>3, <1>4 DEF gone

----------------------------------------------------------------------------
\* The lines of a file one by one (Kconfig._load_config).
LEMMA LinesAreLoaded ==
    ASSUME NEW lib, NEW L, NEW lines \in Seq(L)
    PROVE  \E f : /\ f = [k \in 0..Len(lines) |-> IF k = 0 THEN lib ELSE LoadLine(f[k - 1], lines[k])]
                  /\ LoadLines(lib, lines) = f[Len(lines)]
<1> DEFINE upTo(n, f) == f = [k \in 0..n |-> IF k = 0 THEN lib ELSE LoadLine(f[k - 1], lines[k])]
           S == {n \in Nat : \E f : upTo(n, f)}
<1>1. 0 \in S
  <2>1. upTo(0, [k \in 0..0 |-> lib]) OBVIOUS
  <2>2. QED BY <2>1
<1>2. ASSUME NEW n \in Nat, n \in S PROVE n + 1 \in S
  <2>1. PICK f : upTo(n, f) BY <1>2
  <2> DEFINE g == [k \in 0..n + 1 |-> IF k = n + 1 THEN LoadLine(f[n], lines[n + 1]) ELSE f[k]]
             h == [k \in 0..n + 1 |-> IF k = 0 THEN lib ELSE LoadLine(g[k - 1], lines[k])]
  <2>2. ASSUME NEW k \in 0..n + 1 PROVE g[k] = h[k]
    <3>1. CASE k = n + 1
      <4>1. g[n] = f[n] OBVIOUS
      <4>2. k # 0 /\ k - 1 = n BY <3>1
      <4>3. g[k] = LoadLine(f[n], lines[n + 1]) BY <3>1
      <4>4. h[k] = LoadLine(g[k - 1], lines[k]) BY <4>2
      <4>5. QED BY <3>1, <4>1, <4>2, <4>3, <4>4
    <3>2. CASE k # n + 1
      <4>1. k \in 0..n BY <3>2
      <4>2. g[k] = f[k] BY <3>2
      <4>3. CASE k = 0 BY <2>1, <4>1, <4>2, <4>3
      <4>4. CASE k # 0
        <5>1. k - 1 \in 0..n /\ k - 1 # n + 1 /\ k - 1 \in 0..n + 1 BY <4>1, <4>4
        <5>2. g[k - 1] = f[k - 1] BY <5>1
        <5>3. f[k] = LoadLine(f[k - 1], lines[k]) BY <2>1, <4>1, <4>4
        <5>4. h[k] = LoadLine(g[k - 1], lines[k]) BY <4>4
        <5>5. QED BY <4>2, <5>2, <5>3, <5>4
      <4>5. QED BY <4>3, <4>4
    <3>3. QED BY <3>1, <3>2
  <2>3. g = h BY <2>2
  <2>4. upTo(n + 1, g) BY <2>3
  <2> HIDE DEF g, upTo
  <2>5. QED BY <2>4
<1>3. Len(lines) \in S
  <2> HIDE DEF S
  <2>1. QED BY <1>1, <1>2, Inductive
<1> DEFINE f == CHOOSE f : upTo(Len(lines), f)
<1>4. upTo(Len(lines), f) BY <1>3
<1>5. LoadLines(lib, lines) = f[Len(lines)] BY DEF LoadLines
<1>6. QED BY <1>4, <1>5

----------------------------------------------------------------------------
\* A configuration as the library makes it: choices are bools or tristates.
System ==
    /\ Symbols \cap Choices = {}
    /\ None \notin Choices \cup 0..2
    /\ \A s \in Symbols : Tree[s].choice \in Choices \cup {None}
    /\ \A ch \in Choices : OrigType(ch) \in {"bool", "tristate"}

\* What has been set is valid.
Settings(st) ==
    /\ st = [f \in DOMAIN st |-> st[f]]
    /\ {"user", "selected", "cache", "was"} \subseteq DOMAIN st
    /\ \E V : st.user \in [Items -> V]
    /\ \E V : st.selected \in [Choices -> V]
    /\ st.was \subseteq Items
    /\ \A i \in Items : st.user[i] # None => Valid(i, st.user[i])

\* Nothing that has been set has been unset since.
NothingUnset(st) == \A s \in st.was \cap Symbols : st.user[s] # None

\* What has been set of a in a load has been set of b, to the same, but for
\* the selections of the choices in open.
Alike(a, b, open) ==
    /\ a.was = b.was
    /\ \A i \in a.was : a.user[i] = b.user[i]
    /\ \A ch \in (a.was \cap Choices) \ open : a.selected[ch] = b.selected[ch]

\* An invalid value is ignored (Symbol.set_value, Choice.set_value).
LEMMA InvalidIsIgnored ==
    ASSUME NEW st, Settings(st), NEW i \in Items, NEW v, v # None, ~Valid(i, v)
    PROVE  SetValue(st, i, v) = st /\ SetMode(st, i, v) = st
<1>1. v # st.user[i] BY DEF Settings
<1>2. QED BY <1>1 DEF SetValue, SetMode

\* What setting a symbol to a valid value does (Symbol.set_value).
LEMMA ValueIsSet ==
    ASSUME System, NEW st, Settings(st), NEW s \in Symbols, NEW v, v # None, Valid(s, v)
    PROVE  LET ch == Tree[s].choice
               set == SetValue(st, s, v)
           IN /\ set = [f \in DOMAIN set |-> set[f]]
              /\ DOMAIN set = DOMAIN st
              /\ set.user = [st.user EXCEPT ![s] = v]
              /\ set.selected = IF ch # None /\ v = 2 THEN [st.selected EXCEPT ![ch] = s] ELSE st.selected
              /\ set.was = st.was \cup {s} \cup IF ch # None /\ v = 2 THEN {ch} ELSE {}
<1> DEFINE ch == Tree[s].choice
           set == SetValue(st, s, v)
           remembered == [st EXCEPT !.was = @ \cup {s}]
           stored == [remembered EXCEPT !.user[s] = v]
<1>1. s \in Items BY DEF Items
<1>2. CASE v = st.user[s] /\ ch = None
  <2>1. set = remembered BY <1>2 DEF SetValue
  <2>3. [st.user EXCEPT ![s] = v] = st.user BY <1>2 DEF Settings
  <2>4. DOMAIN set = DOMAIN st /\ set = [f \in DOMAIN set |-> set[f]] BY <2>1
  <2>5. set.user = st.user /\ set.selected = st.selected /\ set.was = st.was \cup {s} BY <2>1 DEF Settings
  <2>6. QED BY <1>2, <2>3, <2>4, <2>5
<1>4. CASE ~(v = st.user[s] /\ ch = None) /\ ch # None /\ v = 2
  <2>1. set = [stored EXCEPT !.selected[ch] = s, !.was = @ \cup {ch}, !.cache = Invalidated(@, {ch})]
    BY <1>4 DEF SetValue
  <2>2. DOMAIN set = DOMAIN st /\ set = [f \in DOMAIN set |-> set[f]] BY <2>1
  <2>3. set.user = [st.user EXCEPT ![s] = v] BY <2>1 DEF Settings
  <2>4. set.selected = [st.selected EXCEPT ![ch] = s] BY <2>1 DEF Settings
  <2>5. set.was = st.was \cup {s} \cup {ch} BY <2>1 DEF Settings
  <2>6. QED BY <1>4, <2>2, <2>3, <2>4, <2>5
<1>5. CASE ~(v = st.user[s] /\ ch = None) /\ ~(ch # None /\ v = 2)
  <2>1. set = [stored EXCEPT !.cache = Invalidated(@, Affecting({s}))]
    BY <1>5 DEF SetValue
  <2>2. DOMAIN set = DOMAIN st /\ set = [f \in DOMAIN set |-> set[f]] BY <2>1
  <2>3. set.user = [st.user EXCEPT ![s] = v] BY <2>1 DEF Settings
  <2>4. set.selected = st.selected BY <2>1 DEF Settings
  <2>5. set.was = st.was \cup {s} BY <2>1 DEF Settings
  <2>6. QED BY <1>5, <2>2, <2>3, <2>4, <2>5
<1>6. QED BY <1>2, <1>4, <1>5

\* What setting a choice to a valid mode does (Choice.set_value).
LEMMA ModeIsSet ==
    ASSUME System, NEW st, Settings(st), NEW ch \in Choices, NEW v, v # None, Valid(ch, v)
    PROVE  LET set == SetMode(st, ch, v)
           IN /\ set = [f \in DOMAIN set |-> set[f]]
              /\ DOMAIN set = DOMAIN st
              /\ set.user = [st.user EXCEPT ![ch] = v]
              /\ set.selected = st.selected
              /\ set.was = st.was \cup {ch}
<1> DEFINE set == SetMode(st, ch, v)
<1>1. ch \in Items BY DEF Items
<1>2. CASE v = st.user[ch]
  <2>1. set = [st EXCEPT !.was = @ \cup {ch}] BY <1>2 DEF SetMode
  <2>3. [st.user EXCEPT ![ch] = v] = st.user BY <1>2 DEF Settings
  <2>4. DOMAIN set = DOMAIN st /\ set = [f \in DOMAIN set |-> set[f]] BY <2>1
  <2>5. set.user = st.user /\ set.selected = st.selected /\ set.was = st.was \cup {ch} BY <2>1 DEF Settings
  <2>6. QED BY <2>3, <2>4, <2>5
<1>4. CASE v # st.user[ch]
  <2>1. set = [st EXCEPT !.user[ch] = v, !.was = @ \cup {ch}, !.cache = Invalidated(@, {ch})]
    BY <1>4 DEF SetMode
  <2>2. DOMAIN set = DOMAIN st /\ set = [f \in DOMAIN set |-> set[f]] BY <2>1
  <2>3. set.user = [st.user EXCEPT ![ch] = v] BY <2>1 DEF Settings
  <2>4. set.selected = st.selected /\ set.was = st.was \cup {ch} BY <2>1 DEF Settings
  <2>5. QED BY <1>4, <2>2, <2>3, <2>4
<1>5. QED BY <1>2, <1>4

\* User values are always valid, whatever is set (Symbol.set_value,
\* Choice.set_value).
THEOREM SettingKeepsValid ==
    ASSUME System, NEW st, Settings(st), NEW v, v # None
    PROVE  /\ \A s \in Symbols : Settings(SetValue(st, s, v))
           /\ \A ch \in Choices : Settings(SetMode(st, ch, v))
<1>1. ASSUME NEW new, new = [f \in DOMAIN new |-> new[f]], DOMAIN new = DOMAIN st,
             NEW i \in Items, Valid(i, v), new.user = [st.user EXCEPT ![i] = v],
             new.was \subseteq Items, \E V : new.selected \in [Choices -> V]
      PROVE  Settings(new)
  <2>1. PICK V : st.user \in [Items -> V] BY DEF Settings
  <2>2. new.user \in [Items -> V \cup {v}] BY <1>1, <2>1
  <2>3. \A j \in Items : new.user[j] = IF j = i THEN v ELSE st.user[j] BY <1>1, <2>1
  <2>4. \A j \in Items : new.user[j] # None => Valid(j, new.user[j]) BY <1>1, <2>3 DEF Settings
  <2>5. {"user", "selected", "cache", "was"} \subseteq DOMAIN new BY <1>1 DEF Settings
  <2>6. QED BY <1>1, <2>2, <2>4, <2>5 DEF Settings
<1>2. ASSUME NEW s \in Symbols PROVE Settings(SetValue(st, s, v))
  <2> DEFINE new == SetValue(st, s, v)
             ch == Tree[s].choice
  <2> SUFFICES Settings(new) OBVIOUS
  <2>1. CASE ~Valid(s, v)
    <3>1. s \in Items BY DEF Items
    <3>2. new = st BY <2>1, <3>1, InvalidIsIgnored
    <3> HIDE DEF new
    <3>3. QED BY <3>2
  <2>2. CASE Valid(s, v)
    <3>1. /\ new = [f \in DOMAIN new |-> new[f]] /\ DOMAIN new = DOMAIN st
          /\ new.user = [st.user EXCEPT ![s] = v]
          /\ new.selected = IF ch # None /\ v = 2 THEN [st.selected EXCEPT ![ch] = s] ELSE st.selected
          /\ new.was = st.was \cup {s} \cup IF ch # None /\ v = 2 THEN {ch} ELSE {}
      BY <2>2, ValueIsSet
    <3>2. s \in Items /\ (ch # None => ch \in Choices) /\ Choices \subseteq Items BY DEF Items, System
    <3>3. new.was \subseteq Items BY <3>1, <3>2 DEF Settings
    <3>4. PICK V : st.selected \in [Choices -> V] BY DEF Settings
    <3>5. new.selected \in [Choices -> V \cup {s}] BY <3>1, <3>2, <3>4
    <3> HIDE DEF new
    <3>6. \E W : new.selected \in [Choices -> W] BY <3>5
    <3>7. QED BY <1>1, <2>2, <3>1, <3>2, <3>3, <3>6, Zenon
  <2>3. QED BY <2>1, <2>2
<1>3. ASSUME NEW ch \in Choices PROVE Settings(SetMode(st, ch, v))
  <2> DEFINE new == SetMode(st, ch, v)
  <2> SUFFICES Settings(new) OBVIOUS
  <2>1. CASE ~Valid(ch, v)
    <3>1. ch \in Items BY DEF Items
    <3>2. new = st BY <2>1, <3>1, InvalidIsIgnored
    <3> HIDE DEF new
    <3>3. QED BY <3>2
  <2>2. CASE Valid(ch, v)
    <3>1. /\ new = [f \in DOMAIN new |-> new[f]] /\ DOMAIN new = DOMAIN st
          /\ new.user = [st.user EXCEPT ![ch] = v]
          /\ new.selected = st.selected /\ new.was = st.was \cup {ch}
      BY <2>2, ModeIsSet
    <3>2. ch \in Items BY DEF Items
    <3>3. new.was \subseteq Items BY <3>1, <3>2 DEF Settings
    <3>4. \E V : new.selected \in [Choices -> V] BY <3>1 DEF Settings
    <3> HIDE DEF new
    <3>5. QED BY <1>1, <2>2, <3>1, <3>2, <3>3, <3>4, Zenon
  <2>3. QED BY <2>1, <2>2
<1>4. QED BY <1>2, <1>3

\* Setting unsets nothing.
LEMMA NothingIsUnset ==
    ASSUME System, NEW st, Settings(st), NothingUnset(st), NEW v, v # None
    PROVE  /\ \A s \in Symbols : NothingUnset(SetValue(st, s, v))
           /\ \A ch \in Choices : NothingUnset(SetMode(st, ch, v))
<1>1. ASSUME NEW s \in Symbols PROVE NothingUnset(SetValue(st, s, v))
  <2> DEFINE new == SetValue(st, s, v)
             chosen == IF Tree[s].choice # None /\ v = 2 THEN {Tree[s].choice} ELSE {}
  <2>1. CASE ~Valid(s, v)
    <3>1. s \in Items BY DEF Items
    <3>2. new = st BY <2>1, <3>1, InvalidIsIgnored
    <3> HIDE DEF new
    <3>3. NothingUnset(new) BY <3>2
    <3>4. QED BY <3>3 DEF new
  <2>2. CASE Valid(s, v)
    <3>1. /\ new.user = [st.user EXCEPT ![s] = v]
          /\ new.selected = IF Tree[s].choice # None /\ v = 2 THEN [st.selected EXCEPT ![Tree[s].choice] = s]
                            ELSE st.selected
          /\ new.was = st.was \cup {s} \cup chosen
      BY <2>2, ValueIsSet
    <3>2. chosen \cap Symbols = {} BY DEF System
    <3> HIDE DEF new, chosen
    <3>3. NothingUnset(new) BY <3>1, <3>2 DEF NothingUnset, Settings, Items
    <3>4. QED BY <3>3 DEF new
  <2>3. QED BY <2>1, <2>2
<1>2. ASSUME NEW ch \in Choices PROVE NothingUnset(SetMode(st, ch, v))
  <2> DEFINE new == SetMode(st, ch, v)
  <2>1. CASE ~Valid(ch, v)
    <3>1. ch \in Items BY DEF Items
    <3>2. new = st BY <2>1, <3>1, InvalidIsIgnored
    <3> HIDE DEF new
    <3>3. NothingUnset(new) BY <3>2
    <3>4. QED BY <3>3 DEF new
  <2>2. CASE Valid(ch, v)
    <3>1. new.user = [st.user EXCEPT ![ch] = v] /\ new.was = st.was \cup {ch} BY <2>2, ModeIsSet
    <3>2. ch \notin Symbols BY DEF System
    <3> HIDE DEF new
    <3>3. NothingUnset(new) BY <3>1, <3>2 DEF NothingUnset, Settings, Items
    <3>4. QED BY <3>3 DEF new
  <2>3. QED BY <2>1, <2>2
<1>3. QED BY <1>1, <1>2

\* The value of an accepted text.
LEMMA AcceptedIsValue ==
    ASSUME NEW s, NEW char \in Accepted(s)
    PROVE  LET v == TriOfStr(char)
           IN /\ v \in 0..2 /\ char \in {"n", "m", "y"}
              /\ (char = "y" => v = 2) /\ (char = "n" => v = 0) /\ (char = "m" => v = 1)
<1> DEFINE v == TriOfStr(char)
<1>1. char \in {"n", "m", "y"} BY DEF Accepted
<1>2. TriStr[1] = "n" /\ TriStr[2] = "m" /\ TriStr[3] = "y" BY DEF TriStr
<1>3. \A i \in 0..2 : i = 0 \/ i = 1 \/ i = 2 OBVIOUS
<1>4. \E i \in 0..2 : TriStr[i + 1] = char BY <1>1, <1>2
<1>5. v \in 0..2 /\ TriStr[v + 1] = char BY <1>4 DEF TriOfStr
<1> HIDE DEF v
<1>6. (v = 0 => char = "n") /\ (v = 1 => char = "m") /\ (v = 2 => char = "y") BY <1>2, <1>5
<1>7. QED BY <1>1, <1>3, <1>5, <1>6 DEF v

\* A choice whose mode is set before one of its symbols is.
LEMMA ModedIsSetMode ==
    ASSUME System, NEW st, NEW s \in Symbols, NEW v
    PROVE  \/ Moded(st, s, v) = st
           \/ InChoice(s) /\ Tree[s].choice \in Choices /\ Moded(st, s, v) = SetMode(st, Tree[s].choice, v)
BY DEF Moded, System, InChoice

----------------------------------------------------------------------------
\* Setting a value in both makes them alike in what it sets.
LEMMA ValueStaysAlike ==
    ASSUME System, NEW a, Settings(a), NEW b, Settings(b), NEW open, Alike(a, b, open),
           NEW s \in Symbols, NEW v, v # None, v = 2 => Tree[s].choice \in a.was \cup {None},
           NEW left, open \subseteq left \cup IF Valid(s, v) /\ v = 2 THEN {Tree[s].choice} ELSE {}
    PROVE  Alike(SetValue(a, s, v), SetValue(b, s, v), left)
<1> DEFINE x == SetValue(a, s, v)
           y == SetValue(b, s, v)
           ch == Tree[s].choice
<1>1. CASE ~Valid(s, v)
  <2>1. s \in Items BY DEF Items
  <2>2. x = a /\ y = b BY <1>1, <2>1, InvalidIsIgnored
  <2>3. open \subseteq left BY <1>1
  <2> HIDE DEF x, y
  <2>4. Alike(x, y, left) BY <2>2, <2>3 DEF Alike
  <2>5. QED BY <2>4 DEF x, y
<1>2. CASE Valid(s, v)
  <2> DEFINE chosen == IF ch # None /\ v = 2 THEN {ch} ELSE {}
  <2>1. /\ x.user = [a.user EXCEPT ![s] = v]
        /\ x.selected = IF ch # None /\ v = 2 THEN [a.selected EXCEPT ![ch] = s] ELSE a.selected
        /\ x.was = a.was \cup {s} \cup chosen
    BY <1>2, ValueIsSet
  <2>2. /\ y.user = [b.user EXCEPT ![s] = v]
        /\ y.selected = IF ch # None /\ v = 2 THEN [b.selected EXCEPT ![ch] = s] ELSE b.selected
        /\ y.was = b.was \cup {s} \cup chosen
    BY <1>2, ValueIsSet
  <2>3. s \in Items /\ s \notin Choices /\ None \notin Choices /\ ch \in Choices \cup {None} BY DEF Items, System
  <2>4. a.was \subseteq Items BY DEF Settings
  <2> HIDE DEF x, y
  <2>5. x.was = y.was BY <2>1, <2>2 DEF Alike
  <2>6. ASSUME NEW i \in x.was PROVE x.user[i] = y.user[i]
    <3>1. i \in Items /\ (i \in a.was \/ i = s) BY <2>1, <2>3, <2>4, <2>6
    <3>2. CASE i = s BY <2>1, <2>2, <3>1, <3>2 DEF Settings
    <3>3. CASE i # s BY <2>1, <2>2, <3>1, <3>3 DEF Alike, Settings
    <3>4. QED BY <3>2, <3>3
  <2>7. ASSUME NEW c \in (x.was \cap Choices) \ left PROVE x.selected[c] = y.selected[c]
    <3>1. CASE c = ch /\ v = 2
      BY <2>1, <2>2, <2>3, <3>1 DEF Settings
    <3>2. CASE ~(c = ch /\ v = 2)
      <4>1. c \in (a.was \cap Choices) \ open BY <1>2, <2>1, <2>3, <3>2
      <4>2. x.selected[c] = a.selected[c] /\ y.selected[c] = b.selected[c] BY <2>1, <2>2, <3>2 DEF Settings
      <4>3. QED BY <4>1, <4>2 DEF Alike
    <3>3. QED BY <3>1, <3>2
  <2>8. Alike(x, y, left) BY <2>5, <2>6, <2>7 DEF Alike
  <2>9. QED BY <2>8 DEF x, y
<1>3. QED BY <1>1, <1>2

\* Setting the mode of a choice in both leaves open which symbol is selected.
LEMMA ModeStaysAlike ==
    ASSUME System, NEW a, Settings(a), NEW b, Settings(b), Alike(a, b, {}),
           NEW ch \in Choices, NEW v, v # None
    PROVE  Alike(SetMode(a, ch, v), SetMode(b, ch, v), {ch})
<1> DEFINE x == SetMode(a, ch, v)
           y == SetMode(b, ch, v)
<1>0. ch \in Items BY DEF Items
<1>1. CASE ~Valid(ch, v)
  <2>1. x = a /\ y = b BY <1>0, <1>1, InvalidIsIgnored
  <2> HIDE DEF x, y
  <2>2. Alike(x, y, {ch}) BY <2>1 DEF Alike
  <2>3. QED BY <2>2 DEF x, y
<1>2. CASE Valid(ch, v)
  <2>1. x.user = [a.user EXCEPT ![ch] = v] /\ x.selected = a.selected /\ x.was = a.was \cup {ch}
    BY <1>2, ModeIsSet
  <2>2. y.user = [b.user EXCEPT ![ch] = v] /\ y.selected = b.selected /\ y.was = b.was \cup {ch}
    BY <1>2, ModeIsSet
  <2> HIDE DEF x, y
  <2>3. a.was \subseteq Items BY DEF Settings
  <2>4. ASSUME NEW i \in x.was PROVE x.user[i] = y.user[i]
    BY <1>0, <2>1, <2>2, <2>3, <2>4 DEF Alike, Settings
  <2>5. Alike(x, y, {ch}) BY <2>1, <2>2, <2>4 DEF Alike
  <2>6. QED BY <2>5 DEF x, y
<1>3. QED BY <1>1, <1>2

\* An assignment to a bool or tristate; m is for symbols that are in no choice.
LEMMA AssignStaysAlike ==
    ASSUME System, NEW a, Settings(a), NEW b, Settings(b), Alike(a, b, {}),
           NEW s \in Symbols, IsTri(s), NEW char \in Accepted(s), ~(char = "m" /\ InChoice(s))
    PROVE  LET v == TriOfStr(char)
           IN /\ Alike(AssignTri(a, s, v), AssignTri(b, s, v), {})
              /\ Settings(AssignTri(a, s, v)) /\ Settings(AssignTri(b, s, v))
<1> DEFINE v == TriOfStr(char)
           ch == Tree[s].choice
<1> SUFFICES /\ Alike(AssignTri(a, s, v), AssignTri(b, s, v), {})
             /\ Settings(AssignTri(a, s, v)) /\ Settings(AssignTri(b, s, v))
  OBVIOUS
<1>1. v \in 0..2 /\ (char = "y" => v = 2) /\ (char = "n" => v = 0) /\ (char = "m" => v = 1) /\ char \in {"n", "m", "y"}
  BY AcceptedIsValue
<1>2. v # None BY <1>1 DEF System
<1>3. CASE InChoice(s) /\ v # 0
  <2> DEFINE x == SetMode(a, ch, v)
             y == SetMode(b, ch, v)
  <2>1. v = 2 /\ ch \in Choices
    <3>1. char = "y" BY <1>1, <1>3
    <3>2. QED BY <1>1, <1>3, <3>1 DEF System, InChoice
  <2>2. AssignTri(a, s, v) = SetValue(x, s, v) /\ AssignTri(b, s, v) = SetValue(y, s, v)
    BY <1>3 DEF AssignTri, Moded
  <2> HIDE DEF v
  <2>3. Alike(x, y, {ch}) BY <1>2, <2>1, ModeStaysAlike
  <2>4. Settings(x) /\ Settings(y) BY <1>2, <2>1, SettingKeepsValid
  <2>5. Valid(s, 2)
    <3>1. CASE OrigType(s) = "bool" BY <3>1 DEF Valid
    <3>2. CASE OrigType(s) = "tristate" BY <3>2 DEF Valid
    <3>3. QED BY <3>1, <3>2 DEF IsTri
  <2>6. {ch} \subseteq {} \cup IF Valid(s, v) /\ v = 2 THEN {Tree[s].choice} ELSE {} BY <2>1, <2>5
  <2>10. ch \in x.was
    <3>1. Valid(ch, 2)
      <4>1. CASE OrigType(ch) = "bool" BY <4>1 DEF Valid
      <4>2. CASE OrigType(ch) = "tristate" BY <4>2 DEF Valid
      <4>3. QED BY <2>1, <4>1, <4>2 DEF System
    <3>4. Valid(ch, v) BY <2>1, <3>1
    <3>5. ch \in Choices BY <2>1
    <3> HIDE DEF ch
    <3>2. x.was = a.was \cup {ch} BY <1>2, <3>4, <3>5, ModeIsSet
    <3> HIDE DEF x
    <3>3. QED BY <3>2
  <2> HIDE DEF x, y
  <2>7. Alike(SetValue(x, s, v), SetValue(y, s, v), {}) BY <1>2, <2>3, <2>4, <2>6, <2>10, ValueStaysAlike
  <2>8. Settings(SetValue(x, s, v)) /\ Settings(SetValue(y, s, v)) BY <1>2, <2>4, SettingKeepsValid
  <2>9. QED BY <2>2, <2>7, <2>8
<1>4. CASE ~(InChoice(s) /\ v # 0)
  <2>1. AssignTri(a, s, v) = SetValue(a, s, v) /\ AssignTri(b, s, v) = SetValue(b, s, v)
    BY <1>4 DEF AssignTri, Moded
  <2> HIDE DEF v
  <2>5. v = 2 => ch = None BY <1>4 DEF InChoice
  <2>2. Alike(SetValue(a, s, v), SetValue(b, s, v), {}) BY <1>2, <2>5, ValueStaysAlike
  <2>3. Settings(SetValue(a, s, v)) /\ Settings(SetValue(b, s, v)) BY <1>2, SettingKeepsValid
  <2>4. QED BY <2>1, <2>2, <2>3
<1>5. QED BY <1>3, <1>4

\* A load that has not raised anything, in which nothing has been unset.
Loading(x) ==
    /\ x = [st |-> x.st, missing |-> x.missing, error |-> "none"]
    /\ Settings(x.st) /\ NothingUnset(x.st)

\* Two loads of the same lines, as far as they have come.
TwoLoads(x, y) == Loading(x) /\ Loading(y) /\ Alike(x.st, y.st, {}) /\ x.missing = y.missing

\* A line with the text of a value, which makes no choice symbol m.
Plain(line) ==
    /\ line.val \notin {None} \cup 0..2
    /\ ~(line.val = "m" /\ line.name \in Symbols /\ InChoice(line.name))

\* What a line makes of a load that raises nothing, case by case.
LEMMA LineOfLoading ==
    ASSUME NEW x, Loading(x), NEW line
    PROVE  LET s == line.name
               char == IF line.kind = "unset" THEN "n" ELSE line.val
               given == line.kind # "other"
               skipped == line.kind = "unset" \/ (line.kind = "bare" /\ OrigType(s) = "string")
               new == LoadLine(x, line)
           IN /\ ~given => new = x
              /\ given /\ s \notin Symbols => new = [x EXCEPT !.missing = Append(@, <<s, char>>)]
              /\ given /\ s \in Symbols /\ IsTri(s) =>
                   new = IF char \in Accepted(s) THEN [x EXCEPT !.st = AssignTri(@, s, TriOfStr(char))] ELSE x
              /\ given /\ s \in Symbols /\ ~IsTri(s) =>
                   new = IF skipped THEN x ELSE [x EXCEPT !.st = SetValue(@, s, line.val)]
<1>1. x.error = "none" BY DEF Loading
<1>2. ASSUME NEW s \in Symbols PROVE ~NothingToReport(x.st, s)
  BY <1>2 DEF Loading, NothingUnset, NothingToReport
<1>3. QED BY <1>1, <1>2, Zenon DEF LoadLine

\* A line raises nothing where nothing is unset, and unsets nothing.
LEMMA LineRaisesNothing ==
    ASSUME System, NEW x, Loading(x), NEW line, line.val \notin {None} \cup 0..2
    PROVE  Loading(LoadLine(x, line))
<1> DEFINE s == line.name
           char == IF line.kind = "unset" THEN "n" ELSE line.val
<1>1. ASSUME NEW st, Settings(st), NothingUnset(st) PROVE Loading([x EXCEPT !.st = st])
  <2> DEFINE new == [x EXCEPT !.st = st]
  <2>1. new = [st |-> st, missing |-> x.missing, error |-> "none"] BY DEF Loading
  <2> HIDE DEF new
  <2>2. new.st = st /\ new.missing = x.missing BY <2>1
  <2>3. Loading(new) BY <1>1, <2>1, <2>2 DEF Loading
  <2>4. QED BY <2>3 DEF new
<1>2. Settings(x.st) /\ NothingUnset(x.st) BY DEF Loading
<1>3. CASE LoadLine(x, line) = x BY <1>3
<1>4. CASE line.kind # "other" /\ s \notin Symbols
  <2> DEFINE longer == Append(x.missing, <<s, char>>)
             new == [x EXCEPT !.missing = longer]
  <2>1. LoadLine(x, line) = [x EXCEPT !.missing = Append(@, <<s, char>>)] BY <1>4, LineOfLoading, Zenon
  <2>2. x = [st |-> x.st, missing |-> x.missing, error |-> "none"] BY DEF Loading
  <2>3. LoadLine(x, line) = new BY <2>1, <2>2
  <2> HIDE DEF longer
  <2>4. new = [st |-> x.st, missing |-> longer, error |-> "none"] BY <2>2
  <2> HIDE DEF new
  <2>5. new.st = x.st /\ new.missing = longer BY <2>4
  <2>6. Loading(new) BY <1>2, <2>4, <2>5 DEF Loading
  <2>7. QED BY <2>3, <2>6
<1>5. CASE line.kind # "other" /\ s \in Symbols /\ IsTri(s) /\ char \in Accepted(s)
  <2> DEFINE v == TriOfStr(char)
             moded == Moded(x.st, s, v)
             st == AssignTri(x.st, s, v)
  <2>1. v # None
    <3>1. v \in 0..2 BY <1>5, AcceptedIsValue
    <3> HIDE DEF v
    <3>2. QED BY <3>1 DEF System
  <2>2. LoadLine(x, line) = [x EXCEPT !.st = st] BY <1>5, LineOfLoading, Zenon
  <2> HIDE DEF v
  <2>3. Settings(moded) /\ NothingUnset(moded)
    BY <1>2, <1>5, <2>1, ModedIsSetMode, SettingKeepsValid, NothingIsUnset
  <2>4. st = SetValue(moded, s, v) BY DEF AssignTri
  <2> HIDE DEF moded, st
  <2>5. Settings(st) /\ NothingUnset(st) BY <1>5, <2>1, <2>3, <2>4, SettingKeepsValid, NothingIsUnset
  <2>6. QED BY <1>1, <2>2, <2>5
<1>6. CASE line.kind # "other" /\ s \in Symbols /\ LoadLine(x, line) = [x EXCEPT !.st = SetValue(@, s, line.val)]
  <2> DEFINE st == SetValue(x.st, s, line.val)
  <2>1. Settings(st) /\ NothingUnset(st) BY <1>2, <1>6, SettingKeepsValid, NothingIsUnset
  <2>2. LoadLine(x, line) = [x EXCEPT !.st = st] BY <1>6
  <2> HIDE DEF st
  <2>3. QED BY <1>1, <2>1, <2>2
<1>7. QED BY <1>3, <1>4, <1>5, <1>6, LineOfLoading, Zenon

\* A line makes of two loads that are alike two that are (Kconfig._load_config).
LEMMA LineStaysAlike ==
    ASSUME System, NEW x, NEW y, TwoLoads(x, y), NEW line, Plain(line)
    PROVE  TwoLoads(LoadLine(x, line), LoadLine(y, line))
<1> DEFINE s == line.name
           char == IF line.kind = "unset" THEN "n" ELSE line.val
           p == LoadLine(x, line)
           q == LoadLine(y, line)
<1>1. Loading(x) /\ Loading(y) BY DEF TwoLoads
<1>2. Loading(p) /\ Loading(q) BY <1>1, LineRaisesNothing DEF Plain
<1>3. SUFFICES Alike(p.st, q.st, {}) /\ p.missing = q.missing BY <1>2 DEF TwoLoads
<1>4. x = [st |-> x.st, missing |-> x.missing, error |-> "none"]
      /\ y = [st |-> y.st, missing |-> y.missing, error |-> "none"]
      /\ Settings(x.st) /\ Settings(y.st) /\ Alike(x.st, y.st, {}) /\ x.missing = y.missing
  BY <1>1 DEF Loading, TwoLoads
<1>5. ASSUME NEW a, NEW b, p = [x EXCEPT !.st = a], q = [y EXCEPT !.st = b], Alike(a, b, {})
      PROVE  Alike(p.st, q.st, {}) /\ p.missing = q.missing
  <2> HIDE DEF p, q
  <2>1. p = [st |-> a, missing |-> x.missing, error |-> "none"]
        /\ q = [st |-> b, missing |-> y.missing, error |-> "none"]
    BY <1>4, <1>5
  <2>2. p.st = a /\ p.missing = x.missing /\ q.st = b /\ q.missing = y.missing BY <2>1
  <2>3. QED BY <1>4, <1>5, <2>2
<1>6. CASE p = x /\ q = y BY <1>4, <1>6
<1>7. CASE line.kind # "other" /\ s \notin Symbols
  <2> DEFINE longer == Append(x.missing, <<s, char>>)
  <2>1. p = [x EXCEPT !.missing = Append(@, <<s, char>>)] /\ q = [y EXCEPT !.missing = Append(@, <<s, char>>)]
    BY <1>1, <1>7, LineOfLoading, Zenon
  <2>2. p = [x EXCEPT !.missing = longer] /\ q = [y EXCEPT !.missing = longer] BY <1>4, <2>1
  <2> HIDE DEF p, q, longer
  <2>3. p = [st |-> x.st, missing |-> longer, error |-> "none"]
        /\ q = [st |-> y.st, missing |-> longer, error |-> "none"]
    BY <1>4, <2>2
  <2>4. p.st = x.st /\ p.missing = longer /\ q.st = y.st /\ q.missing = longer BY <2>3
  <2>5. QED BY <1>4, <2>4
<1>8. CASE line.kind # "other" /\ s \in Symbols /\ IsTri(s) /\ char \in Accepted(s)
  <2> DEFINE a == AssignTri(x.st, s, TriOfStr(char))
             b == AssignTri(y.st, s, TriOfStr(char))
  <2>1. p = [x EXCEPT !.st = a] /\ q = [y EXCEPT !.st = b] BY <1>1, <1>8, LineOfLoading, Zenon
  <2>2. ~(char = "m" /\ InChoice(s)) BY <1>8 DEF Plain
  <2> HIDE DEF char, p, q
  <2>3. Alike(a, b, {}) BY <1>4, <1>8, <2>2, AssignStaysAlike
  <2> HIDE DEF a, b
  <2>4. QED BY <1>5, <2>1, <2>3
<1>9. CASE line.kind # "other" /\ s \in Symbols /\ p = [x EXCEPT !.st = SetValue(@, s, line.val)]
           /\ q = [y EXCEPT !.st = SetValue(@, s, line.val)]
  <2> DEFINE a == SetValue(x.st, s, line.val)
             b == SetValue(y.st, s, line.val)
  <2>1. p = [x EXCEPT !.st = a] /\ q = [y EXCEPT !.st = b] BY <1>9
  <2> HIDE DEF p, q
  <2>2. line.val # None /\ line.val # 2 BY DEF Plain
  <2>3. Alike(a, b, {}) BY <1>4, <1>9, <2>2, ValueStaysAlike
  <2> HIDE DEF a, b
  <2>4. QED BY <1>5, <2>1, <2>3
<1>10. QED BY <1>1, <1>6, <1>7, <1>8, <1>9, LineOfLoading, Zenon

\* So do all the lines of a file.
LEMMA LinesStayAlike ==
    ASSUME System, NEW x, NEW y, TwoLoads(x, y),
           NEW L, NEW lines \in Seq(L), \A k \in DOMAIN lines : Plain(lines[k])
    PROVE  TwoLoads(LoadLines(x, lines), LoadLines(y, lines))
<1>1. PICK f : /\ f = [k \in 0..Len(lines) |-> IF k = 0 THEN x ELSE LoadLine(f[k - 1], lines[k])]
               /\ LoadLines(x, lines) = f[Len(lines)]
  BY LinesAreLoaded
<1>2. PICK g : /\ g = [k \in 0..Len(lines) |-> IF k = 0 THEN y ELSE LoadLine(g[k - 1], lines[k])]
               /\ LoadLines(y, lines) = g[Len(lines)]
  BY LinesAreLoaded
<1> DEFINE S == {n \in Nat : n <= Len(lines) => TwoLoads(f[n], g[n])}
<1>3. Len(lines) \in Nat /\ DOMAIN lines = 1..Len(lines) OBVIOUS
<1>4. 0 \in S
  <2>1. f[0] = x /\ g[0] = y BY <1>1, <1>2, <1>3
  <2>2. QED BY <2>1
<1>5. ASSUME NEW n \in Nat, n \in S PROVE n + 1 \in S
  <2> SUFFICES ASSUME n + 1 <= Len(lines) PROVE TwoLoads(f[n + 1], g[n + 1]) OBVIOUS
  <2>1. n + 1 \in 0..Len(lines) /\ n + 1 # 0 /\ (n + 1) - 1 = n /\ n + 1 \in DOMAIN lines BY <1>3
  <2>2. f[n + 1] = LoadLine(f[n], lines[n + 1]) BY <1>1, <2>1
  <2>3. g[n + 1] = LoadLine(g[n], lines[n + 1]) BY <1>2, <2>1
  <2>4. TwoLoads(f[n], g[n]) BY <1>3, <1>5
  <2>5. Plain(lines[n + 1]) BY <2>1
  <2>6. QED BY <2>2, <2>3, <2>4, <2>5, LineStaysAlike
<1>6. Len(lines) \in S
  <2> HIDE DEF S
  <2>1. QED BY <1>3, <1>4, <1>5, Inductive
<1>7. QED BY <1>1, <1>2, <1>3, <1>6

\* A load that replaces the configuration leaves the settings, and the symbols
\* it remembers as missing, that it leaves in any other library: nothing of what
\* was set before matters, though only what the file did not set is unset, and
\* nothing is raised (Kconfig._load_config).  The lines give texts, and m to no
\* choice symbol.
THEOREM LoadForgets ==
    ASSUME System, NEW a, Settings(a), NEW b, Settings(b), NEW known, NEW other,
           NEW L, NEW lines \in Seq(L),
           \A k \in DOMAIN lines : lines[k].val \notin {None} \cup 0..2,
           ~MakesModular(lines)
    PROVE  LET x == LoadConfig(a, known, lines, TRUE)
               y == LoadConfig(b, other, lines, TRUE)
           IN /\ x.st.user = y.st.user /\ x.st.selected = y.st.selected /\ x.missing = y.missing
              /\ x.error = "none" /\ y.error = "none"
<1> DEFINE p == LoadStart(a, known, TRUE)
           q == LoadStart(b, other, TRUE)
           c == LoadLines(p, lines)
           d == LoadLines(q, lines)
           x == LoadConfig(a, known, lines, TRUE)
           y == LoadConfig(b, other, lines, TRUE)
<1>1. ASSUME NEW st, Settings(st)
      PROVE  LET new == [st EXCEPT !.was = {}] IN Settings(new) /\ new.was = {}
  <2> DEFINE new == [st EXCEPT !.was = {}]
  <2>1. DOMAIN new = DOMAIN st /\ new = [f \in DOMAIN new |-> new[f]] BY <1>1 DEF Settings
  <2>2. new.was = {} /\ new.user = st.user /\ new.selected = st.selected BY <1>1 DEF Settings
  <2> HIDE DEF new
  <2>3. Settings(new) BY <1>1, <2>1, <2>2 DEF Settings
  <2>4. QED BY <2>2, <2>3 DEF new
<1>2. TwoLoads(p, q)
  <2>1. /\ p = [st |-> [a EXCEPT !.was = {}], missing |-> <<>>, error |-> "none"]
        /\ q = [st |-> [b EXCEPT !.was = {}], missing |-> <<>>, error |-> "none"]
    BY DEF LoadStart
  <2> HIDE DEF p, q
  <2>5. p.st = [a EXCEPT !.was = {}] /\ q.st = [b EXCEPT !.was = {}] BY <2>1
  <2>2. Settings(p.st) /\ Settings(q.st) /\ p.st.was = {} /\ q.st.was = {} BY <1>1, <2>5
  <2>3. /\ p = [st |-> p.st, missing |-> p.missing, error |-> "none"]
        /\ q = [st |-> q.st, missing |-> q.missing, error |-> "none"] /\ p.missing = q.missing
    BY <2>1
  <2>4. QED BY <2>2, <2>3 DEF TwoLoads, Alike, Loading, NothingUnset
<1>3. \A k \in DOMAIN lines : Plain(lines[k]) BY DEF Plain, MakesModular
<1>4. TwoLoads(c, d)
  <2> HIDE DEF p, q
  <2>1. QED BY <1>2, <1>3, LinesStayAlike
<1>5. x = [c EXCEPT !.st = UnsetEach(@, Items \ @.was)] /\ y = [d EXCEPT !.st = UnsetEach(@, Items \ @.was)]
  <2>1. c.error = "none" /\ d.error = "none"
    <3> HIDE DEF c, d
    <3>1. QED BY <1>4 DEF TwoLoads, Loading
  <2>2. QED BY <2>1 DEF LoadConfig
<1> HIDE DEF c, d, x, y
<1>6. ASSUME NEW l, Loading(l)
      PROVE  LET end == [l EXCEPT !.st = UnsetEach(@, Items \ @.was)]
             IN /\ end.missing = l.missing /\ end.error = "none"
                /\ end.st.user = [i \in Items |-> IF i \in l.st.was THEN l.st.user[i] ELSE None]
                /\ end.st.selected = [ch \in Choices |-> IF ch \in l.st.was THEN l.st.selected[ch] ELSE None]
  <2> DEFINE end == [l EXCEPT !.st = UnsetEach(@, Items \ @.was)]
             st == l.st
             unset == UnsetEach(st, Items \ st.was)
  <2>0. l = [st |-> l.st, missing |-> l.missing, error |-> "none"] /\ Settings(st) BY <1>6 DEF Loading
  <2>1. end.missing = l.missing /\ end.error = "none" /\ end.st = unset BY <2>0
  <2>2. {"user", "selected", "cache", "was"} \subseteq DOMAIN st BY <2>0 DEF Settings
  <2>3. unset.user = [i \in Items |-> IF i \in Items \ st.was THEN None ELSE st.user[i]]
    BY <2>2 DEF UnsetEach
  <2>4. unset.selected = [ch \in Choices |-> IF ch \in Items \ st.was THEN None ELSE st.selected[ch]]
    BY <2>2 DEF UnsetEach
  <2> HIDE DEF unset, end
  <2>5. end.st.user = [i \in Items |-> IF i \in st.was THEN st.user[i] ELSE None] BY <2>1, <2>3
  <2>6. end.st.selected = [ch \in Choices |-> IF ch \in st.was THEN st.selected[ch] ELSE None]
    BY <2>1, <2>4 DEF Items
  <2>7. QED BY <2>1, <2>5, <2>6 DEF end
<1>7. x.st.user = y.st.user
  <2>1. x.st.user = [i \in Items |-> IF i \in c.st.was THEN c.st.user[i] ELSE None]
    BY <1>4, <1>5, <1>6 DEF TwoLoads
  <2>2. y.st.user = [i \in Items |-> IF i \in d.st.was THEN d.st.user[i] ELSE None]
    BY <1>4, <1>5, <1>6 DEF TwoLoads
  <2>3. QED BY <1>4, <2>1, <2>2 DEF TwoLoads, Alike
<1>8. x.st.selected = y.st.selected
  <2>1. x.st.selected = [ch \in Choices |-> IF ch \in c.st.was THEN c.st.selected[ch] ELSE None]
    BY <1>4, <1>5, <1>6 DEF TwoLoads
  <2>2. y.st.selected = [ch \in Choices |-> IF ch \in d.st.was THEN d.st.selected[ch] ELSE None]
    BY <1>4, <1>5, <1>6 DEF TwoLoads
  <2>3. QED BY <1>4, <2>1, <2>2 DEF TwoLoads, Alike
<1>9. x.missing = y.missing /\ x.error = "none" /\ y.error = "none"
  BY <1>4, <1>5, <1>6 DEF TwoLoads
<1>10. QED BY <1>7, <1>8, <1>9 DEF x, y

----------------------------------------------------------------------------
\* The items that a line may set.
Named(line) == {line.name} \cup IF InChoice(line.name) THEN {Tree[line.name].choice} ELSE {}

\* From the settings a, only items of is have been set to get b.
SetOnly(is, a, b) ==
    /\ Settings(b)
    /\ \A i \in Items \ is : b.user[i] = a.user[i]
    /\ \A ch \in Choices \ is : b.selected[ch] = a.selected[ch]

\* Setting an item sets it, and setting a symbol its choice at most.
LEMMA SetOnlyNamed ==
    ASSUME System, NEW st, Settings(st), NEW v, v # None
    PROVE  /\ \A ch \in Choices : SetOnly({ch}, st, SetMode(st, ch, v))
           /\ \A s \in Symbols : SetOnly({s} \cup IF InChoice(s) THEN {Tree[s].choice} ELSE {}, st, SetValue(st, s, v))
<1>1. ASSUME NEW ch \in Choices PROVE SetOnly({ch}, st, SetMode(st, ch, v))
  <2> DEFINE new == SetMode(st, ch, v)
  <2>1. Settings(new) BY SettingKeepsValid
  <2>2. ch \in Items BY DEF Items
  <2>3. new = st \/ (new.user = [st.user EXCEPT ![ch] = v] /\ new.selected = st.selected)
    <3>1. CASE Valid(ch, v) BY <3>1, ModeIsSet
    <3>2. CASE ~Valid(ch, v) BY <2>2, <3>2, InvalidIsIgnored
    <3>3. QED BY <3>1, <3>2
  <2> HIDE DEF new
  <2>4. SetOnly({ch}, st, new) BY <2>1, <2>3 DEF SetOnly, Settings
  <2>5. QED BY <2>4 DEF new
<1>2. ASSUME NEW s \in Symbols
      PROVE  SetOnly({s} \cup IF InChoice(s) THEN {Tree[s].choice} ELSE {}, st, SetValue(st, s, v))
  <2> DEFINE new == SetValue(st, s, v)
             ch == Tree[s].choice
             named == {s} \cup IF InChoice(s) THEN {ch} ELSE {}
  <2>1. Settings(new) BY SettingKeepsValid
  <2>2. s \in Items BY DEF Items
  <2>3. \/ new = st
        \/ /\ new.user = [st.user EXCEPT ![s] = v]
           /\ new.selected = IF ch # None /\ v = 2 THEN [st.selected EXCEPT ![ch] = s] ELSE st.selected
    <3>1. CASE Valid(s, v) BY <3>1, ValueIsSet
    <3>2. CASE ~Valid(s, v) BY <2>2, <3>2, InvalidIsIgnored
    <3>3. QED BY <3>1, <3>2
  <2>4. s \in named /\ (ch # None => ch \in named) BY DEF InChoice
  <2> HIDE DEF new, named
  <2>5. SetOnly(named, st, new) BY <2>1, <2>3, <2>4 DEF SetOnly, Settings
  <2>6. QED BY <2>5 DEF new, named
<1>3. QED BY <1>1, <1>2

\* What has been set by two steps.
LEMMA SetOnlyTogether ==
    ASSUME NEW is, NEW more, NEW a, NEW b, NEW c, SetOnly(is, a, b), SetOnly(more, b, c)
    PROVE  SetOnly(is \cup more, a, c)
BY DEF SetOnly, Items

\* What has been set by a line, also by one that raises (Kconfig._load_config).
LEMMA LineSetsNamed ==
    ASSUME System, NEW lib, lib = [st |-> lib.st, missing |-> lib.missing, error |-> lib.error],
           Settings(lib.st), NEW line, line.val \notin {None} \cup 0..2
    PROVE  LET new == LoadLine(lib, line)
           IN /\ new = [st |-> new.st, missing |-> new.missing, error |-> new.error]
              /\ SetOnly(Named(line), lib.st, new.st)
<1> DEFINE new == LoadLine(lib, line)
           s == line.name
           char == IF line.kind = "unset" THEN "n" ELSE line.val
           v == TriOfStr(char)
           moded == Moded(lib.st, s, v)
<1>1. ASSUME NEW st, NEW missing, NEW error, new = [st |-> st, missing |-> missing, error |-> error],
             SetOnly(Named(line), lib.st, st)
      PROVE  new = [st |-> new.st, missing |-> new.missing, error |-> new.error]
             /\ SetOnly(Named(line), lib.st, new.st)
  <2> HIDE DEF new
  <2>1. new.st = st /\ new.missing = missing /\ new.error = error BY <1>1
  <2>2. QED BY <1>1, <2>1
<1>2. SetOnly(Named(line), lib.st, lib.st) BY DEF SetOnly
<1>3. CASE new = lib
  <2> HIDE DEF new
  <2>1. new = [st |-> lib.st, missing |-> lib.missing, error |-> lib.error] BY <1>3
  <2>2. QED BY <1>1, <1>2, <2>1 DEF new
<1>4. CASE new = [lib EXCEPT !.missing = Append(@, <<s, char>>)]
  <2> DEFINE longer == Append(lib.missing, <<s, char>>)
  <2>1. new = [lib EXCEPT !.missing = longer] BY <1>4
  <2> HIDE DEF new, longer
  <2>2. new = [st |-> lib.st, missing |-> longer, error |-> lib.error] BY <2>1
  <2>3. QED BY <1>1, <1>2, <2>2 DEF new
<1>5. ASSUME s \in Symbols, char \in Accepted(s)
      PROVE  SetOnly(Named(line), lib.st, moded) /\ SetOnly(Named(line), lib.st, AssignTri(lib.st, s, v))
  <2>1. v # None
    <3>1. v \in 0..2 BY <1>5, AcceptedIsValue
    <3> HIDE DEF v
    <3>2. QED BY <3>1 DEF System
  <2> HIDE DEF v
  <2>2. SetOnly(Named(line), lib.st, moded)
    <3>1. CASE moded = lib.st
      <4> HIDE DEF moded
      <4>1. QED BY <1>2, <3>1
    <3>2. CASE InChoice(s) /\ Tree[s].choice \in Choices /\ moded = SetMode(lib.st, Tree[s].choice, v)
      <4>1. SetOnly({Tree[s].choice}, lib.st, SetMode(lib.st, Tree[s].choice, v)) BY <2>1, <3>2, SetOnlyNamed
      <4>2. Tree[s].choice \in Named(line) BY <3>2 DEF Named
      <4> HIDE DEF moded
      <4>3. SetOnly({Tree[s].choice}, lib.st, moded) BY <3>2, <4>1
      <4>4. QED BY <4>2, <4>3 DEF SetOnly
    <3>3. QED BY <1>5, <3>1, <3>2, ModedIsSetMode
  <2> HIDE DEF moded
  <2>3. Settings(moded) BY <2>2 DEF SetOnly
  <2>4. SetOnly(Named(line), moded, SetValue(moded, s, v)) BY <1>5, <2>1, <2>3, SetOnlyNamed DEF Named
  <2>5. AssignTri(lib.st, s, v) = SetValue(moded, s, v) BY DEF AssignTri, moded
  <2>6. Named(line) = Named(line) \cup Named(line) OBVIOUS
  <2>7. SetOnly(Named(line), lib.st, SetValue(moded, s, v)) BY <2>2, <2>4, <2>6, SetOnlyTogether
  <2>8. QED BY <2>2, <2>5, <2>7
<1>6. CASE s \in Symbols /\ char \in Accepted(s) /\ new = [lib EXCEPT !.st = Moded(@, s, v), !.error = "KeyError"]
  <2>1. new = [lib EXCEPT !.st = moded, !.error = "KeyError"] BY <1>6
  <2>2. SetOnly(Named(line), lib.st, moded) BY <1>5, <1>6
  <2> HIDE DEF new, moded
  <2>3. new = [st |-> moded, missing |-> lib.missing, error |-> "KeyError"] BY <2>1
  <2>4. QED BY <1>1, <2>2, <2>3 DEF new
<1>7. CASE s \in Symbols /\ char \in Accepted(s) /\ new = [lib EXCEPT !.st = AssignTri(@, s, v)]
  <2> DEFINE st == AssignTri(lib.st, s, v)
  <2>1. new = [lib EXCEPT !.st = st] BY <1>7
  <2>2. SetOnly(Named(line), lib.st, st) BY <1>5, <1>7
  <2> HIDE DEF new, st
  <2>3. new = [st |-> st, missing |-> lib.missing, error |-> lib.error] BY <2>1
  <2>4. QED BY <1>1, <2>2, <2>3 DEF new
<1>8. CASE s \in Symbols /\ new = [lib EXCEPT !.st = SetValue(@, s, line.val)]
  <2> DEFINE st == SetValue(lib.st, s, line.val)
  <2>1. new = [lib EXCEPT !.st = st] BY <1>8
  <2>2. SetOnly(Named(line), lib.st, st) BY <1>8, SetOnlyNamed DEF Named
  <2> HIDE DEF new, st
  <2>3. new = [st |-> st, missing |-> lib.missing, error |-> lib.error] BY <2>1
  <2>4. QED BY <1>1, <2>2, <2>3 DEF new
<1>9. \/ new = lib
      \/ new = [lib EXCEPT !.missing = Append(@, <<s, char>>)]
      \/ s \in Symbols /\ char \in Accepted(s) /\ new = [lib EXCEPT !.st = Moded(@, s, v), !.error = "KeyError"]
      \/ s \in Symbols /\ char \in Accepted(s) /\ new = [lib EXCEPT !.st = AssignTri(@, s, v)]
      \/ s \in Symbols /\ new = [lib EXCEPT !.st = SetValue(@, s, line.val)]
  BY Zenon DEF LoadLine
<1>10. QED BY <1>3, <1>4, <1>6, <1>7, <1>8, <1>9

\* A load that merges changes nothing but the symbols that the file names and
\* their choices, and whatever the file says and wherever it raises, what is set
\* remains valid (Kconfig._load_config).
THEOREM MergeKeepsRest ==
    ASSUME System, NEW st, Settings(st), NEW known,
           NEW L, NEW lines \in Seq(L),
           \A k \in DOMAIN lines : lines[k].val \notin {None} \cup 0..2
    PROVE  SetOnly(UNION {Named(lines[k]) : k \in DOMAIN lines},
                   st, LoadConfig(st, known, lines, FALSE).st)
<1> DEFINE start == LoadStart(st, known, FALSE)
           named(n) == UNION {Named(lines[k]) : k \in 1..n}
<1>1. PICK f : /\ f = [k \in 0..Len(lines) |-> IF k = 0 THEN start ELSE LoadLine(f[k - 1], lines[k])]
               /\ LoadLines(start, lines) = f[Len(lines)]
  <2> HIDE DEF start
  <2>1. QED BY LinesAreLoaded
<1>2. Len(lines) \in Nat /\ DOMAIN lines = 1..Len(lines) OBVIOUS
<1> DEFINE whole(x) == x = [st |-> x.st, missing |-> x.missing, error |-> x.error]
           S == {n \in Nat : n <= Len(lines) => whole(f[n]) /\ SetOnly(named(n), st, f[n].st)}
<1>3. 0 \in S
  <2>1. f[0] = start BY <1>1, <1>2
  <2>2. start = [st |-> st, missing |-> known, error |-> "none"] BY DEF LoadStart
  <2> HIDE DEF start, named
  <2>3. start.st = st /\ start.missing = known /\ start.error = "none" BY <2>2
  <2>4. SetOnly(named(0), st, st) BY DEF SetOnly
  <2>5. QED BY <2>1, <2>2, <2>3, <2>4
<1>4. ASSUME NEW n \in Nat, n \in S PROVE n + 1 \in S
  <2> SUFFICES ASSUME n + 1 <= Len(lines) PROVE whole(f[n + 1]) /\ SetOnly(named(n + 1), st, f[n + 1].st)
    OBVIOUS
  <2>1. n + 1 \in 0..Len(lines) /\ n + 1 # 0 /\ (n + 1) - 1 = n /\ n + 1 \in DOMAIN lines BY <1>2
  <2>2. f[n + 1] = LoadLine(f[n], lines[n + 1]) BY <1>1, <2>1
  <2>3. whole(f[n]) /\ SetOnly(named(n), st, f[n].st) BY <1>2, <1>4
  <2>4. Settings(f[n].st) BY <2>3 DEF SetOnly
  <2>5. lines[n + 1].val \notin {None} \cup 0..2 BY <2>1
  <2>6. whole(f[n + 1]) /\ SetOnly(Named(lines[n + 1]), f[n].st, f[n + 1].st)
    BY <2>2, <2>3, <2>4, <2>5, LineSetsNamed
  <2>7. named(n + 1) = named(n) \cup Named(lines[n + 1])
    <3>1. 1..(n + 1) = 1..n \cup {n + 1} OBVIOUS
    <3>2. QED BY <3>1
  <2> HIDE DEF named
  <2>8. SetOnly(named(n + 1), st, f[n + 1].st) BY <2>3, <2>6, <2>7, SetOnlyTogether
  <2>9. QED BY <2>6, <2>8
<1>5. Len(lines) \in S
  <2> HIDE DEF S
  <2>1. QED BY <1>2, <1>3, <1>4, Inductive
<1>6. LoadConfig(st, known, lines, FALSE) = LoadLines(start, lines) BY DEF LoadConfig
<1>7. SetOnly(named(Len(lines)), st, f[Len(lines)].st)
  <2> HIDE DEF named
  <2>1. QED BY <1>5
<1>8. named(Len(lines)) = UNION {Named(lines[k]) : k \in DOMAIN lines} BY <1>2
<1> HIDE DEF named, start
<1>9. QED BY <1>1, <1>6, <1>7, <1>8

\* A load that merges raises nothing as long as nothing that was set has been
\* unset (Symbol.unset_value, Kconfig._assigned_twice), so that all of its lines
\* are read.
THEOREM MergeRaisesNothing ==
    ASSUME System, NEW st, Settings(st), NothingUnset(st), NEW known,
           NEW L, NEW lines \in Seq(L),
           \A k \in DOMAIN lines : lines[k].val \notin {None} \cup 0..2
    PROVE  LET end == LoadConfig(st, known, lines, FALSE) IN end.error = "none" /\ NothingUnset(end.st)
<1> DEFINE start == LoadStart(st, known, FALSE)
<1>1. PICK f : /\ f = [k \in 0..Len(lines) |-> IF k = 0 THEN start ELSE LoadLine(f[k - 1], lines[k])]
               /\ LoadLines(start, lines) = f[Len(lines)]
  <2> HIDE DEF start
  <2>1. QED BY LinesAreLoaded
<1>2. Len(lines) \in Nat /\ DOMAIN lines = 1..Len(lines) OBVIOUS
<1> DEFINE S == {n \in Nat : n <= Len(lines) => Loading(f[n])}
<1>3. 0 \in S
  <2>1. f[0] = start BY <1>1, <1>2
  <2>2. start = [st |-> st, missing |-> known, error |-> "none"] BY DEF LoadStart
  <2> HIDE DEF start
  <2>3. start.st = st /\ start.missing = known BY <2>2
  <2>4. Loading(start) BY <2>2, <2>3 DEF Loading
  <2>5. QED BY <2>1, <2>4
<1>4. ASSUME NEW n \in Nat, n \in S PROVE n + 1 \in S
  <2> SUFFICES ASSUME n + 1 <= Len(lines) PROVE Loading(f[n + 1]) OBVIOUS
  <2>1. n + 1 \in 0..Len(lines) /\ n + 1 # 0 /\ (n + 1) - 1 = n /\ n + 1 \in DOMAIN lines BY <1>2
  <2>2. f[n + 1] = LoadLine(f[n], lines[n + 1]) BY <1>1, <2>1
  <2>3. Loading(f[n]) BY <1>2, <1>4
  <2>4. lines[n + 1].val \notin {None} \cup 0..2 BY <2>1
  <2>5. QED BY <2>2, <2>3, <2>4, LineRaisesNothing
<1>5. Len(lines) \in S
  <2> HIDE DEF S
  <2>1. QED BY <1>2, <1>3, <1>4, Inductive
<1>6. LoadConfig(st, known, lines, FALSE) = LoadLines(start, lines) BY DEF LoadConfig
<1> HIDE DEF start
<1>7. QED BY <1>1, <1>5, <1>6 DEF Loading

----------------------------------------------------------------------------
\* A window may have more fields than those that scroll.
IsWindow(win) ==
    /\ win = [f \in DOMAIN win |-> win[f]]
    /\ {"sel", "scroll", "height"} \subseteq DOMAIN win
    /\ win.height \in Nat \ {0}

\* One line on or back (_select_next_menu_entry, _select_prev_menu_entry, and
\* the same of the search).
THEOREM LinesStayOnScreen ==
    ASSUME NEW V, NEW list \in Seq(V), NEW win, IsWindow(win), OnScreen(win, list)
    PROVE  /\ IsWindow(NextLine(win, list)) /\ OnScreen(NextLine(win, list), list)
           /\ IsWindow(PrevLine(win)) /\ OnScreen(PrevLine(win), list)
<1>1. Len(list) \in Nat OBVIOUS
<1>2. win.sel \in Nat /\ win.scroll \in Nat /\ win.sel < Len(list) /\ win.scroll <= win.sel
      /\ win.sel < win.scroll + win.height
  BY <1>1 DEF OnScreen, Greatest, IsWindow
<1> DEFINE moved(sel, scroll) == [win EXCEPT !.sel = sel, !.scroll = scroll]
<1>3. ASSUME NEW sel, NEW scroll, sel \in 0..Len(list) - 1, scroll \in Greatest(0, sel - win.height + 1)..sel
      PROVE  IsWindow(moved(sel, scroll)) /\ OnScreen(moved(sel, scroll), list)
  <2>1. moved(sel, scroll).sel = sel BY DEF IsWindow
  <2>2. moved(sel, scroll).scroll = scroll BY DEF IsWindow
  <2>3. moved(sel, scroll).height = win.height BY DEF IsWindow
  <2>4. DOMAIN moved(sel, scroll) = DOMAIN win BY DEF IsWindow
  <2>5. moved(sel, scroll) = [f \in DOMAIN moved(sel, scroll) |-> moved(sel, scroll)[f]] OBVIOUS
  <2>6. IsWindow(moved(sel, scroll)) BY <2>3, <2>4, <2>5 DEF IsWindow
  <2>7. OnScreen(moved(sel, scroll), list) BY <1>3, <2>1, <2>2, <2>3 DEF OnScreen
  <2>8. QED BY <2>6, <2>7
<1>4. IsWindow(NextLine(win, list)) /\ OnScreen(NextLine(win, list), list)
  <2>1. CASE win.sel >= Len(list) - 1 BY <2>1 DEF NextLine
  <2>2. CASE ~(win.sel >= Len(list) - 1)
    <3> DEFINE sel == win.sel + 1
               scroll == win.scroll + IF /\ win.sel + 1 >= win.scroll + win.height - ScrollOffset
                                        /\ win.scroll < MaxScroll(list, win.height) THEN 1 ELSE 0
    <3>1. NextLine(win, list) = moved(sel, scroll) BY <2>2 DEF NextLine
    <3>2. scroll \in Greatest(0, sel - win.height + 1)..sel
      BY <1>1, <1>2, <2>2, OffsetAssumption DEF Greatest, MaxScroll, IsWindow
    <3>3. sel \in 0..Len(list) - 1 BY <1>1, <1>2, <2>2
    <3> HIDE DEF sel, scroll, moved
    <3>4. QED BY <1>3, <3>1, <3>2, <3>3
  <2>3. QED BY <2>1, <2>2
<1>5. IsWindow(PrevLine(win)) /\ OnScreen(PrevLine(win), list)
  <2>1. CASE win.sel <= 0 BY <2>1 DEF PrevLine
  <2>2. CASE ~(win.sel <= 0)
    <3> DEFINE scroll == IF win.sel - 1 < win.scroll + ScrollOffset THEN Greatest(win.scroll - 1, 0) ELSE win.scroll
    <3>1. PrevLine(win) = moved(win.sel - 1, scroll) BY <2>2 DEF PrevLine
    <3>2. scroll \in Greatest(0, win.sel - 1 - win.height + 1)..win.sel - 1
      BY <1>1, <1>2, <2>2, OffsetAssumption DEF Greatest, IsWindow
    <3>3. win.sel - 1 \in 0..Len(list) - 1 BY <1>1, <1>2, <2>2
    <3> HIDE DEF scroll, moved
    <3>4. QED BY <1>3, <3>1, <3>2, <3>3
  <2>3. QED BY <2>1, <2>2
<1>6. QED BY <1>4, <1>5

\* The lines that Lines goes over one by one.
LEMMA LinesOneByOne ==
    ASSUME NEW win, NEW list, NEW k \in Int
    PROVE  \E f : /\ f = [j \in 0..Greatest(k, -k) |->
                            IF j = 0 THEN win
                            ELSE IF k > 0 THEN NextLine(f[j - 1], list) ELSE PrevLine(f[j - 1])]
                  /\ Lines(win, list, k) = f[Greatest(k, -k)]
<1> DEFINE step(p) == IF k > 0 THEN NextLine(p, list) ELSE PrevLine(p)
           upTo(n, f) == f = [j \in 0..n |-> IF j = 0 THEN win ELSE step(f[j - 1])]
           S == {n \in Nat : \E f : upTo(n, f)}
<1>1. 0 \in S
  <2>1. upTo(0, [j \in 0..0 |-> win]) OBVIOUS
  <2>2. QED BY <2>1
<1>2. ASSUME NEW n \in Nat, n \in S PROVE n + 1 \in S
  <2>1. PICK f : upTo(n, f) BY <1>2
  <2> DEFINE g == [j \in 0..n + 1 |-> IF j = n + 1 THEN step(f[n]) ELSE f[j]]
             h == [j \in 0..n + 1 |-> IF j = 0 THEN win ELSE step(g[j - 1])]
  <2> HIDE DEF step
  <2>2. ASSUME NEW j \in 0..n + 1 PROVE g[j] = h[j]
    <3>1. CASE j = n + 1
      <4>1. g[n] = f[n] OBVIOUS
      <4>2. j # 0 /\ j - 1 = n BY <3>1
      <4>3. g[j] = step(f[n]) BY <3>1
      <4>4. h[j] = step(g[j - 1]) BY <4>2
      <4>5. QED BY <4>1, <4>2, <4>3, <4>4
    <3>2. CASE j # n + 1
      <4>1. j \in 0..n BY <3>2
      <4>2. g[j] = f[j] BY <3>2
      <4>3. CASE j = 0 BY <2>1, <4>1, <4>2, <4>3
      <4>4. CASE j # 0
        <5>1. j - 1 \in 0..n /\ j - 1 # n + 1 /\ j - 1 \in 0..n + 1 BY <4>1, <4>4
        <5>2. g[j - 1] = f[j - 1] BY <5>1
        <5>3. f[j] = step(f[j - 1]) BY <2>1, <4>1, <4>4
        <5>4. h[j] = step(g[j - 1]) BY <4>4
        <5>5. QED BY <4>2, <5>2, <5>3, <5>4
      <4>5. QED BY <4>3, <4>4
    <3>3. QED BY <3>1, <3>2
  <2>3. g = h BY <2>2
  <2>4. upTo(n + 1, g) BY <2>3
  <2> HIDE DEF g, upTo
  <2>5. QED BY <2>4
<1>3. Greatest(k, -k) \in S
  <2> HIDE DEF S
  <2>1. Greatest(k, -k) \in Nat BY DEF Greatest
  <2>2. QED BY <1>1, <1>2, <2>1, Inductive
<1> DEFINE f == CHOOSE f : upTo(Greatest(k, -k), f)
<1>4. upTo(Greatest(k, -k), f) BY <1>3
<1>5. Lines(win, list, k) = f[Greatest(k, -k)] BY DEF Lines
<1>6. QED BY <1>4, <1>5

\* A page on or back (KEY_NPAGE, KEY_PPAGE), of any number of lines, leaves the
\* selected line on the screen.
THEOREM PagesStayOnScreen ==
    ASSUME NEW V, NEW list \in Seq(V), NEW win, IsWindow(win), OnScreen(win, list), NEW k \in Int
    PROVE  IsWindow(Lines(win, list, k)) /\ OnScreen(Lines(win, list, k), list)
<1> DEFINE N == Greatest(k, -k)
<1>1. N \in Nat BY DEF Greatest
<1>2. PICK f : /\ f = [j \in 0..N |->
                          IF j = 0 THEN win
                          ELSE IF k > 0 THEN NextLine(f[j - 1], list) ELSE PrevLine(f[j - 1])]
               /\ Lines(win, list, k) = f[N]
  BY LinesOneByOne
<1> HIDE DEF N
<1> DEFINE S == {n \in Nat : n <= N => IsWindow(f[n]) /\ OnScreen(f[n], list)}
<1>3. 0 \in S BY <1>1, <1>2
<1>4. ASSUME NEW n \in Nat, n \in S PROVE n + 1 \in S
  <2> SUFFICES ASSUME n + 1 <= N PROVE IsWindow(f[n + 1]) /\ OnScreen(f[n + 1], list) OBVIOUS
  <2>1. n + 1 \in 0..N /\ n + 1 # 0 /\ (n + 1) - 1 = n BY <1>1
  <2>2. f[n + 1] = IF k > 0 THEN NextLine(f[n], list) ELSE PrevLine(f[n]) BY <1>2, <2>1
  <2>3. IsWindow(f[n]) /\ OnScreen(f[n], list) BY <1>1, <1>4
  <2>4. QED BY <2>2, <2>3, LinesStayOnScreen
<1>5. N \in S
  <2> HIDE DEF S
  <2>1. QED BY <1>1, <1>3, <1>4, Inductive
<1>6. QED BY <1>2, <1>5

\* The first and the last line (_select_first_menu_entry,
\* _select_last_menu_entry) are on the screen, wherever it was.
THEOREM EndsAreOnScreen ==
    ASSUME NEW V, NEW list \in Seq(V), list # <<>>, NEW win, IsWindow(win)
    PROVE  OnScreen(FirstLine(win), list) /\ OnScreen(LastLine(win, list), list)
<1>1. Len(list) \in Nat \ {0} OBVIOUS
<1>2. QED BY <1>1 DEF IsWindow, FirstLine, LastLine, OnScreen, Greatest, MaxScroll

\* A line that is jumped to is on the screen, in the middle or where the list
\* allows it (_center_vertically).
THEOREM CenteredIsOnScreen ==
    ASSUME NEW V, NEW list \in Seq(V), NEW win, IsWindow(win), win.sel \in 0..Len(list) - 1
    PROVE  OnScreen(Centered(win, list), list)
<1>1. Len(list) \in Nat OBVIOUS
<1>2. win.height \div 2 \in Nat /\ win.height \div 2 < win.height BY DEF IsWindow
<1> DEFINE mid == win.height \div 2
<1>3. mid \in Nat /\ mid < win.height BY <1>2
<1> HIDE DEF mid
<1>4. Centered(win, list) = [win EXCEPT !.scroll = Least(Greatest(win.sel - mid, 0), MaxScroll(list, win.height))]
  BY DEF Centered, mid
<1>5. QED BY <1>1, <1>3, <1>4 DEF IsWindow, OnScreen, Greatest, Least, MaxScroll

\* A line is on the screen in any row that the window has, though there may not
\* be lines enough above it (_change_node and others that keep the row).
THEOREM RowIsOnScreen ==
    ASSUME NEW V, NEW list \in Seq(V), NEW win, IsWindow(win), win.sel \in 0..Len(list) - 1,
           NEW row \in 0..win.height - 1
    PROVE  OnScreen(InRow(win, row), list)
<1>1. Len(list) \in Nat OBVIOUS
<1>2. QED BY <1>1 DEF IsWindow, OnScreen, Greatest, InRow

\* The row that is kept is one of the window.
THEOREM RowsStayInWindow ==
    ASSUME NEW V, NEW list \in Seq(V), NEW win, IsWindow(win), OnScreen(win, list)
    PROVE  Row(win) \in 0..win.height - 1
<1>1. Len(list) \in Nat OBVIOUS
<1>2. QED BY <1>1 DEF IsWindow, OnScreen, Greatest, Row

\* A terminal of any size leaves the selected line on the screen (_resize_main,
\* _resize_jump_to_dialog).
THEOREM FittedIsOnScreen ==
    ASSUME NEW V, NEW list \in Seq(V), NEW win, IsWindow(win), OnScreen(win, list), NEW t \in Nat, NEW help \in BOOLEAN,
           NEW height \in {MenuHeight(t, help), MatchesHeight(t)}
    PROVE  IsWindow(Fitted(win, height)) /\ OnScreen(Fitted(win, height), list)
<1>1. Len(list) \in Nat OBVIOUS
<1>2. height \in Nat \ {0} BY DEF MenuHeight, MatchesHeight, Greatest
<1> DEFINE scroll == IF win.sel - win.scroll >= height THEN win.sel - height + 1 ELSE win.scroll
           fitted == Fitted(win, height)
<1>3. fitted = [win EXCEPT !.height = height, !.scroll = scroll] BY DEF Fitted
<1>4. fitted.sel = win.sel /\ fitted.scroll = scroll /\ fitted.height = height /\ DOMAIN fitted = DOMAIN win
  BY <1>3 DEF IsWindow
<1>5. fitted = [f \in DOMAIN fitted |-> fitted[f]] BY <1>3
<1>6. scroll \in Greatest(0, win.sel - height + 1)..win.sel
  BY <1>1, <1>2 DEF IsWindow, OnScreen, Greatest
<1>7. win.sel \in 0..Len(list) - 1 BY DEF OnScreen
<1> HIDE DEF fitted, scroll
<1>8. IsWindow(fitted) BY <1>2, <1>4, <1>5 DEF IsWindow
<1>9. OnScreen(fitted, list) BY <1>4, <1>6, <1>7 DEF OnScreen
<1>10. QED BY <1>8, <1>9 DEF fitted

----------------------------------------------------------------------------
(* sync_deps() keeps the promise of IncrementalBuild, for all symbols, all  *)
(* values of them and any auto.conf that a sync wrote before.               *)

\* A value that is not written down as n where missing means n.
NoOldN(file) == file = Absent \/ \A k \in DOMAIN file : file[k].name \in tris => file[k].val # "n"

SyncTypeOK ==
    /\ order \in Seq(Names) /\ tris \subseteq Defined
    /\ auto \in Files \cup {Absent}
    /\ touched \subseteq Names
    /\ stage \in {"idle", "compare", "fill", "done"}
    /\ at \in 0..Len(order)
    /\ stage # "idle" => values \in Values

\* While symbols are compared, the old values are those of auto.conf, and
\* whatever was found to have changed has been touched.
ComparedSoFar ==
    stage = "compare" =>
        /\ old = [s \in Defined |-> Remembered[s]]
        /\ Gone \subseteq touched
        /\ \A k \in 1..at : Changed(order[k]) => order[k] \in touched

IInv == SyncTypeOK /\ NoOldN(auto) /\ ComparedSoFar

----------------------------------------------------------------------------
(* What a file says.                                                        *)

\* A set of positions that is not empty has a last one.
LEMMA LastPosition ==
    ASSUME NEW n \in Nat, NEW K \in SUBSET (1..n), K # {}
    PROVE  \E k \in K : \A j \in K : j <= k
<1> DEFINE T == {n - k : k \in K}
<1>1. T \subseteq Nat /\ T # {}
  <2>1. \A k \in K : k \in 1..n /\ n - k \in Nat OBVIOUS
  <2>2. QED BY <2>1
<1>2. \E x \in T : \A y \in T : ~(<<y, x>> \in OpToRel(<, Nat))
  <2> HIDE DEF T
  <2>1. QED BY <1>1, WFMin, NatLessThanWellFounded, Zenon
<1>3. PICK x \in T : \A y \in T : ~(y < x) BY <1>1, <1>2 DEF OpToRel
<1>4. PICK k \in K : x = n - k BY <1>3
<1>5. \A j \in K : j <= k
  <2> SUFFICES ASSUME NEW j \in K PROVE j <= k OBVIOUS
  <2>1. ~(n - j < n - k) BY <1>3, <1>4
  <2>2. j \in Int /\ k \in Int OBVIOUS
  <2>3. QED BY <2>1, <2>2
<1>6. QED BY <1>5

\* What is read of a name is the value of one of its lines (_load_old_vals).
LEMMA ReadFromLine ==
    ASSUME NEW file \in Files \cup {Absent}, NEW n \in Names, LinesOf(file, n) # {}
    PROVE  \E k \in LinesOf(file, n) : ReadIn(file)[n] = file[k].val
<1> DEFINE lines == LinesOf(file, n)
<1>1. file \in Files /\ lines \in SUBSET (1..Len(file)) /\ Len(file) \in Nat
  BY DEF LinesOf, Files
<1>2. \E k \in lines : \A j \in lines : j <= k BY <1>1, LastPosition
<1>3. (CHOOSE k \in lines : \A j \in lines : j <= k) \in lines BY <1>2
<1>4. ReadIn(file)[n] = file[CHOOSE k \in lines : \A j \in lines : j <= k].val BY DEF ReadIn
<1>5. QED BY <1>3, <1>4

LEMMA ReadText ==
    ASSUME NEW file \in Files \cup {Absent}, NEW n \in Names
    PROVE  /\ ReadIn(file)[n] \in Texts \cup {Absent}
           /\ ReadIn(file)[n] = Absent <=> LinesOf(file, n) = {}
           /\ NoOldN(file) /\ n \in tris => ReadIn(file)[n] # "n" \/ ReadIn(file)[n] = Absent
<1>1. CASE LinesOf(file, n) = {} BY <1>1 DEF ReadIn
<1>2. CASE LinesOf(file, n) # {}
  <2>1. PICK k \in LinesOf(file, n) : ReadIn(file)[n] = file[k].val BY <1>2, ReadFromLine
  <2>2. file # Absent /\ file \in Files /\ k \in DOMAIN file /\ file[k].name = n /\ file[k].val # Absent
    BY DEF LinesOf
  <2>3. file[k].val \in Texts \cup {Absent}
    <3>1. \A L : file \in Seq(L) => file[k] \in L BY <2>2
    <3>2. file[k] \in [name : Names, val : Texts \cup {Absent}] BY <2>2, <3>1, Zenon DEF Files
    <3>3. QED BY <3>2
  <2>4. QED BY <1>2, <2>1, <2>2, <2>3 DEF NoOldN
<1>3. QED BY <1>1, <1>2

LEMMA ReadTold == ASSUME NEW file \in Files \cup {Absent} PROVE ReadIn(file) \in Promised!Told
BY ReadText DEF ReadIn, Promised!Told

\* The header and auto.conf tell the same of every symbol, although one leaves out
\* what is neither y nor m and the other what is n (_autoconf_contents,
\* _old_vals_contents).
LEMMA AutoTellsHeader ==
    ASSUME order \in Seq(Names), tris \subseteq Defined, values \in Values
    PROVE  /\ AutoContents \in Files /\ NoOldN(AutoContents)
           /\ ReadIn(AutoContents) = Header
<1>1. \A k \in DOMAIN order : order[k] \in Names /\ order[k] \in Defined BY DEF Defined
<1>2. \A s \in Defined : values[s].text \in Texts /\ (s \in tris => values[s].text \in TriTexts)
  BY DEF Values
<1>3. \A k \in DOMAIN order : AutoContents[k] = [name |-> order[k], val |-> Header[order[k]]]
  BY <1>1, <1>2 DEF AutoContents, Header, TriTexts, Values
<1>4. \A n \in Names : Header[n] \in Texts \cup {Absent} BY <1>2 DEF Header
<1>5. AutoContents \in Files
  <2>1. \A k \in DOMAIN order : AutoContents[k] \in [name : Names, val : Texts \cup {Absent}]
    <3> SUFFICES ASSUME NEW k \in DOMAIN order
                 PROVE  AutoContents[k] \in [name : Names, val : Texts \cup {Absent}]
        OBVIOUS
    <3>1. Header[order[k]] \in Texts \cup {Absent} BY <1>1, <1>4
    <3>2. [name |-> order[k], val |-> Header[order[k]]] \in [name : Names, val : Texts \cup {Absent}]
      BY <1>1, <3>1
    <3>3. QED BY <1>3, <3>2
  <2>2. DOMAIN AutoContents = 1..Len(order) /\ Len(order) \in Nat BY DEF AutoContents
  <2>3. AutoContents = [k \in 1..Len(order) |-> AutoContents[k]] BY <2>2 DEF AutoContents
  <2>4. \A L : (\A k \in 1..Len(order) : AutoContents[k] \in L) => AutoContents \in Seq(L)
    BY <2>2, <2>3
  <2>5. DOMAIN order = 1..Len(order) OBVIOUS
  <2>6. QED BY <2>1, <2>4, <2>5, Zenon DEF Files
<1>6. NoOldN(AutoContents)
  <2>1. \A k \in DOMAIN order : order[k] \in tris => AutoContents[k].val # "n" 
    <3> SUFFICES ASSUME NEW k \in DOMAIN order, order[k] \in tris
                 PROVE  AutoContents[k].val # "n"
        OBVIOUS
    <3>1. AutoContents[k] = [name |-> order[k], val |-> Header[order[k]]] BY <1>3
    <3>2. order[k] \in Names BY <1>1
    <3>3. Header[order[k]] # "n" BY <3>2, AbsentIsNothing DEF Header, TriTexts
    <3>4. AutoContents[k].val = Header[order[k]] BY <3>1
    <3>5. QED BY <3>3, <3>4
  <2>2. QED BY <1>3, <2>1 DEF NoOldN, AutoContents
<1>7. ASSUME NEW n \in Names PROVE ReadIn(AutoContents)[n] = Header[n]
  <2>1. LinesOf(AutoContents, n) = {k \in DOMAIN order : order[k] = n /\ Header[n] # Absent}
    <3>1. AutoContents # Absent BY <1>5, AbsentIsNothing
    <3>2. DOMAIN AutoContents = DOMAIN order BY DEF AutoContents
    <3>3. QED BY <1>3, <3>1, <3>2 DEF LinesOf
  <2>2. CASE LinesOf(AutoContents, n) = {}
    <3>1. n \in Defined => Header[n] = Absent BY <2>1, <2>2 DEF Defined
    <3>2. Header[n] = Absent BY <3>1 DEF Header
    <3>3. QED BY <2>2, <3>2 DEF ReadIn
  <2>3. CASE LinesOf(AutoContents, n) # {}
    <3>1. PICK k \in LinesOf(AutoContents, n) : ReadIn(AutoContents)[n] = AutoContents[k].val
      BY <1>5, <2>3, ReadFromLine
    <3>2. k \in DOMAIN order /\ order[k] = n BY <2>1
    <3>3. AutoContents[k] = [name |-> n, val |-> Header[n]] BY <1>3, <3>2
    <3>4. AutoContents[k].val = Header[n] BY <3>3
    <3>5. QED BY <3>1, <3>4
  <2>4. QED BY <2>2, <2>3
<1>8. ReadIn(AutoContents) = Header
  BY <1>7 DEF ReadIn, Header
<1>9. QED BY <1>5, <1>6, <1>8

LEMMA HeaderTold ==
    ASSUME values \in Values PROVE Header \in Promised!Told
BY DEF Header, Values, Promised!Told

\* The comparison finds a symbol to have changed if the build will be told anew of
\* it (sync_deps).
LEMMA ChangedMeansDiffers ==
    ASSUME SyncTypeOK, NoOldN(auto), values \in Values,
           old = [s \in Defined |-> Remembered[s]], NEW s \in Defined
    PROVE  Changed(s) <=> Remembered[s] # Header[s]
<1>1. s \in Names BY DEF SyncTypeOK, Defined
<1>2. old[s] = Remembered[s] OBVIOUS
<1>3. Remembered[s] \in Texts \cup {Absent} /\ (s \in tris => Remembered[s] # "n" \/ Remembered[s] = Absent)
  BY <1>1, ReadText DEF SyncTypeOK, Remembered
<1>4. values[s].text \in Texts /\ (s \in tris => values[s].text \in TriTexts) BY DEF Values
<1>5. Header[s] = IF values[s].write /\ (s \in tris => values[s].text \in {"y", "m"})
                  THEN values[s].text ELSE Absent
  BY <1>1 DEF Header
<1>6. CASE ~values[s].write BY <1>2, <1>5, <1>6 DEF Changed
<1>7. CASE values[s].write /\ s \notin tris BY <1>2, <1>4, <1>5, <1>7 DEF Changed
<1>8. CASE values[s].write /\ s \in tris
  BY <1>2, <1>3, <1>4, <1>5, <1>8, AbsentIsNothing DEF Changed, TriTexts
<1>9. QED BY <1>6, <1>7, <1>8

\* A name that no symbol has any more, and that auto.conf tells of, differs.
LEMMA GoneDiffers ==
    ASSUME SyncTypeOK
    PROVE  \A n \in Names \ Defined : n \in Gone <=> Remembered[n] # Header[n]
<1> SUFFICES ASSUME NEW n \in Names \ Defined PROVE n \in Gone <=> Remembered[n] # Header[n]
    OBVIOUS
<1>1. Header[n] = Absent BY DEF Header
<1>2. Remembered[n] = Absent <=> LinesOf(auto, n) = {} BY ReadText DEF SyncTypeOK, Remembered
<1>3. QED BY <1>1, <1>2 DEF Gone

----------------------------------------------------------------------------
(* The inductive invariant.                                                 *)

LEMMA InitInvariant == SyncInit => IInv
<1> SUFFICES ASSUME SyncInit PROVE IInv OBVIOUS
<1>1. 0 \in 0..Len(order) BY DEF SyncInit
<1>2. SyncTypeOK BY <1>1 DEF SyncInit, SyncStarts, WrittenBefore, SyncTypeOK
<1>3. NoOldN(auto) BY DEF SyncInit, WrittenBefore, NoOldN
<1>4. ComparedSoFar BY DEF SyncInit, SyncStarts, ComparedSoFar
<1>5. QED BY <1>2, <1>3, <1>4 DEF IInv

LEMMA TypeStep == SyncTypeOK /\ [SyncNext]_syncVars => SyncTypeOK'
<1> SUFFICES ASSUME SyncTypeOK, [SyncNext]_syncVars PROVE SyncTypeOK' OBVIOUS
<1> USE DEF SyncTypeOK, symbolVars
<1>1. Len(order) \in Nat OBVIOUS
<1>2. CASE Start
  <2>1. values' \in Values' BY <1>2 DEF Start, Values, Defined
  <2>2. QED BY <1>1, <1>2, <2>1 DEF Start, Gone, Defined
<1>3. CASE Compare
  <2>1. order[at + 1] \in Names BY <1>1, <1>3 DEF Compare
  <2>2. values' \in Values' BY <1>3 DEF Compare, Values, Defined
  <2>3. at' \in 0..Len(order') BY <1>1, <1>3 DEF Compare
  <2>4. QED BY <1>3, <2>1, <2>2, <2>3 DEF Compare, Defined
<1>4. CASE Record
  <2>1. values' \in Values' BY <1>4 DEF Record, Values, Defined
  <2>2. <<>> \in Files BY DEF Files
  <2>3. QED BY <1>4, <2>1, <2>2 DEF Record, Defined
<1>5. CASE Fill
  <2>1. values' \in Values' BY <1>5 DEF Fill, Values, Defined
  <2>2. AutoContents \in Files BY <1>5, AutoTellsHeader DEF Fill
  <2>3. QED BY <1>5, <2>1, <2>2 DEF Fill, Defined
<1>6. CASE Build BY <1>6 DEF Build, Defined
<1>7. CASE CutOff BY <1>7 DEF CutOff, Defined
<1>8. CASE UNCHANGED syncVars BY <1>8 DEF syncVars, Values, Defined
<1>9. QED BY <1>2, <1>3, <1>4, <1>5, <1>6, <1>7, <1>8 DEF SyncNext

LEMMA OldNStep == IInv /\ [SyncNext]_syncVars => NoOldN(auto)'
<1> SUFFICES ASSUME IInv, [SyncNext]_syncVars PROVE NoOldN(auto)' OBVIOUS
<1> USE DEF IInv, NoOldN, symbolVars
<1>1. CASE Record BY <1>1 DEF Record
<1>2. CASE Fill
  <2>1. NoOldN(AutoContents) BY <1>2, AutoTellsHeader DEF Fill, SyncTypeOK
  <2>2. QED BY <1>2, <2>1 DEF Fill
<1>3. CASE Start \/ Compare \/ Build \/ CutOff \/ UNCHANGED syncVars
  BY <1>3 DEF Start, Compare, Build, CutOff, syncVars
<1>4. QED BY <1>1, <1>2, <1>3 DEF SyncNext

LEMMA ComparedStep == IInv /\ [SyncNext]_syncVars => ComparedSoFar'
<1> SUFFICES ASSUME IInv, [SyncNext]_syncVars, stage' = "compare"
             PROVE  /\ old' = [s \in Defined' |-> Remembered'[s]]
                    /\ Gone' \subseteq touched'
                    /\ \A k \in 1..at' : Changed(order[k])' => (order[k] \in touched)'
    BY DEF ComparedSoFar
<1>1. CASE Start
  <2>1. UNCHANGED <<order, tris, auto>> /\ at' = 0 BY <1>1 DEF Start, symbolVars
  <2>2. Defined' = Defined /\ Remembered' = Remembered /\ Gone' = Gone
    BY <2>1 DEF Defined, Remembered, Gone
  <2>3. QED BY <1>1, <2>1, <2>2 DEF Start
<1>2. CASE Compare
  <2>1. UNCHANGED <<order, tris, values, auto, old>> /\ at' = at + 1 /\ stage = "compare"
    BY <1>2 DEF Compare, symbolVars
  <2>2. Defined' = Defined /\ Remembered' = Remembered /\ Gone' = Gone
    BY <2>1 DEF Defined, Remembered, Gone
  <2>3. \A k \in 1..(at + 1) : Changed(order[k])' <=> Changed(order[k]) BY <2>1 DEF Changed
  <2>4. at \in Nat BY DEF IInv, SyncTypeOK
  <2>5. \A k \in 1..(at + 1) : k \in 1..at \/ k = at + 1 BY <2>4
  <2>6. ASSUME NEW k \in 1..at', Changed(order[k])' PROVE (order[k] \in touched)'
    <3>1. Changed(order[k]) BY <2>1, <2>3, <2>6
    <3>2. CASE k \in 1..at BY <1>2, <2>1, <3>1, <3>2 DEF Compare, IInv, ComparedSoFar
    <3>3. CASE k = at + 1 BY <1>2, <2>1, <3>1, <3>3 DEF Compare
    <3>4. QED BY <2>1, <2>5, <3>2, <3>3
  <2>7. QED BY <1>2, <2>1, <2>2, <2>6 DEF Compare, IInv, ComparedSoFar
<1>3. CASE Record \/ Fill \/ Build \/ CutOff BY <1>3 DEF Record, Fill, Build, CutOff
<1>4. CASE UNCHANGED syncVars
  <2>1. UNCHANGED <<order, tris, values, auto, old, touched, at, stage>>
    BY <1>4 DEF syncVars, symbolVars
  <2>2. Defined' = Defined /\ Remembered' = Remembered /\ Gone' = Gone
    BY <2>1 DEF Defined, Remembered, Gone
  <2>3. \A k \in 1..at : Changed(order[k])' <=> Changed(order[k]) BY <2>1 DEF Changed
  <2>4. QED BY <2>1, <2>2, <2>3 DEF IInv, ComparedSoFar
<1>5. QED BY <1>1, <1>2, <1>3, <1>4 DEF SyncNext

LEMMA Invariant == SyncSpec => []IInv
<1>1. IInv /\ [SyncNext]_syncVars => IInv' BY TypeStep, OldNStep, ComparedStep DEF IInv
<1>2. QED BY InitInvariant, <1>1, PTL DEF SyncSpec

----------------------------------------------------------------------------
(* Steps of a sync are steps of the promise.                                *)

LEMMA InitImplements == SyncInit => Promised!Init
<1> SUFFICES ASSUME SyncInit PROVE Promised!Init OBVIOUS
<1>1. Remembered \in Promised!Told
  BY ReadTold DEF SyncInit, WrittenBefore, Remembered
<1>2. QED BY <1>1 DEF SyncInit, SyncStarts, Promised!Init

\* The names that were touched at once are no symbols, and differ.
LEMMA StartImplements == IInv /\ IInv' /\ Start => Promised!Start
<1> SUFFICES ASSUME IInv, IInv', Start PROVE Promised!Start OBVIOUS
<1>1. stage' = "compare" /\ UNCHANGED <<order, tris, auto>> BY DEF Start, symbolVars
<1>2. values' \in Values' BY <1>1 DEF IInv, SyncTypeOK
<1>3. Header' \in Promised!Told BY <1>1, <1>2 DEF Header, Values, Promised!Told
<1>4. Remembered' = Remembered BY <1>1 DEF Remembered
<1>5. Gone \subseteq {n \in Names : Remembered[n] # Header'[n]}
  <2> SUFFICES ASSUME NEW n \in Gone PROVE n \in Names /\ Remembered[n] # Header'[n] OBVIOUS
  <2>1. n \in Names /\ n \notin Defined /\ LinesOf(auto, n) # {} BY DEF Gone
  <2>2. Remembered[n] # Absent BY <2>1, ReadText DEF IInv, SyncTypeOK, Remembered
  <2>3. Header'[n] = Absent BY <1>1, <2>1 DEF Header, Defined
  <2>4. QED BY <2>1, <2>2, <2>3
<1>6. touched' = touched \cup Gone BY DEF Start
<1>7. QED BY <1>1, <1>3, <1>4, <1>5, <1>6 DEF Start, Promised!Start, Promised!Differs

LEMMA CompareImplements == IInv /\ Compare => Promised!Touch
<1> SUFFICES ASSUME IInv, Compare PROVE Promised!Touch OBVIOUS
<1> DEFINE some == IF Changed(order[at + 1]) THEN {order[at + 1]} ELSE {}
<1>1. stage = "compare" /\ UNCHANGED <<order, tris, values, auto, stage, built, cut>>
  BY DEF Compare, symbolVars
<1>2. Header' = Header /\ Remembered' = Remembered BY <1>1 DEF Header, Defined, Remembered
<1>3. order[at + 1] \in Names /\ order[at + 1] \in Defined
  BY DEF Compare, IInv, SyncTypeOK, Defined
<1>4. some \subseteq {n \in Names : Remembered[n] # Header[n]}
  BY <1>1, <1>3, ChangedMeansDiffers DEF IInv, ComparedSoFar, SyncTypeOK
<1>5. touched' = touched \cup some BY DEF Compare
<1>6. QED BY <1>1, <1>2, <1>4, <1>5 DEF Promised!Touch, Promised!Differs

\* Where the comparison ends, every symbol that changed has been touched, and so
\* have the names that are gone.
LEMMA AllCompared ==
    ASSUME IInv, stage = "compare", at = Len(order)
    PROVE  \A n \in Names : Remembered[n] # Header[n] => n \in touched
<1> SUFFICES ASSUME NEW n \in Names, Remembered[n] # Header[n] PROVE n \in touched OBVIOUS
<1> USE DEF IInv, ComparedSoFar
<1>1. CASE n \in Defined
  <2>1. Changed(n) BY <1>1, ChangedMeansDiffers DEF SyncTypeOK
  <2>2. PICK k \in 1..Len(order) : n = order[k] BY <1>1 DEF Defined, SyncTypeOK
  <2>3. QED BY <2>1, <2>2
<1>2. CASE n \notin Defined BY <1>2, GoneDiffers
<1>3. QED BY <1>1, <1>2

LEMMA RecordImplements == IInv /\ Record => Promised!Record
<1> SUFFICES ASSUME IInv, Record PROVE Promised!Record OBVIOUS
<1>1. /\ stage = "compare" /\ stage' # "idle"
      /\ UNCHANGED <<order, tris, values, touched, built, cut>>
  BY DEF Record, symbolVars
<1>2. Header' = Header BY <1>1 DEF Header, Defined
<1>3. \A n \in Names : Remembered[n] # Header[n] => n \in touched
  BY <1>1, AllCompared DEF Record
<1>4. CASE auto = AutoContents
  <2>1. Remembered = Header BY <1>1, <1>4, AutoTellsHeader DEF IInv, SyncTypeOK, Remembered
  <2>2. Remembered' = Remembered BY <1>4 DEF Record, Remembered
  <2>3. QED BY <1>1, <1>2, <1>3, <1>4, <2>1, <2>2 DEF Record, Promised!Record, Promised!Differs
<1>5. CASE auto # AutoContents
  <2>1. auto' = <<>> BY <1>5 DEF Record
  <2>2. Remembered' = [n \in Names |-> Absent] BY <2>1 DEF Remembered, ReadIn, LinesOf
  <2>3. QED BY <1>1, <1>2, <1>3, <1>5, <2>2 DEF Record, Promised!Record, Promised!Differs
<1>6. QED BY <1>4, <1>5

LEMMA FillImplements == IInv /\ Fill => Promised!Fill
<1> SUFFICES ASSUME IInv, Fill PROVE Promised!Fill OBVIOUS
<1>1. /\ stage = "fill" /\ stage' = "done" /\ auto' = AutoContents
      /\ UNCHANGED <<order, tris, values, touched, built, cut>>
  BY DEF Fill, symbolVars
<1>2. Header' = Header BY <1>1 DEF Header, Defined
<1>3. Remembered' = Header BY <1>1, AutoTellsHeader DEF IInv, SyncTypeOK, Remembered
<1>4. QED BY <1>1, <1>2, <1>3 DEF Promised!Fill

LEMMA BuildImplements == Build => Promised!Build
BY DEF Build, Promised!Build, Remembered

LEMMA CutOffImplements == CutOff => Promised!CutOff
BY DEF CutOff, Promised!CutOff, Remembered

LEMMA StutterImplements == UNCHANGED syncVars => UNCHANGED Promised!vars
BY DEF syncVars, symbolVars, Promised!vars, Remembered, Header, Defined

\* sync_deps() does what IncrementalBuild promises, whatever it is cut off in and
\* whatever is set between (Kconfig.sync_deps).
THEOREM SyncImplements == SyncSpec => ImplementsBuild
<1>1. IInv /\ IInv' /\ [SyncNext]_syncVars => [Promised!Next]_(Promised!vars)
  BY StartImplements, CompareImplements, RecordImplements, FillImplements, BuildImplements,
     CutOffImplements, StutterImplements DEF SyncNext, Promised!Next
<1>2. QED BY <1>1, InitImplements, Invariant, PTL DEF SyncSpec, ImplementsBuild, Promised!Spec

----------------------------------------------------------------------------
(* What is proved of the promise holds of sync_deps().                      *)

Promises == INSTANCE IncrementalBuildProofs WITH
    config <- IF stage = "idle" THEN built ELSE Header,
    remembered <- Remembered,
    None <- Absent

LEMMA SamePromise == Promised!Spec => Promises!Spec
<1>1. Promised!Init => Promises!Init
  BY DEF Promised!Init, Promises!Init, Promised!Told, Promises!Told
<1>2. [Promised!Next]_(Promised!vars) => [Promises!Next]_(Promises!vars)
  BY DEF Promised!Next, Promises!Next, Promised!vars, Promises!vars,
         Promised!Start, Promises!Start, Promised!Touch, Promises!Touch,
         Promised!Record, Promises!Record, Promised!Fill, Promises!Fill,
         Promised!Build, Promises!Build, Promised!CutOff, Promises!CutOff,
         Promised!Told, Promises!Told, Promised!Differs, Promises!Differs
<1>3. QED BY <1>1, <1>2, PTL DEF Promised!Spec, Promises!Spec

\* Once a sync is done, the files are touched of all names that the header tells
\* anew, as long as no sync was cut off while it wrote (Kconfig.sync_deps).
THEOREM SyncTouchesChanges == SyncSpec => []Promises!TouchesChanges
BY SyncImplements, SamePromise, Promises!AllChangesTouched, PTL DEF ImplementsBuild

\* The first sync after a build touches no other file (Kconfig.sync_deps).
THEOREM SyncTouchesOnlyChanges == SyncSpec => []Promises!TouchesOnlyChanges
BY SyncImplements, SamePromise, Promises!OnlyChangesTouched, PTL DEF ImplementsBuild
=============================================================================
