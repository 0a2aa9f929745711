----------------------------- MODULE HouseProofs -----------------------------
(***************************************************************************)
(* What the terms of the house guarantee for every set of rules, extras,   *)
(* prices, seasons and stays, and for every number of panel requests: a    *)
(* night has one price, a stay costs what its halves cost, a refund is     *)
(* part of the bill and falls with time.                                   *)
(*                                                                         *)
(* Shapes is what every interleaving keeps.  RuleTrail and SettingsTrail   *)
(* are kept while the edits of one kind come one at a time, a hypothesis   *)
(* of the theorems that need it.                                           *)
(***************************************************************************)
EXTENDS House, FiniteSetTheorems, TLAPS

(***************************************************************************)
(* Induction.  The library's principles quantify over predicates; these    *)
(* speak of sets, which a proof can instantiate.                           *)
(***************************************************************************)

\* A nonempty set of naturals has a least element.
LEMMA LeastNatural ==
  ASSUME NEW T \in SUBSET Nat, T # {}
  PROVE  \E m \in T : \A n \in T : m <= n
  <1>1. IsWellFoundedOn(OpToRel(<, Nat), Nat)
    BY NatLessThanWellFounded
  <1>2. PICK m \in T : \A n \in T : ~ (<<n, m>> \in OpToRel(<, Nat))
    BY <1>1, WFMin
  <1>3. \A n \in T : ~ (n < m)
    BY <1>2 DEF OpToRel
  <1> QED
    BY <1>3

LEMMA NatSetInduction ==
  ASSUME NEW Z, 0 \in Z, \A n \in Nat : n \in Z => n + 1 \in Z
  PROVE  Nat \subseteq Z
  <1> DEFINE Rest == Nat \ Z
  <1>1. SUFFICES ASSUME Rest # {} PROVE FALSE
    OBVIOUS
  <1>2. PICK m \in Rest : \A n \in Rest : m <= n
    BY <1>1, LeastNatural
  <1>3. m # 0 /\ m - 1 \in Nat /\ m - 1 \notin Rest
    BY <1>2
  <1>4. (m - 1) + 1 \in Z
    BY <1>3
  <1> QED
    BY <1>4, <1>3

\* A family of sets that has the empty set, and each part of S once it has
\* every set with one element less, has S and all of its parts.
LEMMA SubsetInduction ==
  ASSUME NEW S, IsFiniteSet(S), NEW Z, {} \in Z,
         \A T \in SUBSET S : (T # {} /\ \A x \in T : T \ {x} \in Z) => T \in Z
  PROVE  SUBSET S \subseteq Z
  <1> DEFINE N == {n \in Nat : \A T \in SUBSET S : Cardinality(T) = n => T \in Z}
  <1>1. 0 \in N
    BY FS_EmptySet, FS_Subset
  <1>2. ASSUME NEW n \in Nat, n \in N PROVE n + 1 \in N
    <2>1. SUFFICES ASSUME NEW T \in SUBSET S, Cardinality(T) = n + 1 PROVE T \in Z
      OBVIOUS
    <2>2. IsFiniteSet(T)
      BY FS_Subset
    <2>3. T # {}
      <3>1. Cardinality({}) = 0
        BY FS_EmptySet
      <3>2. n + 1 # 0
        OBVIOUS
      <3> QED
        BY <3>1, <3>2, <2>1
    <2>4. ASSUME NEW x \in T PROVE T \ {x} \in Z
      <3>1. Cardinality(T \ {x}) = Cardinality(T) - 1
        BY <2>2, FS_RemoveElement
      <3>2. Cardinality(T \ {x}) = n
        BY <3>1, <2>1
      <3> QED
        BY <3>2, <1>2
    <2> QED
      BY <2>3, <2>4
  <1>3. Nat \subseteq N
    <2> HIDE DEF N
    <2> QED
      BY <1>1, <1>2, NatSetInduction
  <1> QED
    BY <1>3, FS_CardinalityType, FS_Subset

-----------------------------------------------------------------------------
(***************************************************************************)
(* Sums.  MapThenSumSet is a recursive function on the subsets of a set:   *)
(* it exists because the set is finite, and what it adds up does not       *)
(* depend on the order in which it takes the elements.                     *)
(***************************************************************************)

Pick(s) == CHOOSE x \in s : TRUE

\* g[s] is the sum of f over s, for each part s of S.
Adds(g, f, S) ==
    g = [s \in SUBSET S |-> IF s = {} THEN 0 ELSE f[Pick(s)] + g[s \ {Pick(s)}]]

Total(f, S) == (CHOOSE g : Adds(g, f, S))[S]

LEMMA PickIsMember ==
  ASSUME NEW s, s # {}
  PROVE  Pick(s) \in s
  BY DEF Pick

LEMMA AddsExists ==
  ASSUME NEW S, IsFiniteSet(S), NEW f
  PROVE  \E g : Adds(g, f, S)
  <1> DEFINE Body(g, s) == IF s = {} THEN 0 ELSE f[Pick(s)] + g[s \ {Pick(s)}]
             UpTo(g, n) == \A s \in SUBSET S : Cardinality(s) <= n => g[s] = Body(g, s)
             N == {n \in Nat : \E g : UpTo(g, n)}
  <1>1. 0 \in N
    <2>1. UpTo([s \in SUBSET S |-> 0], 0)
      BY FS_EmptySet, FS_Subset, FS_CardinalityType
    <2> QED
      BY <2>1
  <1>2. ASSUME NEW n \in Nat, n \in N PROVE n + 1 \in N
    <2>1. PICK g : UpTo(g, n)
      BY <1>2
    <2> DEFINE h == [s \in SUBSET S |-> Body(g, s)]
    <2>2. ASSUME NEW s \in SUBSET S, Cardinality(s) <= n + 1 PROVE h[s] = Body(h, s)
      <3>1. CASE s = {}
        BY <3>1
      <3>2. CASE s # {}
        <4> DEFINE t == s \ {Pick(s)}
        <4>1. t \in SUBSET S /\ Cardinality(t) <= n
          BY <2>2, <3>2, PickIsMember, FS_Subset, FS_RemoveElement, FS_CardinalityType
        <4>2. g[t] = Body(g, t) /\ h[t] = Body(g, t)
          BY <2>1, <4>1
        <4>3. h[s] = f[Pick(s)] + g[t]
          BY <3>2
        <4> QED
          BY <3>2, <4>2, <4>3
      <3> QED
        BY <3>1, <3>2
    <2>3. UpTo(h, n + 1)
      BY <2>2
    <2> HIDE DEF UpTo, h
    <2> QED
      BY <2>3
  <1>3. Nat \subseteq N
    <2> HIDE DEF N
    <2> QED
      BY <1>1, <1>2, NatSetInduction
  <1>4. PICK g : UpTo(g, Cardinality(S))
    BY <1>3, FS_CardinalityType
  <1> DEFINE h == [s \in SUBSET S |-> g[s]]
  <1>5. ASSUME NEW s \in SUBSET S PROVE h[s] = Body(h, s)
    <2>1. g[s] = Body(g, s)
      BY <1>4, FS_Subset
    <2>2. s \ {Pick(s)} \in SUBSET S
      OBVIOUS
    <2> QED
      BY <2>1, <2>2
  <1> QED
    BY <1>5 DEF Adds

\* Two such functions agree where both are defined.
LEMMA AddsAgree ==
  ASSUME NEW S, IsFiniteSet(S), NEW T \in SUBSET S, NEW f, NEW e,
         \A x \in T : e[x] = f[x],
         NEW g, Adds(g, f, S), NEW h, Adds(h, e, T), NEW s \in SUBSET T
  PROVE  g[s] = h[s]
  <1> DEFINE Z == {t \in SUBSET T : g[t] = h[t]}
  <1>1. \A t \in SUBSET T :
          /\ g[t] = IF t = {} THEN 0 ELSE f[Pick(t)] + g[t \ {Pick(t)}]
          /\ h[t] = IF t = {} THEN 0 ELSE e[Pick(t)] + h[t \ {Pick(t)}]
    <2>1. SUBSET T \subseteq SUBSET S
      OBVIOUS
    <2> QED
      BY <2>1 DEF Adds
  <1>2. {} \in Z
    BY <1>1
  <1>3. ASSUME NEW t \in SUBSET T, t # {}, \A x \in t : t \ {x} \in Z PROVE t \in Z
    <2>1. Pick(t) \in t
      BY <1>3, PickIsMember
    <2>2. g[t \ {Pick(t)}] = h[t \ {Pick(t)}]
      BY <1>3, <2>1
    <2> QED
      BY <1>1, <1>3, <2>1, <2>2
  <1>4. SUBSET T \subseteq Z
    <2> HIDE DEF Z
    <2>1. IsFiniteSet(T)
      BY FS_Subset
    <2> QED
      BY <1>2, <1>3, <2>1, SubsetInduction
  <1> QED
    BY <1>4

\* A sum depends on the values in its set only.
LEMMA TotalOfEqual ==
  ASSUME NEW S, IsFiniteSet(S), NEW f, NEW e, \A x \in S : e[x] = f[x]
  PROVE  Total(f, S) = Total(e, S)
  <1> DEFINE g == CHOOSE k : Adds(k, f, S)
             h == CHOOSE k : Adds(k, e, S)
  <1>1. Adds(g, f, S) /\ Adds(h, e, S)
    BY AddsExists
  <1> HIDE DEF g, h
  <1>2. S \in SUBSET S
    OBVIOUS
  <1>3. \A s \in SUBSET S : g[s] = h[s]
    BY <1>1, <1>2, AddsAgree
  <1> QED
    BY <1>2, <1>3 DEF Total, g, h

\* The sum over a part of S, from the function that sums S.
LEMMA TotalOfPart ==
  ASSUME NEW S, IsFiniteSet(S), NEW f, NEW g, Adds(g, f, S), NEW s \in SUBSET S
  PROVE  Total(f, s) = g[s]
  <1> DEFINE h == CHOOSE k : Adds(k, f, s)
  <1>1. Adds(h, f, s)
    BY AddsExists, FS_Subset
  <1> HIDE DEF h
  <1>2. g[s] = h[s]
    BY <1>1, AddsAgree
  <1> QED
    BY <1>2 DEF Total, h

LEMMA TotalEmpty ==
  ASSUME NEW f
  PROVE  Total(f, {}) = 0
  <1>1. PICK g : Adds(g, f, {})
    BY AddsExists, FS_EmptySet
  <1>2. g[{}] = 0
    BY <1>1 DEF Adds
  <1> QED
    BY <1>1, <1>2, TotalOfPart, FS_EmptySet

LEMMA TotalOfPicked ==
  ASSUME NEW S, IsFiniteSet(S), S # {}, NEW f
  PROVE  Total(f, S) = f[Pick(S)] + Total(f, S \ {Pick(S)})
  <1>1. PICK g : Adds(g, f, S)
    BY AddsExists
  <1>2. g[S] = f[Pick(S)] + g[S \ {Pick(S)}]
    BY <1>1 DEF Adds
  <1>3. Total(f, S) = g[S] /\ Total(f, S \ {Pick(S)}) = g[S \ {Pick(S)}]
    BY <1>1, TotalOfPart
  <1> QED
    BY <1>2, <1>3

\* A sum is in every set that has 0 and is closed under adding a value.
LEMMA TotalIsIn ==
  ASSUME NEW S, IsFiniteSet(S), NEW f, NEW V, 0 \in V,
         \A x \in S : \A v \in V : f[x] + v \in V
  PROVE  Total(f, S) \in V
  <1> DEFINE Z == {s \in SUBSET S : Total(f, s) \in V}
  <1>1. {} \in Z
    BY TotalEmpty
  <1>2. ASSUME NEW s \in SUBSET S, s # {}, \A x \in s : s \ {x} \in Z PROVE s \in Z
    <2>1. Pick(s) \in s
      BY <1>2, PickIsMember
    <2>2. Total(f, s) = f[Pick(s)] + Total(f, s \ {Pick(s)})
      BY <1>2, TotalOfPicked, FS_Subset
    <2>3. Total(f, s \ {Pick(s)}) \in V
      BY <1>2, <2>1
    <2> QED
      BY <2>1, <2>2, <2>3
  <1>3. SUBSET S \subseteq Z
    <2> HIDE DEF Z
    <2> QED
      BY <1>1, <1>2, SubsetInduction
  <1> QED
    BY <1>3

LEMMA TotalIsInt ==
  ASSUME NEW S, IsFiniteSet(S), NEW f, \A x \in S : f[x] \in Int
  PROVE  Total(f, S) \in Int
  <1>1. \A x \in S : \A v \in Int : f[x] + v \in Int
    OBVIOUS
  <1> QED
    BY <1>1, TotalIsIn

LEMMA TotalIsNat ==
  ASSUME NEW S, IsFiniteSet(S), NEW f, \A x \in S : f[x] \in Nat
  PROVE  Total(f, S) \in Nat
  <1>1. \A x \in S : \A v \in Nat : f[x] + v \in Nat
    OBVIOUS
  <1> QED
    BY <1>1, TotalIsIn

\* Any element may be the first one to be added.
LEMMA TotalStep ==
  ASSUME NEW S, IsFiniteSet(S), NEW f, \A x \in S : f[x] \in Int, NEW x \in S
  PROVE  Total(f, S) = f[x] + Total(f, S \ {x})
  <1> DEFINE Z == {s \in SUBSET S : \A z \in s : Total(f, s) = f[z] + Total(f, s \ {z})}
  <1>0. ASSUME NEW s \in SUBSET S PROVE IsFiniteSet(s) /\ Total(f, s) \in Int
    <2>1. IsFiniteSet(s) /\ \A z \in s : f[z] \in Int
      BY FS_Subset
    <2> QED
      BY <2>1, TotalIsInt
  <1>1. {} \in Z
    OBVIOUS
  <1>2. ASSUME NEW s \in SUBSET S, s # {}, \A z \in s : s \ {z} \in Z PROVE s \in Z
    <2> DEFINE y == Pick(s)
    <2>1. y \in s
      BY <1>2, PickIsMember
    <2>2. Total(f, s) = f[y] + Total(f, s \ {y})
      BY <1>0, <1>2, TotalOfPicked
    <2> HIDE DEF y
    <2>3. ASSUME NEW z \in s, z # y PROVE Total(f, s) = f[z] + Total(f, s \ {z})
      <3> DEFINE t == (s \ {y}) \ {z}
      <3>1. Total(f, s \ {y}) = f[z] + Total(f, t)
        BY <1>2, <2>1, <2>3
      <3>2. t = (s \ {z}) \ {y}
        OBVIOUS
      <3>3. Total(f, s \ {z}) = f[y] + Total(f, t)
        BY <1>2, <2>1, <2>3, <3>2
      <3>4. Total(f, t) \in Int /\ f[y] \in Int /\ f[z] \in Int
        BY <1>0, <2>1
      <3> HIDE DEF t
      <3> QED
        BY <2>2, <3>1, <3>3, <3>4
    <2> QED
      BY <2>2, <2>3
  <1>3. SUBSET S \subseteq Z
    <2> HIDE DEF Z
    <2> QED
      BY <1>1, <1>2, SubsetInduction
  <1> QED
    BY <1>3

\* The sum over two sets apart is the sum of the two sums.
LEMMA TotalOfUnion ==
  ASSUME NEW A, IsFiniteSet(A), NEW B, IsFiniteSet(B), A \cap B = {},
         NEW f, \A x \in A \cup B : f[x] \in Int
  PROVE  Total(f, A \cup B) = Total(f, A) + Total(f, B)
  <1> DEFINE Z == {T \in SUBSET B : Total(f, A \cup T) = Total(f, A) + Total(f, T)}
  <1>0. Total(f, A) \in Int
    BY TotalIsInt
  <1>1. {} \in Z
    BY <1>0, TotalEmpty
  <1>2. ASSUME NEW T \in SUBSET B, T # {}, \A x \in T : T \ {x} \in Z PROVE T \in Z
    <2>1. PICK x \in T : TRUE
      BY <1>2
    <2>2. IsFiniteSet(T) /\ IsFiniteSet(A \cup T) /\ IsFiniteSet(T \ {x})
      BY FS_Subset, FS_Union, FS_RemoveElement
    <2>3. Total(f, T) = f[x] + Total(f, T \ {x})
      BY <2>2, TotalStep
    <2>4. (A \cup T) \ {x} = A \cup (T \ {x})
      OBVIOUS
    <2>5. Total(f, A \cup T) = f[x] + Total(f, A \cup (T \ {x}))
      BY <2>2, <2>4, TotalStep
    <2>6. Total(f, A \cup (T \ {x})) = Total(f, A) + Total(f, T \ {x})
      BY <1>2
    <2>7. Total(f, T \ {x}) \in Int /\ f[x] \in Int
      BY <2>2, TotalIsInt
    <2> QED
      BY <1>0, <2>3, <2>5, <2>6, <2>7
  <1>3. SUBSET B \subseteq Z
    <2> HIDE DEF Z
    <2> QED
      BY <1>1, <1>2, SubsetInduction
  <1> QED
    BY <1>3

LEMMA SubtotalIsTotal ==
  ASSUME NEW s, IsFiniteSet(Nights(s)), NEW rules
  PROVE  Subtotal(s, rules)
           = Total([d \in Nights(s) |-> RateForNight(d, rules)], Nights(s))
  <1> DEFINE S == Nights(s)
             f == [d \in S |-> RateForNight(d, rules)]
             Sums(g) == g = [t \in SUBSET S |->
                IF t = {} THEN 0
                ELSE RateForNight(CHOOSE x \in t : TRUE, rules)
                       + g[t \ {CHOOSE x \in t : TRUE}]]
  <1> HIDE DEF S
  <1>1. ASSUME NEW g PROVE Sums(g) <=> Adds(g, f, S)
    <2>1. \A t \in SUBSET S : t # {} => f[Pick(t)] = RateForNight(Pick(t), rules)
      BY PickIsMember
    <2> HIDE DEF f
    <2> QED
      BY <2>1 DEF Adds, Pick
  <1>2. IsFiniteSet(S)
    BY DEF S
  <1>3. \E g : Sums(g)
    BY <1>1, <1>2, AddsExists
  <1> DEFINE total == CHOOSE g : Sums(g)
  <1> HIDE DEF f, Sums
  <1>4. Adds(total, f, S)
    BY <1>1, <1>3
  <1>5. Subtotal(s, rules) = total[S]
    BY DEF Subtotal, MapThenSumSet, MapThenFoldSet, Sums, S
  <1> HIDE DEF total
  <1>6. S \in SUBSET S
    OBVIOUS
  <1>7. Total(f, S) = total[S]
    BY <1>2, <1>4, <1>6, TotalOfPart
  <1> QED
    BY <1>5, <1>7 DEF S, f

-----------------------------------------------------------------------------
(***************************************************************************)
(* Shapes: what every row, setting and task looks like, for every number   *)
(* of requests that interleave.                                            *)
(***************************************************************************)

USE HouseAssumption, PricingAssumption

HasBounds(row) == row.type = "HIGH" => row.first # Null /\ row.last # Null

TaskOK(t) ==
    \/ t = Idle
    \/ \E row \in RuleRow :
          /\ t = [stage |-> "insert", row |-> row]
          /\ row.type \in RuleType /\ HasBounds(row)
    \/ \E i \in RuleId, patch \in Patch : t = [stage |-> "update", i |-> i, patch |-> patch]
    \/ \E sent \in Settings : t = [stage |-> "settings", sent |-> sent]
    \/ \E lines \in SUBSET ExtraKey : t = [stage |-> "book", lines |-> lines]

ExtraOK(e) ==
    \/ e = NoExtra
    \/ \E row \in ExtraRow, key \in ExtraKey, active \in BOOLEAN :
          e = [key |-> key, price |-> row.price, charged |-> row.charged,
               from |-> row.from, to |-> row.to, active |-> active]

Shapes ==
    /\ rule \in [RuleId -> RuleRow]
    /\ \A i \in RuleId : HasBounds(rule[i])
    /\ house \in [minNights : Length, maxNights : Length]
    /\ extra = [x \in ExtraId |-> extra[x]]
    /\ \A x \in ExtraId : ExtraOK(extra[x])
    /\ task = [p \in Request |-> task[p]]
    /\ \A p \in Request : TaskOK(task[p])

LEMMA NoRuleIsRow ==
  ASSUME NEW state \in RuleType \cup {"NONE", "DELETED"}
  PROVE  NoRule(state) \in RuleRow
  BY DEF NoRule, RuleRow

\* What a change of the price rules leaves of a row.
LEMMA PatchedIsRow ==
  ASSUME NEW row \in RuleRow, NEW patch \in Patch
  PROVE  /\ Patched(row, patch) \in RuleRow
         /\ Patched(row, patch).type = row.type
         /\ HasBounds(row) => HasBounds(Patched(row, patch))
  <1>1. Or(patch.rate, row.rate) \in Price \cup {0}
    BY DEF Or, RuleRow
  <1>2. Or(patch.first, row.first) \in Int \cup {Null} /\ Or(patch.last, row.last) \in Int \cup {Null}
    BY DEF Or, RuleRow
  <1>3. Or(patch.minNights, row.minNights) \in Floor \cup {0}
    BY DEF Or, RuleRow
  <1>4. Or(patch.active, row.active) \in BOOLEAN
    BY DEF Or, RuleRow
  <1>5. row.first # Null => Or(patch.first, row.first) # Null
    BY DEF Or
  <1>6. row.last # Null => Or(patch.last, row.last) # Null
    BY DEF Or
  <1> QED
    BY <1>1, <1>2, <1>3, <1>4, <1>5, <1>6 DEF Patched, RuleRow, HasBounds

\* Which kind of task is in which stage.
LEMMA TaskKinds ==
  ASSUME NEW t, TaskOK(t)
  PROVE  /\ t.stage \in {"idle", "insert", "update", "settings", "book"}
         /\ t.stage = "insert" => t.row \in RuleRow /\ t.row.type \in RuleType /\ HasBounds(t.row)
         /\ t.stage = "update" => t.i \in RuleId /\ t.patch \in Patch
         /\ t.stage = "settings" => t.sent \in Settings
         /\ t.stage = "book" => t.lines \subseteq ExtraKey
         /\ t.stage = "idle" => t = Idle
  BY DEF TaskOK, Idle

\* A step that moves one task to a well-formed one keeps all of them so.
LEMMA BeginKeepsTasks ==
  ASSUME Shapes, NEW p \in Request, NEW t, TaskOK(t), Begin(p, t)
  PROVE  /\ task' = [q \in Request |-> task'[q]]
         /\ task'[p] = t
         /\ \A q \in Request : q # p => task'[q] = task[q]
         /\ \A q \in Request : TaskOK(task[q])'
  <1>1. task' = [task EXCEPT ![p] = t]
    BY DEF Begin
  <1>2. task = [q \in Request |-> task[q]]
    BY DEF Shapes
  <1>3. task'[p] = t /\ \A q \in Request : q # p => task'[q] = task[q]
    BY <1>1, <1>2
  <1>4. ASSUME NEW q \in Request PROVE TaskOK(task[q])'
    <2>1. TaskOK(task[q])
      BY DEF Shapes
    <2>2. task'[q] = task[q] \/ task'[q] = t
      BY <1>3
    <2> QED
      BY <2>1, <2>2 DEF TaskOK
  <1> QED
    BY <1>1, <1>2, <1>3, <1>4

\* What a step leaves alone keeps its shape.
LEMMA ShapesStay ==
  ASSUME Shapes
  PROVE  /\ UNCHANGED rule => rule' \in [RuleId -> RuleRow] /\ \A i \in RuleId : HasBounds(rule[i])'
         /\ UNCHANGED house => house' \in [minNights : Length, maxNights : Length]
         /\ UNCHANGED extra => extra' = [x \in ExtraId |-> extra'[x]] /\ \A x \in ExtraId : ExtraOK(extra[x])'
         /\ UNCHANGED task => task' = [p \in Request |-> task'[p]] /\ \A p \in Request : TaskOK(task[p])'
  <1>1. UNCHANGED rule => rule' \in [RuleId -> RuleRow] /\ \A i \in RuleId : HasBounds(rule[i])'
    BY DEF Shapes, HasBounds
  <1>2. UNCHANGED extra => extra' = [x \in ExtraId |-> extra'[x]] /\ \A x \in ExtraId : ExtraOK(extra[x])'
    BY DEF Shapes, ExtraOK
  <1>3. UNCHANGED task => task' = [p \in Request |-> task'[p]] /\ \A p \in Request : TaskOK(task[p])'
    BY DEF Shapes, TaskOK
  <1> QED
    BY <1>1, <1>2, <1>3 DEF Shapes

\* The parts of Shapes that a step on the tasks alone leaves as they are.
LEMMA BeginKeepsShapes ==
  ASSUME Shapes, NEW p \in Request, NEW t, TaskOK(t), Begin(p, t),
         rule' \in [RuleId -> RuleRow], \A i \in RuleId : HasBounds(rule[i])',
         house' \in [minNights : Length, maxNights : Length],
         UNCHANGED extra
  PROVE  Shapes'
  <1>1. /\ task' = [q \in Request |-> task'[q]]
        /\ \A q \in Request : TaskOK(task[q])'
    BY BeginKeepsTasks
  <1> QED
    BY <1>1, ShapesStay DEF Shapes

LEMMA IdleIsTask == TaskOK(Idle)
  BY DEF TaskOK

LEMMA NoExtraIsOK == ExtraOK(NoExtra)
  BY DEF ExtraOK

LEMMA LinesAreKeys ==
  ASSUME NEW stay, NEW guests, NEW picked \in SUBSET ExtraKey, NEW units
  PROVE  Quote(stay, guests, picked, units).lines \subseteq ExtraKey
  BY DEF Quote, ComputeQuote, Lines

LEMMA InitShapes == Init => Shapes
  <1> SUFFICES ASSUME Init PROVE Shapes
    OBVIOUS
  <1>1. PICK low \in RuleId, r \in Price :
          rule = [i \in RuleId |->
                    IF i = low THEN [NoRule("LOW") EXCEPT !.rate = r, !.active = TRUE]
                    ELSE NoRule("NONE")]
    BY DEF Init
  <1>2. [NoRule("LOW") EXCEPT !.rate = r, !.active = TRUE] \in RuleRow
    BY DEF NoRule, RuleRow, RuleType
  <1>3. NoRule("NONE") \in RuleRow
    BY NoRuleIsRow
  <1>4. \A i \in RuleId : rule[i].type # "HIGH"
    BY <1>1 DEF NoRule
  <1>5. rule \in [RuleId -> RuleRow] /\ \A i \in RuleId : HasBounds(rule[i])
    BY <1>1, <1>2, <1>3, <1>4 DEF HasBounds
  <1>6. \A p \in Request : TaskOK(task[p])
    BY IdleIsTask DEF Init
  <1>7. \A x \in ExtraId : ExtraOK(extra[x])
    BY NoExtraIsOK DEF Init
  <1> QED
    BY <1>5, <1>6, <1>7 DEF Init, Shapes

LEMMA RuleStepsKeepShapes ==
  ASSUME Shapes, NEW p \in Request,
         \/ CheckNewRule(p) \/ InsertRule(p) \/ UpdateRule(p)
         \/ \E i \in RuleId : CheckRulePatch(p, i)
  PROVE  Shapes'
  <1>1. CASE CheckNewRule(p)
    <2>1. PICK type \in RuleType, rate \in Price, floor \in Floor \cup {0},
               s \in Season \cup {[first |-> Null, last |-> Null]}, active \in BOOLEAN :
            /\ AssertShape(type, s.first, s.last)
            /\ Begin(p, [stage |-> "insert",
                         row |-> [type |-> type, rate |-> rate, first |-> s.first,
                                  last |-> s.last, minNights |-> floor,
                                  active |-> active]])
      BY <1>1 DEF CheckNewRule
    <2> DEFINE row == [type |-> type, rate |-> rate, first |-> s.first,
                       last |-> s.last, minNights |-> floor, active |-> active]
    <2>2. s.first \in Int \cup {Null} /\ s.last \in Int \cup {Null}
      OBVIOUS
    <2>3. row \in RuleRow /\ row.type \in RuleType /\ HasBounds(row)
      BY <2>1, <2>2 DEF RuleRow, HasBounds, AssertShape
    <2> HIDE DEF row
    <2>4. TaskOK([stage |-> "insert", row |-> row])
      BY <2>3 DEF TaskOK
    <2>5. Begin(p, [stage |-> "insert", row |-> row])
      BY <2>1 DEF row
    <2> QED
      BY <1>1, <2>4, <2>5, BeginKeepsShapes DEF CheckNewRule, Shapes, HasBounds
  <1>2. CASE InsertRule(p)
    <2>1. PICK i \in RuleId : rule' = [rule EXCEPT ![i] = task[p].row]
      BY <1>2 DEF InsertRule
    <2>2. task[p].row \in RuleRow /\ HasBounds(task[p].row)
      BY <1>2, TaskKinds DEF InsertRule, Shapes
    <2>3. rule' \in [RuleId -> RuleRow] /\ \A j \in RuleId : HasBounds(rule[j])'
      BY <2>1, <2>2 DEF Shapes, HasBounds
    <2> QED
      BY <1>2, <2>3, IdleIsTask, BeginKeepsShapes DEF InsertRule, End, Shapes
  <1>3. CASE UpdateRule(p)
    <2>1. task[p].i \in RuleId /\ task[p].patch \in Patch
      BY <1>3, TaskKinds DEF UpdateRule, Shapes
    <2>2. PICK i \in RuleId, patch \in Patch : i = task[p].i /\ patch = task[p].patch
      BY <2>1
    <2>3. rule' = [rule EXCEPT ![i] = Patched(rule[i], patch)]
      BY <1>3, <2>2 DEF UpdateRule
    <2>4. Patched(rule[i], patch) \in RuleRow /\ HasBounds(Patched(rule[i], patch))
      BY PatchedIsRow DEF Shapes
    <2>5. rule' \in [RuleId -> RuleRow] /\ \A j \in RuleId : HasBounds(rule[j])'
      BY <2>3, <2>4 DEF Shapes, HasBounds
    <2> QED
      BY <1>3, <2>5, IdleIsTask, BeginKeepsShapes DEF UpdateRule, End, Shapes
  <1>4. CASE \E i \in RuleId : CheckRulePatch(p, i)
    <2>1. PICK i \in RuleId, patch \in Patch :
            Begin(p, [stage |-> "update", i |-> i, patch |-> patch])
      BY <1>4 DEF CheckRulePatch
    <2>2. TaskOK([stage |-> "update", i |-> i, patch |-> patch])
      BY DEF TaskOK
    <2> QED
      BY <1>4, <2>1, <2>2, BeginKeepsShapes DEF CheckRulePatch, Shapes, HasBounds
  <1> QED
    BY <1>1, <1>2, <1>3, <1>4

LEMMA OtherStepsKeepShapes ==
  ASSUME Shapes, NEW p \in Request,
         \/ CheckSettings(p) \/ UpdateProperty(p) \/ Abort(p)
         \/ PriceStay(p) \/ PriceManual(p) \/ InsertBooking(p)
  PROVE  Shapes'
  <1> rule \in [RuleId -> RuleRow] /\ \A i \in RuleId : HasBounds(rule[i])
    BY DEF Shapes
  <1>1. CASE CheckSettings(p)
    <2>1. PICK sent \in Settings : Begin(p, [stage |-> "settings", sent |-> sent])
      BY <1>1 DEF CheckSettings
    <2>2. TaskOK([stage |-> "settings", sent |-> sent])
      BY DEF TaskOK
    <2> QED
      BY <1>1, <2>1, <2>2, BeginKeepsShapes DEF CheckSettings, Shapes, HasBounds
  <1>2. CASE UpdateProperty(p)
    <2>1. task[p].sent \in Settings
      BY <1>2, TaskKinds DEF UpdateProperty, Shapes
    <2>2. house' \in [minNights : Length, maxNights : Length]
      BY <1>2, <2>1 DEF UpdateProperty, Settings, Or, Shapes
    <2> QED
      BY <1>2, <2>2, IdleIsTask, BeginKeepsShapes DEF UpdateProperty, End, HasBounds
  <1>3. CASE Abort(p)
    BY <1>3, IdleIsTask, BeginKeepsShapes DEF Abort, End, Shapes, HasBounds
  <1>4. CASE PriceStay(p) \/ PriceManual(p)
    <2>1. PICK stay \in Stay, picked \in SUBSET ExtraKey :
            Begin(p, [stage |-> "book", lines |-> Quote(stay, Null, picked, NoUnits).lines])
      BY <1>4 DEF PriceStay, PriceManual
    <2> DEFINE lines == Quote(stay, Null, picked, NoUnits).lines
    <2>2. lines \subseteq ExtraKey
      BY LinesAreKeys
    <2> HIDE DEF lines
    <2>3. TaskOK([stage |-> "book", lines |-> lines])
      BY <2>2 DEF TaskOK
    <2>4. Begin(p, [stage |-> "book", lines |-> lines])
      BY <2>1 DEF lines
    <2> QED
      BY <1>4, <2>3, <2>4, BeginKeepsShapes DEF PriceStay, PriceManual, Shapes, HasBounds
  <1>5. CASE InsertBooking(p)
    BY <1>5, IdleIsTask, BeginKeepsShapes DEF InsertBooking, End, Shapes, HasBounds
  <1> QED
    BY <1>1, <1>2, <1>3, <1>4, <1>5

LEMMA RowStepsKeepShapes ==
  ASSUME Shapes,
         \/ \E i \in RuleId : DeletePriceRule(i)
         \/ \E x \in ExtraId : CreateExtra(x) \/ UpdateExtra(x) \/ DeactivateExtra(x)
  PROVE  Shapes'
  <1>1. CASE \E i \in RuleId : DeletePriceRule(i)
    <2>1. PICK i \in RuleId : rule' = [rule EXCEPT ![i] = NoRule("DELETED")]
      BY <1>1 DEF DeletePriceRule
    <2>2. NoRule("DELETED") \in RuleRow /\ HasBounds(NoRule("DELETED"))
      BY NoRuleIsRow DEF HasBounds, NoRule
    <2>3. rule' \in [RuleId -> RuleRow] /\ \A j \in RuleId : HasBounds(rule[j])'
      BY <2>1, <2>2 DEF Shapes, HasBounds
    <2> QED
      BY <1>1, <2>3, ShapesStay DEF DeletePriceRule, Shapes
  <1>2. CASE \E x \in ExtraId : CreateExtra(x) \/ UpdateExtra(x) \/ DeactivateExtra(x)
    <2>1. PICK x \in ExtraId : CreateExtra(x) \/ UpdateExtra(x) \/ DeactivateExtra(x)
      BY <1>2
    <2>2. \E e : ExtraOK(e) /\ extra' = [extra EXCEPT ![x] = e]
      <3>1. CASE CreateExtra(x)
        <4>1. PICK terms \in ExtraRow : extra' = [extra EXCEPT ![x] = terms]
          BY <3>1 DEF CreateExtra
        <4>2. ExtraOK(terms)
          BY DEF ExtraOK
        <4> QED
          BY <4>1, <4>2
      <3>2. CASE UpdateExtra(x)
        <4>1. PICK terms \in ExtraRow :
                extra' = [extra EXCEPT ![x] = [terms EXCEPT !.key = extra[x].key]]
          BY <3>2 DEF UpdateExtra
        <4>2. extra[x].key \in ExtraKey
          BY <3>2 DEF UpdateExtra, Shapes, ExtraOK
        <4>3. ExtraOK([terms EXCEPT !.key = extra[x].key])
          BY <4>2 DEF ExtraOK
        <4> QED
          BY <4>1, <4>3
      <3>3. CASE DeactivateExtra(x)
        <4>1. PICK row \in ExtraRow, key \in ExtraKey, active \in BOOLEAN :
                extra[x] = [key |-> key, price |-> row.price, charged |-> row.charged,
                            from |-> row.from, to |-> row.to, active |-> active]
          BY <3>3 DEF DeactivateExtra, Shapes, ExtraOK
        <4> DEFINE e == [key |-> key, price |-> row.price, charged |-> row.charged,
                         from |-> row.from, to |-> row.to, active |-> FALSE]
        <4>2. ExtraOK(e)
          BY DEF ExtraOK
        <4>3. \A v : [extra[x] EXCEPT !.active = v] =
                       [key |-> key, price |-> row.price, charged |-> row.charged,
                        from |-> row.from, to |-> row.to, active |-> v]
          BY <4>1
        <4>4. extra' = [extra EXCEPT ![x] = [extra[x] EXCEPT !.active = FALSE]]
          BY <3>3 DEF DeactivateExtra
        <4> QED
          BY <4>2, <4>3, <4>4
      <3> QED
        BY <2>1, <3>1, <3>2, <3>3
    <2>3. extra' = [y \in ExtraId |-> extra'[y]] /\ \A y \in ExtraId : ExtraOK(extra[y])'
      BY <2>2 DEF Shapes, ExtraOK
    <2> QED
      BY <2>1, <2>3, ShapesStay DEF CreateExtra, UpdateExtra, DeactivateExtra, Shapes
  <1> QED
    BY <1>1, <1>2

LEMMA NextKeepsShapes == Shapes /\ [Next]_vars => Shapes'
  <1> SUFFICES ASSUME Shapes, [Next]_vars PROVE Shapes'
    OBVIOUS
  <1>1. CASE UNCHANGED vars
    BY <1>1, ShapesStay DEF vars, Shapes
  <1>2. CASE Next
    BY <1>2, RuleStepsKeepShapes, OtherStepsKeepShapes, RowStepsKeepShapes DEF Next
  <1> QED
    BY <1>1, <1>2

LEMMA AlwaysShapes == Spec => []Shapes
  BY InitShapes, NextKeepsShapes, PTL DEF Spec

-----------------------------------------------------------------------------
(***************************************************************************)
(* Seasons.  assertNoOverlap reads the table some awaits before the row is *)
(* written, and so does the conflict on a second base or weekend rule.     *)
(* RuleTrail says what such a request relies on: that the row it is about  *)
(* to write would still pass.  Deletions keep that true, the write of      *)
(* another request need not.                                               *)
(***************************************************************************)

\* No two requests are between the check and the write of a price rule.
OneRuleEdit ==
    \A p, q \in Request :
        task[p].stage \in {"insert", "update"} /\ task[q].stage \in {"insert", "update"} => p = q

\* A row that can stand beside these: a season that ends no earlier than it
\* starts and shares no night with theirs, or the only rule of its type.
Beside(row, others) ==
    IF row.type = "HIGH"
    THEN /\ row.first <= row.last
         /\ \A i \in others : rule[i].type = "HIGH" =>
               ~(row.first <= rule[i].last /\ row.last >= rule[i].first)
    ELSE \A i \in others : rule[i].type # row.type

RuleTrail ==
    /\ \A i \in RuleId : Exists(i) => Beside(rule[i], RuleId \ {i})
    /\ \A p \in Request : task[p].stage = "insert" => Beside(task[p].row, RuleId)
    /\ \A p \in Request : task[p].stage = "update" /\ Exists(task[p].i) =>
          Beside(Patched(rule[task[p].i], task[p].patch), RuleId \ {task[p].i})

LEMMA SeasonsHaveBounds ==
  ASSUME NEW row \in RuleRow, HasBounds(row), row.type = "HIGH"
  PROVE  row.first \in Int /\ row.last \in Int
  BY DEF RuleRow, HasBounds

LEMMA InitRuleTrail == Init => RuleTrail
  <1> SUFFICES ASSUME Init PROVE RuleTrail
    OBVIOUS
  <1>1. PICK low \in RuleId, r \in Price :
          rule = [i \in RuleId |->
                    IF i = low THEN [NoRule("LOW") EXCEPT !.rate = r, !.active = TRUE]
                    ELSE NoRule("NONE")]
    BY DEF Init
  <1>2. \A i \in RuleId : rule[i].type = IF i = low THEN "LOW" ELSE "NONE"
    BY <1>1 DEF NoRule
  <1>3. ASSUME NEW i \in RuleId, Exists(i) PROVE Beside(rule[i], RuleId \ {i})
    BY <1>2, <1>3 DEF Exists, RuleType, Beside
  <1>4. \A p \in Request : task[p].stage = "idle"
    BY DEF Init, Idle
  <1> QED
    BY <1>3, <1>4 DEF RuleTrail

\* A step that writes no rule keeps what the other requests rely on.
LEMMA BeginKeepsRuleTrail ==
  ASSUME Shapes, RuleTrail, NEW p \in Request, NEW t, TaskOK(t), Begin(p, t), UNCHANGED rule,
         t.stage = "insert" => Beside(t.row, RuleId),
         t.stage = "update" /\ Exists(t.i) => Beside(Patched(rule[t.i], t.patch), RuleId \ {t.i})
  PROVE  RuleTrail'
  <1>1. task'[p] = t /\ \A q \in Request : q # p => task'[q] = task[q]
    BY BeginKeepsTasks
  <1>2. \A row, others : Beside(row, others) => Beside(row, others)'
    BY DEF Beside
  <1>3. \A i : Exists(i)' => Exists(i)
    BY DEF Exists
  <1>4. ASSUME NEW i \in RuleId, Exists(i)' PROVE Beside(rule[i], RuleId \ {i})'
    <2>1. Beside(rule[i], RuleId \ {i})
      BY <1>3, <1>4 DEF RuleTrail
    <2> QED
      BY <2>1 DEF Beside
  <1>5. ASSUME NEW q \in Request, task'[q].stage = "insert" PROVE Beside(task[q].row, RuleId)'
    <2>1. Beside(task'[q].row, RuleId)
      BY <1>1, <1>5 DEF RuleTrail
    <2> QED
      BY <2>1 DEF Beside
  <1>6. ASSUME NEW q \in Request, task'[q].stage = "update", Exists(task[q].i)'
        PROVE  Beside(Patched(rule[task[q].i], task[q].patch), RuleId \ {task[q].i})'
    <2>1. Exists(task'[q].i)
      BY <1>6 DEF Exists
    <2>2. Beside(Patched(rule[task'[q].i], task'[q].patch), RuleId \ {task'[q].i})
      BY <1>1, <1>6, <2>1 DEF RuleTrail
    <2> QED
      BY <2>2 DEF Beside, Patched
  <1> QED
    BY <1>4, <1>5, <1>6 DEF RuleTrail

\* A row that stands beside the others may be written, if it keeps the type
\* of the row it replaces or that one did not exist, and no other request
\* relies on the table.
LEMMA WriteKeepsRuleTrail ==
  ASSUME Shapes, RuleTrail, NEW i \in RuleId, NEW row \in RuleRow,
         HasBounds(row), row.type \in RuleType, Beside(row, RuleId \ {i}),
         rule' = [rule EXCEPT ![i] = row],
         \A q \in Request : task'[q].stage \notin {"insert", "update"}
  PROVE  RuleTrail'
  <1>1. rule'[i] = row /\ \A j \in RuleId : j # i => rule'[j] = rule[j]
    BY DEF Shapes
  <1>2. ASSUME NEW j \in RuleId, Exists(j)' PROVE Beside(rule[j], RuleId \ {j})'
    <2>1. CASE j = i
      BY <1>1, <2>1 DEF Beside
    <2>2. CASE j # i
      <3>1. rule'[j] = rule[j] /\ Exists(j)
        BY <1>1, <1>2, <2>2 DEF Exists
      <3>2. Beside(rule[j], RuleId \ {j})
        BY <3>1 DEF RuleTrail
      <3>3. CASE rule[j].type = "HIGH"
        <4>1. rule[j].first \in Int /\ rule[j].last \in Int
          BY <3>3, SeasonsHaveBounds DEF Shapes
        <4>2. row.type = "HIGH" => row.first \in Int /\ row.last \in Int
          BY SeasonsHaveBounds
        <4>3. row.type = "HIGH" => ~(rule[j].first <= row.last /\ rule[j].last >= row.first)
          <5>1. SUFFICES ASSUME row.type = "HIGH"
                         PROVE  ~(rule[j].first <= row.last /\ rule[j].last >= row.first)
            OBVIOUS
          <5>2. ~(row.first <= rule[j].last /\ row.last >= rule[j].first)
            BY <2>2, <3>3, <5>1 DEF Beside
          <5> QED
            BY <4>1, <4>2, <5>1, <5>2
        <4>4. rule[j].first <= rule[j].last
          BY <3>2, <3>3 DEF Beside
        <4>5. ASSUME NEW k \in RuleId \ {j}, rule'[k].type = "HIGH"
              PROVE  ~(rule[j].first <= rule'[k].last /\ rule[j].last >= rule'[k].first)
          <5>1. CASE k = i
            BY <1>1, <4>3, <4>5, <5>1
          <5>2. CASE k # i
            BY <1>1, <3>2, <3>3, <4>5, <5>2 DEF Beside
          <5> QED
            BY <5>1, <5>2
        <4> QED
          BY <3>1, <3>3, <4>4, <4>5 DEF Beside
      <3>4. CASE rule[j].type # "HIGH"
        <4>1. row.type # rule[j].type
          BY <2>2, <3>4 DEF Beside
        <4>2. \A k \in RuleId \ {j} : rule'[k].type # rule[j].type
          BY <1>1, <3>2, <3>4, <4>1 DEF Beside
        <4> QED
          BY <3>1, <3>4, <4>2 DEF Beside
      <3> QED
        BY <3>3, <3>4
    <2> QED
      BY <2>1, <2>2
  <1> QED
    BY <1>2 DEF RuleTrail

LEMMA NextKeepsRuleTrail ==
  Shapes /\ RuleTrail /\ OneRuleEdit /\ [Next]_vars => RuleTrail'
  <1> SUFFICES ASSUME Shapes, RuleTrail, OneRuleEdit, [Next]_vars PROVE RuleTrail'
    OBVIOUS
  <1>1. ASSUME NEW p \in Request, CheckNewRule(p) PROVE RuleTrail'
    <2>1. PICK type \in RuleType, rate \in Price, floor \in Floor \cup {0},
               s \in Season \cup {[first |-> Null, last |-> Null]}, active \in BOOLEAN :
            /\ AssertShape(type, s.first, s.last)
            /\ IF type = "HIGH"
               THEN AssertNoOverlap({i \in RuleId : Exists(i)}, s.first, s.last)
               ELSE \A i \in RuleId : rule[i].type # type
            /\ Begin(p, [stage |-> "insert",
                         row |-> [type |-> type, rate |-> rate, first |-> s.first,
                                  last |-> s.last, minNights |-> floor,
                                  active |-> active]])
      BY <1>1 DEF CheckNewRule
    <2> DEFINE row == [type |-> type, rate |-> rate, first |-> s.first,
                       last |-> s.last, minNights |-> floor, active |-> active]
    <2>2. s.first \in Int \cup {Null} /\ s.last \in Int \cup {Null}
      OBVIOUS
    <2>3. row \in RuleRow /\ row.type \in RuleType /\ HasBounds(row)
      BY <2>1, <2>2 DEF RuleRow, HasBounds, AssertShape
    <2>4. Beside(row, RuleId)
      BY <2>1 DEF Beside, AssertShape, AssertNoOverlap, Exists, RuleType
    <2> HIDE DEF row
    <2> DEFINE t == [stage |-> "insert", row |-> row]
    <2>5. TaskOK(t)
      BY <2>3 DEF TaskOK
    <2>6. Begin(p, t)
      BY <2>1 DEF row
    <2>7. t.stage = "insert" /\ t.row = row
      OBVIOUS
    <2> HIDE DEF t
    <2> QED
      BY <1>1, <2>4, <2>5, <2>6, <2>7, BeginKeepsRuleTrail DEF CheckNewRule
  <1>2. ASSUME NEW p \in Request, InsertRule(p) PROVE RuleTrail'
    <2>1. PICK i \in RuleId : rule[i].type = "NONE" /\ rule' = [rule EXCEPT ![i] = task[p].row]
      BY <1>2 DEF InsertRule
    <2>2. task[p].row \in RuleRow /\ HasBounds(task[p].row) /\ task[p].row.type \in RuleType
      BY <1>2, TaskKinds DEF InsertRule, Shapes
    <2>3. Beside(task[p].row, RuleId \ {i})
      BY <1>2 DEF InsertRule, RuleTrail, Beside
    <2>4. \A q \in Request : task'[q].stage \notin {"insert", "update"}
      BY <1>2, IdleIsTask, BeginKeepsTasks DEF InsertRule, End, OneRuleEdit, Idle
    <2> QED
      BY <2>1, <2>2, <2>3, <2>4, WriteKeepsRuleTrail
  <1>3. ASSUME NEW p \in Request, UpdateRule(p) PROVE RuleTrail'
    <2>1. task[p].i \in RuleId /\ task[p].patch \in Patch
      BY <1>3, TaskKinds DEF UpdateRule, Shapes
    <2>2. PICK i \in RuleId, patch \in Patch : i = task[p].i /\ patch = task[p].patch
      BY <2>1
    <2> DEFINE row == Patched(rule[i], patch)
    <2>3. rule' = [rule EXCEPT ![i] = row] /\ Exists(i)
      BY <1>3, <2>2 DEF UpdateRule
    <2>4. row \in RuleRow /\ HasBounds(row) /\ row.type \in RuleType
      BY <2>3, PatchedIsRow DEF Shapes, Exists
    <2>5. Beside(row, RuleId \ {i})
      BY <1>3, <2>2, <2>3 DEF UpdateRule, RuleTrail
    <2>6. \A q \in Request : task'[q].stage \notin {"insert", "update"}
      BY <1>3, IdleIsTask, BeginKeepsTasks DEF UpdateRule, End, OneRuleEdit, Idle
    <2> HIDE DEF row
    <2> QED
      BY <2>3, <2>4, <2>5, <2>6, WriteKeepsRuleTrail
  <1>4. ASSUME NEW p \in Request, NEW i \in RuleId, CheckRulePatch(p, i) PROVE RuleTrail'
    <2>1. PICK patch \in Patch :
            LET next == Patched(rule[i], patch) IN
            /\ AssertShape(rule[i].type, next.first, next.last)
            /\ rule[i].type = "HIGH" =>
                  AssertNoOverlap({j \in RuleId : Exists(j)} \ {i}, next.first, next.last)
            /\ Begin(p, [stage |-> "update", i |-> i, patch |-> patch])
      BY <1>4 DEF CheckRulePatch
    <2> DEFINE next == Patched(rule[i], patch)
               t == [stage |-> "update", i |-> i, patch |-> patch]
    <2>2. next.type = rule[i].type
      BY PatchedIsRow DEF Shapes
    <2>3. Beside(rule[i], RuleId \ {i})
      BY <1>4 DEF CheckRulePatch, RuleTrail
    <2>4. Beside(next, RuleId \ {i})
      <3> HIDE DEF next
      <3>1. CASE rule[i].type = "HIGH"
        <4>1. next.first <= next.last
          BY <2>1, <3>1 DEF AssertShape, next
        <4>2. ASSUME NEW j \in RuleId \ {i}, rule[j].type = "HIGH"
              PROVE  ~(next.first <= rule[j].last /\ next.last >= rule[j].first)
          <5>1. j \in {k \in RuleId : Exists(k)} \ {i}
            BY <4>2 DEF Exists, RuleType
          <5> QED
            BY <2>1, <3>1, <4>2, <5>1 DEF AssertNoOverlap, next
        <4> QED
          BY <2>2, <3>1, <4>1, <4>2 DEF Beside
      <3>2. CASE rule[i].type # "HIGH"
        BY <2>2, <2>3, <3>2 DEF Beside
      <3> QED
        BY <3>1, <3>2
    <2>5. TaskOK(t)
      BY DEF TaskOK
    <2>6. t.stage = "update" /\ t.i = i /\ t.patch = patch
      OBVIOUS
    <2>7. Begin(p, t)
      BY <2>1
    <2> HIDE DEF t
    <2> QED
      BY <1>4, <2>4, <2>5, <2>6, <2>7, BeginKeepsRuleTrail DEF CheckRulePatch
  <1>5. ASSUME NEW i \in RuleId, DeletePriceRule(i) PROVE RuleTrail'
    <2>1. /\ rule' = [rule EXCEPT ![i] = NoRule("DELETED")]
          /\ UNCHANGED task
      BY <1>5 DEF DeletePriceRule
    <2>2. rule'[i].type = "DELETED" /\ \A j \in RuleId : j # i => rule'[j] = rule[j]
      BY <2>1 DEF Shapes, NoRule
    <2>3. \A j \in RuleId : Exists(j)' => j # i /\ Exists(j)
      BY <2>2 DEF Exists, RuleType
    <2>4. ASSUME NEW j \in RuleId, Exists(j)' PROVE Beside(rule[j], RuleId \ {j})'
      <3>1. rule'[j] = rule[j] /\ Exists(j)
        BY <2>2, <2>3, <2>4
      <3>2. Beside(rule[j], RuleId \ {j}) /\ rule[j].type # "DELETED"
        BY <3>1 DEF RuleTrail, Exists, RuleType
      <3>3. \A k \in RuleId : rule'[k] = rule[k] \/ rule'[k].type = "DELETED"
        BY <2>2
      <3> QED
        BY <3>1, <3>2, <3>3 DEF Beside
    <2>5. ASSUME NEW q \in Request, task'[q].stage = "insert" PROVE Beside(task[q].row, RuleId)'
      <3>1. Beside(task[q].row, RuleId) /\ task[q].row.type # "DELETED" /\ task'[q] = task[q]
        BY <2>1, <2>5, TaskKinds DEF RuleTrail, Shapes, RuleType
      <3>2. \A k \in RuleId : rule'[k] = rule[k] \/ rule'[k].type = "DELETED"
        BY <2>2
      <3> QED
        BY <3>1, <3>2 DEF Beside
    <2>6. ASSUME NEW q \in Request, task'[q].stage = "update", Exists(task[q].i)'
          PROVE  Beside(Patched(rule[task[q].i], task[q].patch), RuleId \ {task[q].i})'
      <3>1. task[q].i \in RuleId /\ task[q].patch \in Patch /\ task'[q] = task[q]
        BY <2>1, <2>6, TaskKinds DEF Shapes
      <3>2. PICK j \in RuleId, patch \in Patch : j = task[q].i /\ patch = task[q].patch
        BY <3>1
      <3>3. Exists(j) /\ rule'[j] = rule[j]
        BY <2>2, <2>3, <2>6, <3>1, <3>2 DEF Exists
      <3> DEFINE row == Patched(rule[j], patch)
      <3>4. Beside(row, RuleId \ {j})
        BY <2>1, <2>6, <3>2, <3>3 DEF RuleTrail
      <3>5. row.type # "DELETED"
        BY <3>3, PatchedIsRow DEF Shapes, Exists, RuleType
      <3>6. Patched(rule[task[q].i], task[q].patch)' = row
        BY <3>1, <3>2, <3>3 DEF Patched
      <3>7. \A k \in RuleId : rule'[k] = rule[k] \/ rule'[k].type = "DELETED"
        BY <2>2
      <3>8. task'[q].i = j
        BY <3>1, <3>2
      <3> HIDE DEF row
      <3>9. IF row.type = "HIGH"
            THEN /\ row.first <= row.last
                 /\ \A k \in RuleId \ {j} : rule'[k].type = "HIGH" =>
                       ~(row.first <= rule'[k].last /\ row.last >= rule'[k].first)
            ELSE \A k \in RuleId \ {j} : rule'[k].type # row.type
        BY <3>4, <3>5, <3>7 DEF Beside
      <3> QED
        BY <3>6, <3>8, <3>9 DEF Beside
    <2> QED
      BY <2>4, <2>5, <2>6 DEF RuleTrail
  <1>6. ASSUME NEW p \in Request, CheckSettings(p) \/ PriceStay(p) \/ PriceManual(p) PROVE RuleTrail'
    <2>1. \E t : TaskOK(t) /\ Begin(p, t) /\ t.stage \in {"settings", "book"} /\ UNCHANGED rule
      <3>1. CASE CheckSettings(p)
        <4>1. PICK sent \in Settings : Begin(p, [stage |-> "settings", sent |-> sent])
          BY <3>1 DEF CheckSettings
        <4>2. TaskOK([stage |-> "settings", sent |-> sent])
          BY DEF TaskOK
        <4> QED
          BY <3>1, <4>1, <4>2 DEF CheckSettings
      <3>2. CASE PriceStay(p) \/ PriceManual(p)
        <4>1. PICK stay \in Stay, picked \in SUBSET ExtraKey :
                Begin(p, [stage |-> "book", lines |-> Quote(stay, Null, picked, NoUnits).lines])
          BY <3>2 DEF PriceStay, PriceManual
        <4>2. TaskOK([stage |-> "book", lines |-> Quote(stay, Null, picked, NoUnits).lines])
          BY LinesAreKeys DEF TaskOK
        <4> QED
          BY <3>2, <4>1, <4>2 DEF PriceStay, PriceManual
      <3> QED
        BY <1>6, <3>1, <3>2
    <2>2. PICK t : TaskOK(t) /\ Begin(p, t) /\ t.stage \in {"settings", "book"} /\ UNCHANGED rule
      BY <2>1
    <2>3. t.stage # "insert" /\ t.stage # "update"
      BY <2>2
    <2> QED
      BY <2>2, <2>3, BeginKeepsRuleTrail
  <1>7. ASSUME NEW p \in Request, UpdateProperty(p) \/ Abort(p) \/ InsertBooking(p) PROVE RuleTrail'
    <2>1. Begin(p, Idle) /\ UNCHANGED rule
      BY <1>7 DEF UpdateProperty, Abort, InsertBooking, End
    <2>2. Idle.stage # "insert" /\ Idle.stage # "update"
      BY DEF Idle
    <2> QED
      BY <2>1, <2>2, IdleIsTask, BeginKeepsRuleTrail
  <1>8. ASSUME UNCHANGED <<rule, task>> PROVE RuleTrail'
    BY <1>8 DEF RuleTrail, Beside, Exists, Patched
  <1> QED
    BY <1>1, <1>2, <1>3, <1>4, <1>5, <1>6, <1>7, <1>8
       DEF Next, vars, CreateExtra, UpdateExtra, DeactivateExtra

LEMMA AlwaysRuleTrail == Spec /\ []OneRuleEdit => []RuleTrail
  <1>1. Init => RuleTrail
    BY InitRuleTrail
  <1>2. Shapes /\ RuleTrail /\ OneRuleEdit /\ [Next]_vars => RuleTrail'
    BY NextKeepsRuleTrail
  <1> QED
    BY <1>1, <1>2, AlwaysShapes, PTL DEF Spec

\* Rows, settings and tasks are well formed, and a season that was moved one
\* bound at a time ends no earlier than it starts (updatePriceRule), as long
\* as no two edits of the price rules overlap in time.
THEOREM TypeCorrect == Spec /\ []OneRuleEdit => []TypeOK
  <1>1. Shapes /\ RuleTrail => TypeOK
    <2> SUFFICES ASSUME Shapes, RuleTrail PROVE TypeOK
      OBVIOUS
    <2>1. ASSUME NEW i \in RuleId
          PROVE  rule[i] \in RuleRow /\ (rule[i].type = "HIGH" => rule[i].first <= rule[i].last)
      BY DEF Shapes, RuleTrail, Exists, RuleType, Beside
    <2>2. ASSUME NEW x \in ExtraId, extra[x] # NoExtra
          PROVE  \E row \in ExtraRow : \A field \in {"price", "charged", "from", "to"} :
                   extra[x][field] = row[field]
      <3>1. PICK row \in ExtraRow, key \in ExtraKey, active \in BOOLEAN :
              extra[x] = [key |-> key, price |-> row.price, charged |-> row.charged,
                          from |-> row.from, to |-> row.to, active |-> active]
        BY <2>2 DEF Shapes, ExtraOK
      <3> QED
        BY <3>1
    <2>3. \A p \in Request : task[p].stage \in {"idle", "insert", "update", "settings", "book"}
      BY TaskKinds DEF Shapes
    <2> QED
      BY <2>1, <2>2, <2>3 DEF TypeOK, Shapes
  <1> QED
    BY <1>1, AlwaysShapes, AlwaysRuleTrail, PTL

\* One night has one price, whatever order the database returns the rules in
\* (assertNoOverlap, and the conflict on a second LOW or WEEKEND rule), as
\* long as no two edits of the price rules overlap in time.
THEOREM OneNightOnePrice == Spec /\ []OneRuleEdit => []RateIsDetermined
  <1>1. Shapes /\ RuleTrail => RateIsDetermined
    <2> SUFFICES ASSUME Shapes, RuleTrail, NEW s \in Stay, NEW d \in Nights(s),
                        NEW r \in Governing(d, PricingInput.rules),
                        NEW q \in Governing(d, PricingInput.rules)
                 PROVE  r = q
      BY DEF RateIsDetermined
    <2>1. d \in Int
      BY DEF Nights
    <2>2. PICK i \in RuleId, j \in RuleId : r = rule[i] /\ q = rule[j]
      BY DEF Governing, Of, PricingInput
    <2>3. /\ r.type = q.type /\ r.type \in RuleType
          /\ r.type = "HIGH" => Within(d, r) /\ Within(d, q)
      BY DEF Governing, Of, RuleType
    <2>4. Beside(rule[i], RuleId \ {i})
      BY <2>2, <2>3 DEF RuleTrail, Exists
    <2>5. ASSUME i # j PROVE FALSE
      <3>1. CASE r.type = "HIGH"
        <4>1. r.first \in Int /\ r.last \in Int /\ q.first \in Int /\ q.last \in Int
          BY <2>2, <2>3, <3>1, SeasonsHaveBounds DEF Shapes
        <4>2. ~(r.first <= q.last /\ r.last >= q.first)
          BY <2>2, <2>3, <2>4, <2>5, <3>1 DEF Beside
        <4> QED
          BY <2>1, <2>3, <3>1, <4>1, <4>2 DEF Within
      <3>2. CASE r.type # "HIGH"
        BY <2>2, <2>3, <2>4, <2>5, <3>2 DEF Beside
      <3> QED
        BY <3>1, <3>2
    <2> QED
      BY <2>2, <2>5
  <1> QED
    BY <1>1, AlwaysShapes, AlwaysRuleTrail, PTL

-----------------------------------------------------------------------------
(***************************************************************************)
(* Settings.  updateProperty checks what is sent against what is stored,   *)
(* and writes some awaits later.                                           *)
(***************************************************************************)

\* No two requests are between the check and the write of the settings.
OneSettingsEdit ==
    \A p, q \in Request : task[p].stage = "settings" /\ task[q].stage = "settings" => p = q

\* What is about to be saved leaves a length that is allowed.
SettingsTrail ==
    \A p \in Request : task[p].stage = "settings" =>
        Or(task[p].sent.minNights, house.minNights) <= Or(task[p].sent.maxNights, house.maxNights)

LEMMA NextKeepsLengths ==
  Shapes /\ LengthsAllowed /\ SettingsTrail /\ OneSettingsEdit /\ [Next]_vars
    => LengthsAllowed' /\ SettingsTrail'
  <1> SUFFICES ASSUME Shapes, LengthsAllowed, SettingsTrail, OneSettingsEdit, [Next]_vars
               PROVE  LengthsAllowed' /\ SettingsTrail'
    OBVIOUS
  <1>1. ASSUME NEW p \in Request, CheckSettings(p) PROVE LengthsAllowed' /\ SettingsTrail'
    <2>1. PICK sent \in Settings :
            /\ Or(sent.minNights, house.minNights) <= Or(sent.maxNights, house.maxNights)
            /\ Begin(p, [stage |-> "settings", sent |-> sent])
      BY <1>1 DEF CheckSettings
    <2>2. TaskOK([stage |-> "settings", sent |-> sent])
      BY DEF TaskOK
    <2>3. /\ task'[p] = [stage |-> "settings", sent |-> sent]
          /\ \A q \in Request : q # p => task'[q] = task[q]
      BY <2>1, <2>2, BeginKeepsTasks
    <2>4. house' = house
      BY <1>1 DEF CheckSettings
    <2> QED
      BY <2>1, <2>3, <2>4 DEF LengthsAllowed, SettingsTrail, Or
  <1>2. ASSUME NEW p \in Request, UpdateProperty(p) PROVE LengthsAllowed' /\ SettingsTrail'
    <2>1. LengthsAllowed'
      BY <1>2 DEF UpdateProperty, SettingsTrail, LengthsAllowed
    <2>2. \A q \in Request : task'[q].stage # "settings"
      BY <1>2, IdleIsTask, BeginKeepsTasks DEF UpdateProperty, End, OneSettingsEdit, Idle
    <2> QED
      BY <2>1, <2>2 DEF SettingsTrail
  <1>3. ASSUME UNCHANGED house,
               \A q \in Request : task'[q].stage = "settings" => task'[q] = task[q]
        PROVE  LengthsAllowed' /\ SettingsTrail'
    BY <1>3 DEF LengthsAllowed, SettingsTrail, Or
  <1>4. ASSUME NEW p \in Request, NEW t, TaskOK(t), t.stage # "settings", Begin(p, t)
        PROVE  \A q \in Request : task'[q].stage = "settings" => task'[q] = task[q]
    BY <1>4, BeginKeepsTasks
  <1>5. ASSUME NEW p \in Request,
               InsertRule(p) \/ UpdateRule(p) \/ Abort(p) \/ InsertBooking(p)
        PROVE  LengthsAllowed' /\ SettingsTrail'
    <2>1. Begin(p, Idle) /\ UNCHANGED house
      BY <1>5 DEF InsertRule, UpdateRule, Abort, InsertBooking, End
    <2>2. Idle.stage # "settings"
      BY DEF Idle
    <2> QED
      BY <1>3, <1>4, <2>1, <2>2, IdleIsTask
  <1>6. ASSUME NEW p \in Request,
               CheckNewRule(p) \/ PriceStay(p) \/ PriceManual(p) \/ \E i \in RuleId : CheckRulePatch(p, i)
        PROVE  LengthsAllowed' /\ SettingsTrail'
    <2>1. Shapes'
      BY <1>6, RuleStepsKeepShapes, OtherStepsKeepShapes
    <2>2. \E t : Begin(p, t) /\ t.stage # "settings"
      <3>1. CASE CheckNewRule(p)
        <4>1. \E row : Begin(p, [stage |-> "insert", row |-> row])
          BY <3>1 DEF CheckNewRule
        <4> QED
          BY <4>1
      <3>2. CASE PriceStay(p) \/ PriceManual(p)
        <4>1. \E lines : Begin(p, [stage |-> "book", lines |-> lines])
          BY <3>2 DEF PriceStay, PriceManual
        <4> QED
          BY <4>1
      <3>3. CASE \E i \in RuleId : CheckRulePatch(p, i)
        <4>1. \E i, patch : Begin(p, [stage |-> "update", i |-> i, patch |-> patch])
          BY <3>3 DEF CheckRulePatch
        <4> QED
          BY <4>1
      <3> QED
        BY <1>6, <3>1, <3>2, <3>3
    <2>3. PICK t : Begin(p, t) /\ t.stage # "settings"
      BY <2>2
    <2>4. task'[p] = t /\ \A q \in Request : q # p => task'[q] = task[q]
      BY <2>3 DEF Begin, Shapes
    <2>5. UNCHANGED house
      BY <1>6 DEF CheckNewRule, PriceStay, PriceManual, CheckRulePatch
    <2> QED
      BY <1>3, <2>3, <2>4, <2>5
  <1>7. ASSUME UNCHANGED <<house, task>> PROVE LengthsAllowed' /\ SettingsTrail'
    BY <1>3, <1>7
  <1> QED
    BY <1>1, <1>2, <1>5, <1>6, <1>7
       DEF Next, vars, CreateExtra, UpdateExtra, DeactivateExtra, DeletePriceRule

\* The settings' own minimum never exceeds their maximum (updateProperty checks
\* a partial save against what is stored), as long as no two saves of the
\* settings overlap in time.
THEOREM TheSettingsLeaveALength == Spec /\ []OneSettingsEdit => []LengthsAllowed
  <1>1. Init => LengthsAllowed /\ SettingsTrail
    BY DEF Init, Idle, LengthsAllowed, SettingsTrail
  <1> QED
    BY <1>1, NextKeepsLengths, AlwaysShapes, PTL DEF Spec

-----------------------------------------------------------------------------
(***************************************************************************)
(* A stay and its halves, for every number of requests that interleave.    *)
(***************************************************************************)

LEMMA MaxOfOne ==
  ASSUME NEW a \in Int
  PROVE  Max({0, a}) = IF a >= 0 THEN a ELSE 0
  <1>1. CASE a >= 0
    <2>1. \A y \in {0, a} : a >= y
      BY <1>1
    <2> QED
      BY <1>1, <2>1 DEF Max
  <1>2. CASE ~(a >= 0)
    <2>1. \A y \in {0, a} : 0 >= y
      BY <1>2
    <2> QED
      BY <1>2, <2>1 DEF Max
  <1> QED
    BY <1>1, <1>2

LEMMA RatesAreNat ==
  ASSUME Shapes, NEW d
  PROVE  RateForNight(d, PricingInput.rules) \in Nat
  <1> DEFINE governing == Governing(d, PricingInput.rules)
  <1>1. governing \subseteq PricingInput.rules
    BY DEF Governing, Of
  <1>2. \A r \in PricingInput.rules : r.rate \in Nat
    BY DEF PricingInput, Shapes, RuleRow
  <1> HIDE DEF governing
  <1>3. governing # {} => (CHOOSE r \in governing : TRUE).rate \in Nat
    BY <1>1, <1>2
  <1> QED
    BY <1>3 DEF RateForNight, governing

LEMMA NightsAreFinite ==
  ASSUME NEW s, s.in \in Int, s.out \in Int
  PROVE  IsFiniteSet(Nights(s))
  <1>1. s.out - 1 \in Int
    OBVIOUS
  <1> QED
    BY <1>1, FS_Interval DEF Nights

LEMMA SubtotalIsNat ==
  ASSUME Shapes, NEW s, s.in \in Int, s.out \in Int
  PROVE  Subtotal(s, PricingInput.rules) \in Nat
  <1> DEFINE f == [d \in Nights(s) |-> RateForNight(d, PricingInput.rules)]
  <1>1. IsFiniteSet(Nights(s))
    BY NightsAreFinite
  <1>2. \A d \in Nights(s) : f[d] \in Nat
    BY RatesAreNat
  <1>3. Subtotal(s, PricingInput.rules) = Total(f, Nights(s))
    BY <1>1, SubtotalIsTotal
  <1> HIDE DEF f
  <1> QED
    BY <1>1, <1>2, <1>3, TotalIsNat

LEMMA HalvesOfAStay ==
  ASSUME NEW i \in Int, NEW o \in Int, NEW m \in i .. o
  PROVE  /\ Nights([in |-> i, out |-> o])
              = Nights([in |-> i, out |-> m]) \cup Nights([in |-> m, out |-> o])
         /\ Nights([in |-> i, out |-> m]) \cap Nights([in |-> m, out |-> o]) = {}
  BY DEF Nights

LEMMA SubtotalSplits ==
  ASSUME Shapes, NEW s, NEW a, NEW b,
         s.in \in Int, s.out \in Int, a.in \in Int, a.out \in Int,
         b.in \in Int, b.out \in Int,
         Nights(s) = Nights(a) \cup Nights(b), Nights(a) \cap Nights(b) = {}
  PROVE  Subtotal(s, PricingInput.rules)
           = Subtotal(a, PricingInput.rules) + Subtotal(b, PricingInput.rules)
  <1> DEFINE f(t) == [d \in Nights(t) |-> RateForNight(d, PricingInput.rules)]
  <1>1. IsFiniteSet(Nights(s)) /\ IsFiniteSet(Nights(a)) /\ IsFiniteSet(Nights(b))
    BY NightsAreFinite
  <1>2. /\ Subtotal(s, PricingInput.rules) = Total(f(s), Nights(s))
        /\ Subtotal(a, PricingInput.rules) = Total(f(a), Nights(a))
        /\ Subtotal(b, PricingInput.rules) = Total(f(b), Nights(b))
    BY <1>1, SubtotalIsTotal
  <1>3. \A d \in Nights(s) : f(s)[d] \in Int
    BY RatesAreNat
  <1>4. \A d \in Nights(a) : f(s)[d] = f(a)[d]
    OBVIOUS
  <1>5. \A d \in Nights(b) : f(s)[d] = f(b)[d]
    OBVIOUS
  <1> HIDE DEF f
  <1>6. Total(f(s), Nights(s)) = Total(f(s), Nights(a)) + Total(f(s), Nights(b))
    BY <1>1, <1>3, TotalOfUnion
  <1>7. Total(f(a), Nights(a)) = Total(f(s), Nights(a))
    BY <1>1, <1>4, TotalOfEqual
  <1>8. Total(f(b), Nights(b)) = Total(f(s), Nights(b))
    BY <1>1, <1>5, TotalOfEqual
  <1> QED
    BY <1>2, <1>6, <1>7, <1>8

\* An extra by the night is counted on each night of one half.
LEMMA QuantitySplits ==
  ASSUME NEW e, e.charged # "PER_STAY", NEW s, NEW a, NEW b,
         s.in \in Int, s.out \in Int, a.in \in Int, a.out \in Int,
         b.in \in Int, b.out \in Int,
         Nights(s) = Nights(a) \cup Nights(b), Nights(a) \cap Nights(b) = {}
  PROVE  QuantityFor(e, s, Null) = QuantityFor(e, a, Null) + QuantityFor(e, b, Null)
  <1>1. CASE e.charged = "PER_HOUR"
    <2>1. \A t : QuantityFor(e, t, Null) = Max({0, 0})
      BY <1>1 DEF QuantityFor, Or
    <2>2. Max({0, 0}) = 0
      BY MaxOfOne
    <2> QED
      BY <2>1, <2>2
  <1>2. CASE e.charged # "PER_HOUR"
    <2> DEFINE offered(t) == {d \in Nights(t) : ExtraAvailableOn(e, d)}
    <2>1. \A t : QuantityFor(e, t, Null) = Cardinality(offered(t))
      BY <1>2 DEF QuantityFor
    <2>2. IsFiniteSet(Nights(a)) /\ IsFiniteSet(Nights(b))
      BY NightsAreFinite
    <2>3. IsFiniteSet(offered(a)) /\ IsFiniteSet(offered(b))
      BY <2>2, FS_Subset
    <2>4. offered(s) = offered(a) \cup offered(b) /\ offered(a) \cap offered(b) = {}
      OBVIOUS
    <2> HIDE DEF offered
    <2>5. /\ Cardinality(offered(s))
               = Cardinality(offered(a)) + Cardinality(offered(b)) - Cardinality({})
          /\ Cardinality(offered(a)) \in Nat /\ Cardinality(offered(b)) \in Nat
      BY <2>3, <2>4, FS_Union, FS_CardinalityType
    <2> QED
      BY <2>1, <2>5, FS_EmptySet
  <1> QED
    BY <1>1, <1>2

\* Leaving in the middle of a stay and coming back the same day costs the
\* same nights (nightsOf), an extra by the night follows, and one charged once
\* is charged once for each stay.
THEOREM HalvesCostTheSame == Spec => []SplitStayCostsTheSame
  <1>1. Shapes => SplitStayCostsTheSame
    <2> SUFFICES ASSUME Shapes, NEW s \in Stay, NEW m \in s.in .. s.out
                 PROVE  LET a == [in |-> s.in, out |-> m]
                            b == [in |-> m, out |-> s.out]
                            count(x, t) == QuantityFor(extra[x], t, Null)
                        IN /\ Subtotal(s, PricingInput.rules) =
                                  Subtotal(a, PricingInput.rules) + Subtotal(b, PricingInput.rules)
                           /\ \A x \in ExtraId :
                                 IF extra[x].charged = "PER_STAY"
                                 THEN count(x, a) = count(x, s) /\ count(x, b) = count(x, s)
                                 ELSE count(x, s) = count(x, a) + count(x, b)
      BY DEF SplitStayCostsTheSame
    <2> DEFINE a == [in |-> s.in, out |-> m]
               b == [in |-> m, out |-> s.out]
    <2>1. s.in \in Int /\ s.out \in Int /\ m \in Int /\ s = [in |-> s.in, out |-> s.out]
      OBVIOUS
    <2>2. a.in = s.in /\ a.out = m /\ b.in = m /\ b.out = s.out
      OBVIOUS
    <2>3. Nights(s) = Nights(a) \cup Nights(b) /\ Nights(a) \cap Nights(b) = {}
      BY <2>1, HalvesOfAStay
    <2> HIDE DEF a, b
    <2>4. Subtotal(s, PricingInput.rules) =
            Subtotal(a, PricingInput.rules) + Subtotal(b, PricingInput.rules)
      BY <2>1, <2>2, <2>3, SubtotalSplits
    <2>5. ASSUME NEW x \in ExtraId, extra[x].charged = "PER_STAY", NEW t
          PROVE  QuantityFor(extra[x], t, Null) = QuantityFor(extra[x], s, Null)
      BY <2>5 DEF QuantityFor
    <2>6. ASSUME NEW x \in ExtraId, extra[x].charged # "PER_STAY"
          PROVE  QuantityFor(extra[x], s, Null)
                   = QuantityFor(extra[x], a, Null) + QuantityFor(extra[x], b, Null)
      BY <2>1, <2>2, <2>3, <2>6, QuantitySplits
    <2> QED
      BY <2>4, <2>5, <2>6 DEF a, b
  <1> QED
    BY <1>1, AlwaysShapes, PTL

-----------------------------------------------------------------------------
(***************************************************************************)
(* Rounding.                                                               *)
(***************************************************************************)

LEMMA DivisionBounds ==
  ASSUME NEW y \in Nat
  PROVE  /\ y \div 10000 \in Nat
         /\ 10000 * (y \div 10000) <= y
         /\ y < 10000 * (y \div 10000) + 10000
  OBVIOUS

LEMMA ProductIsNat ==
  ASSUME NEW a \in Nat, NEW b \in Nat
  PROVE  a * b \in Nat
  OBVIOUS

LEMMA PercentIsNat ==
  ASSUME NEW a \in Nat, NEW p \in Nat
  PROVE  PercentOf(a, p) \in Nat
  <1>1. a * p \in Nat
    BY ProductIsNat
  <1>2. ((a * p + 5000) \div 10000) \in Nat
    BY <1>1, DivisionBounds
  <1> QED
    BY <1>2 DEF PercentOf

\* A percentage of whole dollars, or one that leaves half a dollar, is not
\* more than the whole.
LEMMA PercentIsWithin ==
  ASSUME NEW a \in Nat, NEW p \in 0 .. 100,
         a % 100 = 0 \/ a * (100 - p) >= 5000
  PROVE  PercentOf(a, p) <= a
  <1> DEFINE x == a * p
             q == (x + 5000) \div 10000
  <1>1. x \in Nat
    BY ProductIsNat
  <1>2. q \in Nat /\ 10000 * q <= x + 5000
    BY <1>1, DivisionBounds
  <1>3. CASE a * (100 - p) >= 5000
    <2>1. a * (100 - p) = 100 * a - x
      OBVIOUS
    <2> HIDE DEF x, q
    <2>2. q * 100 <= a
      BY <1>1, <1>2, <1>3, <2>1
    <2> QED
      BY <2>2 DEF PercentOf, q, x
  <1>4. CASE a % 100 = 0
    <2>1. PICK k \in Nat : a = 100 * k
      <3>1. a \div 100 \in Nat /\ a = 100 * (a \div 100)
        BY <1>4
      <3> QED
        BY <3>1
    <2>2. x <= 100 * a
      <3>1. a * (100 - p) \in Nat
        BY ProductIsNat
      <3>2. a * (100 - p) = 100 * a - x
        OBVIOUS
      <3> HIDE DEF x
      <3> QED
        BY <1>1, <3>1, <3>2
    <2> HIDE DEF x, q
    <2>3. 10000 * q <= 10000 * k + 5000
      BY <1>1, <1>2, <2>1, <2>2
    <2>4. q <= k
      BY <1>2, <2>3
    <2>5. q * 100 <= a
      BY <1>2, <2>1, <2>4
    <2> QED
      BY <2>5 DEF PercentOf, q, x
  <1> QED
    BY <1>3, <1>4

LEMMA HalfIsWithin ==
  ASSUME NEW a \in Nat, NEW rate \in {0, 1, 2}
  PROVE  /\ Half(a, rate) \in Nat /\ Half(a, rate) <= a
         /\ rate = 2 => Half(a, rate) = a
  <1>1. CASE rate = 0
    BY <1>1 DEF Half
  <1>2. CASE rate = 1
    BY <1>2 DEF Half
  <1>3. CASE rate = 2
    BY <1>3 DEF Half
  <1> QED
    BY <1>1, <1>2, <1>3

LEMMA RateIsHalves ==
  ASSUME NEW policy, NEW bookedAt, NEW now, NEW days
  PROVE  Rate(policy, bookedAt, now, days) \in {0, 1, 2}
  BY DEF Rate

-----------------------------------------------------------------------------
(***************************************************************************)
(* The bill and what it returns, for every number of requests that         *)
(* interleave.                                                             *)
(***************************************************************************)

\* Either the nights cost whole dollars, or the discount leaves at least half
\* a dollar of each.  computeQuote rounds a discount to whole dollars, so
\* that all of $99.50 is $100.
DiscountWithinPrice ==
    \/ \A r \in Price : r % 100 = 0
    \/ \A r \in Price : r * (100 - Fixed.discountPercent) >= 5000

LEMMA RatesArePrices ==
  ASSUME Shapes, NEW d
  PROVE  RateForNight(d, PricingInput.rules) \in Price \cup {0}
  <1> DEFINE governing == Governing(d, PricingInput.rules)
  <1>1. governing \subseteq PricingInput.rules
    BY DEF Governing, Of
  <1>2. \A r \in PricingInput.rules : r.rate \in Price \cup {0}
    BY DEF PricingInput, Shapes, RuleRow
  <1> HIDE DEF governing
  <1>3. governing # {} => (CHOOSE r \in governing : TRUE).rate \in Price \cup {0}
    BY <1>1, <1>2
  <1> QED
    BY <1>3 DEF RateForNight, governing

LEMMA DiscountIsWithin ==
  ASSUME Shapes, DiscountWithinPrice, NEW s, s.in \in Int, s.out \in Int
  PROVE  PercentOf(Subtotal(s, PricingInput.rules), Fixed.discountPercent)
           <= Subtotal(s, PricingInput.rules)
  <1> DEFINE f == [d \in Nights(s) |-> RateForNight(d, PricingInput.rules)]
             left == 100 - Fixed.discountPercent
             sum == Subtotal(s, PricingInput.rules)
  <1>1. IsFiniteSet(Nights(s))
    BY NightsAreFinite
  <1>2. sum = Total(f, Nights(s)) /\ sum \in Nat
    BY <1>1, SubtotalIsTotal, SubtotalIsNat
  <1>3. \A d \in Nights(s) : f[d] \in Price \cup {0}
    BY RatesArePrices
  <1>4. Fixed.discountPercent \in 0 .. 100 /\ left \in Nat
    OBVIOUS
  <1> HIDE DEF f, left, sum
  <1>5. CASE \A r \in Price : r % 100 = 0
    <2> DEFINE V == {v \in Nat : v % 100 = 0}
    <2>1. ASSUME NEW r \in Price \cup {0} PROVE r \in Nat /\ r % 100 = 0
      <3>1. CASE r = 0
        BY <3>1
      <3>2. CASE r \in Price
        BY <1>5, <3>2
      <3> QED
        BY <3>1, <3>2
    <2>2. 0 \in V
      OBVIOUS
    <2>3. ASSUME NEW d \in Nights(s), NEW v \in V PROVE f[d] + v \in V
      <3>1. PICK r \in Price \cup {0} : r = f[d]
        BY <1>3
      <3>2. r \in Nat /\ r % 100 = 0
        BY <2>1
      <3>3. (r + v) % 100 = 0 /\ r + v \in Nat
        BY <3>2
      <3> QED
        BY <3>1, <3>3
    <2> HIDE DEF V
    <2>4. sum \in V
      BY <1>1, <1>2, <2>2, <2>3, TotalIsIn
    <2>5. sum % 100 = 0
      BY <2>4 DEF V
    <2> QED
      BY <1>2, <1>4, <2>5, PercentIsWithin DEF sum
  <1>6. CASE \A r \in Price : r * (100 - Fixed.discountPercent) >= 5000
    <2> DEFINE V == {v \in Nat : v = 0 \/ v * left >= 5000}
    <2>1. ASSUME NEW r \in Price \cup {0} PROVE r \in V
      <3>1. CASE r = 0
        BY <3>1
      <3>2. CASE r \in Price
        BY <1>6, <3>2 DEF left
      <3> QED
        BY <3>1, <3>2
    <2>2. 0 \in V
      OBVIOUS
    <2>3. ASSUME NEW v \in V, NEW w \in V PROVE w + v \in V
      <3>1. (w + v) * left = w * left + v * left
        BY <1>4
      <3>2. v * left \in Nat /\ w * left \in Nat
        BY <1>4, ProductIsNat
      <3> QED
        BY <3>1, <3>2
    <2>4. \A d \in Nights(s) : \A v \in V : f[d] + v \in V
      <3> HIDE DEF V
      <3> QED
        BY <1>3, <2>1, <2>3
    <2> HIDE DEF V
    <2>5. sum \in V
      BY <1>1, <1>2, <2>2, <2>4, TotalIsIn
    <2>6. sum % 100 = 0 \/ sum * (100 - Fixed.discountPercent) >= 5000
      BY <2>5 DEF V, left
    <2> QED
      BY <1>2, <1>4, <2>6, PercentIsWithin DEF sum
  <1> QED
    BY <1>5, <1>6 DEF DiscountWithinPrice

LEMMA QuantityIsNat ==
  ASSUME NEW e, NEW s, s.in \in Int, s.out \in Int
  PROVE  QuantityFor(e, s, Null) \in Nat
  <1>1. Max({0, 1}) = 1 /\ Max({0, 0}) = 0
    BY MaxOfOne
  <1>2. IsFiniteSet({d \in Nights(s) : ExtraAvailableOn(e, d)})
    BY NightsAreFinite, FS_Subset
  <1>3. Cardinality({d \in Nights(s) : ExtraAvailableOn(e, d)}) \in Nat
    BY <1>2, FS_CardinalityType
  <1> QED
    BY <1>1, <1>3 DEF QuantityFor, Or

LEMMA LineIsNat ==
  ASSUME Shapes, NEW s, s.in \in Int, s.out \in Int,
         NEW x \in ExtraKey \cap DOMAIN PricingInput.extras
  PROVE  LineTotal(x, s, NoUnits, PricingInput.extras) \in Nat
  <1> DEFINE y == CHOOSE z \in ExtraId : extra[z].key = x
             e == PricingInput.extras[x]
             keys == {extra[z].key : z \in {w \in ExtraId : extra[w].active}}
  <1>1. PricingInput.extras =
          [k \in keys |-> extra[CHOOSE z \in ExtraId : extra[z].key = k]]
    BY DEF PricingInput
  <1>2. x \in keys
    BY <1>1
  <1>3. \E z \in ExtraId : extra[z].key = x
    BY <1>2
  <1>4. y \in ExtraId /\ extra[y].key = x
    BY <1>3
  <1>5. e = extra[y]
    BY <1>1, <1>2
  <1> HIDE DEF e, y
  <1>6. extra[y] # NoExtra
    BY <1>4 DEF NoExtra
  <1>7. e.price \in Nat
    BY <1>4, <1>5, <1>6 DEF Shapes, ExtraOK
  <1>8. QuantityFor(e, s, Null) \in Nat
    BY QuantityIsNat
  <1>9. LineTotal(x, s, NoUnits, PricingInput.extras) = e.price * QuantityFor(e, s, Null)
    BY DEF LineTotal, NoUnits, e
  <1> QED
    BY <1>7, <1>8, <1>9, ProductIsNat

LEMMA ExtrasTotalIsTotal ==
  ASSUME NEW s, NEW picked, NEW units, NEW extras,
         IsFiniteSet(Lines(s, picked, units, extras))
  PROVE  ExtrasTotal(s, picked, units, extras)
           = Total([x \in Lines(s, picked, units, extras) |-> LineTotal(x, s, units, extras)],
                   Lines(s, picked, units, extras))
  <1> DEFINE S == Lines(s, picked, units, extras)
             cost(x) == LineTotal(x, s, units, extras)
             f == [x \in S |-> cost(x)]
             Sums(g) == g = [t \in SUBSET S |->
                IF t = {} THEN 0
                ELSE cost(CHOOSE x \in t : TRUE) + g[t \ {CHOOSE x \in t : TRUE}]]
  <1> HIDE DEF S, cost
  <1>1. ASSUME NEW g PROVE Sums(g) <=> Adds(g, f, S)
    <2>1. \A t \in SUBSET S : t # {} => f[Pick(t)] = cost(Pick(t))
      BY PickIsMember
    <2> HIDE DEF f
    <2> QED
      BY <2>1 DEF Adds, Pick
  <1>2. IsFiniteSet(S)
    BY DEF S
  <1> HIDE DEF f, Sums
  <1>3. \E g : Sums(g)
    <2>1. PICK g : Adds(g, f, S)
      BY <1>2, AddsExists
    <2> QED
      BY <1>1, <2>1
  <1> DEFINE total == CHOOSE g : Sums(g)
  <1>4. Adds(total, f, S)
    BY <1>1, <1>3
  <1>5. ExtrasTotal(s, picked, units, extras) = total[S]
    BY DEF ExtrasTotal, MapThenSumSet, MapThenFoldSet, Sums, S, cost
  <1> HIDE DEF total
  <1>6. S \in SUBSET S
    OBVIOUS
  <1>7. Total(f, S) = total[S]
    BY <1>2, <1>4, <1>6, TotalOfPart
  <1> QED
    BY <1>5, <1>7 DEF S, f, cost

LEMMA ExtrasTotalIsNat ==
  ASSUME Shapes, NEW s, s.in \in Int, s.out \in Int
  PROVE  ExtrasTotal(s, ExtraKey, NoUnits, PricingInput.extras) \in Nat
  <1> DEFINE S == Lines(s, ExtraKey, NoUnits, PricingInput.extras)
             f == [x \in S |-> LineTotal(x, s, NoUnits, PricingInput.extras)]
  <1>1. S \subseteq ExtraKey \cap DOMAIN PricingInput.extras
    BY DEF Lines
  <1>2. IsFiniteSet(S)
    BY <1>1, FS_Subset
  <1>3. \A x \in S : f[x] \in Nat
    BY <1>1, LineIsNat
  <1>4. ExtrasTotal(s, ExtraKey, NoUnits, PricingInput.extras) = Total(f, S)
    BY <1>2, ExtrasTotalIsTotal
  <1> HIDE DEF f, S
  <1> QED
    BY <1>2, <1>3, <1>4, TotalIsNat

LEMMA GuestFeeIsNat ==
  ASSUME NEW guests \in Int, NEW nights \in Nat
  PROVE  AdditionalGuestFee(guests, nights, PricingInput) \in Nat
  <1> DEFINE more == Max({0, Or(guests, Fixed.maxGuests) - Fixed.maxGuests})
  <1>1. Or(guests, Fixed.maxGuests) - Fixed.maxGuests \in Int
    BY DEF Or
  <1>2. more \in Nat
    BY <1>1, MaxOfOne
  <1>3. Fixed.guestFee \in Nat
    OBVIOUS
  <1> HIDE DEF more
  <1>4. more * Fixed.guestFee \in Nat
    BY <1>2, <1>3, ProductIsNat
  <1>5. more * Fixed.guestFee * nights \in Nat
    BY <1>4, ProductIsNat
  <1> QED
    BY <1>5 DEF AdditionalGuestFee, PricingInput, more

\* The lines of a bill: none is negative, and they add up to its total.
BillOK(quote) ==
    LET accommodation == (quote.nightsSubtotal - quote.weeklyDiscount) + quote.additionalGuestFee
    IN /\ accommodation \in Nat
       /\ quote.extrasTotal \in Nat /\ quote.cleaningFee \in Nat
       /\ quote.serviceFee \in Nat /\ quote.taxes \in Nat
       /\ quote.total = accommodation + quote.extrasTotal + quote.cleaningFee
                           + quote.serviceFee + quote.taxes

LEMMA QuotesAreBills ==
  ASSUME Shapes, DiscountWithinPrice, NEW s, s.in \in Int, s.out \in Int, NEW g \in Int
  PROVE  BillOK(FullQuote(s, g))
  <1> DEFINE nights == Cardinality(Nights(s))
             subtotal == Subtotal(s, PricingInput.rules)
             discount == WeeklyDiscount(subtotal, nights, PricingInput)
             guestFee == AdditionalGuestFee(g, nights, PricingInput)
             accommodation == (subtotal - discount) + guestFee
             extras == ExtrasTotal(s, ExtraKey, NoUnits, PricingInput.extras)
             service == PercentOf(accommodation, PricingInput.servicePercent)
             taxes == PercentOf(accommodation, PricingInput.taxesPercent)
  <1>1. nights \in Nat
    BY NightsAreFinite, FS_CardinalityType
  <1>2. subtotal \in Nat
    BY SubtotalIsNat
  <1>3. discount \in Nat /\ discount <= subtotal
    <2>1. /\ PercentOf(subtotal, Fixed.discountPercent) \in Nat
          /\ PercentOf(subtotal, Fixed.discountPercent) <= subtotal
      <3>1. PercentOf(subtotal, Fixed.discountPercent) <= subtotal
        BY DiscountIsWithin
      <3>2. Fixed.discountPercent \in Nat
        OBVIOUS
      <3> HIDE DEF subtotal
      <3> QED
        BY <1>2, <3>1, <3>2, PercentIsNat
    <2>2. discount \in {0, PercentOf(subtotal, Fixed.discountPercent)}
      BY DEF WeeklyDiscount, PricingInput
    <2> HIDE DEF subtotal, discount
    <2> QED
      BY <1>2, <2>1, <2>2
  <1>4. guestFee \in Nat
    BY <1>1, GuestFeeIsNat
  <1>5. extras \in Nat
    BY ExtrasTotalIsNat
  <1>6. /\ PricingInput.servicePercent \in Nat /\ PricingInput.taxesPercent \in Nat
        /\ PricingInput.cleaningFee \in Nat
    BY DEF PricingInput
  <1>7. LET quote == FullQuote(s, g)
        IN /\ quote.nightsSubtotal = subtotal /\ quote.weeklyDiscount = discount
           /\ quote.additionalGuestFee = guestFee /\ quote.extrasTotal = extras
           /\ quote.cleaningFee = PricingInput.cleaningFee
           /\ quote.serviceFee = service /\ quote.taxes = taxes
           /\ quote.total = accommodation + extras + PricingInput.cleaningFee + service + taxes
    BY DEF FullQuote, Quote, ComputeQuote
  <1> HIDE DEF nights, subtotal, discount, guestFee, extras
  <1>8. accommodation \in Nat
    BY <1>2, <1>3, <1>4
  <1> HIDE DEF accommodation
  <1>9. service \in Nat /\ taxes \in Nat
    BY <1>6, <1>8, PercentIsNat
  <1> HIDE DEF service, taxes
  <1> QED
    BY <1>5, <1>6, <1>7, <1>8, <1>9 DEF BillOK, accommodation

LEMMA RefundsOfABill ==
  ASSUME NEW quote, BillOK(quote), NEW checkIn \in Int, NEW bookedAt, NEW policy, NEW now \in Int
  PROVE  LET back == ProposeRefund(checkIn, bookedAt, policy, quote, now)
         IN /\ 0 <= back.total /\ back.total <= quote.total
            /\ back.rate = 2 => back.total = quote.total
  <1> DEFINE days == DaysUntilCheckIn(checkIn, now)
             rate == Rate(policy, bookedAt, now, days)
             a == (quote.nightsSubtotal - quote.weeklyDiscount) + quote.additionalGuestFee
             back == ProposeRefund(checkIn, bookedAt, policy, quote, now)
  <1>1. CASE days <= 0
    <2>1. back.total = 0 /\ back.rate = 0
      BY <1>1 DEF ProposeRefund, StayStarted
    <2> HIDE DEF back
    <2>2. quote.total >= 0
      BY DEF BillOK
    <2> QED
      BY <2>1, <2>2 DEF back
  <1>2. CASE ~(days <= 0)
    <2>1. /\ back.rate = rate
          /\ back.total = Half(a, rate) + Half(quote.serviceFee, rate) + Half(quote.taxes, rate)
                            + quote.cleaningFee + quote.extrasTotal
      BY <1>2 DEF ProposeRefund
    <2>2. rate \in {0, 1, 2}
      BY RateIsHalves
    <2>3. /\ a \in Nat /\ quote.extrasTotal \in Nat /\ quote.cleaningFee \in Nat
          /\ quote.serviceFee \in Nat /\ quote.taxes \in Nat
          /\ quote.total = a + quote.extrasTotal + quote.cleaningFee
                             + quote.serviceFee + quote.taxes
      BY DEF BillOK
    <2> HIDE DEF a, rate, back, days
    <2>4. Half(a, rate) \in Nat /\ Half(a, rate) <= a /\ (rate = 2 => Half(a, rate) = a)
      BY <2>2, <2>3, HalfIsWithin
    <2>5. /\ Half(quote.serviceFee, rate) \in Nat /\ Half(quote.serviceFee, rate) <= quote.serviceFee
          /\ rate = 2 => Half(quote.serviceFee, rate) = quote.serviceFee
      BY <2>2, <2>3, HalfIsWithin
    <2>6. /\ Half(quote.taxes, rate) \in Nat /\ Half(quote.taxes, rate) <= quote.taxes
          /\ rate = 2 => Half(quote.taxes, rate) = quote.taxes
      BY <2>2, <2>3, HalfIsWithin
    <2>7. 0 <= back.total /\ back.total <= quote.total
      BY <2>1, <2>3, <2>4, <2>5, <2>6
    <2>8. back.rate = 2 => back.total = quote.total
      BY <2>1, <2>3, <2>4, <2>5, <2>6
    <2> QED
      BY <2>7, <2>8 DEF back
  <1> QED
    BY <1>1, <1>2

\* A refund is never negative and never more than the stay cost, and a full
\* one is every cent of it (proposeRefund adds up all the lines computeQuote
\* added up).
THEOREM RefundsStayWithinTheBill ==
  ASSUME DiscountWithinPrice
  PROVE  Spec => []RefundWithinQuote
  <1>1. Shapes => RefundWithinQuote
    <2> SUFFICES ASSUME Shapes, NEW s \in Stay, NEW g \in Party, NEW policy \in Policy, NEW now \in Hour
                 PROVE  LET back == ProposeRefund(s.in, 0, policy, FullQuote(s, g), now)
                        IN /\ 0 <= back.total /\ back.total <= FullQuote(s, g).total
                           /\ back.rate = 2 => back.total = FullQuote(s, g).total
      BY DEF RefundWithinQuote
    <2>1. s.in \in Int /\ s.out \in Int /\ g \in Int /\ now \in Int
      OBVIOUS
    <2>2. BillOK(FullQuote(s, g))
      BY <2>1, QuotesAreBills
    <2> QED
      BY <2>1, <2>2, RefundsOfABill
  <1> QED
    BY <1>1, AlwaysShapes, PTL

-----------------------------------------------------------------------------
(***************************************************************************)
(* The ladder of a cancellation policy.                                    *)
(***************************************************************************)

LEMMA LadderSteps ==
  ASSUME NEW policy \in Policy
  PROVE  /\ CancellationRules[policy].full \in Nat
         /\ CancellationRules[policy].half \in {Never, 7}
         /\ CancellationRules[policy].grace \in {Never, 48}
         /\ CancellationRules[policy].grace # Never =>
               /\ CancellationRules[policy].full = 0
               /\ CancellationRules[policy].ahead = 14
  BY DEF Policy, CancellationRules, Never

\* The dates a guest is shown are the ladder that decides the refund: up to
\* fullRefundDeadline everything comes back, and after it not everything; up to
\* halfRefundDeadline at least half, and after it nothing, but for the hours of
\* grace after the booking.
THEOREM DeadlinesAreKept ==
  ASSUME NEW policy \in Policy, NEW checkIn \in Int, NEW bookedAt \in Int, NEW now \in Int
  PROVE  LET ladder == CancellationRules[policy]
             days == DaysUntilCheckIn(checkIn, now)
             rate == Rate(policy, bookedAt, now, days)
         IN /\ ladder.full > 0 =>
                 (rate = 2 <=> Day(now) <= FullRefundDeadline(checkIn, policy))
            /\ ladder.half # Never =>
                 (rate >= 1 <=> \/ Day(now) <= HalfRefundDeadline(checkIn, policy)
                                \/ ladder.full > 0 /\ Day(now) <= FullRefundDeadline(checkIn, policy)
                                \/ WithinGrace(policy, bookedAt, now, days))
  <1> DEFINE ladder == CancellationRules[policy]
             today == Day(now)
             days == DaysUntilCheckIn(checkIn, now)
             grace == WithinGrace(policy, bookedAt, now, days)
             rate == Rate(policy, bookedAt, now, days)
  <1>1. today \in Int /\ days = checkIn - today
    BY DEF Day, DaysUntilCheckIn
  <1>2. /\ ladder.full \in Nat /\ ladder.half \in {Never, 7}
        /\ grace => ladder.full = 0 /\ days >= 14
    BY LadderSteps DEF WithinGrace
  <1>3. rate = IF days <= 0 THEN 0
               ELSE IF grace \/ (ladder.full > 0 /\ days >= ladder.full) THEN 2
               ELSE IF ladder.half # Never /\ days >= ladder.half THEN 1
               ELSE 0
    BY DEF Rate
  <1>4. ladder.full > 0 => FullRefundDeadline(checkIn, policy) = checkIn - ladder.full
    BY <1>2 DEF FullRefundDeadline
  <1>5. ladder.half # Never => HalfRefundDeadline(checkIn, policy) = checkIn - 7
    BY <1>2 DEF HalfRefundDeadline
  <1> HIDE DEF ladder, today, days, grace, rate
  <1>6. ladder.full > 0 => (rate = 2 <=> today <= FullRefundDeadline(checkIn, policy))
    BY <1>1, <1>2, <1>3, <1>4
  <1>7. ladder.half # Never =>
          (rate >= 1 <=> \/ today <= HalfRefundDeadline(checkIn, policy)
                         \/ ladder.full > 0 /\ today <= FullRefundDeadline(checkIn, policy)
                         \/ grace)
    BY <1>1, <1>2, <1>3, <1>4, <1>5
  <1> QED
    BY <1>6, <1>7 DEF ladder, today, days, grace, rate

LEMMA DaysFall ==
  ASSUME NEW now \in Int, NEW later \in Int, now <= later
  PROVE  Day(now) \in Int /\ Day(later) \in Int /\ Day(now) <= Day(later)
  BY DEF Day

\* The rung a cancellation stands on only falls with time: neither the days
\* to the stay nor the hours of grace come back.
LEMMA RateFalls ==
  ASSUME NEW policy \in Policy, NEW checkIn \in Int, NEW bookedAt \in Int,
         NEW now \in Int, NEW later \in Int, now <= later
  PROVE  Rate(policy, bookedAt, later, DaysUntilCheckIn(checkIn, later))
           <= Rate(policy, bookedAt, now, DaysUntilCheckIn(checkIn, now))
  <1> DEFINE ladder == CancellationRules[policy]
             days(t) == DaysUntilCheckIn(checkIn, t)
             grace(t) == WithinGrace(policy, bookedAt, t, days(t))
             rate(t) == Rate(policy, bookedAt, t, days(t))
  <1>1. days(now) \in Int /\ days(later) \in Int /\ days(later) <= days(now)
    BY DaysFall DEF DaysUntilCheckIn
  <1>2. ladder.full \in Nat /\ ladder.half \in {-1, 7}
    BY LadderSteps DEF Never
  <1>3. grace(later) => grace(now)
    <2>1. SUFFICES ASSUME ladder.grace # Never, later - bookedAt <= ladder.grace, days(later) >= ladder.ahead
                   PROVE  now - bookedAt <= ladder.grace /\ days(now) >= ladder.ahead
      BY DEF WithinGrace
    <2>2. ladder.grace = 48 /\ ladder.ahead = 14
      BY <2>1, LadderSteps
    <2> HIDE DEF ladder, days
    <2> QED
      BY <1>1, <2>1, <2>2
  <1>4. \A t \in {now, later} : rate(t) = IF days(t) <= 0 THEN 0
                         ELSE IF grace(t) \/ (ladder.full > 0 /\ days(t) >= ladder.full) THEN 2
                         ELSE IF ladder.half # Never /\ days(t) >= ladder.half THEN 1
                         ELSE 0
    BY DEF Rate
  <1> HIDE DEF ladder, days, grace, rate
  <1>5. rate(later) <= rate(now)
    BY <1>1, <1>2, <1>3, <1>4 DEF Never
  <1> QED
    BY <1>5 DEF rate, days

LEMMA HalfGrows ==
  ASSUME NEW a \in Nat, NEW r \in {0, 1, 2}, NEW q \in {0, 1, 2}, r <= q
  PROVE  Half(a, r) \in Nat /\ Half(a, q) \in Nat /\ Half(a, r) <= Half(a, q)
  <1>1. Half(a, 0) = 0 /\ Half(a, 2) = a
    BY HalfIsWithin DEF Half
  <1>2. Half(a, 1) \in Nat /\ Half(a, 1) <= a
    BY HalfIsWithin
  <1> QED
    BY <1>1, <1>2

\* Waiting never pays: the later a stay is cancelled, the less comes back
\* (proposeRefund).
WaitingNeverPays ==
    \A s \in Stay, g \in Party, policy \in Policy, bookedAt, now, later \in Hour :
        now <= later =>
            ProposeRefund(s.in, bookedAt, policy, FullQuote(s, g), later).total
              <= ProposeRefund(s.in, bookedAt, policy, FullQuote(s, g), now).total

LEMMA LaterReturnsLess ==
  ASSUME NEW quote, BillOK(quote), NEW policy \in Policy, NEW checkIn \in Int,
         NEW bookedAt \in Int, NEW now \in Int, NEW later \in Int, now <= later
  PROVE  ProposeRefund(checkIn, bookedAt, policy, quote, later).total
           <= ProposeRefund(checkIn, bookedAt, policy, quote, now).total
  <1> DEFINE days(t) == DaysUntilCheckIn(checkIn, t)
             rate(t) == Rate(policy, bookedAt, t, days(t))
             back(t) == ProposeRefund(checkIn, bookedAt, policy, quote, t)
             a == (quote.nightsSubtotal - quote.weeklyDiscount) + quote.additionalGuestFee
  <1>1. rate(later) <= rate(now) /\ rate(now) \in {0, 1, 2} /\ rate(later) \in {0, 1, 2}
    BY RateFalls, RateIsHalves
  <1>2. days(now) \in Int /\ days(later) \in Int /\ days(later) <= days(now)
    BY DaysFall DEF DaysUntilCheckIn
  <1>3. 0 <= back(now).total
    BY RefundsOfABill
  <1>4. \A t : days(t) <= 0 => back(t).total = 0
    BY DEF ProposeRefund, StayStarted
  <1>5. \A t : ~(days(t) <= 0) =>
          back(t).total = Half(a, rate(t)) + Half(quote.serviceFee, rate(t))
                            + Half(quote.taxes, rate(t))
                            + quote.cleaningFee + quote.extrasTotal
    BY DEF ProposeRefund
  <1>6. /\ a \in Nat /\ quote.extrasTotal \in Nat /\ quote.cleaningFee \in Nat
        /\ quote.serviceFee \in Nat /\ quote.taxes \in Nat
    BY DEF BillOK
  <1> HIDE DEF days, rate, back, a
  <1>7. ASSUME days(later) <= 0 PROVE back(later).total <= back(now).total
    <2>1. back(later).total = 0
      BY <1>4, <1>7
    <2> QED
      BY <1>3, <2>1
  <1>8. ASSUME ~(days(later) <= 0) PROVE back(later).total <= back(now).total
    <2>1. ~(days(now) <= 0)
      BY <1>2, <1>8
    <2>2. \A m \in Nat : /\ Half(m, rate(later)) \in Nat /\ Half(m, rate(now)) \in Nat
                         /\ Half(m, rate(later)) <= Half(m, rate(now))
      BY <1>1, HalfGrows
    <2>3. /\ back(later).total = Half(a, rate(later)) + Half(quote.serviceFee, rate(later))
                                  + Half(quote.taxes, rate(later))
                                  + quote.cleaningFee + quote.extrasTotal
          /\ back(now).total = Half(a, rate(now)) + Half(quote.serviceFee, rate(now))
                                + Half(quote.taxes, rate(now))
                                + quote.cleaningFee + quote.extrasTotal
      BY <1>5, <1>8, <2>1
    <2>4. /\ Half(a, rate(later)) \in Nat /\ Half(a, rate(now)) \in Nat
          /\ Half(a, rate(later)) <= Half(a, rate(now))
          /\ Half(quote.serviceFee, rate(later)) \in Nat /\ Half(quote.serviceFee, rate(now)) \in Nat
          /\ Half(quote.serviceFee, rate(later)) <= Half(quote.serviceFee, rate(now))
          /\ Half(quote.taxes, rate(later)) \in Nat /\ Half(quote.taxes, rate(now)) \in Nat
          /\ Half(quote.taxes, rate(later)) <= Half(quote.taxes, rate(now))
      BY <1>6, <2>2
    <2>5. back(later).total <= back(now).total
      BY <1>6, <2>3, <2>4
    <2> QED
      BY <2>5
  <1>9. back(later).total <= back(now).total
    BY <1>7, <1>8
  <1> QED
    BY <1>9 DEF back

\* The later a stay is cancelled, the less comes back, whatever the prices,
\* the extras and the policy.
THEOREM ALaterCancellationReturnsLess ==
  ASSUME DiscountWithinPrice
  PROVE  Spec => []WaitingNeverPays
  <1>1. Shapes => WaitingNeverPays
    <2> SUFFICES ASSUME Shapes, NEW s \in Stay, NEW g \in Party, NEW policy \in Policy,
                        NEW bookedAt \in Hour, NEW now \in Hour, NEW later \in Hour,
                        now <= later
                 PROVE  ProposeRefund(s.in, bookedAt, policy, FullQuote(s, g), later).total
                          <= ProposeRefund(s.in, bookedAt, policy, FullQuote(s, g), now).total
      BY DEF WaitingNeverPays
    <2>1. /\ s.in \in Int /\ s.out \in Int /\ g \in Int
          /\ bookedAt \in Int /\ now \in Int /\ later \in Int
      OBVIOUS
    <2>2. BillOK(FullQuote(s, g))
      BY <2>1, QuotesAreBills
    <2> QED
      BY <2>1, <2>2, LaterReturnsLess
  <1> QED
    BY <1>1, AlwaysShapes, PTL
=============================================================================
