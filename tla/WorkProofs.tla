------------------------------- MODULE WorkProofs -------------------------------
(***************************************************************************)
(* Proofs about the work on tasks and objectives, as the module Grouping   *)
(* composes it.                                                            *)
(***************************************************************************)
EXTENDS Grouping, FiniteSetTheorems, WellFoundedInduction, TLAPS

-----------------------------------------------------------------------------
(* Numbers. *)

LEMMA LeastOf ==
    ASSUME NEW S \in SUBSET Nat, S # {}
    PROVE  \E x \in S : \A y \in S : x <= y
<1> DEFINE R == OpToRel(<, Nat)
<1>1. PICK x \in S : \A y \in S : ~(<<y, x>> \in R)
  BY NatLessThanWellFounded, WFMin
<1>2. ASSUME NEW y \in S, y < x PROVE FALSE
  <2>1. <<y, x>> \in R
    BY <1>2 DEF OpToRel
  <2> QED  BY <2>1, <1>1
<1>3. \A y \in S : x <= y
  <2> HIDE DEF R
  <2> QED  BY <1>2
<1> QED  BY <1>3

(* The sizes of the finite sets without a greatest element have no least one. *)
LEMMA GreatestOf ==
    ASSUME NEW S \in SUBSET Nat, S # {}, IsFiniteSet(S)
    PROVE  \E x \in S : \A y \in S : y <= x
<1> DEFINE Has(U) == \E x \in U : \A y \in U : y <= x
           Bad == {n \in Nat : \E U \in SUBSET S : U # {} /\ Cardinality(U) = n /\ ~Has(U)}
<1>1. ASSUME NEW U \in SUBSET S PROVE IsFiniteSet(U) /\ Cardinality(U) \in Nat
  BY FS_Subset, FS_CardinalityType
<1>2. Bad = {}
  <2> SUFFICES ASSUME Bad # {} PROVE FALSE
    OBVIOUS
  <2>1. PICK n \in Bad : \A m \in Bad : n <= m
    BY LeastOf
  <2>2. PICK U \in SUBSET S : U # {} /\ Cardinality(U) = n /\ ~Has(U)
    OBVIOUS
  <2> HIDE DEF Has
  <2>3. PICK u \in U : TRUE
    BY <2>2
  <2> DEFINE V == U \ {u}
  <2>4. V \in SUBSET S /\ Cardinality(V) = n - 1 /\ n \in Nat
    BY <1>1, <2>2, FS_RemoveElement
  <2>5. Cardinality(V) \in Nat
    BY <2>4, <1>1
  <2>6. CASE V = {}
    <3>1. U = {u}
      BY <2>6, <2>3
    <3>2. u \in Nat
      OBVIOUS
    <3> QED  BY <3>1, <3>2, <2>2 DEF Has
  <2>7. CASE V # {}
    <3>1. n - 1 \notin Bad
      BY <2>1, <2>4
    <3>2. Has(V)
      BY <3>1, <2>4, <2>5, <2>7
    <3>3. PICK v \in V : \A y \in V : y <= v
      BY <3>2 DEF Has
    <3>4. v \in U /\ v \in Nat /\ u \in Nat /\ \A y \in U : y = u \/ y \in V
      OBVIOUS
    <3>5. CASE v <= u
      <4>1. \A y \in U : y <= u
        <5> TAKE y \in U
        <5>1. y \in Nat
          OBVIOUS
        <5> QED  BY <3>3, <3>4, <3>5, <5>1
      <4> QED  BY <4>1, <2>2, <2>3 DEF Has
    <3>6. CASE ~(v <= u)
      <4>1. \A y \in U : y <= v
        <5> TAKE y \in U
        <5>1. y \in Nat
          OBVIOUS
        <5> QED  BY <3>3, <3>4, <3>6, <5>1
      <4> QED  BY <4>1, <3>4, <2>2 DEF Has
    <3> QED  BY <3>5, <3>6
  <2> QED  BY <2>6, <2>7
<1>3. Cardinality(S) \in Nat /\ Cardinality(S) \notin Bad
  BY <1>1, <1>2
<1> HIDE DEF Has
<1>4. Has(S)
  BY <1>3
<1> QED  BY <1>4 DEF Has

(* The hull of some plans is an interval that contains them. *)
LEMMA HullType ==
    ASSUME NEW P \in SUBSET (Nat \X Nat), P # {}, IsFiniteSet(P)
    PROVE  Hull(P) \in Nat \X Nat
<1> DEFINE A == {i[1] : i \in P}
           B == {i[2] : i \in P}
           f == [i \in P |-> i[2]]
<1>1. A \in SUBSET Nat /\ A # {} /\ B \in SUBSET Nat /\ B # {}
  OBVIOUS
<1>2. f \in Surjection(P, B)
  BY DEF Surjection
<1>3. IsFiniteSet(B)
  BY <1>2, FS_Surjection
<1>4. \E x \in A : \A y \in A : x <= y
  BY <1>1, LeastOf
<1>5. \E x \in B : \A y \in B : x >= y
  <2>1. PICK x \in B : \A y \in B : y <= x
    BY <1>1, <1>3, GreatestOf
  <2>2. \A y \in B : x >= y
    BY <2>1, <1>1
  <2> QED  BY <2>2
<1>6. Min(A) \in A
  <2> HIDE DEF A
  <2> QED  BY <1>4 DEF Min
<1>7. Max(B) \in B
  <2> HIDE DEF B
  <2> QED  BY <1>5 DEF Max
<1> QED  BY <1>1, <1>6, <1>7 DEF Hull

-----------------------------------------------------------------------------
(* The fold of execution evidence. *)

States == {"not_started", "in_progress", "ended", "terminated"}

(* A state that the fold can reach: nothing is noted before the start. *)
Sane(x) ==
    /\ x \in [st : States \cup {"invalid"}, s : Opt(Instants), e : Opt(Instants)]
    /\ x.st = "not_started" => x = Unstarted

FoldsTo(ev, n, g) ==
    g = [m \in 0..n |-> IF m = 0 THEN Unstarted ELSE Folded(g[m - 1], ev[m])]

LEMMA FoldsToStep ==
    ASSUME NEW ev, NEW n \in Nat, NEW g, FoldsTo(ev, n, g)
    PROVE  /\ g[0] = Unstarted
           /\ \A m \in 1..n : g[m] = Folded(g[m - 1], ev[m])
<1>1. g = [m \in 0..n |-> IF m = 0 THEN Unstarted ELSE Folded(g[m - 1], ev[m])]
  BY DEF FoldsTo
<1>2. ASSUME NEW m \in 0..n PROVE g[m] = IF m = 0 THEN Unstarted ELSE Folded(g[m - 1], ev[m])
  BY <1>1
<1> QED  BY <1>2

(* Histories that agree up to n fold to the same states up to n. *)
LEMMA FoldsToUnique ==
    ASSUME NEW ev, NEW fv, NEW n \in Nat, NEW k \in Nat, NEW g, NEW h, n <= k,
           FoldsTo(ev, n, g), FoldsTo(fv, k, h), \A m \in 1..n : ev[m] = fv[m]
    PROVE  g[n] = h[n]
<1> DEFINE Bad == {m \in 0..n : g[m] # h[m]}
<1>1. Bad = {}
  <2> SUFFICES ASSUME Bad # {} PROVE FALSE
    OBVIOUS
  <2>1. PICK m \in Bad : \A q \in Bad : m <= q
    <3>1. Bad \in SUBSET Nat
      OBVIOUS
    <3> HIDE DEF Bad
    <3> QED  BY <3>1, LeastOf
  <2>2. CASE m = 0
    BY <2>2, FoldsToStep
  <2>3. CASE m # 0
    <3>1. m \in 1..n /\ m \in 1..k /\ m - 1 \in 0..n /\ ~(m <= m - 1)
      BY <2>3
    <3>2. g[m - 1] = h[m - 1]
      BY <3>1, <2>1
    <3>3. g[m] = Folded(g[m - 1], ev[m]) /\ h[m] = Folded(h[m - 1], fv[m])
      BY <3>1, FoldsToStep
    <3> QED  BY <3>1, <3>2, <3>3
  <2> QED  BY <2>2, <2>3
<1> QED  BY <1>1

LEMMA FoldsToExists ==
    ASSUME NEW ev, NEW n \in Nat
    PROVE  \E g : FoldsTo(ev, n, g)
<1> DEFINE Bad == {m \in Nat : ~\E g : FoldsTo(ev, m, g)}
<1>1. Bad = {}
  <2> SUFFICES ASSUME Bad # {} PROVE FALSE
    OBVIOUS
  <2>1. PICK m \in Bad : \A q \in Bad : m <= q
    BY LeastOf
  <2>2. CASE m = 0
    <3> DEFINE g == [i \in 0..0 |-> Unstarted]
    <3>1. FoldsTo(ev, 0, g)
      BY DEF FoldsTo
    <3> QED  BY <3>1, <2>2
  <2>3. CASE m # 0
    <3>1. m - 1 \in Nat /\ m - 1 \notin Bad
      BY <2>1, <2>3
    <3>2. PICK g : FoldsTo(ev, m - 1, g)
      BY <3>1
    <3> DEFINE h == [i \in 0..m |-> IF i = m THEN Folded(g[m - 1], ev[m]) ELSE g[i]]
    <3>3. ASSUME NEW i \in 0..m
          PROVE  h[i] = IF i = 0 THEN Unstarted ELSE Folded(h[i - 1], ev[i])
      <4>1. CASE i = 0
        <5>1. h[i] = g[0]
          BY <4>1, <2>3
        <5> QED  BY <5>1, <4>1, <3>1, <3>2, FoldsToStep
      <4>2. CASE i # 0
        <5>1. i - 1 \in 0..m /\ i - 1 # m /\ h[i - 1] = g[i - 1]
          BY <4>2
        <5>2. CASE i = m
          BY <5>1, <5>2, <4>2
        <5>3. CASE i # m
          <6>1. i \in 1..(m - 1) /\ h[i] = g[i]
            BY <4>2, <5>3
          <6>2. g[i] = Folded(g[i - 1], ev[i])
            BY <6>1, <3>1, <3>2, FoldsToStep
          <6> QED  BY <6>1, <6>2, <5>1, <4>2
        <5> QED  BY <5>2, <5>3
      <4> QED  BY <4>1, <4>2
    <3>4. h = [i \in 0..m |-> h[i]]
      OBVIOUS
    <3> HIDE DEF h
    <3>5. FoldsTo(ev, m, h)
      BY <3>3, <3>4 DEF FoldsTo
    <3> QED  BY <3>5
  <2> QED  BY <2>2, <2>3
<1> QED  BY <1>1

LEMMA FoldIsFold ==
    ASSUME NEW ev, Len(ev) \in Nat
    PROVE  \E g : FoldsTo(ev, Len(ev), g) /\ _fold_execution_history(ev) = g[Len(ev)]
<1> DEFINE g == CHOOSE f : FoldsTo(ev, Len(ev), f)
<1>1. FoldsTo(ev, Len(ev), g)
  BY FoldsToExists
<1>2. _fold_execution_history(ev) = g[Len(ev)]
  BY DEF _fold_execution_history, FoldsTo
<1> QED  BY <1>1, <1>2

(* One more piece of evidence is one more step of the fold. *)
LEMMA FoldAppend ==
    ASSUME NEW ev \in Seq(Event), NEW e \in Event
    PROVE  _fold_execution_history(Append(ev, e)) = Folded(_fold_execution_history(ev), e)
<1> DEFINE fv == Append(ev, e)
           n == Len(ev)
<1>1. n \in Nat /\ fv \in Seq(Event) /\ Len(fv) = n + 1 /\ n + 1 \in Nat /\ fv[n + 1] = e /\ \A m \in 1..n : ev[m] = fv[m]
  OBVIOUS
<1> HIDE DEF fv
<1>2. PICK g : FoldsTo(ev, n, g) /\ _fold_execution_history(ev) = g[n]
  BY <1>1, FoldIsFold
<1>3. PICK h : FoldsTo(fv, n + 1, h) /\ _fold_execution_history(fv) = h[n + 1]
  BY <1>1, FoldIsFold
<1> HIDE DEF n
<1>4. n + 1 \in 1..(n + 1) /\ (n + 1) - 1 = n /\ n <= n + 1
  BY <1>1
<1>5. h[n + 1] = Folded(h[(n + 1) - 1], fv[n + 1])
  BY <1>1, <1>3, <1>4, FoldsToStep
<1>6. g[n] = h[n]
  BY <1>1, <1>2, <1>3, <1>4, FoldsToUnique
<1>7. _fold_execution_history(fv) = Folded(_fold_execution_history(ev), e)
  BY <1>1, <1>2, <1>3, <1>4, <1>5, <1>6
<1> QED  BY <1>7 DEF fv

LEMMA FoldEmpty == _fold_execution_history(<<>>) = Unstarted
<1>1. Len(<<>>) = 0 /\ Len(<<>>) \in Nat
  OBVIOUS
<1>2. PICK g : FoldsTo(<<>>, Len(<<>>), g) /\ _fold_execution_history(<<>>) = g[Len(<<>>)]
  BY <1>1, FoldIsFold
<1> QED  BY <1>1, <1>2, FoldsToStep

LEMMA FoldedSane ==
    ASSUME NEW x, Sane(x), NEW e \in Event
    PROVE  Sane(Folded(x, e))
BY DEF Sane, Folded, Event, Unstarted, States, Opt, GovernedTerminal


LEMMA FoldSane ==
    ASSUME NEW ev \in Seq(Event)
    PROVE  Sane(_fold_execution_history(ev))
<1> DEFINE n == Len(ev)
<1>1. n \in Nat /\ \A m \in 1..n : ev[m] \in Event
  OBVIOUS
<1>2. PICK g : FoldsTo(ev, n, g) /\ _fold_execution_history(ev) = g[n]
  BY <1>1, FoldIsFold
<1> HIDE DEF n
<1> DEFINE Bad == {m \in 0..n : ~Sane(g[m])}
<1>3. Bad = {}
  <2> SUFFICES ASSUME Bad # {} PROVE FALSE
    OBVIOUS
  <2>1. PICK m \in Bad : \A q \in Bad : m <= q
    <3>1. Bad \in SUBSET Nat
      BY <1>1
    <3> HIDE DEF Bad
    <3> QED  BY <3>1, LeastOf
  <2>2. CASE m = 0
    <3>1. g[m] = Unstarted
      BY <2>2, <1>1, <1>2, FoldsToStep
    <3> QED  BY <3>1 DEF Sane, Unstarted, States, Opt
  <2>3. CASE m # 0
    <3>1. m \in 1..n /\ m - 1 \in 0..n /\ ~(m <= m - 1)
      BY <2>3, <1>1
    <3>2. Sane(g[m - 1])
      BY <3>1, <2>1
    <3>3. g[m] = Folded(g[m - 1], ev[m])
      BY <3>1, <1>1, <1>2, FoldsToStep
    <3> QED  BY <3>1, <3>2, <3>3, <1>1, FoldedSane
  <2> QED  BY <2>2, <2>3
<1> QED  BY <1>1, <1>2, <1>3


-----------------------------------------------------------------------------
(* The types of the rows, and what rows that refer to each other agree on. *)

Source == [class : {None, "active"} \cup TerminalSource, iv : Opt(Intervals), n : Nat]

TypeInv ==
    /\ task \in [Tasks -> Opt(TaskRow)]
    /\ obj \in Seq(Objective)
    /\ source \in [Tasks -> Source]
    /\ bound.plans \subseteq Intervals /\ bound.at \subseteq Instants

(* A membership is of an objective that is there and of a plan the task has had. *)
Belongs(r, O) ==
    r.mem # None => /\ r.mem.o \in DOMAIN O /\ ~O[r.mem.o].gone
                    /\ r.mem.p \in 1..Len(r.plans)
MemInv == \A t \in Live(task) : Belongs(task[t], obj)

ExecOk(r) == r.x = _fold_execution_history(r.ev) /\ (r.x.st = "not_started" => r.x = Unstarted)
ExecInv == \A t \in Live(task) : ExecOk(task[t])

(* The tasks a lineage was opened for, itself one of them, still have its row. *)
LineageOk(t) ==
    /\ t \in Live(task) /\ t \in lineage[t].id
    /\ \A u \in lineage[t].id : lineage[u] = lineage[t]
    /\ lineage[t].why = "distinct_activity" <=> lineage[t].id = {t}
LineageInv ==
    /\ lineage \in [Tasks -> Opt(Lineage)]
    /\ \A t \in Assigned : LineageOk(t)

(* A proposal for a historical objective is of a task that is there. *)
HistInv == DOMAIN hist = Tasks /\ \A t \in Tasks : hist[t] # {} => t \in Live(task)

CoreInv == TypeInv /\ MemInv /\ ExecInv /\ LineageInv /\ HistInv

LEMMA SeqOfFunction ==
    ASSUME NEW S, NEW n \in Nat, NEW f \in [1..n -> S]
    PROVE  f \in Seq(S) /\ Len(f) = n /\ DOMAIN f = 1..n
OBVIOUS

LEMMA RowType ==
    ASSUME TypeInv, NEW t \in Live(task)
    PROVE  t \in Tasks /\ task[t] \in TaskRow /\ task[t] # None
BY DEF TypeInv, Live, Opt

LEMMA DeriveOutcomeType ==
    ASSUME NEW T, NEW M
    PROVE  _derive_outcome(T, M) \in Opt(AggregateOutcomes)
<1> DEFINE outcomes == {Accepted(T[t]) : t \in {u \in M : Included(T[u])}}
<1>1. outcomes \in {{"completed"}, {"incomplete"}} => (CHOOSE v \in outcomes : TRUE) \in {"completed", "incomplete"}
  <2> HIDE DEF outcomes
  <2> QED  OBVIOUS
<1> QED  BY <1>1 DEF _derive_outcome, Opt, AggregateOutcomes

LEMMA DeriveType ==
    ASSUME NEW T, NEW O, NEW o
    PROVE  _derive_material_state(T, O, o) \in Aggregate
<1>1. _derive_outcome(T, Members(T, o)) \in Opt(AggregateOutcomes)
  BY DeriveOutcomeType
<1>2. None \in Opt(AggregateOutcomes)
  BY DEF Opt
<1> QED  BY <1>1, <1>2 DEF _derive_material_state, Aggregate, Held, Closed, Opt, Attention

LEMMA RebuildType ==
    ASSUME NEW T, NEW O \in Seq(Objective), NEW S
    PROVE  /\ rebuild_aggregate(T, O, S) \in Seq(Objective)
           /\ DOMAIN rebuild_aggregate(T, O, S) = DOMAIN O
           /\ Len(rebuild_aggregate(T, O, S)) = Len(O)
           /\ \A o \in DOMAIN O : /\ rebuild_aggregate(T, O, S)[o].gone = O[o].gone
<1> DEFINE R == rebuild_aggregate(T, O, S)
           n == Len(O)
<1>1. n \in Nat /\ DOMAIN O = 1..n /\ \A o \in 1..n : O[o] \in Objective
  OBVIOUS
<1>2. ASSUME NEW o \in DOMAIN O
      PROVE  [O[o] EXCEPT !.agg = _derive_material_state(T, O, o), !.touched = TRUE] \in Objective
  <2>1. _derive_material_state(T, O, o) \in Aggregate
    BY DeriveType
  <2>2. O[o] \in Objective
    BY <1>1, <1>2
  <2> QED  BY <2>1, <2>2 DEF Objective
<1>3. R \in [1..n -> Objective]
  BY <1>1, <1>2 DEF rebuild_aggregate
<1>4. \A o \in DOMAIN O : R[o].gone = O[o].gone
  <2> TAKE o \in DOMAIN O
  <2>1. O[o] \in Objective
    BY <1>1
  <2> QED  BY <2>1 DEF rebuild_aggregate, Objective
<1> HIDE DEF R, n
<1>5. R \in Seq(Objective) /\ Len(R) = n /\ DOMAIN R = 1..n
  BY <1>1, <1>3, SeqOfFunction
<1> QED  BY <1>1, <1>4, <1>5 DEF R, n

(* What most commands do to a row: it stays, or is advanced, or is a new one. *)
Extends(q, p) == Len(p) <= Len(q) /\ \A k \in 1..Len(p) : q[k] = p[k]
Kept(r, s) ==
    \/ s = r
    \/ /\ s \in TaskRow /\ ExecOk(s)
       /\ s.mem = IF r = None THEN None ELSE r.mem
       /\ r # None => Extends(s.plans, r.plans)
RowsKept ==
    /\ task' \in [Tasks -> Opt(TaskRow)]
    /\ \A t \in Tasks : Kept(task[t], task'[t])

SameFrame(r, s) == s.origin = r.origin /\ s.by = r.by /\ s.env = r.env /\ s.gone = r.gone
ObjectivesKept ==
    /\ obj' \in Seq(Objective) /\ Len(obj') = Len(obj)
    /\ \A o \in DOMAIN obj : SameFrame(obj[o], obj'[o])

(* Proposals for historical objectives are only made for tasks that are there. *)
HistoryGrows ==
    /\ DOMAIN hist' = DOMAIN hist
    /\ \A t \in Tasks : hist'[t] # {} => hist[t] # {} \/ t \in Live(task)
Around == bound' = bound /\ source' \in [Tasks -> Source] /\ HistoryGrows

LEMMA StaysLive ==
    ASSUME RowsKept, NEW t \in Live(task)
    PROVE  t \in Live(task')
BY ObjectivesAssumption DEF Live, RowsKept, Kept

LEMMA RowsStay ==
    ASSUME CoreInv, RowsKept, ObjectivesKept, Around
    PROVE  TypeInv' /\ MemInv' /\ ExecInv' /\ HistInv'
<1>1. TypeInv'
  BY DEF CoreInv, TypeInv, ObjectivesKept, RowsKept, Around
<1>2. \A t \in Live(task) : t \in Live(task')
  BY StaysLive
<1>4. ASSUME NEW t \in Live(task')
      PROVE  /\ t \in Tasks /\ ExecOk(task'[t])
             /\ Belongs(task'[t], obj')
  <2>1. t \in Tasks /\ task'[t] # None /\ Kept(task[t], task'[t]) /\ task'[t] \in TaskRow
    BY DEF Live, Opt, RowsKept
  <2>2. CASE task[t] = None
    BY <2>1, <2>2 DEF Kept, Belongs
  <2>3. CASE task[t] # None
    <3>1. t \in Live(task) /\ task[t] \in TaskRow
      BY <2>1, <2>3 DEF Live, CoreInv, TypeInv, Opt
    <3>2. ExecOk(task[t]) /\ Belongs(task[t], obj)
      BY <3>1 DEF CoreInv, ExecInv, MemInv
    <3>3. ExecOk(task'[t])
      BY <2>1, <3>2 DEF Kept
    <3>4. task'[t].mem = task[t].mem /\ Len(task'[t].plans) >= Len(task[t].plans)
      <4>1. Len(task[t].plans) \in Nat
        BY <3>1 DEF TaskRow
      <4> QED  BY <2>1, <2>3, <4>1 DEF Kept, Extends
    <3>5. Len(task[t].plans) \in Nat /\ Len(task'[t].plans) \in Nat
      BY <3>1, <2>1 DEF TaskRow
    <3>6. DOMAIN obj' = DOMAIN obj
      BY DEF ObjectivesKept, CoreInv, TypeInv
    <3>7. Belongs(task'[t], obj')
      <4> SUFFICES ASSUME task'[t].mem # None
                   PROVE  /\ task'[t].mem.o \in DOMAIN obj' /\ ~obj'[task'[t].mem.o].gone
                          /\ task'[t].mem.p \in 1..Len(task'[t].plans)
        BY DEF Belongs
      <4>1. /\ task[t].mem.o \in DOMAIN obj /\ ~obj[task[t].mem.o].gone
            /\ task[t].mem.p \in 1..Len(task[t].plans)
        BY <3>2, <3>4 DEF Belongs
      <4> QED  BY <4>1, <3>4, <3>5, <3>6 DEF ObjectivesKept, SameFrame
    <3> QED  BY <2>1, <3>3, <3>7
  <2> QED  BY <2>2, <2>3
<1>5. MemInv' /\ ExecInv'
  BY <1>4 DEF MemInv, ExecInv
<1>7. HistInv'
  BY <1>2 DEF CoreInv, HistInv, Around, HistoryGrows
<1> QED  BY <1>1, <1>5, <1>7

LEMMA CoreStays ==
    ASSUME CoreInv, RowsKept, ObjectivesKept, lineage' = lineage, Around
    PROVE  CoreInv'
<1>1. \A t \in Live(task) : t \in Live(task')
  BY StaysLive
<1>2. LineageInv'
  BY <1>1 DEF CoreInv, LineageInv, LineageOk, Assigned
<1> QED  BY <1>2, RowsStay DEF CoreInv

-----------------------------------------------------------------------------
(* What the aggregate of an objective reads. *)

SameView(r, s) ==
    /\ s.mem = r.mem /\ Len(s.plans) = Len(r.plans) /\ s.x = r.x /\ s.out = r.out /\ s.outs = r.outs
    /\ s.counts = r.counts /\ ExecutionRevision(s) = ExecutionRevision(r)

(* The aggregate, less its attention, reads nothing of the plans. *)
SameRecord(r, s) ==
    /\ s.mem = r.mem /\ s.x = r.x /\ s.out = r.out /\ s.outs = r.outs
    /\ s.counts = r.counts /\ ExecutionRevision(s) = ExecutionRevision(r)

Mismatched(T, o) == \E t \in Members(T, o) : T[t].mem.p # Len(T[t].plans)

LEMMA OutcomeLocal ==
    ASSUME NEW T, NEW U, NEW M, \A t \in M : SameRecord(T[t], U[t])
    PROVE  _derive_outcome(T, M) = _derive_outcome(U, M)
<1>1. ASSUME NEW t \in M
      PROVE  /\ Accepted(T[t]) = Accepted(U[t]) /\ HasStarted(T[t]) = HasStarted(U[t])
             /\ Included(T[t]) = Included(U[t])
  BY DEF SameRecord, Accepted, HasStarted, Included
<1>2. {t \in M : Included(T[t])} = {t \in M : Included(U[t])}
  BY <1>1
<1>3. {Accepted(T[t]) : t \in {u \in M : Included(T[u])}} = {Accepted(U[t]) : t \in {u \in M : Included(U[u])}}
  BY <1>1
<1>4. (\A t \in M : ~HasStarted(T[t])) <=> (\A t \in M : ~HasStarted(U[t]))
  BY <1>1
<1> DEFINE of(counted, outcomes, unstarted) ==
              IF counted = {} THEN IF M = {} THEN None ELSE "excluded_from_operational_counts"
              ELSE IF None \in outcomes THEN None
              ELSE IF outcomes \in {{"completed"}, {"incomplete"}} THEN CHOOSE v \in outcomes : TRUE
              ELSE IF outcomes = {"cancelled_without_execution"} THEN IF unstarted THEN "cancelled" ELSE None
              ELSE "mixed"
<1>5. ASSUME NEW V
      PROVE  _derive_outcome(V, M) = of({t \in M : Included(V[t])},
                                        {Accepted(V[t]) : t \in {u \in M : Included(V[u])}},
                                        \A t \in M : ~HasStarted(V[t]))
  BY DEF _derive_outcome
<1> HIDE DEF of
<1> QED  BY <1>2, <1>3, <1>4, <1>5

(* Rows that say the same give the same aggregate, up to a mismatch of plans. *)
LEMMA DeriveLocal ==
    ASSUME NEW T, NEW U, NEW O, NEW Q, NEW o, Members(U, o) = Members(T, o),
           \A t \in Members(T, o) : SameRecord(T[t], U[t]),
           Q[o].by = O[o].by, Q[o].origin = O[o].origin, Q[o].reviews = O[o].reviews
    PROVE  LET d == _derive_material_state(T, O, o)
               e == _derive_material_state(U, Q, o)
               shown(a) == a \in {"mixed_outcomes", "lost_last_executable"}
           IN /\ d = [st |-> d.st, out |-> d.out, att |-> d.att]
              /\ e = [st |-> d.st, out |-> d.out, att |-> e.att]
              /\ shown(d.att) => e.att = d.att
              /\ ~shown(d.att) => /\ d.att = IF Mismatched(T, o) THEN "plan_membership_mismatch" ELSE None
                                  /\ e.att = IF Mismatched(U, o) THEN "plan_membership_mismatch" ELSE None
              /\ d.st = "superseded" <=> O[o].by # None
<1> DEFINE M == Members(T, o)
<1>1. ASSUME NEW t \in M
      PROVE  /\ Accepted(T[t]) = Accepted(U[t]) /\ HasStarted(T[t]) = HasStarted(U[t])
             /\ LocallyExecutable(T[t]) = LocallyExecutable(U[t])
             /\ (T[t].x.st = "in_progress") = (U[t].x.st = "in_progress")
             /\ <<t, T[t].mem, ExecutionRevision(T[t]), T[t].outs, T[t].counts>>
                   = <<t, U[t].mem, ExecutionRevision(U[t]), U[t].outs, U[t].counts>>
  BY DEF SameRecord, Accepted, HasStarted, LocallyExecutable
<1>2. _review_fingerprint(T, o) = _review_fingerprint(U, o)
  BY <1>1 DEF _review_fingerprint
<1>3. _derive_outcome(T, Members(T, o)) = _derive_outcome(U, Members(U, o))
  BY OutcomeLocal
<1> DEFINE started(V) == \E t \in Members(V, o) : HasStarted(V[t])
           decided(V) == Members(V, o) # {} /\ \A t \in Members(V, o) : Accepted(V[t]) # None
           running(V) == \E t \in Members(V, o) : V[t].x.st = "in_progress"
           executable(V) == \A t \in Members(V, o) : ~LocallyExecutable(V[t])
<1>4. /\ started(T) <=> started(U) 
      /\ decided(T) <=> decided(U)
      /\ running(T) <=> running(U)
      /\ executable(T) <=> executable(U)
  BY <1>1
<1> DEFINE st(V, P) ==
              IF P[o].by # None THEN "superseded"
              ELSE IF P[o].origin = "historical_provider_complete" /\ ~started(V) THEN "historical_structure"
              ELSE IF running(V) THEN "in_progress"
              ELSE IF decided(V) THEN IF _review_fingerprint(V, o) \in P[o].reviews
                                   THEN "reviewed" ELSE "awaiting_review"
              ELSE IF started(V) /\ executable(V) THEN "awaiting_review"
              ELSE "planned"
           out(V, P) ==
              IF st(V, P) \in {"superseded", "historical_structure"} \/ (st(V, P) # "in_progress" /\ decided(V))
              THEN _derive_outcome(V, Members(V, o)) ELSE None
           reviewable(V, P) == st(V, P) \in {"reviewed", "awaiting_review"}
           att(V, P) ==
                IF reviewable(V, P) /\ decided(V) /\ out(V, P) = "mixed" THEN "mixed_outcomes"
                ELSE IF reviewable(V, P) /\ ~decided(V) THEN "lost_last_executable"
                ELSE IF Mismatched(V, o) THEN "plan_membership_mismatch"
                ELSE None
<1>5. /\ _derive_material_state(T, O, o) = [st |-> st(T, O), out |-> out(T, O), att |-> att(T, O)]
      /\ _derive_material_state(U, Q, o) = [st |-> st(U, Q), out |-> out(U, Q), att |-> att(U, Q)]
  BY Zenon DEF _derive_material_state, Mismatched
<1> HIDE DEF started, decided, running, executable
<1>6. st(T, O) = st(U, Q) /\ (st(T, O) = "superseded" <=> O[o].by # None)
  BY <1>2, <1>4
<1> HIDE DEF st
<1>7. out(T, O) = out(U, Q)
  BY <1>3, <1>4, <1>6
<1> HIDE DEF out
<1>8. reviewable(T, O) <=> reviewable(U, Q)
  BY <1>6
<1> HIDE DEF reviewable
<1> DEFINE shown(a) == a \in {"mixed_outcomes", "lost_last_executable"}
<1>9. /\ shown(att(T, O)) => att(U, Q) = att(T, O)
      /\ ~shown(att(T, O)) => /\ att(T, O) = IF Mismatched(T, o) THEN "plan_membership_mismatch" ELSE None
                              /\ att(U, Q) = IF Mismatched(U, o) THEN "plan_membership_mismatch" ELSE None
  BY <1>4, <1>7, <1>8, ObjectivesAssumption DEF Attention
<1> HIDE DEF att
<1> QED  BY <1>5, <1>6, <1>7, <1>9

LEMMA DeriveSame ==
    ASSUME NEW T, NEW U, NEW O, NEW Q, NEW o, Members(U, o) = Members(T, o),
           \A t \in Members(T, o) : SameView(T[t], U[t]),
           Q[o].by = O[o].by, Q[o].origin = O[o].origin, Q[o].reviews = O[o].reviews
    PROVE  _derive_material_state(U, Q, o) = _derive_material_state(T, O, o)
<1> DEFINE d == _derive_material_state(T, O, o)
           e == _derive_material_state(U, Q, o)
<1>1. \A t \in Members(T, o) : SameRecord(T[t], U[t])
  BY DEF SameView, SameRecord
<1>2. Mismatched(T, o) <=> Mismatched(U, o)
  BY DEF Mismatched, SameView
<1>3. /\ d = [st |-> d.st, out |-> d.out, att |-> d.att] /\ e = [st |-> d.st, out |-> d.out, att |-> e.att]
      /\ d.att \in {"mixed_outcomes", "lost_last_executable"} => e.att = d.att
      /\ d.att \notin {"mixed_outcomes", "lost_last_executable"} =>
            /\ d.att = IF Mismatched(T, o) THEN "plan_membership_mismatch" ELSE None
            /\ e.att = IF Mismatched(U, o) THEN "plan_membership_mismatch" ELSE None
  BY <1>1, DeriveLocal
<1> HIDE DEF d, e
<1>4. e.att = d.att
  BY <1>2, <1>3
<1>5. e = d
  BY <1>3, <1>4
<1> QED  BY <1>5 DEF d, e

-----------------------------------------------------------------------------
(* Steps that leave memberships and envelopes alone. *)

Inv == CoreInv /\ EnvelopesDisjoint /\ AggregateFresh

FreshAt(T, O, o) ==
    LET now == _derive_material_state(T, O, o) IN
    \/ O[o].agg = now
    \/ /\ O[o].agg = [now EXCEPT !.att = None]
       /\ now.att = "plan_membership_mismatch"
       /\ now.st \in Held \/ O[o].origin = "historical_provider_complete"

LEMMA FreshIsFreshAt ==
    /\ AggregateFresh <=> \A o \in DOMAIN obj : ~obj[o].gone => FreshAt(task, obj, o)
    /\ AggregateFresh' <=> \A o \in DOMAIN obj' : ~obj'[o].gone => FreshAt(task', obj', o)
BY DEF AggregateFresh, FreshAt

(* No member comes or goes, and what it is pinned to stays. *)
MembersKept ==
    /\ \A o : Members(task', o) = Members(task, o)
    /\ \A o : \A t \in Members(task, o) : PinnedPlan(task'[t]) = PinnedPlan(task[t])

LEMMA RowsKeepMembers ==
    ASSUME CoreInv, RowsKept
    PROVE  MembersKept
<1>1. ASSUME NEW t \in Live(task)
      PROVE  /\ t \in Live(task') /\ t \in Tasks /\ task[t] \in TaskRow
             /\ task'[t].mem = task[t].mem
             /\ task[t].mem # None => PinnedPlan(task'[t]) = PinnedPlan(task[t])
  <2>1. t \in Live(task') /\ t \in Tasks /\ task[t] \in TaskRow /\ task[t] # None /\ Kept(task[t], task'[t])
    BY StaysLive, RowType DEF RowsKept, CoreInv
  <2>2. task'[t].mem = task[t].mem
    BY <2>1 DEF Kept
  <2>3. ASSUME task[t].mem # None PROVE PinnedPlan(task'[t]) = PinnedPlan(task[t])
    <3>1. task[t].mem.p \in 1..Len(task[t].plans)
      BY <2>3, <2>1 DEF CoreInv, MemInv, Belongs
    <3> QED  BY <3>1, <2>1, <2>2 DEF Kept, Extends, PinnedPlan
  <2> QED  BY <2>1, <2>2, <2>3
<1>2. ASSUME NEW t \in Live(task'), task'[t].mem # None PROVE t \in Live(task)
  BY <1>2 DEF RowsKept, Kept, Live
<1>3. ASSUME NEW o PROVE Members(task', o) = Members(task, o)
  BY <1>1, <1>2 DEF Members
<1>4. ASSUME NEW o, NEW t \in Members(task, o) PROVE PinnedPlan(task'[t]) = PinnedPlan(task[t])
  BY <1>1, <1>4 DEF Members
<1> QED  BY <1>3, <1>4 DEF MembersKept

LEMMA CurrentKept ==
    ASSUME CoreInv, ObjectivesKept
    PROVE  DOMAIN obj' = DOMAIN obj /\ Current(obj') = Current(obj)
<1>1. DOMAIN obj' = DOMAIN obj
  BY DEF ObjectivesKept, CoreInv, TypeInv
<1> QED  BY <1>1 DEF ObjectivesKept, SameFrame, Current

LEMMA EnvelopeLocal ==
    ASSUME NEW T, NEW U, NEW M, \A t \in M : PinnedPlan(U[t]) = PinnedPlan(T[t])
    PROVE  Envelope(U, M) = Envelope(T, M)
<1>1. {PinnedPlan(U[t]) : t \in M} = {PinnedPlan(T[t]) : t \in M}
  OBVIOUS
<1> QED  BY <1>1 DEF Envelope

LEMMA EnvelopesStay ==
    ASSUME CoreInv, MembersKept, ObjectivesKept, EnvelopesDisjoint
    PROVE  EnvelopesDisjoint'
<1>1. Current(obj') = Current(obj) /\ \A o \in Current(obj) : obj'[o].env = obj[o].env
  BY CurrentKept DEF ObjectivesKept, SameFrame, Current
<1>2. ASSUME NEW o \in Current(obj)
      PROVE  Members(task', o) = Members(task, o) /\ Envelope(task', Members(task', o)) = Envelope(task, Members(task, o))
  <2>1. Members(task', o) = Members(task, o) /\ \A t \in Members(task, o) : PinnedPlan(task'[t]) = PinnedPlan(task[t])
    BY DEF MembersKept
  <2> QED  BY <2>1, EnvelopeLocal
<1>3. ASSUME NEW o \in Current(obj)
      PROVE  /\ Members(task, o) # {} /\ obj[o].env = Envelope(task, Members(task, o))
             /\ \A q \in Current(obj) \ {o} : obj[q].env[1] >= obj[o].env[2] \/ obj[q].env[2] <= obj[o].env[1]
  BY DEF EnvelopesDisjoint
<1>4. ASSUME NEW o \in Current(obj')
      PROVE  /\ Members(task', o) # {} /\ obj'[o].env = Envelope(task', Members(task', o))
             /\ \A q \in Current(obj') \ {o} : obj'[q].env[1] >= obj'[o].env[2] \/ obj'[q].env[2] <= obj'[o].env[1]
  BY <1>1, <1>2, <1>3
<1> QED  BY <1>4 DEF EnvelopesDisjoint

(* An objective whose aggregate was rebuilt, or of which nothing was read anew. *)
LEMMA FreshRebuilt ==
    ASSUME NEW T, NEW O, NEW S, NEW o \in DOMAIN O, o \in S, O[o] \in Objective
    PROVE  FreshAt(T, rebuild_aggregate(T, O, S), o)
<1> DEFINE R == rebuild_aggregate(T, O, S)
<1>1. R[o] = [O[o] EXCEPT !.agg = _derive_material_state(T, O, o), !.touched = TRUE]
  BY DEF rebuild_aggregate
<1>2. R[o].agg = _derive_material_state(T, O, o) /\ R[o].by = O[o].by /\ R[o].origin = O[o].origin
      /\ R[o].reviews = O[o].reviews
  BY <1>1 DEF Objective
<1> HIDE DEF R
<1>3. \A t \in Members(T, o) : SameView(T[t], T[t])
  BY DEF SameView
<1>4. _derive_material_state(T, R, o) = _derive_material_state(T, O, o)
  BY <1>2, <1>3, DeriveSame
<1>5. FreshAt(T, R, o)
  BY <1>2, <1>4 DEF FreshAt
<1> QED  BY <1>5 DEF R

SameAggregate(r, s) == s.reviews = r.reviews /\ s.agg = r.agg

LEMMA FreshUntouched ==
    ASSUME NEW T, NEW U, NEW O, NEW Q, NEW o, FreshAt(T, O, o),
           Members(U, o) = Members(T, o), \A t \in Members(T, o) : SameView(T[t], U[t]),
           Q[o].by = O[o].by, Q[o].origin = O[o].origin, SameAggregate(O[o], Q[o])
    PROVE  FreshAt(U, Q, o)
<1>1. _derive_material_state(U, Q, o) = _derive_material_state(T, O, o)
  BY DeriveSame DEF SameAggregate
<1> QED  BY <1>1 DEF FreshAt, SameAggregate

(* The objectives S are rebuilt, from rows O that may have a new review. *)
Rebuilt(O, S) ==
    /\ O \in Seq(Objective) /\ Len(O) = Len(obj)
    /\ \A o \in DOMAIN obj : SameFrame(obj[o], O[o]) /\ (o \in S \/ SameAggregate(obj[o], O[o]))
    /\ obj' = rebuild_aggregate(task', O, S)

ReadsSame(S) == \A t \in Live(task) : task[t].mem = None \/ task[t].mem.o \in S \/ SameView(task[t], task'[t])

LEMMA RebuiltKeeps ==
    ASSUME CoreInv, NEW O, NEW S, Rebuilt(O, S)
    PROVE  /\ ObjectivesKept /\ DOMAIN O = DOMAIN obj
           /\ \A o \in DOMAIN obj \ S : obj'[o] = O[o]
<1>1. obj' \in Seq(Objective) /\ DOMAIN obj' = DOMAIN O /\ Len(obj') = Len(O)
  BY RebuildType DEF Rebuilt
<1>2. DOMAIN O = DOMAIN obj
  BY DEF Rebuilt, CoreInv, TypeInv
<1>3. ASSUME NEW o \in DOMAIN obj PROVE SameFrame(obj[o], obj'[o])
  <2>1. O[o] \in Objective
    BY <1>2 DEF Rebuilt
  <2> QED  BY <2>1, <1>2 DEF Rebuilt, SameFrame, rebuild_aggregate, Objective
<1>4. \A o \in DOMAIN obj \ S : obj'[o] = O[o]
  BY <1>2 DEF Rebuilt, rebuild_aggregate
<1> QED  BY <1>1, <1>2, <1>3, <1>4 DEF ObjectivesKept, Rebuilt

LEMMA FreshStays ==
    ASSUME CoreInv, AggregateFresh, MembersKept, NEW O, NEW S, Rebuilt(O, S), ReadsSame(S)
    PROVE  AggregateFresh'
<1>1. /\ ObjectivesKept /\ DOMAIN O = DOMAIN obj /\ DOMAIN obj' = DOMAIN obj
      /\ \A o \in DOMAIN obj \ S : obj'[o] = O[o]
  BY RebuiltKeeps, CurrentKept
<1>2. ASSUME NEW o \in DOMAIN obj', ~obj'[o].gone PROVE FreshAt(task', obj', o)
  <2>1. CASE o \in S
    <3>1. o \in DOMAIN O /\ O[o] \in Objective
      BY <1>1 DEF Rebuilt
    <3> QED  BY <3>1, <2>1, FreshRebuilt DEF Rebuilt
  <2>2. CASE o \notin S
    <3>1. FreshAt(task, obj, o)
      BY <1>1, <1>2, FreshIsFreshAt DEF ObjectivesKept, SameFrame
    <3>2. Members(task', o) = Members(task, o) /\ \A t \in Members(task, o) : SameView(task[t], task'[t])
      BY <2>2 DEF MembersKept, ReadsSame, Members
    <3>3. SameFrame(obj[o], O[o]) /\ SameAggregate(obj[o], O[o])
      BY <1>1, <2>2 DEF Rebuilt
    <3>4. obj'[o].by = obj[o].by /\ obj'[o].origin = obj[o].origin /\ SameAggregate(obj[o], obj'[o])
      BY <1>1, <2>2, <3>3 DEF SameFrame, SameAggregate
    <3> QED  BY <3>1, <3>2, <3>4, FreshUntouched
  <2> QED  BY <2>1, <2>2
<1> QED  BY <1>2, FreshIsFreshAt

LEMMA Steady ==
    ASSUME Inv, RowsKept, lineage' = lineage, Around, NEW O, NEW S, Rebuilt(O, S), ReadsSame(S)
    PROVE  Inv'
<1>1. ObjectivesKept /\ MembersKept
  BY RebuiltKeeps, RowsKeepMembers DEF Inv
<1>2. CoreInv'
  BY <1>1, CoreStays DEF Inv
<1>3. EnvelopesDisjoint'
  BY <1>1, EnvelopesStay DEF Inv
<1>4. AggregateFresh'
  BY <1>1, FreshStays DEF Inv
<1> QED  BY <1>2, <1>3, <1>4 DEF Inv

-----------------------------------------------------------------------------
(* What commands make of one row. *)

Advanced(r, s) == s \in TaskRow /\ ExecOk(s) /\ s.mem = r.mem /\ s.plans = r.plans

LEMMA AdvancedKept ==
    ASSUME NEW r \in TaskRow, NEW s, Advanced(r, s)
    PROVE  Kept(r, s)
<1>1. r # None /\ Len(r.plans) \in Nat
  BY ObjectivesAssumption DEF TaskRow
<1> QED  BY <1>1 DEF Advanced, Kept, Extends

LEMMA Touched ==
    ASSUME NEW r \in TaskRow, NEW s, Advanced(r, s)
    PROVE  Advanced(r, [s EXCEPT !.touched = TRUE])
BY DEF Advanced, TaskRow, ExecOk

LEMMA TouchedOnly ==
    ASSUME NEW r \in TaskRow, ExecOk(r)
    PROVE  Advanced(r, [r EXCEPT !.touched = TRUE]) /\ SameView(r, [r EXCEPT !.touched = TRUE])
BY DEF Advanced, TaskRow, ExecOk, SameView, ExecutionRevision

LEMMA EvidenceType ==
    ASSUME NEW k \in {"start", "end", "manual_cancel"} \cup GovernedTerminal, NEW at \in Opt(Instants)
    PROVE  Evidence(k, at) \in Event
BY DEF Evidence, Event

(* One more piece of evidence, and the state it folds to. *)
LEMMA Noted ==
    ASSUME NEW r \in TaskRow, ExecOk(r), NEW k \in {"start", "end", "manual_cancel"} \cup GovernedTerminal,
           NEW at \in Opt(Instants), NEW s, s \in TaskRow, s.mem = r.mem, s.plans = r.plans,
           s.ev = Append(r.ev, Evidence(k, at)), s.x = Folded(r.x, Evidence(k, at)),
           s.x.st # "not_started"
    PROVE  Advanced(r, s)
<1>1. r.ev \in Seq(Event) /\ Evidence(k, at) \in Event
  BY EvidenceType DEF TaskRow
<1>2. _fold_execution_history(s.ev) = Folded(_fold_execution_history(r.ev), Evidence(k, at))
  BY <1>1, FoldAppend
<1> QED  BY <1>2 DEF ExecOk, Advanced

LEMMA EvAppend ==
    ASSUME NEW r \in TaskRow, NEW k \in {"start", "end", "manual_cancel"} \cup GovernedTerminal,
           NEW at \in Opt(Instants)
    PROVE  Append(r.ev, Evidence(k, at)) \in Seq(Event)
<1>1. r.ev \in Seq(Event) /\ Evidence(k, at) \in Event
  BY EvidenceType DEF TaskRow
<1> QED  BY <1>1

LEMMA StartedRow ==
    ASSUME NEW r \in TaskRow, ExecOk(r), r.x.st = "not_started", NEW at \in Instants
    PROVE  Advanced(r, Started(r, at))
<1>1. "start" \in {"start", "end", "manual_cancel"} \cup GovernedTerminal /\ at \in Opt(Instants)
  BY DEF Opt
<1>2. Append(r.ev, Evidence("start", at)) \in Seq(Event)
  BY <1>1, EvAppend
<1>3. [st |-> "in_progress", s |-> at, e |-> None] \in Execution
  BY <1>1 DEF Execution, Opt
<1>4. Started(r, at) \in TaskRow
  BY <1>2, <1>3 DEF Started, TaskRow
<1>5. Started(r, at).x = [st |-> "in_progress", s |-> at, e |-> None]
      /\ Started(r, at).ev = Append(r.ev, Evidence("start", at))
      /\ Started(r, at).mem = r.mem /\ Started(r, at).plans = r.plans
  BY DEF Started, TaskRow
<1>6. Folded(r.x, Evidence("start", at)) = [st |-> "in_progress", s |-> at, e |-> None]
  BY DEF Folded, Evidence
<1> HIDE DEF Started
<1> QED  BY <1>1, <1>4, <1>5, <1>6, Noted

EndedRow(r, at) == [r EXCEPT !.ev = Append(@, Evidence("end", at)), !.x.st = "ended", !.x.e = at]

LEMMA EndedRowAdvances ==
    ASSUME NEW r \in TaskRow, ExecOk(r), r.x.st = "in_progress", NEW at \in Instants, at >= r.x.s
    PROVE  Advanced(r, EndedRow(r, at))
<1>1. "end" \in {"start", "end", "manual_cancel"} \cup GovernedTerminal /\ at \in Opt(Instants)
  BY DEF Opt
<1>2. Append(r.ev, Evidence("end", at)) \in Seq(Event)
  BY <1>1, EvAppend
<1>3. r.x \in Execution
  BY DEF TaskRow
<1>4. [[r.x EXCEPT !.st = "ended"] EXCEPT !.e = at] \in Execution
  BY <1>1, <1>3 DEF Execution
<1>5. EndedRow(r, at) \in TaskRow
  BY <1>2, <1>4 DEF EndedRow, TaskRow
<1>6. EndedRow(r, at).x = [[r.x EXCEPT !.st = "ended"] EXCEPT !.e = at]
      /\ EndedRow(r, at).ev = Append(r.ev, Evidence("end", at))
      /\ EndedRow(r, at).mem = r.mem /\ EndedRow(r, at).plans = r.plans
  BY DEF EndedRow, TaskRow
<1>7. Folded(r.x, Evidence("end", at)) = [[r.x EXCEPT !.st = "ended"] EXCEPT !.e = at]
  BY DEF Folded, Evidence
<1>8. EndedRow(r, at).x.st = "ended"
  BY <1>3, <1>6 DEF Execution
<1>9. EndedRow(r, at).x = Folded(r.x, Evidence("end", at)) /\ EndedRow(r, at).x.st # "not_started"
  BY <1>6, <1>7, <1>8
<1>10. EndedRow(r, at).ev = Append(r.ev, Evidence("end", at)) /\ EndedRow(r, at).mem = r.mem /\ EndedRow(r, at).plans = r.plans
  BY <1>6
<1> HIDE DEF EndedRow
<1> QED  BY <1>1, <1>5, <1>9, <1>10, Noted

LEMMA TerminatedRow ==
    ASSUME NEW r \in TaskRow, ExecOk(r), r.x.st \notin {"ended", "terminated"}, NEW k \in GovernedTerminal
    PROVE  Advanced(r, Terminated(r, k))
<1>1. k \in {"start", "end", "manual_cancel"} \cup GovernedTerminal /\ None \in Opt(Instants)
  BY DEF Opt
<1>2. Append(r.ev, Evidence(k, None)) \in Seq(Event)
  BY <1>1, EvAppend
<1>3. r.x \in Execution
  BY DEF TaskRow
<1>4. [[r.x EXCEPT !.st = "terminated"] EXCEPT !.e = None] \in Execution
  BY <1>1, <1>3 DEF Execution
<1>5. Terminated(r, k) \in TaskRow
  BY <1>2, <1>4 DEF Terminated, TaskRow
<1>6. Terminated(r, k).x = [[r.x EXCEPT !.st = "terminated"] EXCEPT !.e = None]
      /\ Terminated(r, k).ev = Append(r.ev, Evidence(k, None))
      /\ Terminated(r, k).mem = r.mem /\ Terminated(r, k).plans = r.plans
  BY DEF Terminated, TaskRow
<1>7. Folded(r.x, Evidence(k, None)) = [[r.x EXCEPT !.st = "terminated"] EXCEPT !.e = None]
  BY <1>3 DEF Folded, Evidence, GovernedTerminal, Execution
<1>8. Terminated(r, k).x.st = "terminated"
  BY <1>3, <1>6 DEF Execution
<1>9. Terminated(r, k).x = Folded(r.x, Evidence(k, None)) /\ Terminated(r, k).x.st # "not_started"
  BY <1>6, <1>7, <1>8
<1>10. Terminated(r, k).ev = Append(r.ev, Evidence(k, None)) /\ Terminated(r, k).mem = r.mem /\ Terminated(r, k).plans = r.plans
  BY <1>6
<1> HIDE DEF Terminated
<1> QED  BY <1>1, <1>5, <1>9, <1>10, Noted

LEMMA CancelledRow ==
    ASSUME NEW r \in TaskRow, ExecOk(r), r.x.st = "not_started"
    PROVE  Advanced(r, Cancelled(r))
<1>1. "manual_cancel" \in {"start", "end", "manual_cancel"} \cup GovernedTerminal /\ None \in Opt(Instants)
  BY DEF Opt
<1>2. Append(r.ev, Evidence("manual_cancel", None)) \in Seq(Event)
  BY <1>1, EvAppend
<1>3. [Unstarted EXCEPT !.st = "terminated"] \in Execution /\ "cancelled_without_execution" \in Opt(Outcomes)
  BY DEF Unstarted, Execution, Opt, Outcomes
<1>4. Cancelled(r) \in TaskRow
  BY <1>2, <1>3 DEF Cancelled, TaskRow
<1>5. Cancelled(r).x = [Unstarted EXCEPT !.st = "terminated"]
      /\ Cancelled(r).ev = Append(r.ev, Evidence("manual_cancel", None))
      /\ Cancelled(r).mem = r.mem /\ Cancelled(r).plans = r.plans
  BY DEF Cancelled, TaskRow
<1>6. r.x = Unstarted
  BY DEF ExecOk
<1>7. Folded(r.x, Evidence("manual_cancel", None)) = [Unstarted EXCEPT !.st = "terminated"]
  <2> DEFINE y == [st |-> "terminated", s |-> None, e |-> None]
  <2>1. Folded(Unstarted, Evidence("manual_cancel", None)) = y
    BY DEF Folded, Evidence, Unstarted
  <2>2. [Unstarted EXCEPT !.st = "terminated"] = y
    BY DEF Unstarted
  <2> QED  BY <1>6, <2>1, <2>2
<1>8. Cancelled(r).x.st = "terminated"
  BY <1>5 DEF Unstarted
<1>9. Cancelled(r).x = Folded(r.x, Evidence("manual_cancel", None)) /\ Cancelled(r).x.st # "not_started"
  BY <1>5, <1>7, <1>8
<1>10. Cancelled(r).ev = Append(r.ev, Evidence("manual_cancel", None))
       /\ Cancelled(r).mem = r.mem /\ Cancelled(r).plans = r.plans
  BY <1>5
<1> HIDE DEF Cancelled
<1> QED  BY <1>1, <1>4, <1>9, <1>10, Noted

CorrectedEvidence(r, i, withdraw, at) ==
    [r.ev EXCEPT ![i].off = withdraw, ![i].at = IF withdraw THEN @ ELSE at]
CorrectedRow(r, ev) == [r EXCEPT !.ev = ev, !.corrections = @ + 1, !.x = _fold_execution_history(ev)]

LEMMA CorrectedRowAdvances ==
    ASSUME NEW r \in TaskRow, ExecOk(r), NEW i \in DOMAIN r.ev, NEW withdraw \in BOOLEAN, NEW at \in Instants,
           _fold_execution_history(CorrectedEvidence(r, i, withdraw, at)).st # "invalid"
    PROVE  Advanced(r, CorrectedRow(r, CorrectedEvidence(r, i, withdraw, at)))
<1> DEFINE ev == CorrectedEvidence(r, i, withdraw, at)
           x == _fold_execution_history(ev)
<1>1. r.ev \in Seq(Event) /\ r.ev[i] \in Event
  BY DEF TaskRow
<1>2. [[r.ev[i] EXCEPT !.off = withdraw] EXCEPT !.at = IF withdraw THEN r.ev[i].at ELSE at] \in Event
  BY <1>1 DEF Event, Opt
<1>3. ev \in Seq(Event)
  <2>1. Len(r.ev) \in Nat /\ DOMAIN r.ev = 1..Len(r.ev) /\ \A k \in DOMAIN r.ev : r.ev[k] \in Event
    BY <1>1
  <2>2. ev \in [1..Len(r.ev) -> Event]
    BY <1>1, <1>2, <2>1 DEF CorrectedEvidence
  <2> QED  BY <2>1, <2>2, SeqOfFunction
<1> HIDE DEF ev
<1>4. Sane(x)
  BY <1>3, FoldSane
<1> HIDE DEF x
<1>5. x \in Execution /\ (x.st = "not_started" => x = Unstarted)
  BY <1>4 DEF Sane, Execution, States, x, ev
<1>6. CorrectedRow(r, ev) = [r EXCEPT !.ev = ev, !.corrections = @ + 1, !.x = x]
  BY DEF CorrectedRow, x
<1>7. CorrectedRow(r, ev) \in TaskRow
  <2>1. r.corrections \in Nat /\ r.corrections + 1 \in Nat
    BY DEF TaskRow
  <2> DEFINE n == r.corrections + 1
  <2>2. CorrectedRow(r, ev) = [r EXCEPT !.ev = ev, !.corrections = n, !.x = x]
    BY <1>6
  <2> HIDE DEF n
  <2> QED  BY <2>1, <2>2, <1>3, <1>5 DEF TaskRow, n
<1>8. CorrectedRow(r, ev).x = x /\ CorrectedRow(r, ev).ev = ev
      /\ CorrectedRow(r, ev).mem = r.mem /\ CorrectedRow(r, ev).plans = r.plans
  BY <1>6 DEF TaskRow
<1>9. Advanced(r, CorrectedRow(r, ev))
  BY <1>5, <1>7, <1>8 DEF Advanced, ExecOk, x
<1> QED  BY <1>9 DEF ev

LEMMA DecidedRow ==
    ASSUME NEW r \in TaskRow, ExecOk(r), NEW out \in Outcomes, NEW n \in Nat
    PROVE  Advanced(r, [r EXCEPT !.out = out, !.outs = n])
BY DEF Advanced, TaskRow, ExecOk, Opt

LEMMA DraftRow ==
    ASSUME NEW kind \in {"local", "wfm"}, NEW plans \in Seq(Intervals),
           NEW origin \in {"manual", "retry", "wfm_manual", "wfm_source_adoption", "historical_source"}
    PROVE  LET s == Draft(kind, origin, plans) IN
           s \in TaskRow /\ ExecOk(s) /\ s.mem = None /\ s.plans = plans
<1> DEFINE s == Draft(kind, origin, plans)
<1>1. Unstarted \in Execution /\ <<>> \in Seq(Event) /\ None \in Opt(Outcomes) /\ None \in Opt(Membership)
  BY DEF Unstarted, Execution, Opt
<1>2. s.x = Unstarted /\ s.ev = <<>> /\ s.mem = None /\ s.plans = plans
  BY DEF Draft
<1>3. s \in TaskRow
  BY <1>1 DEF Draft, TaskRow
<1>4. ExecOk(s)
  BY <1>2, FoldEmpty DEF ExecOk
<1> QED  BY <1>2, <1>3, <1>4

LEMMA LinkedRow ==
    ASSUME NEW r \in TaskRow, ExecOk(r), NEW links \in SUBSET Links
    PROVE  Advanced(r, [r EXCEPT !.links = links])
BY DEF TaskRow, ExecOk, Advanced

-----------------------------------------------------------------------------
(* Two kinds of step that most commands are. *)

LEMMA KeptSelf ==
    ASSUME NEW r
    PROVE  Kept(r, r)
BY DEF Kept

LEMMA OneRow ==
    ASSUME CoreInv, NEW t \in Tasks, NEW s \in TaskRow, Kept(task[t], s), task' = [task EXCEPT ![t] = s]
    PROVE  RowsKept /\ task'[t] = s /\ \A u \in Tasks \ {t} : task'[u] = task[u]
<1>1. task \in [Tasks -> Opt(TaskRow)]
  BY DEF CoreInv, TypeInv
<1>2. task'[t] = s /\ \A u \in Tasks \ {t} : task'[u] = task[u]
  BY <1>1
<1>3. task' \in [Tasks -> Opt(TaskRow)]
  BY <1>1 DEF Opt
<1>4. \A u \in Tasks : Kept(task[u], task'[u])
  BY <1>2, KeptSelf
<1> QED  BY <1>2, <1>3, <1>4 DEF RowsKept

LEMMA ManyRows ==
    ASSUME CoreInv, NEW C \in SUBSET Live(task), DOMAIN task' = Tasks, task' = [t \in Tasks |-> task'[t]],
           \A t \in C : Advanced(task[t], task'[t]), \A t \in Tasks \ C : task'[t] = task[t]
    PROVE  RowsKept
<1>1. task \in [Tasks -> Opt(TaskRow)]
  BY DEF CoreInv, TypeInv
<1>2. ASSUME NEW t \in Tasks PROVE task'[t] \in Opt(TaskRow) /\ Kept(task[t], task'[t])
  <2>1. CASE t \in C
    <3>1. task[t] \in TaskRow
      BY <2>1, RowType DEF CoreInv
    <3> QED  BY <3>1, <2>1, AdvancedKept DEF Advanced, Opt
  <2>2. CASE t \notin C
    BY <2>2, <1>1, KeptSelf
  <2> QED  BY <2>1, <2>2
<1>3. task' \in [Tasks -> Opt(TaskRow)]
  BY <1>2
<1> QED  BY <1>2, <1>3 DEF RowsKept

(* Objectives are at most archived, restored or marked as touched. *)
ObjectivesQuiet ==
    /\ obj' \in Seq(Objective) /\ Len(obj') = Len(obj)
    /\ \A o \in DOMAIN obj : SameFrame(obj[o], obj'[o]) /\ SameAggregate(obj[o], obj'[o])

LEMMA ObjectivesUnchanged ==
    ASSUME CoreInv, obj' = obj
    PROVE  ObjectivesQuiet
BY DEF CoreInv, TypeInv, ObjectivesQuiet, SameFrame, SameAggregate

LEMMA QuietRebuilt ==
    ASSUME ObjectivesQuiet
    PROVE  Rebuilt(obj', {})
<1>1. obj' = [o \in DOMAIN obj' |-> obj'[o]]
  BY DEF ObjectivesQuiet
<1>2. obj' = rebuild_aggregate(task', obj', {})
  BY <1>1 DEF rebuild_aggregate
<1> QED  BY <1>2 DEF ObjectivesQuiet, Rebuilt

LEMMA Quiet ==
    ASSUME Inv, RowsKept, ReadsSame({}), ObjectivesQuiet, lineage' = lineage, Around
    PROVE  Inv'
BY QuietRebuilt, Steady

(* Rows advance and the aggregates of their objectives are rebuilt. *)
LEMMA CommitRebuilds ==
    ASSUME CoreInv, RowsKept, NEW C \in SUBSET Live(task), \A t \in Tasks \ C : task'[t] = task[t],
           obj' = rebuild_aggregate(task', obj, UNION {current_membership_for_task(task', t) : t \in C})
    PROVE  \E S : Rebuilt(obj, S) /\ ReadsSame(S)
<1> DEFINE S == UNION {current_membership_for_task(task', t) : t \in C}
<1>1. Rebuilt(obj, S)
  BY DEF Rebuilt, CoreInv, TypeInv, SameFrame, SameAggregate
<1>2. ASSUME NEW t \in Live(task), task[t].mem # None, ~SameView(task[t], task'[t])
      PROVE  task[t].mem.o \in S
  <2>1. t \in Tasks /\ task[t] # None /\ Kept(task[t], task'[t])
    BY DEF Live, RowsKept
  <2>2. task'[t].mem = task[t].mem
    BY <2>1 DEF Kept
  <2>3. t \in C
    BY <1>2, <2>1 DEF SameView
  <2>4. task[t].mem.o \in current_membership_for_task(task', t)
    BY <1>2, <2>2 DEF current_membership_for_task
  <2> QED  BY <2>3, <2>4
<1> HIDE DEF S
<1>3. ReadsSame(S)
  BY <1>2 DEF ReadsSame
<1> QED  BY <1>1, <1>3

LEMMA CommitStep ==
    ASSUME Inv, RowsKept, NEW C \in SUBSET Live(task), \A t \in Tasks \ C : task'[t] = task[t],
           obj' = rebuild_aggregate(task', obj, UNION {current_membership_for_task(task', t) : t \in C}),
           lineage' = lineage, Around
    PROVE  Inv'
<1>1. PICK S : Rebuilt(obj, S) /\ ReadsSame(S)
  BY CommitRebuilds DEF Inv
<1> QED  BY <1>1, Steady

(* The row of one task advances, and the aggregate of its objective is rebuilt. *)
LEMMA CommitOne ==
    ASSUME Inv, NEW t \in Live(task), NEW r, Advanced(task[t], r), Commit(Advance(t, r), obj, {t}),
           lineage' = lineage, Around
    PROVE  Inv'
<1> DEFINE s == [r EXCEPT !.touched = TRUE]
<1>1. t \in Tasks /\ task[t] \in TaskRow /\ task[t] # None
  BY RowType DEF Inv, CoreInv
<1>2. Advanced(task[t], s)
  BY <1>1, Touched
<1>3. s \in TaskRow /\ Kept(task[t], s)
  BY <1>1, <1>2, AdvancedKept DEF Advanced
<1>4. task' = [task EXCEPT ![t] = s] /\ obj' = rebuild_aggregate(task', obj, UNION {current_membership_for_task(task', u) : u \in {t}})
  BY DEF Commit, Advance
<1> HIDE DEF s
<1>5. RowsKept /\ \A u \in Tasks \ {t} : task'[u] = task[u]
  BY <1>1, <1>3, <1>4, OneRow DEF Inv
<1>6. {t} \in SUBSET Live(task)
  OBVIOUS
<1> QED  BY <1>4, <1>5, <1>6, CommitStep

(* A set of tasks advances so. *)
LEMMA CommitMany ==
    ASSUME Inv, NEW C \in SUBSET Live(task), NEW T, Commit(T, obj, C), T = [t \in Tasks |-> T[t]],
           \A t \in C : Advanced(task[t], T[t]), \A t \in Tasks \ C : T[t] = task[t],
           lineage' = lineage, Around
    PROVE  Inv'
<1>1. task' = T /\ obj' = rebuild_aggregate(task', obj, UNION {current_membership_for_task(task', u) : u \in C})
  BY DEF Commit
<1>2. RowsKept
  BY <1>1, ManyRows DEF Inv
<1> QED  BY <1>1, <1>2, CommitStep

(* One row advances in what no aggregate reads, or a row is new. *)
LEMMA QuietOne ==
    ASSUME Inv, NEW t \in Tasks, NEW s \in TaskRow, Kept(task[t], s), task' = [task EXCEPT ![t] = s],
           task[t] = None \/ SameView(task[t], s), obj' = obj, lineage' = lineage, Around
    PROVE  Inv'
<1>1. RowsKept /\ task'[t] = s /\ \A u \in Tasks \ {t} : task'[u] = task[u]
  BY OneRow DEF Inv
<1>2. ReadsSame({})
  BY <1>1 DEF ReadsSame, SameView, Live
<1> QED  BY <1>1, <1>2, ObjectivesUnchanged, Quiet DEF Inv

LEMMA NothingRead ==
    ASSUME Inv, task' = task, ObjectivesQuiet, lineage' = lineage, Around
    PROVE  Inv'
<1>1. RowsKept
  BY KeptSelf DEF Inv, CoreInv, TypeInv, RowsKept
<1>2. ReadsSame({})
  BY DEF ReadsSame, SameView
<1> QED  BY <1>1, <1>2, Quiet

LEMMA HistoryUnchanged ==
    ASSUME hist' = hist, bound' = bound, source' = source, Inv
    PROVE  Around
BY DEF Around, HistoryGrows, Inv, CoreInv, TypeInv

-----------------------------------------------------------------------------
(* Commands on one task. *)

LEMMA RowOk ==
    ASSUME Inv, NEW t \in Live(task)
    PROVE  t \in Tasks /\ task[t] \in TaskRow /\ task[t] # None /\ ExecOk(task[t])
BY RowType DEF Inv, CoreInv, ExecInv

LEMMA FreshRow ==
    ASSUME NEW t \in Fresh
    PROVE  t \in Tasks /\ task[t] = None
BY DEF Fresh

(* A row is made for a task that is not there yet. *)
LEMMA NewRow ==
    ASSUME Inv, NEW t \in Fresh, NEW s, s \in TaskRow, ExecOk(s), s.mem = None,
           task' = [task EXCEPT ![t] = s], obj' = obj, lineage' = lineage, Around
    PROVE  Inv'
<1>1. t \in Tasks /\ task[t] = None
  BY FreshRow
<1>2. Kept(task[t], s)
  BY <1>1 DEF Kept
<1> QED  BY <1>1, <1>2, QuietOne

LEMMA PlansType ==
    ASSUME Inv, NEW plans \in Plans
    PROVE  plans \in Seq(Intervals)
<1>1. <<>> \in Seq(Intervals)
  OBVIOUS
<1>2. ASSUME NEW i \in bound.plans PROVE <<i>> \in Seq(Intervals)
  <2>1. i \in Intervals
    BY DEF Inv, CoreInv, TypeInv
  <2> QED  BY <2>1
<1> QED  BY <1>1, <1>2 DEF Plans

LEMMA CreateKeeps ==
    ASSUME Inv, NEW t, NEW plans \in Plans, create_local_task(t, plans, {}), UNCHANGED wfmVars
    PROVE  Inv'
<1>1. Around /\ lineage' = lineage
  BY HistoryUnchanged DEF create_local_task, wfmVars
<1> DEFINE r == Draft("local", "manual", plans)
           s == [r EXCEPT !.links = {}]
<1>2. t \in Fresh /\ obj' = obj /\ task' = [task EXCEPT ![t] = s]
  BY DEF create_local_task
<1>3. r \in TaskRow /\ ExecOk(r) /\ r.mem = None
  BY PlansType, DraftRow
<1> HIDE DEF r
<1>4. s \in TaskRow /\ ExecOk(s) /\ s.mem = None
  BY <1>3, LinkedRow DEF Advanced
<1> HIDE DEF s
<1> QED  BY <1>1, <1>2, <1>4, NewRow

LEMMA LockKeeps ==
    ASSUME Inv, NEW t, NEW kind \in {"plan", "membership"}, NEW lock \in BOOLEAN,
           set_explicit_task_lock(t, kind, lock), UNCHANGED wfmVars
    PROVE  Inv'
<1>1. Around /\ lineage' = lineage
  BY HistoryUnchanged DEF set_explicit_task_lock, wfmVars
<1>2. t \in Tasks /\ task[t] \in TaskRow /\ task[t] # None /\ ExecOk(task[t])
  BY RowOk DEF set_explicit_task_lock
<1> DEFINE locks == IF lock THEN task[t].lock \cup {kind} ELSE task[t].lock \ {kind}
           r == [task[t] EXCEPT !.lock = locks]
           s == [r EXCEPT !.touched = TRUE]
<1>3. obj' = obj /\ task' = [task EXCEPT ![t] = s]
  BY DEF set_explicit_task_lock, Advance
<1>4. locks \in SUBSET {"plan", "membership"}
  BY <1>2 DEF TaskRow
<1> HIDE DEF locks
<1>5. s \in TaskRow /\ Advanced(task[t], s) /\ SameView(task[t], s)
  BY <1>2, <1>4 DEF TaskRow, ExecOk, Advanced, SameView, ExecutionRevision
<1> HIDE DEF s
<1>6. Kept(task[t], s)
  BY <1>2, <1>5, AdvancedKept
<1> QED  BY <1>1, <1>2, <1>3, <1>5, <1>6, QuietOne

LEMMA RelationshipKeeps ==
    ASSUME Inv, NEW t, NEW l \in Links, NEW link \in BOOLEAN,
           change_task_relationship(t, l, link), UNCHANGED wfmVars
    PROVE  Inv'
<1>1. Around /\ lineage' = lineage
  BY HistoryUnchanged DEF change_task_relationship, wfmVars
<1>2. t \in Tasks /\ task[t] \in TaskRow /\ task[t] # None /\ ExecOk(task[t])
  BY RowOk DEF change_task_relationship
<1> DEFINE links == IF link THEN task[t].links \cup {l} ELSE task[t].links \ {l}
           r == [task[t] EXCEPT !.links = links]
           s == [r EXCEPT !.touched = TRUE]
<1>3. obj' = obj /\ task' = [task EXCEPT ![t] = s]
  BY DEF change_task_relationship, Advance
<1>4. links \in SUBSET Links
  BY <1>2 DEF TaskRow
<1> HIDE DEF links
<1>5. s \in TaskRow /\ Advanced(task[t], s) /\ SameView(task[t], s)
  BY <1>2, <1>4 DEF TaskRow, ExecOk, Advanced, SameView, ExecutionRevision
<1> HIDE DEF s
<1>6. Kept(task[t], s)
  BY <1>2, <1>5, AdvancedKept
<1> QED  BY <1>1, <1>2, <1>3, <1>5, <1>6, QuietOne

-----------------------------------------------------------------------------
(* Execution evidence and outcomes. *)

LEMMA StartKeeps ==
    ASSUME Inv, NEW t, NEW at \in bound.at, start_task_execution(t, at), UNCHANGED wfmVars
    PROVE  Inv'
<1>1. Around /\ lineage' = lineage
  BY HistoryUnchanged DEF start_task_execution, wfmVars
<1>2. t \in Live(task) /\ task[t].x.st = "not_started" /\ Commit(Advance(t, Started(task[t], at)), obj, {t})
  BY DEF start_task_execution, Startable
<1>3. task[t] \in TaskRow /\ ExecOk(task[t]) /\ at \in Instants
  BY <1>2, RowOk DEF Inv, CoreInv, TypeInv
<1>4. Advanced(task[t], Started(task[t], at))
  BY <1>2, <1>3, StartedRow
<1> QED  BY <1>1, <1>2, <1>4, CommitOne

LEMMA EndKeeps ==
    ASSUME Inv, NEW t, NEW at \in bound.at, end_task_execution(t, at), UNCHANGED wfmVars
    PROVE  Inv'
<1>1. Around /\ lineage' = lineage
  BY HistoryUnchanged DEF end_task_execution, wfmVars
<1>2. /\ t \in Live(task) /\ task[t].x.st = "in_progress" /\ at >= task[t].x.s
      /\ Commit(Advance(t, EndedRow(task[t], at)), obj, {t})
  BY DEF end_task_execution, EndedRow
<1>3. task[t] \in TaskRow /\ ExecOk(task[t]) /\ at \in Instants
  BY <1>2, RowOk DEF Inv, CoreInv, TypeInv
<1>4. Advanced(task[t], EndedRow(task[t], at))
  BY <1>2, <1>3, EndedRowAdvances
<1> QED  BY <1>1, <1>2, <1>4, CommitOne

LEMMA CancelKeeps ==
    ASSUME Inv, NEW t, cancel_task_without_execution(t), UNCHANGED wfmVars
    PROVE  Inv'
<1>1. Around /\ lineage' = lineage
  BY HistoryUnchanged DEF cancel_task_without_execution, wfmVars
<1>2. t \in Live(task) /\ task[t].x.st = "not_started" /\ Commit(Advance(t, Cancelled(task[t])), obj, {t})
  BY DEF cancel_task_without_execution, Startable
<1>3. task[t] \in TaskRow /\ ExecOk(task[t])
  BY <1>2, RowOk
<1>4. Advanced(task[t], Cancelled(task[t]))
  BY <1>2, <1>3, CancelledRow
<1> QED  BY <1>1, <1>2, <1>4, CommitOne

LEMMA CorrectionKeeps ==
    ASSUME Inv, NEW t \in Live(task), NEW i \in DOMAIN task[t].ev, NEW w \in BOOLEAN, NEW at \in bound.at,
           correct_task_execution_evidence(t, i, w, at), UNCHANGED wfmVars
    PROVE  Inv'
<1>1. Around /\ lineage' = lineage
  BY HistoryUnchanged DEF correct_task_execution_evidence, wfmVars
<1> DEFINE ev == CorrectedEvidence(task[t], i, w, at)
<1>2. /\ _fold_execution_history(ev).st # "invalid"
      /\ Commit(Advance(t, CorrectedRow(task[t], ev)), obj, {t})
  BY Zenon DEF correct_task_execution_evidence, CorrectedEvidence, CorrectedRow
<1>3. task[t] \in TaskRow /\ ExecOk(task[t]) /\ at \in Instants
  BY RowOk DEF Inv, CoreInv, TypeInv
<1>4. Advanced(task[t], CorrectedRow(task[t], ev))
  BY <1>2, <1>3, CorrectedRowAdvances
<1> HIDE DEF ev
<1> QED  BY <1>1, <1>2, <1>4, CommitOne

LEMMA OutcomeKeeps ==
    ASSUME Inv, NEW t, NEW out \in Outcomes,
           review_task_outcome(t, out) \/ correct_task_outcome(t, out), UNCHANGED wfmVars
    PROVE  Inv'
<1>1. Around /\ lineage' = lineage
  BY HistoryUnchanged DEF review_task_outcome, correct_task_outcome, wfmVars
<1>2. t \in Live(task)
  BY DEF review_task_outcome, correct_task_outcome
<1>3. task[t] \in TaskRow /\ ExecOk(task[t])
  BY <1>2, RowOk
<1>4. \E n \in Nat : Commit(Advance(t, [task[t] EXCEPT !.out = out, !.outs = n]), obj, {t})
  <2>1. 1 \in Nat /\ task[t].outs + 1 \in Nat
    BY <1>3 DEF TaskRow
  <2> QED  BY <2>1, Zenon DEF review_task_outcome, correct_task_outcome
<1>5. PICK n \in Nat : Commit(Advance(t, [task[t] EXCEPT !.out = out, !.outs = n]), obj, {t})
  BY <1>4
<1>6. Advanced(task[t], [task[t] EXCEPT !.out = out, !.outs = n])
  BY <1>3, DecidedRow
<1> QED  BY <1>1, <1>2, <1>5, <1>6, CommitOne

LEMMA StartSelectedKeeps ==
    ASSUME Inv, NEW o, NEW S, NEW at \in bound.at, start_selected_objective_tasks(o, S, at), UNCHANGED wfmVars
    PROVE  Inv'
<1>1. Around /\ lineage' = lineage
  BY HistoryUnchanged DEF start_selected_objective_tasks, wfmVars
<1> DEFINE T == [t \in Tasks |-> IF t \in S THEN Started(task[t], at) ELSE task[t]]
<1>2. S \in SUBSET Live(task) /\ Commit(T, obj, S) /\ \A t \in S : task[t].x.st = "not_started"
  BY DEF start_selected_objective_tasks, Startable, Members
<1>3. ASSUME NEW t \in S PROVE Advanced(task[t], T[t])
  <2>1. t \in Tasks /\ task[t] \in TaskRow /\ ExecOk(task[t]) /\ at \in Instants
    BY <1>2, RowOk DEF Inv, CoreInv, TypeInv
  <2> QED  BY <2>1, <1>2, StartedRow
<1>4. T = [t \in Tasks |-> T[t]] /\ \A t \in Tasks \ S : T[t] = task[t]
  OBVIOUS
<1> HIDE DEF T
<1> QED  BY <1>1, <1>2, <1>3, <1>4, CommitMany

-----------------------------------------------------------------------------
(* Plans. *)

LEMMA PlannedRow ==
    ASSUME NEW r \in TaskRow, ExecOk(r), NEW i \in Intervals
    PROVE  LET s == [Planned(r, i) EXCEPT !.touched = TRUE] IN
           /\ s \in TaskRow /\ ExecOk(s) /\ Kept(r, s) /\ SameRecord(r, s) /\ Len(s.plans) = Len(r.plans) + 1
           /\ s.plans = Append(r.plans, i)
<1> DEFINE p == Append(r.plans, i)
           s == [r EXCEPT !.plans = p, !.touched = TRUE]
<1>1. r.plans \in Seq(Intervals) /\ r # None
  BY ObjectivesAssumption DEF TaskRow
<1>2. p \in Seq(Intervals) /\ Len(p) = Len(r.plans) + 1 /\ Len(r.plans) \in Nat /\ Extends(p, r.plans)
  BY <1>1 DEF Extends
<1>3. [Planned(r, i) EXCEPT !.touched = TRUE] = s
  BY DEF Planned
<1> HIDE DEF p
<1>4. s \in TaskRow /\ s.plans = p /\ s.mem = r.mem /\ ExecOk(s) /\ SameRecord(r, s)
  BY <1>2 DEF TaskRow, ExecOk, SameRecord, ExecutionRevision
<1> HIDE DEF s
<1>5. Kept(r, s)
  BY <1>1, <1>2, <1>4 DEF Kept
<1> QED  BY <1>2, <1>3, <1>4, <1>5 DEF p

(* The mismatch is shown, or left alone in an objective that holds the plan. *)
Surfaced(r, p) ==
    /\ p => ObjectiveProtects(r, Held)
    /\ obj' = IF p THEN obj ELSE _surface_plan_membership_mismatch(obj, r)

LEMMA SurfacedEither ==
    ASSUME NEW r, \/ obj' = _surface_mutable_objective_mismatch(r)
                  \/ obj' = _surface_plan_membership_mismatch(obj, r)
    PROVE  \E p \in BOOLEAN : Surfaced(r, p)
BY DEF Surfaced, _surface_mutable_objective_mismatch

LEMMA SurfaceKeeps ==
    ASSUME Inv, NEW t \in Live(task), NEW p \in BOOLEAN, Surfaced(task[t], p)
    PROVE  /\ ObjectivesKept
           /\ \A q \in DOMAIN obj : task[t].mem = None \/ q # task[t].mem.o => obj'[q] = obj[q]
           /\ task[t].mem # None =>
                LET o == task[t].mem.o IN
                /\ o \in DOMAIN obj /\ ~obj[o].gone
                /\ obj'[o].by = obj[o].by /\ obj'[o].origin = obj[o].origin /\ obj'[o].reviews = obj[o].reviews
                /\ obj'[o].agg = IF p \/ obj[o].agg.att # None THEN obj[o].agg
                                 ELSE [obj[o].agg EXCEPT !.att = "plan_membership_mismatch"]
<1> DEFINE r == task[t]
           o == r.mem.o
<1>1. obj \in Seq(Objective) /\ DOMAIN obj = 1..Len(obj) /\ Len(obj) \in Nat /\ \A q \in DOMAIN obj : obj[q] \in Objective
  BY DEF Inv, CoreInv, TypeInv
<1>2. r.mem # None => o \in DOMAIN obj /\ ~obj[o].gone
  BY DEF Inv, CoreInv, MemInv, Belongs
<1>3. CASE r.mem = None \/ p \/ obj[o].agg.att # None
  <2>1. obj' = obj
    BY <1>3 DEF Surfaced, _surface_plan_membership_mismatch
  <2>2. ObjectivesKept
    BY <1>1, <2>1 DEF ObjectivesKept, SameFrame
  <2> QED  BY <1>1, <1>2, <1>3, <2>1, <2>2
<1>4. CASE ~(r.mem = None \/ p \/ obj[o].agg.att # None)
  <2> DEFINE a == [obj[o].agg EXCEPT !.att = "plan_membership_mismatch"]
             y == [obj[o] EXCEPT !.agg = a, !.touched = TRUE]
  <2>1. o \in DOMAIN obj /\ obj[o] \in Objective
    BY <1>1, <1>2, <1>4
  <2>2. a \in Aggregate
    BY <2>1 DEF Objective, Aggregate, Opt, Attention
  <2>3. obj' = [obj EXCEPT ![o].agg.att = "plan_membership_mismatch", ![o].touched = TRUE]
    BY <1>4 DEF Surfaced, _surface_plan_membership_mismatch
  <2> HIDE DEF r, o
  <2>4. obj' = [obj EXCEPT ![o] = y]
    BY <1>1, <2>1, <2>3
  <2> HIDE DEF a
  <2>5. y \in Objective /\ SameFrame(obj[o], y) /\ y.reviews = obj[o].reviews /\ y.agg = a
    BY <2>1, <2>2 DEF Objective, SameFrame
  <2> HIDE DEF y
  <2>6. obj'[o] = y /\ \A q \in DOMAIN obj \ {o} : obj'[q] = obj[q]
    BY <2>4, <2>1, <1>1
  <2>7. obj' \in [1..Len(obj) -> Objective]
    BY <2>4, <2>5, <1>1
  <2>8. ObjectivesKept
    <3>1. obj' \in Seq(Objective) /\ Len(obj') = Len(obj)
      BY <2>7, <1>1, SeqOfFunction
    <3> QED  BY <3>1, <2>5, <2>6 DEF ObjectivesKept, SameFrame
  <2> QED  BY <1>2, <1>4, <2>1, <2>5, <2>6, <2>8 DEF SameFrame, r, o, a
<1> QED  BY <1>3, <1>4

LEMMA ReplannedFresh ==
    ASSUME Inv, NEW t \in Live(task), NEW p \in BOOLEAN, Surfaced(task[t], p),
           task[t].mem # None, MembersKept, \A u \in Tasks \ {t} : task'[u] = task[u],
           SameRecord(task[t], task'[t]), Len(task'[t].plans) = Len(task[t].plans) + 1
    PROVE  FreshAt(task', obj', task[t].mem.o)
<1> DEFINE o == task[t].mem.o
           d == _derive_material_state(task, obj, o)
           e == _derive_material_state(task', obj', o)
           shown(a) == a \in {"mixed_outcomes", "lost_last_executable"}
           a == obj[o].agg
<1>1. /\ o \in DOMAIN obj /\ ~obj[o].gone
      /\ obj'[o].by = obj[o].by /\ obj'[o].origin = obj[o].origin /\ obj'[o].reviews = obj[o].reviews
      /\ obj'[o].agg = IF p \/ a.att # None THEN a ELSE [a EXCEPT !.att = "plan_membership_mismatch"]
  BY SurfaceKeeps
<1>2. t \in Tasks /\ task[t] \in TaskRow /\ t \in Members(task, o)
  BY RowOk DEF Members
<1>3. Members(task', o) = Members(task, o) /\ \A u \in Members(task, o) : SameRecord(task[u], task'[u])
  <2>1. \A u \in Tasks \ {t} : SameRecord(task[u], task'[u])
    BY DEF SameRecord
  <2> QED  BY <2>1 DEF MembersKept, Members, Live
<1>4. Mismatched(task', o)
  <2>1. task[t].mem.p \in 1..Len(task[t].plans) /\ Len(task[t].plans) \in Nat
    BY <1>2 DEF Inv, CoreInv, MemInv, Belongs, TaskRow
  <2>2. task'[t].mem = task[t].mem
    BY DEF SameRecord
  <2>3. task'[t].mem.p # Len(task'[t].plans)
    BY <2>1, <2>2
  <2> QED  BY <1>2, <1>3, <2>3 DEF Mismatched
<1>5. /\ d = [st |-> d.st, out |-> d.out, att |-> d.att] /\ e = [st |-> d.st, out |-> d.out, att |-> e.att]
      /\ shown(d.att) => e.att = d.att
      /\ ~shown(d.att) => /\ d.att \in {None, "plan_membership_mismatch"} 
                          /\ e.att = "plan_membership_mismatch"
      /\ d.st = "superseded" <=> obj[o].by # None
  BY <1>1, <1>3, <1>4, DeriveLocal
<1>6. FreshAt(task, obj, o)
  BY <1>1, FreshIsFreshAt DEF Inv
<1>7. p => obj[o].by # None \/ obj[o].origin = "historical_provider_complete" \/ a.st \in Held
  BY DEF Surfaced, ObjectiveProtects
<1>8. \/ a = d
      \/ /\ a = [d EXCEPT !.att = None] /\ d.att = "plan_membership_mismatch"
         /\ d.st \in Held \/ obj[o].origin = "historical_provider_complete"
  BY <1>6 DEF FreshAt
<1> HIDE DEF d, e, a, o
<1>9. None \notin Attention
  BY ObjectivesAssumption
<1>10. SUFFICES \/ obj'[o].agg = e
                \/ /\ obj'[o].agg = [e EXCEPT !.att = None]
                   /\ e.att = "plan_membership_mismatch"
                   /\ e.st \in Held \/ obj'[o].origin = "historical_provider_complete"
  BY DEF FreshAt, e, o
<1>11. CASE p
  <2>1. obj'[o].agg = a
    BY <1>1, <1>11
  <2>2. CASE shown(d.att)
    BY <1>5, <1>8, <2>1, <2>2
  <2>3. CASE ~shown(d.att)
    <3>1. CASE a = d /\ d.att = "plan_membership_mismatch"
      BY <3>1, <1>5, <2>1, <2>3
    <3>2. CASE a = [d EXCEPT !.att = None]
      <4>1. [e EXCEPT !.att = None] = [st |-> d.st, out |-> d.out, att |-> None] /\ e.st = d.st
        BY <1>5
      <4>2. a = [st |-> d.st, out |-> d.out, att |-> None] /\ a.st = d.st
        BY <1>5, <3>2
      <4>3. e.st \in Held \/ obj'[o].origin = "historical_provider_complete"
        BY <1>1, <1>5, <1>7, <1>11, <4>1, <4>2 DEF Held, Closed
      <4> QED  BY <4>1, <4>2, <4>3, <1>5, <2>1, <2>3
    <3>3. d.att = None => [d EXCEPT !.att = None] = d
      BY <1>5
    <3> QED  BY <3>1, <3>2, <3>3, <1>5, <1>8, <2>3
  <2> QED  BY <2>2, <2>3
<1>12. CASE ~p
  <2>1. CASE a.att # None
    <3>1. a = d /\ obj'[o].agg = a
      BY <1>1, <1>5, <1>8, <1>12, <2>1
    <3> QED  BY <1>5, <2>1, <3>1
  <2>2. CASE a.att = None
    <3>1. a = [st |-> d.st, out |-> d.out, att |-> None] /\ d.att \in {None, "plan_membership_mismatch"}
      BY <1>5, <1>8, <2>2
    <3>2. obj'[o].agg = [a EXCEPT !.att = "plan_membership_mismatch"]
      BY <1>1, <1>12, <2>2
    <3>3. ~shown(d.att)
      BY <3>1, <1>9 DEF Attention
    <3>4. obj'[o].agg = [st |-> d.st, out |-> d.out, att |-> "plan_membership_mismatch"]
      BY <3>1, <3>2
    <3> QED  BY <1>5, <3>3, <3>4
  <2> QED  BY <2>1, <2>2
<1> QED  BY <1>11, <1>12

LEMMA Replanned ==
    ASSUME Inv, NEW t \in Live(task), NEW i \in Intervals, task' = Advance(t, Planned(task[t], i)),
           NEW p \in BOOLEAN, Surfaced(task[t], p), lineage' = lineage, Around
    PROVE  Inv'
<1> DEFINE s == [Planned(task[t], i) EXCEPT !.touched = TRUE]
<1>1. t \in Tasks /\ task[t] \in TaskRow /\ task[t] # None /\ ExecOk(task[t])
  BY RowOk
<1>2. s \in TaskRow /\ Kept(task[t], s) /\ SameRecord(task[t], s) /\ Len(s.plans) = Len(task[t].plans) + 1
  BY <1>1, PlannedRow
<1>3. task' = [task EXCEPT ![t] = s]
  BY DEF Advance
<1> HIDE DEF s
<1>4. RowsKept /\ task'[t] = s /\ \A u \in Tasks \ {t} : task'[u] = task[u]
  BY <1>1, <1>2, <1>3, OneRow DEF Inv
<1>5. MembersKept
  BY <1>4, RowsKeepMembers DEF Inv
<1>6. ObjectivesKept /\ \A q \in DOMAIN obj : task[t].mem = None \/ q # task[t].mem.o => obj'[q] = obj[q]
  BY SurfaceKeeps
<1>7. CoreInv' /\ EnvelopesDisjoint'
  BY <1>4, <1>5, <1>6, CoreStays, EnvelopesStay DEF Inv
<1>8. ASSUME NEW q \in DOMAIN obj', ~obj'[q].gone PROVE FreshAt(task', obj', q)
  <2>1. CASE task[t].mem # None /\ q = task[t].mem.o
    BY <1>2, <1>4, <1>5, <2>1, ReplannedFresh
  <2>2. CASE ~(task[t].mem # None /\ q = task[t].mem.o)
    <3>1. q \in DOMAIN obj /\ obj'[q] = obj[q] /\ ~obj[q].gone
      BY <1>6, <1>8, <2>2, CurrentKept DEF Inv
    <3>2. FreshAt(task, obj, q)
      BY <3>1, FreshIsFreshAt DEF Inv
    <3>3. Members(task', q) = Members(task, q) /\ \A u \in Members(task, q) : SameView(task[u], task'[u])
      <4>1. t \notin Members(task, q)
        BY <2>2 DEF Members
      <4> QED  BY <1>4, <1>5, <4>1 DEF MembersKept, SameView, Members, Live
    <3>4. SameAggregate(obj[q], obj'[q])
      BY <3>1 DEF SameAggregate
    <3> QED  BY <3>1, <3>2, <3>3, <3>4, FreshUntouched
  <2> QED  BY <2>1, <2>2
<1>9. AggregateFresh'
  BY <1>8, FreshIsFreshAt
<1> QED  BY <1>7, <1>9 DEF Inv

LEMMA PlanKeeps ==
    ASSUME Inv, NEW t, NEW i \in bound.plans, set_task_plan(t, i) \/ correct_task_plan(t, i), UNCHANGED wfmVars
    PROVE  Inv'
<1>1. Around /\ lineage' = lineage
  BY HistoryUnchanged DEF set_task_plan, correct_task_plan, wfmVars
<1>2. t \in Live(task) /\ task' = Advance(t, Planned(task[t], i))
  BY DEF set_task_plan, correct_task_plan
<1>3. PICK p \in BOOLEAN : Surfaced(task[t], p)
  BY SurfacedEither DEF set_task_plan, correct_task_plan
<1>4. i \in Intervals
  BY DEF Inv, CoreInv, TypeInv
<1> QED  BY <1>1, <1>2, <1>3, <1>4, Replanned

-----------------------------------------------------------------------------
(* Commands on one objective. *)

LEMMA ObjectiveRow ==
    ASSUME Inv
    PROVE  /\ obj \in Seq(Objective) /\ Len(obj) \in Nat /\ DOMAIN obj = 1..Len(obj)
           /\ \A q \in DOMAIN obj : obj[q] \in Objective
BY DEF Inv, CoreInv, TypeInv

(* The row of one objective is replaced. *)
WithObjective(o, y) == [obj EXCEPT ![o] = y]

LEMMA OneObjective ==
    ASSUME Inv, NEW o \in DOMAIN obj, NEW y \in Objective
    PROVE  LET O == WithObjective(o, y) IN
           /\ O \in Seq(Objective) /\ Len(O) = Len(obj) /\ DOMAIN O = DOMAIN obj
           /\ O[o] = y /\ \A q \in DOMAIN obj \ {o} : O[q] = obj[q]
<1> DEFINE O == WithObjective(o, y)
<1>1. O \in [1..Len(obj) -> Objective] /\ O[o] = y /\ \A q \in DOMAIN obj \ {o} : O[q] = obj[q]
  BY ObjectiveRow DEF WithObjective
<1> HIDE DEF O
<1>2. O \in Seq(Objective) /\ Len(O) = Len(obj) /\ DOMAIN O = DOMAIN obj
  BY <1>1, ObjectiveRow, SeqOfFunction
<1> QED  BY <1>1, <1>2 DEF O

LEMMA ArchiveKeeps ==
    ASSUME Inv, NEW o \in DOMAIN obj, archive_objective(o) \/ restore_objective(o), UNCHANGED wfmVars
    PROVE  Inv'
<1>1. Around /\ lineage' = lineage /\ task' = task
  BY HistoryUnchanged DEF archive_objective, restore_objective, wfmVars
<1>2. PICK b \in BOOLEAN : obj' = [obj EXCEPT ![o].arch = b, ![o].touched = TRUE]
  BY DEF archive_objective, restore_objective
<1> DEFINE y == [obj[o] EXCEPT !.arch = b, !.touched = TRUE]
<1>3. obj' = WithObjective(o, y)
  BY <1>2, ObjectiveRow DEF WithObjective
<1>4. y \in Objective /\ SameFrame(obj[o], y) /\ SameAggregate(obj[o], y)
  BY ObjectiveRow DEF Objective, SameFrame, SameAggregate
<1> HIDE DEF y
<1>5. /\ obj' \in Seq(Objective) /\ Len(obj') = Len(obj)
      /\ obj'[o] = y /\ \A q \in DOMAIN obj \ {o} : obj'[q] = obj[q]
  BY <1>3, <1>4, OneObjective
<1>6. ObjectivesQuiet
  BY <1>4, <1>5 DEF ObjectivesQuiet, SameFrame, SameAggregate
<1> QED  BY <1>1, <1>6, NothingRead

LEMMA FingerprintType ==
    ASSUME NEW T, T \in [Tasks -> Opt(TaskRow)], NEW o
    PROVE  _review_fingerprint(T, o) \in SUBSET (Tasks \X Membership \X Nat \X Nat \X Nat)
<1>1. ASSUME NEW t \in Members(T, o)
      PROVE  <<t, T[t].mem, ExecutionRevision(T[t]), T[t].outs, T[t].counts>>
                \in Tasks \X Membership \X Nat \X Nat \X Nat
  <2>1. t \in Tasks /\ T[t] \in TaskRow /\ T[t].mem # None
    BY DEF Members, Live, Opt
  <2>2. T[t].mem \in Membership /\ Len(T[t].ev) \in Nat /\ T[t].corrections \in Nat /\ T[t].outs \in Nat
        /\ T[t].counts \in Nat
    BY <2>1 DEF TaskRow, Opt
  <2>3. ExecutionRevision(T[t]) \in Nat
    BY <2>2 DEF ExecutionRevision
  <2> QED  BY <2>1, <2>2, <2>3
<1> QED  BY <1>1 DEF _review_fingerprint

(* The objective o gets a review of what the rows T say of it. *)
ReviewedIn(T, o) == [obj EXCEPT ![o].reviews = @ \cup {_review_fingerprint(T, o)}]

LEMMA ReviewRebuilt ==
    ASSUME Inv, NEW o \in DOMAIN obj, task' \in [Tasks -> Opt(TaskRow)],
           obj' = rebuild_aggregate(task', ReviewedIn(task', o), {o})
    PROVE  Rebuilt(ReviewedIn(task', o), {o})
<1> DEFINE f == _review_fingerprint(task', o)
           v == obj[o].reviews \cup {f}
           y == [obj[o] EXCEPT !.reviews = v]
<1>1. f \in SUBSET (Tasks \X Membership \X Nat \X Nat \X Nat)
  BY FingerprintType
<1> HIDE DEF f
<1>2. obj[o] \in Objective /\ v \in SUBSET SUBSET (Tasks \X Membership \X Nat \X Nat \X Nat)
  BY <1>1, ObjectiveRow DEF Objective
<1>3. ReviewedIn(task', o) = WithObjective(o, y)
  BY DEF ReviewedIn, f, WithObjective
<1> HIDE DEF v
<1>4. y \in Objective /\ SameFrame(obj[o], y)
  BY <1>2 DEF Objective, SameFrame
<1> HIDE DEF y
<1>5. /\ ReviewedIn(task', o) \in Seq(Objective) /\ Len(ReviewedIn(task', o)) = Len(obj)
      /\ ReviewedIn(task', o)[o] = y /\ \A q \in DOMAIN obj \ {o} : ReviewedIn(task', o)[q] = obj[q]
  BY <1>3, <1>4, OneObjective
<1> QED  BY <1>4, <1>5 DEF Rebuilt, SameFrame, SameAggregate

LEMMA ReviewKeeps ==
    ASSUME Inv, NEW o \in DOMAIN obj, review_objective(o), UNCHANGED wfmVars
    PROVE  Inv'
<1>1. Around /\ lineage' = lineage /\ task' = task
  BY HistoryUnchanged DEF review_objective, wfmVars
<1>2. obj' = rebuild_aggregate(task', ReviewedIn(task', o), {o})
  BY <1>1, Zenon DEF review_objective, ReviewedIn
<1>3. RowsKept
  BY <1>1, KeptSelf DEF Inv, CoreInv, TypeInv, RowsKept
<1>4. Rebuilt(ReviewedIn(task', o), {o})
  BY <1>2, <1>3, ReviewRebuilt DEF RowsKept
<1>5. ReadsSame({o})
  BY <1>1 DEF ReadsSame, SameView
<1> QED  BY <1>1, <1>3, <1>4, <1>5, Steady

LEMMA CancelObjectiveKeeps ==
    ASSUME Inv, NEW o \in DOMAIN obj, cancel_objective_before_execution(o), UNCHANGED wfmVars
    PROVE  Inv'
<1>1. Around /\ lineage' = lineage
  BY HistoryUnchanged DEF cancel_objective_before_execution, wfmVars
<1> DEFINE M == Members(task, o)
<1>2. task' = [t \in Tasks |-> IF t \in M THEN Cancelled(task[t]) ELSE task[t]]
  BY DEF cancel_objective_before_execution
<1>3. obj' = rebuild_aggregate(task', ReviewedIn(task', o), {o})
  BY <1>2, Zenon DEF cancel_objective_before_execution, ReviewedIn
<1>4. M \in SUBSET Live(task) /\ \A t \in M : task[t].x.st = "not_started"
  BY DEF cancel_objective_before_execution, Members, Startable
<1>5. DOMAIN task' = Tasks /\ task' = [t \in Tasks |-> task'[t]] /\ \A t \in Tasks \ M : task'[t] = task[t]
  BY <1>2
<1>6. ASSUME NEW t \in M PROVE Advanced(task[t], task'[t])
  <2>1. t \in Tasks /\ task[t] \in TaskRow /\ ExecOk(task[t])
    BY <1>4, RowOk
  <2>2. task'[t] = Cancelled(task[t])
    BY <2>1, <1>2
  <2> QED  BY <2>1, <2>2, <1>4, CancelledRow
<1> HIDE DEF M
<1>7. RowsKept
  BY <1>4, <1>5, <1>6, ManyRows DEF Inv
<1>8. Rebuilt(ReviewedIn(task', o), {o})
  BY <1>3, <1>7, ReviewRebuilt DEF RowsKept
<1>9. ReadsSame({o})
  <2> SUFFICES ASSUME NEW t \in Live(task), task[t].mem # None, task[t].mem.o # o
               PROVE  SameView(task[t], task'[t])
    BY DEF ReadsSame
  <2>1. t \in Tasks \ M
    BY DEF Members, Live, M
  <2> QED  BY <2>1, <1>5 DEF SameView
<1> QED  BY <1>1, <1>7, <1>8, <1>9, Steady

(* A deleted objective leaves the tasks of a draft as they were before it. *)
LEMMA DeleteObjectiveKeeps ==
    ASSUME Inv, NEW o \in DOMAIN obj, hard_delete_objective(o), UNCHANGED wfmVars
    PROVE  Inv'
<1>1. Around /\ lineage' = lineage
  BY HistoryUnchanged DEF hard_delete_objective, wfmVars
<1> DEFINE M == Members(task, o)
           y == [obj[o] EXCEPT !.gone = TRUE]
<1>2. task' = [t \in Tasks |-> IF t \in M THEN [task[t] EXCEPT !.mem = None] ELSE task[t]]
  BY DEF hard_delete_objective
<1>3. obj' = WithObjective(o, y)
  BY DEF hard_delete_objective, WithObjective
<1>4. y \in Objective /\ y.gone
  BY ObjectiveRow DEF Objective
<1> HIDE DEF y
<1>5. /\ obj' \in Seq(Objective) /\ Len(obj') = Len(obj) /\ DOMAIN obj' = DOMAIN obj
      /\ obj'[o] = y /\ \A q \in DOMAIN obj \ {o} : obj'[q] = obj[q]
  BY <1>3, <1>4, OneObjective
<1>6. ASSUME NEW t \in M
      PROVE  /\ t \in Live(task) /\ task'[t] \in TaskRow /\ ExecOk(task'[t]) /\ task'[t].mem = None
  <2>1. t \in Live(task) /\ t \in Tasks /\ task[t] \in TaskRow /\ ExecOk(task[t])
    BY <1>6, RowOk DEF Members
  <2>2. None \in Opt(Membership) /\ task'[t] = [task[t] EXCEPT !.mem = None]
    BY <1>2, <2>1 DEF Opt
  <2> QED  BY <2>1, <2>2 DEF TaskRow, ExecOk
<1>7. task' \in [Tasks -> Opt(TaskRow)]
  BY <1>2, <1>6 DEF Inv, CoreInv, TypeInv, Opt
<1>8. \A t \in Tasks \ M : task'[t] = task[t]
  BY <1>2
<1>9. Live(task') = Live(task)
  BY <1>6, <1>7, <1>8, ObjectivesAssumption DEF Live
<1>10. ASSUME NEW q, q # o
       PROVE  Members(task', q) = Members(task, q) /\ \A t \in Members(task, q) : task'[t] = task[t]
  BY <1>6, <1>8, <1>9, <1>10 DEF Members, Live
<1>11. TypeInv'
  BY <1>1, <1>5, <1>7 DEF Inv, CoreInv, TypeInv, Around
<1>12. MemInv' /\ ExecInv'
  <2>1. ASSUME NEW t \in Live(task') PROVE Belongs(task'[t], obj') /\ ExecOk(task'[t])
    <3>1. CASE t \in M
      BY <3>1, <1>6 DEF Belongs
    <3>2. CASE t \notin M
      <4>1. t \in Live(task) /\ t \in Tasks /\ task'[t] = task[t]
        BY <3>2, <1>8, <1>9 DEF Live
      <4>2. Belongs(task[t], obj) /\ ExecOk(task[t]) /\ (task[t].mem # None => task[t].mem.o # o)
        BY <4>1, <3>2 DEF Inv, CoreInv, MemInv, ExecInv, Members
      <4> QED  BY <4>1, <4>2, <1>5 DEF Belongs
    <3> QED  BY <3>1, <3>2
  <2> QED  BY <2>1 DEF MemInv, ExecInv
<1>13. LineageInv' /\ HistInv'
  BY <1>1, <1>9 DEF Inv, CoreInv, LineageInv, LineageOk, Assigned, HistInv, Around, HistoryGrows
<1>14. Current(obj') = Current(obj) \ {o}
  BY <1>4, <1>5 DEF Current
<1>15. EnvelopesDisjoint'
  <2>1. ASSUME NEW q \in Current(obj')
        PROVE  /\ Members(task', q) # {} /\ obj'[q].env = Envelope(task', Members(task', q))
               /\ \A u \in Current(obj') \ {q} : obj'[u].env[1] >= obj'[q].env[2] \/ obj'[u].env[2] <= obj'[q].env[1]
    <3>1. q \in Current(obj) /\ q # o
      BY <1>14
    <3>2. Envelope(task', Members(task, q)) = Envelope(task, Members(task, q))
      BY <3>1, <1>10, EnvelopeLocal
    <3>3. \A u \in Current(obj') : u \in Current(obj) /\ obj'[u] = obj[u]
      BY <1>5, <1>14 DEF Current
    <3> QED  BY <1>10, <3>1, <3>2, <3>3 DEF Inv, EnvelopesDisjoint
  <2> QED  BY <2>1 DEF EnvelopesDisjoint
<1>16. AggregateFresh'
  <2>1. ASSUME NEW q \in DOMAIN obj', ~obj'[q].gone PROVE FreshAt(task', obj', q)
    <3>1. q # o /\ q \in DOMAIN obj /\ obj'[q] = obj[q]
      BY <1>4, <1>5, <2>1
    <3>2. FreshAt(task, obj, q)
      BY <2>1, <3>1, FreshIsFreshAt DEF Inv
    <3>3. Members(task', q) = Members(task, q) /\ \A t \in Members(task, q) : SameView(task[t], task'[t])
      BY <1>10, <3>1 DEF SameView
    <3> QED  BY <3>1, <3>2, <3>3, FreshUntouched DEF SameAggregate
  <2> QED  BY <2>1, FreshIsFreshAt
<1> QED  BY <1>11, <1>12, <1>13, <1>15, <1>16 DEF Inv, CoreInv

-----------------------------------------------------------------------------
(* Tasks of the provider. *)

LEMMA EmptyPlans == <<>> \in Seq(Intervals)
OBVIOUS

LEMMA RegisterKeeps ==
    ASSUME Inv, NEW t, NEW no, NEW r, NEW plans \in Plans, register_manual_wfm_task(t, no, r, plans)
    PROVE  Inv'
<1>1. Around /\ lineage' = lineage
  BY HistoryUnchanged DEF register_manual_wfm_task
<1> DEFINE s == Draft("wfm", "wfm_manual", plans)
<1>2. t \in Fresh /\ obj' = obj /\ task' = [task EXCEPT ![t] = s]
  BY DEF register_manual_wfm_task
<1>3. s \in TaskRow /\ ExecOk(s) /\ s.mem = None
  BY PlansType, DraftRow
<1> HIDE DEF s
<1> QED  BY <1>1, <1>2, <1>3, NewRow

LEMMA AdoptKeeps ==
    ASSUME Inv, NEW t, NEW no, NEW r, NEW class, create_or_adopt_wfm_from_source(t, no, r, class)
    PROVE  Inv'
<1>1. Around /\ lineage' = lineage
  BY HistoryUnchanged DEF create_or_adopt_wfm_from_source
<1> DEFINE origin == IF class \in TerminalSource THEN "historical_source" ELSE "wfm_source_adoption"
           s == Draft("wfm", origin, <<>>)
<1>2. t \in Fresh /\ obj' = obj /\ task' = [task EXCEPT ![t] = s]
  BY DEF create_or_adopt_wfm_from_source
<1>3. origin \in {"manual", "retry", "wfm_manual", "wfm_source_adoption", "historical_source"}
  OBVIOUS
<1> HIDE DEF origin
<1>4. s \in TaskRow /\ ExecOk(s) /\ s.mem = None
  BY <1>3, EmptyPlans, DraftRow
<1> HIDE DEF s
<1> QED  BY <1>1, <1>2, <1>4, NewRow

LEMMA RetryKeeps ==
    ASSUME Inv, NEW t, NEW s, NEW i \in bound.plans, NEW links \in SUBSET Links,
           create_local_task_retry(t, s, i, links)
    PROVE  Inv'
<1>1. Around /\ lineage' = lineage
  BY HistoryUnchanged DEF create_local_task_retry
<1> DEFINE r == Draft("local", "retry", <<i>>)
           y == [r EXCEPT !.links = links]
<1>2. s \in Fresh /\ obj' = obj /\ task' = [task EXCEPT ![s] = y]
  BY DEF create_local_task_retry
<1>3. <<i>> \in Seq(Intervals)
  BY PlansType DEF Plans
<1>4. r \in TaskRow /\ ExecOk(r) /\ r.mem = None
  BY <1>3, DraftRow
<1> HIDE DEF r
<1>5. y \in TaskRow /\ ExecOk(y) /\ y.mem = None
  BY <1>4, LinkedRow DEF Advanced
<1> HIDE DEF y
<1> QED  BY <1>1, <1>2, <1>5, NewRow

LEMMA ReassignKeeps ==
    ASSUME Inv, NEW t \in Live(task), NEW r, reassign_rfc(t, r)
    PROVE  Inv'
<1>1. Around /\ lineage' = lineage
  BY HistoryUnchanged DEF reassign_rfc
<1>2. t \in Tasks /\ task[t] \in TaskRow /\ ExecOk(task[t])
  BY RowOk
<1> DEFINE s == [task[t] EXCEPT !.touched = TRUE]
<1>3. obj' = obj /\ task' = [task EXCEPT ![t] = s]
  BY DEF reassign_rfc, Advance
<1>4. Advanced(task[t], s) /\ SameView(task[t], s)
  BY <1>2, TouchedOnly
<1> HIDE DEF s
<1>5. Kept(task[t], s) /\ s \in TaskRow
  BY <1>2, <1>4, AdvancedKept DEF Advanced
<1> QED  BY <1>1, <1>2, <1>3, <1>4, <1>5, QuietOne

LEMMA WfmsLive ==
    ASSUME NEW t \in Wfms
    PROVE  t \in Live(task)
BY DEF Wfms

LEMMA RefreshGrows ==
    ASSUME Inv, NEW T, NEW O, NEW src, NEW t \in Live(task), _refresh_historical_objective_proposal(T, O, src, t)
    PROVE  HistoryGrows
<1>1. DOMAIN hist = Tasks
  BY DEF Inv, CoreInv, HistInv
<1>2. PICK v : hist' = [hist EXCEPT ![t] = v]
  BY DEF _refresh_historical_objective_proposal
<1> QED  BY <1>1, <1>2 DEF HistoryGrows

LEMMA ProjectionKeeps ==
    ASSUME Inv, NEW t, NEW class \in {"active"} \cup TerminalSource, NEW iv \in bound.plans \cup {None},
           apply_wfm_source_projection(t, class, iv)
    PROVE  Inv'
<1> DEFINE src == [class |-> class, iv |-> iv, n |-> source[t].n + 1]
<1>1. t \in Live(task) /\ t \in Tasks
  BY WfmsLive, RowOk DEF apply_wfm_source_projection
<1>2. HistoryGrows
  BY <1>1, RefreshGrows DEF apply_wfm_source_projection
<1>3. src \in Source
  BY <1>1 DEF Inv, CoreInv, TypeInv, Source, Opt
<1>4. source' = [source EXCEPT ![t] = src]
  BY DEF apply_wfm_source_projection
<1> HIDE DEF src
<1>5. source' \in [Tasks -> Source]
  BY <1>1, <1>3, <1>4 DEF Inv, CoreInv, TypeInv
<1>6. Around /\ task' = task /\ obj' = obj /\ lineage' = lineage
  BY <1>2, <1>5 DEF Around, apply_wfm_source_projection
<1> QED  BY <1>6, ObjectivesUnchanged, NothingRead DEF Inv

LEMMA ReviewedPlanKeeps ==
    ASSUME Inv, NEW t, apply_reviewed_operational_plan_from_source(t)
    PROVE  Inv'
<1>1. t \in Live(task) /\ t \in Tasks
  BY WfmsLive, RowOk DEF apply_reviewed_operational_plan_from_source
<1> DEFINE i == source[t].iv
<1>2. i \in Intervals
  BY <1>1 DEF Inv, CoreInv, TypeInv, Source, Opt, apply_reviewed_operational_plan_from_source
<1>3. HistoryGrows
  BY <1>1, RefreshGrows DEF apply_reviewed_operational_plan_from_source
<1>4. Around /\ lineage' = lineage
  BY <1>3 DEF Around, apply_reviewed_operational_plan_from_source, Inv, CoreInv, TypeInv
<1>5. task' = Advance(t, Planned(task[t], i))
  BY DEF apply_reviewed_operational_plan_from_source
<1>6. PICK p \in BOOLEAN : Surfaced(task[t], p)
  BY SurfacedEither DEF apply_reviewed_operational_plan_from_source
<1> HIDE DEF i
<1> QED  BY <1>1, <1>2, <1>4, <1>5, <1>6, Replanned

LEMMA ConsequenceKeeps ==
    ASSUME Inv, NEW t, NEW d, resolve_wfm_source_terminal_consequence(t, d)
    PROVE  Inv'
<1>1. t \in Live(task) /\ task[t] \in TaskRow /\ ExecOk(task[t])
  BY WfmsLive, RowOk DEF resolve_wfm_source_terminal_consequence
<1>2. Around /\ lineage' = lineage
  BY HistoryUnchanged DEF resolve_wfm_source_terminal_consequence, wfmVars
<1>3. CASE d = "retain_local_work"
  <2>1. task' = task /\ obj' = obj
    BY <1>3 DEF resolve_wfm_source_terminal_consequence
  <2> QED  BY <2>1, <1>2, ObjectivesUnchanged, NothingRead DEF Inv
<1>4. CASE d # "retain_local_work"
  <2>1. /\ task[t].x.st \notin {"ended", "terminated"}
        /\ Commit(Advance(t, Terminated(task[t], "source_terminal_consequence")), obj, {t})
    BY <1>4 DEF resolve_wfm_source_terminal_consequence
  <2>2. "source_terminal_consequence" \in GovernedTerminal
    BY DEF GovernedTerminal
  <2>3. Advanced(task[t], Terminated(task[t], "source_terminal_consequence"))
    BY <1>1, <2>1, <2>2, TerminatedRow
  <2> QED  BY <1>1, <1>2, <2>1, <2>3, CommitOne
<1> QED  BY <1>3, <1>4

LEMMA CascadeKeeps ==
    ASSUME Inv, NEW r, NEW C, apply_terminal_cascade(r, C)
    PROVE  Inv'
<1>1. Around /\ lineage' = lineage
  BY HistoryUnchanged DEF apply_terminal_cascade, wfmVars
<1> DEFINE k == "rfc_terminal_terminate"
           T == [t \in Tasks |-> IF t \in C THEN Terminated(task[t], k) ELSE task[t]]
<1>2. Commit(T, obj, C)
  BY DEF apply_terminal_cascade
<1>3. C \in SUBSET Live(task) /\ \A t \in C : task[t].x.st \notin {"ended", "terminated"}
  BY DEF apply_terminal_cascade, _applicable_wfms, Wfms
<1>4. k \in GovernedTerminal
  BY DEF GovernedTerminal
<1>5. T = [t \in Tasks |-> T[t]] /\ \A t \in Tasks \ C : T[t] = task[t]
  OBVIOUS
<1>6. ASSUME NEW t \in C PROVE Advanced(task[t], T[t])
  <2>1. t \in Tasks /\ task[t] \in TaskRow /\ ExecOk(task[t])
    BY <1>3, RowOk
  <2>2. T[t] = Terminated(task[t], k)
    BY <2>1
  <2> HIDE DEF T
  <2> QED  BY <2>1, <2>2, <1>3, <1>4, TerminatedRow
<1> HIDE DEF T
<1> QED  BY <1>1, <1>2, <1>3, <1>5, <1>6, CommitMany

LEMMA CountKeeps ==
    ASSUME Inv, NEW t, set_operational_count_inclusion(t)
    PROVE  Inv'
<1>1. Around /\ lineage' = lineage
  BY HistoryUnchanged DEF set_operational_count_inclusion, wfmVars
<1>2. t \in Live(task) /\ t \in Tasks /\ task[t] \in TaskRow /\ ExecOk(task[t])
  BY RowOk DEF set_operational_count_inclusion
<1> DEFINE n == task[t].counts + 1
           r == [task[t] EXCEPT !.counts = n]
<1>3. n \in Nat
  BY <1>2 DEF TaskRow
<1>4. [task EXCEPT ![t].counts = @ + 1, ![t].touched = TRUE] = Advance(t, r)
  BY <1>2 DEF Advance, Inv, CoreInv, TypeInv
<1>5. Commit(Advance(t, r), obj, {t})
  BY <1>4 DEF set_operational_count_inclusion
<1> HIDE DEF n
<1>6. Advanced(task[t], r)
  BY <1>2, <1>3 DEF Advanced, TaskRow, ExecOk
<1> HIDE DEF r
<1> QED  BY <1>1, <1>2, <1>5, <1>6, CommitOne

LEMMA AnsweredGrows ==
    ASSUME Inv, NEW t \in Tasks, NEW p \in hist[t], NEW state, Answered(t, p, state)
    PROVE  HistoryGrows
<1>1. DOMAIN hist = Tasks /\ hist[t] # {}
  BY DEF Inv, CoreInv, HistInv
<1>2. PICK v : hist' = [hist EXCEPT ![t] = v]
  BY DEF Answered
<1> QED  BY <1>1, <1>2 DEF HistoryGrows

LEMMA RejectKeeps ==
    ASSUME Inv, NEW t \in Tasks, NEW p \in hist[t], reject_proposal(t, p)
    PROVE  Inv'
<1>1. HistoryGrows
  BY AnsweredGrows DEF reject_proposal
<1>2. Around /\ task' = task /\ obj' = obj /\ lineage' = lineage
  BY <1>1 DEF reject_proposal, coreVars, Around, Inv, CoreInv, TypeInv
<1> QED  BY <1>2, ObjectivesUnchanged, NothingRead DEF Inv

LEMMA NothingMoves ==
    ASSUME Inv, UNCHANGED coreVars, lineage' = lineage, hist' = hist
    PROVE  Inv'
<1>1. Around /\ task' = task /\ obj' = obj
  BY HistoryUnchanged DEF coreVars
<1> QED  BY <1>1, ObjectivesUnchanged, NothingRead DEF Inv

(* The tasks of a lineage are those it was opened for. *)
LEMMA LineageMembers ==
    ASSUME LineageInv, NEW t \in Assigned
    PROVE  /\ lineage[t] \in Lineage /\ lineage[t].id \subseteq Assigned
           /\ \A u \in Tasks : SameLineage(t, u) <=> u \in lineage[t].id
<1>1. t \in Tasks /\ lineage[t] # None /\ lineage[t] \in Lineage /\ LineageOk(t)
  BY DEF LineageInv, Assigned, Opt
<1>2. lineage[t].id \subseteq Tasks
  BY <1>1 DEF Lineage
<1>3. ASSUME NEW u \in lineage[t].id PROVE u \in Assigned /\ lineage[u] = lineage[t]
  BY <1>1, <1>2 DEF LineageOk, Assigned
<1>4. ASSUME NEW u \in Tasks, SameLineage(t, u) PROVE u \in lineage[t].id
  BY <1>4 DEF SameLineage, LineageInv, LineageOk
<1> QED  BY <1>1, <1>3, <1>4 DEF SameLineage

(* A review names at least two tasks, and takes whole lineages with them. *)
LEMMA AffectedClosed ==
    ASSUME LineageInv, NEW seeds \in SUBSET Tasks, seeds \subseteq Live(task), Cardinality(seeds) >= 2
    PROVE  LET A == _expand_affected_ids(seeds) IN
           /\ A \subseteq Tasks /\ A \subseteq Live(task)
           /\ \A t \in A : A # {t}
           /\ \A t \in Assigned : t \in A => lineage[t].id \subseteq A
           /\ \A t \in Assigned : t \notin A => lineage[t].id \cap A = {}
<1> DEFINE A == _expand_affected_ids(seeds)
<1>1. /\ seeds \subseteq A /\ A \subseteq Tasks
      /\ \A v \in A : v \in seeds \/ \E s \in seeds : SameLineage(s, v)
      /\ \A v \in Tasks : (\E s \in seeds : SameLineage(s, v)) => v \in A
  BY DEF _expand_affected_ids
<1>2. A \subseteq Live(task)
  BY <1>1 DEF SameLineage, LineageInv, LineageOk
<1>3. ASSUME NEW t \in A PROVE A # {t}
  <2>1. SUFFICES ASSUME A = {t} PROVE FALSE
    OBVIOUS
  <2>2. seeds = {} \/ seeds = {t}
    BY <1>1, <2>1
  <2>3. Cardinality({}) = 0 /\ Cardinality({t}) = 1
    BY FS_EmptySet, FS_Singleton
  <2> QED  BY <2>2, <2>3
<1> HIDE DEF A
<1>4. ASSUME NEW t \in Assigned, NEW u \in lineage[t].id
      PROVE  u \in Assigned /\ u \in Tasks /\ (t \in A <=> u \in A)
  <2>1. u \in Assigned /\ u \in Tasks /\ t \in Tasks /\ SameLineage(t, u)
    BY LineageMembers DEF Assigned
  <2>2. \A s \in seeds : SameLineage(s, t) <=> SameLineage(s, u)
    BY <2>1 DEF SameLineage
  <2>3. t \in seeds => u \in A
    BY <1>1, <2>1
  <2>4. u \in seeds => t \in A
    <3>1. SameLineage(u, t)
      BY <2>1 DEF SameLineage
    <3> QED  BY <1>1, <2>1, <3>1
  <2> QED  BY <1>1, <2>1, <2>2, <2>3, <2>4
<1> QED  BY <1>1, <1>2, <1>3, <1>4 DEF A

(* Tasks that share a lineage are all of it: those taken together are in one *)
(* lineage opened for exactly them.                                          *)
LEMMA DecidedLineage ==
    ASSUME LineageInv, NEW A \in SUBSET Tasks, NEW d \in Decisions, NEW t \in A,
           \A u \in Assigned : u \in A => lineage[u].id \subseteq A
    PROVE  _plan_material_review(A, d)[t] = [id |-> IF d = "distinct_activity" THEN {t} ELSE A, why |-> d]
<1> DEFINE shared == \A u, v \in A : SameLineage(u, v)
<1>1. CASE shared
  <2>1. t \in Assigned
    BY <1>1 DEF SameLineage
  <2>2. lineage[t].id = A
    <3>1. \A u \in A : u \in lineage[t].id
      BY <1>1, <2>1, LineageMembers
    <3> QED  BY <2>1, <3>1
  <2> QED  BY <1>1, <2>2 DEF _plan_material_review
<1>2. CASE ~shared
  BY <1>2 DEF _plan_material_review
<1> QED  BY <1>1, <1>2

(* Memberships, envelopes and aggregates do not read what a lineage is. *)
LEMMA LineageKeeps ==
    ASSUME Inv, NEW seeds \in SUBSET Tasks, NEW d \in Decisions, review_wfm_activity_relationship(seeds, d)
    PROVE  Inv'
<1> DEFINE A == _expand_affected_ids(seeds)
           decided == _plan_material_review(A, d)
           C == {t \in Tasks : decided[t] # lineage[t]}
           row(t) == [id |-> IF d = "distinct_activity" THEN {t} ELSE A, why |-> d]
<1>1. /\ seeds \subseteq Live(task) /\ Cardinality(seeds) >= 2 /\ lineage' = decided
      /\ task' = [t \in Tasks |-> IF decided[t] # lineage[t] THEN [task[t] EXCEPT !.touched = TRUE] ELSE task[t]]
  BY DEF review_wfm_activity_relationship, Wfms
<1>2. Around /\ obj' = obj
  BY HistoryUnchanged DEF review_wfm_activity_relationship
<1>3. LineageInv
  BY DEF Inv, CoreInv
<1>4. /\ A \subseteq Tasks /\ A \subseteq Live(task)
      /\ \A t \in A : A # {t}
      /\ \A t \in Assigned : t \in A => lineage[t].id \subseteq A
      /\ \A t \in Assigned : t \notin A => lineage[t].id \cap A = {}
  BY <1>1, <1>3, AffectedClosed
<1> HIDE DEF A
<1>5. \A t \in A : decided[t] = row(t)
  BY <1>3, <1>4, DecidedLineage
<1>6. DOMAIN decided = Tasks /\ \A t \in Tasks \ A : decided[t] = lineage[t]
  BY DEF _plan_material_review
<1>7. decided = [t \in Tasks |-> decided[t]]
  BY DEF _plan_material_review
<1> HIDE DEF decided
<1>8. C \subseteq A
  BY <1>6
<1>9. ASSUME NEW t \in C PROVE Advanced(task[t], task'[t]) /\ SameView(task[t], task'[t])
  <2>1. t \in Tasks /\ task[t] \in TaskRow /\ ExecOk(task[t])
    BY <1>4, <1>8, RowOk
  <2>2. task'[t] = [task[t] EXCEPT !.touched = TRUE]
    BY <1>1, <2>1
  <2> QED  BY <2>1, <2>2, TouchedOnly
<1>10. DOMAIN task' = Tasks /\ task' = [t \in Tasks |-> task'[t]] /\ \A t \in Tasks \ C : task'[t] = task[t]
  BY <1>1
<1>11. C \in SUBSET Live(task)
  BY <1>4, <1>8
<1> HIDE DEF C
<1>12. RowsKept
  BY <1>9, <1>10, <1>11, ManyRows DEF Inv
<1>13. ReadsSame({})
  BY <1>9, <1>10 DEF ReadsSame, SameView, Live
<1>14. LineageInv'
  <2>1. ASSUME NEW t \in A PROVE row(t) \in Lineage /\ row(t) # None /\ row(t).id \subseteq A /\ t \in row(t).id
    BY <1>4, WfmAssumption DEF Lineage
  <2>2. lineage' \in [Tasks -> Opt(Lineage)]
    <3>1. ASSUME NEW t \in Tasks PROVE decided[t] \in Opt(Lineage)
      <4>1. CASE t \in A
        <5>1. decided[t] = row(t) /\ row(t) \in Lineage
          BY <1>5, <2>1, <4>1
        <5> HIDE DEF row
        <5> QED  BY <5>1 DEF Opt
      <4>2. CASE t \notin A
        BY <1>3, <1>6, <4>2 DEF LineageInv
      <4> QED  BY <4>1, <4>2
    <3> QED  BY <1>1, <1>7, <3>1
  <2>3. ASSUME NEW t \in Assigned' PROVE LineageOk(t)'
    <3>1. t \in Tasks /\ lineage'[t] # None
      BY DEF Assigned
    <3>2. Live(task) \subseteq Live(task')
      BY <1>12, StaysLive
    <3>3. CASE t \in A
      <4>1. lineage'[t] = row(t) /\ t \in Live(task')
        BY <1>1, <1>4, <1>5, <3>2, <3>3
      <4>2. \A u \in row(t).id : lineage'[u] = row(t)
        BY <1>1, <1>5, <2>1, <3>3
      <4>3. row(t).why = "distinct_activity" <=> row(t).id = {t}
        BY <1>4, <3>3
      <4> QED  BY <2>1, <3>3, <4>1, <4>2, <4>3 DEF LineageOk
    <3>4. CASE t \notin A
      <4>1. lineage'[t] = lineage[t] /\ t \in Assigned
        BY <1>1, <1>6, <3>1, <3>4 DEF Assigned
      <4>2. LineageOk(t) /\ lineage[t].id \subseteq Tasks
        BY <1>3, <4>1, LineageMembers DEF LineageInv, Assigned
      <4>3. \A u \in lineage[t].id : u \notin A /\ lineage'[u] = lineage[u]
        BY <1>1, <1>4, <1>6, <3>4, <4>1, <4>2
      <4> QED  BY <3>2, <4>1, <4>2, <4>3 DEF LineageOk
    <3> QED  BY <3>3, <3>4
  <2> QED  BY <2>2, <2>3 DEF LineageInv
<1>15. ObjectivesQuiet /\ Rebuilt(obj', {})
  BY <1>2, ObjectivesUnchanged, QuietRebuilt DEF Inv
<1>16. ObjectivesKept /\ MembersKept
  BY <1>12, <1>15, RebuiltKeeps, RowsKeepMembers DEF Inv
<1>17. EnvelopesDisjoint' /\ AggregateFresh'
  BY <1>13, <1>15, <1>16, EnvelopesStay, FreshStays DEF Inv
<1>18. TypeInv' /\ MemInv' /\ ExecInv' /\ HistInv'
  BY <1>2, <1>12, <1>16, RowsStay DEF Inv
<1> QED  BY <1>14, <1>17, <1>18 DEF Inv, CoreInv

(* A task that is in no membership, lineage or proposal can go. *)
LEMMA DeleteTaskKeeps ==
    ASSUME Inv, NEW t \in Tasks, hard_delete_task(t)
    PROVE  Inv'
<1>1. Around /\ obj' = obj /\ lineage' = lineage /\ hist' = hist
  BY HistoryUnchanged DEF hard_delete_task
<1>2. task' = [task EXCEPT ![t] = None] /\ hist[t] = {} /\ lineage[t] = None /\ t \in Live(task) /\ task[t].mem = None
  BY DEF hard_delete_task, TaskDeletable
<1>3. task'[t] = None /\ \A u \in Tasks \ {t} : task'[u] = task[u]
  BY <1>2 DEF Inv, CoreInv, TypeInv
<1>4. task' \in [Tasks -> Opt(TaskRow)]
  BY <1>2 DEF Inv, CoreInv, TypeInv, Opt
<1>5. Live(task') = Live(task) \ {t}
  BY <1>3 DEF Live
<1>6. MembersKept
  BY <1>2, <1>3, <1>5 DEF MembersKept, Members, Live
<1>7. ObjectivesQuiet /\ Rebuilt(obj', {})
  BY <1>1, ObjectivesUnchanged, QuietRebuilt DEF Inv
<1>8. ReadsSame({})
  BY <1>2, <1>3 DEF ReadsSame, SameView, Live
<1>9. EnvelopesDisjoint' /\ AggregateFresh'
  BY <1>6, <1>7, <1>8, RebuiltKeeps, EnvelopesStay, FreshStays DEF Inv
<1>10. TypeInv'
  BY <1>1, <1>4 DEF Inv, CoreInv, TypeInv, Around
<1>11. MemInv' /\ ExecInv'
  BY <1>1, <1>3, <1>5 DEF Inv, CoreInv, MemInv, ExecInv, Belongs, Live
<1>12. LineageInv'
  <2>1. ASSUME NEW u \in Assigned PROVE LineageOk(u)'
    BY <1>1, <1>2, <1>5 DEF Inv, CoreInv, LineageInv, LineageOk, Assigned
  <2> QED  BY <2>1, <1>1 DEF Inv, CoreInv, LineageInv, Assigned
<1>13. HistInv'
  BY <1>1, <1>2, <1>5 DEF Inv, CoreInv, HistInv
<1> QED  BY <1>9, <1>10, <1>11, <1>12, <1>13 DEF Inv, CoreInv

(* A proposal only marks the rows it names. *)
LEMMA InsertKeeps ==
    ASSUME Inv, NEW S, insert_candidate(S), UNCHANGED <<source, review, bound, wfmVars>>
    PROVE  Inv'
<1> DEFINE A == UNION {DOMAIN c.moves : c \in S}
           B == UNION {DOMAIN c.basis.objectives : c \in S}
<1>1. Around /\ lineage' = lineage
  BY HistoryUnchanged DEF wfmVars
<1>2. /\ A \subseteq Live(task)
      /\ task' = [t \in Tasks |-> IF t \in A THEN [task[t] EXCEPT !.touched = TRUE] ELSE task[t]]
      /\ obj' = [o \in DOMAIN obj |-> IF o \in B THEN [obj[o] EXCEPT !.touched = TRUE] ELSE obj[o]]
  BY DEF insert_candidate
<1> HIDE DEF A, B
<1>3. ASSUME NEW t \in A PROVE Advanced(task[t], task'[t]) /\ SameView(task[t], task'[t])
  <2>1. t \in Tasks /\ task[t] \in TaskRow /\ ExecOk(task[t])
    BY <1>2, RowOk
  <2>2. task'[t] = [task[t] EXCEPT !.touched = TRUE]
    BY <1>2, <2>1
  <2> QED  BY <2>1, <2>2, TouchedOnly
<1>4. DOMAIN task' = Tasks /\ task' = [t \in Tasks |-> task'[t]] /\ \A t \in Tasks \ A : task'[t] = task[t]
  BY <1>2
<1>5. RowsKept
  BY <1>2, <1>3, <1>4, ManyRows DEF Inv
<1>6. ReadsSame({})
  BY <1>3, <1>4 DEF ReadsSame, SameView, Live
<1>7. ASSUME NEW o \in DOMAIN obj
      PROVE  obj'[o] \in Objective /\ SameFrame(obj[o], obj'[o]) /\ SameAggregate(obj[o], obj'[o])
  <2>1. obj[o] \in Objective
    BY ObjectiveRow
  <2> QED  BY <1>2, <2>1 DEF Objective, SameFrame, SameAggregate
<1>8. obj' \in Seq(Objective) /\ Len(obj') = Len(obj)
  <2>1. obj' \in [1..Len(obj) -> Objective]
    BY <1>2, <1>7, ObjectiveRow
  <2> QED  BY <2>1, ObjectiveRow, SeqOfFunction
<1>9. ObjectivesQuiet
  BY <1>7, <1>8 DEF ObjectivesQuiet
<1> QED  BY <1>1, <1>5, <1>6, <1>9, Quiet

-----------------------------------------------------------------------------
(* Memberships that move. *)

(* The plans that members are pinned to are there, so their hull is an interval. *)
LEMMA EnvelopeType ==
    ASSUME NEW T, NEW M \in SUBSET Tasks, M # {},
           \A t \in M : T[t] \in TaskRow /\ T[t].mem # None /\ T[t].mem.p \in 1..Len(T[t].plans)
    PROVE  Envelope(T, M) \in Nat \X Nat
<1> DEFINE P == {PinnedPlan(T[t]) : t \in M}
           f == [t \in M |-> PinnedPlan(T[t])]
<1>1. ASSUME NEW t \in M PROVE PinnedPlan(T[t]) \in Nat \X Nat
  <2>1. T[t].plans \in Seq(Intervals) /\ T[t].mem.p \in 1..Len(T[t].plans)
    BY DEF TaskRow
  <2>2. T[t].plans[T[t].mem.p] \in Intervals
    BY <2>1
  <2> QED  BY <2>2, ObjectivesAssumption DEF PinnedPlan
<1>2. P \in SUBSET (Nat \X Nat) /\ P # {}
  BY <1>1
<1>3. IsFiniteSet(M)
  BY ObjectivesAssumption, FS_Subset
<1>4. f \in Surjection(M, P)
  BY DEF Surjection
<1>5. IsFiniteSet(P)
  BY <1>3, <1>4, FS_Surjection
<1> HIDE DEF P
<1>6. Hull(P) \in Nat \X Nat
  BY <1>2, <1>5, HullType
<1> QED  BY <1>6 DEF Envelope, P

(* The tasks J join the objective o, some from the objectives Q it supersedes. *)
Joining(o, J, Q) ==
    /\ task' \in [Tasks -> Opt(TaskRow)] /\ J \in SUBSET Tasks
    /\ \A t \in Tasks \ J : task'[t] = task[t]
    /\ \A t \in J : /\ task'[t] \in TaskRow /\ ExecOk(task'[t])
                    /\ task'[t].mem # None /\ task'[t].mem.o = o
                    /\ task'[t].mem.p \in 1..Len(task'[t].plans)
    /\ \A t \in J \cap Live(task) : task[t].mem = None \/ task[t].mem.o \in {o} \cup Q
    /\ Q \subseteq Current(obj) \ {o}
    /\ (o \in Current(obj) /\ Len(obj') = Len(obj)) \/ (o = Len(obj) + 1 /\ Len(obj') = o)
    /\ obj' \in Seq(Objective)
    /\ \A q \in DOMAIN obj \ ({o} \cup Q) : obj'[q] = obj[q]
    /\ \A q \in Q : obj'[q].by # None /\ ~obj'[q].gone
    /\ ~obj'[o].gone /\ obj'[o].by = None
    /\ \A q \in {o} \cup Q : FreshAt(task', obj', q)
    /\ Members(task', o) # {} /\ obj'[o].env = Envelope(task', Members(task', o))
    /\ \A q \in Current(obj') \ {o} : ~StrictOverlap(obj'[q].env, obj'[o].env)

LEMMA JoiningKeeps ==
    ASSUME Inv, NEW o, NEW J, NEW Q, Joining(o, J, Q), lineage' = lineage, Around
    PROVE  Inv'
<1> USE DEF Joining
<1>1. DOMAIN obj' = DOMAIN obj \cup {o} /\ (o \in DOMAIN obj => o \in Current(obj)) /\ Q \subseteq DOMAIN obj
  <2>1. obj' \in Seq(Objective) /\ DOMAIN obj' = 1..Len(obj') /\ DOMAIN obj = 1..Len(obj) /\ Len(obj) \in Nat
    BY ObjectiveRow
  <2>2. Q \subseteq DOMAIN obj
    BY DEF Current
  <2>3. CASE o \in Current(obj) /\ Len(obj') = Len(obj)
    <3>1. o \in DOMAIN obj
      BY <2>3 DEF Current
    <3> QED  BY <2>1, <2>2, <2>3, <3>1
  <2>4. CASE o = Len(obj) + 1 /\ Len(obj') = o
    <3>1. o \notin DOMAIN obj /\ 1..o = DOMAIN obj \cup {o}
      BY <2>1, <2>4
    <3> QED  BY <2>1, <2>2, <2>4, <3>1
  <2> QED  BY <2>3, <2>4
<1>2. ASSUME NEW q \in DOMAIN obj' PROVE q = o \/ q \in Q \/ (q \in DOMAIN obj /\ obj'[q] = obj[q])
  BY <1>1
<1>3. \A t \in Live(task) : t \in Live(task')
  BY ObjectivesAssumption DEF Live
<1>4. TypeInv'
  BY DEF Inv, CoreInv, TypeInv, Around
<1>5. ASSUME NEW t \in Live(task') PROVE ExecOk(task'[t]) /\ Belongs(task'[t], obj')
  <2>1. t \in Tasks
    BY DEF Live
  <2>2. CASE t \in J
    BY <2>2, <1>1 DEF Belongs
  <2>3. CASE t \notin J
    <3>1. t \in Live(task) /\ task'[t] = task[t]
      BY <2>1, <2>3, <1>5 DEF Live
    <3>2. ExecOk(task[t]) /\ Belongs(task[t], obj)
      BY <3>1 DEF Inv, CoreInv, ExecInv, MemInv
    <3>3. ASSUME NEW q \in DOMAIN obj, ~obj[q].gone PROVE q \in DOMAIN obj' /\ ~obj'[q].gone
      BY <1>1, <1>2, <3>3
    <3> QED  BY <3>1, <3>2, <3>3 DEF Belongs
  <2> QED  BY <2>2, <2>3
<1>6. MemInv' /\ ExecInv'
  BY <1>5 DEF MemInv, ExecInv
<1>7. LineageInv' /\ HistInv'
  BY <1>3 DEF Inv, CoreInv, LineageInv, LineageOk, Assigned, HistInv, Around, HistoryGrows
<1>8. ASSUME NEW q \in DOMAIN obj, q # o, q \notin Q
      PROVE  Members(task', q) = Members(task, q) /\ \A t \in Members(task, q) : task'[t] = task[t]
  <2>1. ASSUME NEW t \in Members(task, q) PROVE t \in Tasks \ J
    BY <1>8, <2>1 DEF Members, Live
  <2>2. ASSUME NEW t \in Members(task', q) PROVE t \in Tasks \ J
    BY <1>8, <2>2 DEF Members, Live
  <2> QED  BY <2>1, <2>2 DEF Members, Live
<1>9. ASSUME NEW q \in Current(obj'), q # o
      PROVE  q \in Current(obj) /\ q \in DOMAIN obj /\ q \notin Q /\ obj'[q] = obj[q]
  BY <1>1, <1>2, <1>9 DEF Current
<1>10. EnvelopesDisjoint'
  <2>1. ASSUME NEW q \in Current(obj') PROVE obj'[q].env \in Nat \X Nat
    <3>1. obj' \in Seq(Objective) /\ q \in DOMAIN obj'
      BY DEF Current
    <3>2. obj'[q] \in Objective
      BY <3>1
    <3> QED  BY <3>2 DEF Objective
  <2>2. ASSUME NEW q \in Current(obj')
        PROVE  Members(task', q) # {} /\ obj'[q].env = Envelope(task', Members(task', q))
    <3>1. CASE q = o
      BY <3>1
    <3>2. CASE q # o
      <4>1. q \in Current(obj) /\ q \in DOMAIN obj /\ q \notin Q /\ obj'[q] = obj[q]
        BY <1>9, <3>2
      <4>2. Members(task, q) # {} /\ obj[q].env = Envelope(task, Members(task, q))
        BY <4>1 DEF Inv, EnvelopesDisjoint
      <4>3. Members(task', q) = Members(task, q) /\ Envelope(task', Members(task, q)) = Envelope(task, Members(task, q))
        BY <4>1, <3>2, <1>8, EnvelopeLocal
      <4> QED  BY <4>1, <4>2, <4>3
    <3> QED  BY <3>1, <3>2
  <2>3. ASSUME NEW q \in Current(obj'), NEW u \in Current(obj') \ {q}
        PROVE  obj'[u].env[1] >= obj'[q].env[2] \/ obj'[u].env[2] <= obj'[q].env[1]
    <3>1. CASE q = o
      BY <3>1, <2>1 DEF StrictOverlap
    <3>2. CASE u = o
      BY <3>2, <2>1 DEF StrictOverlap
    <3>3. CASE q # o /\ u # o
      BY <3>3, <1>9 DEF Inv, EnvelopesDisjoint
    <3> QED  BY <3>1, <3>2, <3>3
  <2> QED  BY <2>2, <2>3 DEF EnvelopesDisjoint
<1>11. AggregateFresh'
  <2>1. ASSUME NEW q \in DOMAIN obj', ~obj'[q].gone PROVE FreshAt(task', obj', q)
    <3>1. CASE q \in {o} \cup Q
      BY <3>1
    <3>2. CASE q \notin {o} \cup Q
      <4>1. q \in DOMAIN obj /\ obj'[q] = obj[q]
        BY <1>2, <3>2
      <4>2. FreshAt(task, obj, q)
        BY <2>1, <4>1, FreshIsFreshAt DEF Inv
      <4>3. Members(task', q) = Members(task, q) /\ \A t \in Members(task, q) : SameView(task[t], task'[t])
        BY <1>8, <3>2, <4>1 DEF SameView
      <4>4. obj'[q].by = obj[q].by /\ obj'[q].origin = obj[q].origin /\ SameAggregate(obj[q], obj'[q])
        BY <4>1 DEF SameAggregate
      <4> QED  BY <4>2, <4>3, <4>4, FreshUntouched
    <3> QED  BY <3>1, <3>2
  <2> QED  BY <2>1, FreshIsFreshAt
<1> QED  BY <1>4, <1>6, <1>7, <1>10, <1>11 DEF Inv, CoreInv

LEMMA JoinedRow ==
    ASSUME NEW T \in [Tasks -> Opt(TaskRow)], NEW S \in SUBSET Tasks, NEW o \in Nat \ {0}, NEW t \in S,
           T[t] \in TaskRow, ExecOk(T[t]), T[t].plans # <<>>
    PROVE  LET s == Joined(T, S, o)[t] IN
           /\ s \in TaskRow /\ ExecOk(s) /\ s.mem # None /\ s.mem.o = o /\ s.mem.p \in 1..Len(s.plans)
           /\ s.plans = T[t].plans /\ s.mem.p = Len(s.plans)
<1> DEFINE r == T[t]
           n == IF r.mem = None THEN 1 ELSE r.mem.n + 1
           m == [o |-> o, p |-> Len(r.plans), n |-> n]
           s == [r EXCEPT !.mem = m]
<1>1. r.plans \in Seq(Intervals) /\ r.mem \in Opt(Membership)
  BY DEF TaskRow
<1>2. Len(r.plans) \in Nat \ {0}
  BY <1>1
<1>3. n \in Nat \ {0}
  BY <1>1 DEF Opt, Membership
<1>4. Joined(T, S, o)[t] = s
  BY DEF Joined, _insert_membership
<1> HIDE DEF n
<1>5. m \in Membership /\ m # None /\ m.o = o /\ m.p = Len(r.plans)
  BY <1>2, <1>3, ObjectivesAssumption DEF Membership
<1> HIDE DEF m
<1>6. s \in TaskRow /\ ExecOk(s) /\ s.mem = m /\ s.plans = r.plans
  BY <1>5 DEF TaskRow, ExecOk, Opt
<1> HIDE DEF s
<1> QED  BY <1>2, <1>4, <1>5, <1>6

Joinable(T, S) == \A t \in S : T[t] \in TaskRow /\ ExecOk(T[t]) /\ T[t].plans # <<>>
JoinedWell(T, U, S, o) ==
    /\ U \in [Tasks -> Opt(TaskRow)] /\ \A t \in Tasks \ S : U[t] = T[t]
    /\ \A t \in S : /\ U[t] \in TaskRow /\ ExecOk(U[t]) /\ U[t].mem # None /\ U[t].mem.o = o
                    /\ U[t].mem.p \in 1..Len(U[t].plans)
                    /\ U[t].plans = T[t].plans /\ U[t].mem.p = Len(U[t].plans)

LEMMA JoinedRows ==
    ASSUME NEW T \in [Tasks -> Opt(TaskRow)], NEW S \in SUBSET Tasks, NEW o \in Nat \ {0}, Joinable(T, S)
    PROVE  JoinedWell(T, Joined(T, S, o), S, o)
<1> DEFINE U == Joined(T, S, o)
<1>1. DOMAIN U = Tasks /\ U = [t \in Tasks |-> U[t]] /\ \A t \in Tasks \ S : U[t] = T[t]
  BY DEF Joined
<1>2. \A t \in S : /\ U[t] \in TaskRow /\ ExecOk(U[t]) /\ U[t].mem # None /\ U[t].mem.o = o
                   /\ U[t].mem.p \in 1..Len(U[t].plans)
                   /\ U[t].plans = T[t].plans /\ U[t].mem.p = Len(U[t].plans)
  BY JoinedRow DEF Joinable
<1> HIDE DEF U
<1>3. \A t \in Tasks : U[t] \in Opt(TaskRow)
  BY <1>1, <1>2 DEF Opt
<1>4. U \in [Tasks -> Opt(TaskRow)]
  BY <1>1, <1>3
<1>5. JoinedWell(T, U, S, o)
  BY <1>1, <1>2, <1>4 DEF JoinedWell
<1> QED  BY <1>5 DEF U

LEMMA NewObjectiveType ==
    ASSUME NEW origin \in {"manual", "automatic_grouping", "historical_provider_complete"}, NEW env \in Nat \X Nat
    PROVE  LET y == NewObjective(origin, env) IN
           y \in Objective /\ y.by = None /\ ~y.gone /\ y.env = env /\ y.origin = origin /\ y.reviews = {}
<1>1. None \in Opt(Nat \ {0}) /\ [st |-> "planned", out |-> None, att |-> None] \in Aggregate
  BY DEF Opt, Aggregate
<1> QED  BY <1>1 DEF NewObjective, Objective

LEMMA MembersOfNew ==
    ASSUME Inv, NEW t \in Live(task), task[t].mem # None
    PROVE  task[t].mem.o # Len(obj) + 1
BY ObjectiveRow DEF Inv, CoreInv, MemInv, Belongs

LEMMA CreatedJoins ==
    ASSUME Inv, NEW T \in [Tasks -> Opt(TaskRow)], NEW S \in SUBSET Tasks, S # {},
           NEW origin \in {"manual", "automatic_grouping", "historical_provider_complete"},
           \A t \in Tasks \ S : T[t] = task[t],
           \A t \in S : /\ T[t] \in TaskRow /\ ExecOk(T[t]) /\ T[t].plans # <<>>
                        /\ task[t] = None \/ task[t].mem = None,
           task' = Created(T, S, origin).T, obj' = Created(T, S, origin).O,
           \A q \in Current(obj') \ {Len(obj) + 1} : ~StrictOverlap(obj'[q].env, obj'[Len(obj) + 1].env)
    PROVE  Joining(Len(obj) + 1, S, {})
<1> DEFINE o == Len(obj) + 1
           U == Joined(T, S, o)
           env == Envelope(U, S)
           y == NewObjective(origin, env)
           O == Append(obj, y)
           z == [y EXCEPT !.agg = _derive_material_state(U, O, o)]
<1>1. task' = U /\ obj' = [O EXCEPT ![o].agg = _derive_material_state(U, O, o)]
  BY DEF Created
<1>2. obj \in Seq(Objective) /\ Len(obj) \in Nat /\ DOMAIN obj = 1..Len(obj) /\ o \in Nat \ {0} /\ o \notin DOMAIN obj
  BY ObjectiveRow
<1>3. /\ U \in [Tasks -> Opt(TaskRow)] /\ \A t \in Tasks \ S : U[t] = T[t]
      /\ \A t \in S : /\ U[t] \in TaskRow /\ ExecOk(U[t]) /\ U[t].mem # None /\ U[t].mem.o = o
                      /\ U[t].mem.p \in 1..Len(U[t].plans)
  <2>1. Joinable(T, S)
    BY DEF Joinable
  <2> HIDE DEF o
  <2>2. JoinedWell(T, U, S, o)
    BY <1>2, <2>1, JoinedRows
  <2> HIDE DEF U
  <2> QED  BY <2>2 DEF JoinedWell
<1> HIDE DEF U
<1>4. env \in Nat \X Nat
  BY <1>3, EnvelopeType
<1> HIDE DEF env
<1>5. y \in Objective /\ y.by = None /\ ~y.gone /\ y.env = env
  BY <1>4, NewObjectiveType
<1> HIDE DEF y
<1>6. /\ O \in Seq(Objective) /\ Len(O) = o /\ DOMAIN O = 1..o /\ O[o] = y
      /\ \A q \in DOMAIN obj : O[q] = obj[q] /\ q \in DOMAIN O
  BY <1>2, <1>5
<1> HIDE DEF O
<1>7. _derive_material_state(U, O, o) \in Aggregate
  BY DeriveType
<1>8. z \in Objective /\ z.by = y.by /\ z.gone = y.gone /\ z.env = y.env /\ z.origin = y.origin
      /\ z.reviews = y.reviews /\ z.agg = _derive_material_state(U, O, o)
  BY <1>5, <1>7 DEF Objective
<1>9. obj' = [O EXCEPT ![o] = z]
  BY <1>1, <1>6
<1> HIDE DEF z
<1>10. obj'[o] = z /\ \A q \in DOMAIN obj : obj'[q] = obj[q]
  BY <1>2, <1>6, <1>9
<1>11. obj' \in Seq(Objective) /\ Len(obj') = o
  <2>1. obj' \in [1..o -> Objective]
    BY <1>6, <1>8, <1>9
  <2> QED  BY <2>1, <1>2, SeqOfFunction
<1>12. Members(task', o) = S
  <2>1. ASSUME NEW t \in S PROVE t \in Members(task', o)
    BY <1>1, <1>3, ObjectivesAssumption DEF Members, Live
  <2>2. ASSUME NEW t \in Members(task', o), t \notin S PROVE FALSE
    <3>1. t \in Live(task) /\ task[t].mem # None /\ task[t].mem.o = o
      BY <1>1, <1>3, <2>2 DEF Members, Live
    <3> QED  BY <3>1, MembersOfNew
  <2> QED  BY <2>1, <2>2
<1>13. FreshAt(task', obj', o)
  <2>1. \A t \in Members(U, o) : SameView(U[t], U[t])
    BY DEF SameView
  <2>2. _derive_material_state(U, obj', o) = _derive_material_state(U, O, o)
    BY <2>1, <1>6, <1>8, <1>10, DeriveSame
  <2> QED  BY <1>1, <1>8, <1>10, <2>2 DEF FreshAt
<1>14. obj'[o].env = env /\ ~obj'[o].gone /\ obj'[o].by = None
  BY <1>5, <1>8, <1>10
<1>15. \A t \in S \cap Live(task) : task[t].mem = None
  BY DEF Live
<1>16. \A t \in Tasks \ S : task'[t] = task[t]
  BY <1>1, <1>3
<1>17. Joining(o, S, {})
  BY <1>1, <1>3, <1>10, <1>11, <1>12, <1>13, <1>14, <1>15, <1>16 DEF Joining, env
<1> QED  BY <1>17

LEMMA CreateObjectiveKeeps ==
    ASSUME Inv, NEW S \in SUBSET Tasks, NEW D \in SUBSET Tasks, NEW i \in bound.plans,
           create_objective_from_preview(S, D, i), UNCHANGED wfmVars
    PROVE  Inv'
<1>1. Around /\ lineage' = lineage
  BY HistoryUnchanged DEF create_objective_from_preview, wfmVars
<1> DEFINE T == [t \in Tasks |-> IF t \in D THEN Draft("local", "manual", <<i>>) ELSE task[t]]
           o == Len(obj) + 1
<1>2. /\ S \subseteq Live(task) /\ D \subseteq Fresh /\ S \cup D # {}
      /\ \A t \in S : task[t].plans # <<>> /\ task[t].mem = None
      /\ _assert_no_overlap(Created(T, S \cup D, "manual").O, Created(T, S \cup D, "manual").o)
      /\ task' = Created(T, S \cup D, "manual").T /\ obj' = Created(T, S \cup D, "manual").O
  BY DEF create_objective_from_preview
<1>3. Created(T, S \cup D, "manual").o = o
  BY DEF Created
<1>4. \A q \in Current(obj') \ {o} : ~StrictOverlap(obj'[q].env, obj'[o].env)
  BY <1>2, <1>3 DEF _assert_no_overlap
<1>5. <<i>> \in Seq(Intervals) /\ <<i>> # <<>>
  BY PlansType DEF Plans
<1> DEFINE y == Draft("local", "manual", <<i>>)
<1>6. y \in TaskRow /\ ExecOk(y) /\ y.plans = <<i>>
  BY <1>5, DraftRow
<1> HIDE DEF y
<1>7. \A t \in Tasks : T[t] = IF t \in D THEN y ELSE task[t]
  BY DEF y
<1>8. T \in [Tasks -> Opt(TaskRow)]
  <2>1. y \in Opt(TaskRow) /\ \A t \in Tasks : task[t] \in Opt(TaskRow)
    BY <1>6 DEF Inv, CoreInv, TypeInv, Opt
  <2> QED  BY <2>1 DEF y
<1> HIDE DEF T
<1>9. ASSUME NEW t \in S \cup D
      PROVE  /\ T[t] \in TaskRow /\ ExecOk(T[t]) /\ T[t].plans # <<>>
             /\ task[t] = None \/ task[t].mem = None
  <2>1. CASE t \in D
    BY <2>1, <1>2, <1>5, <1>6, <1>7, FreshRow
  <2>2. CASE t \notin D
    <3>1. t \in Live(task) /\ t \in S /\ t \in Tasks
      BY <2>2, <1>2, <1>9
    <3>2. task[t] \in TaskRow /\ ExecOk(task[t]) /\ T[t] = task[t]
      BY <3>1, <2>2, <1>7, RowOk
    <3> QED  BY <3>1, <3>2, <1>2
  <2> QED  BY <2>1, <2>2
<1>10. \A t \in Tasks \ (S \cup D) : T[t] = task[t]
  BY <1>7
<1>11. Joining(o, S \cup D, {})
  BY <1>2, <1>4, <1>8, <1>9, <1>10, CreatedJoins
<1> QED  BY <1>1, <1>11, JoiningKeeps

LEMMA HullOfOne ==
    ASSUME NEW i \in Nat \X Nat
    PROVE  Hull({i}) = i
<1>1. {j[1] : j \in {i}} = {i[1]} /\ {j[2] : j \in {i}} = {i[2]} /\ i[1] \in Nat /\ i[2] \in Nat
  OBVIOUS
<1>2. ASSUME NEW n \in Nat PROVE Min({n}) = n /\ Max({n}) = n
  BY DEF Min, Max
<1>3. Hull({i}) = <<i[1], i[2]>>
  BY <1>1, <1>2 DEF Hull
<1> QED  BY <1>3

(* A historical objective is what its source says: the overlap was checked *)
(* with the source's interval, and that is the envelope it gets.           *)
LEMMA AcceptHistoricalKeeps ==
    ASSUME Inv, NEW t \in Tasks, NEW p \in hist[t], accept_proposal(t, p)
    PROVE  Inv'
<1> DEFINE iv == p.src.iv
           h == "historical_provider_complete"
           o == Len(obj) + 1
           T == IF task[t].plans = <<>> THEN Advance(t, Planned(task[t], iv)) ELSE task
<1>1. /\ _assert_historical_eligibility(t, p) /\ Answered(t, p, "accepted")
      /\ task' = Created(T, {t}, h).T /\ obj' = Created(T, {t}, h).O
      /\ lineage' = lineage /\ source' = source /\ bound' = bound
  BY DEF accept_proposal
<1>2. Around
  BY <1>1, AnsweredGrows DEF Around, Inv, CoreInv, TypeInv
<1>3. t \in Live(task) /\ task[t] \in TaskRow /\ ExecOk(task[t])
  <2>1. t \in Live(task)
    BY DEF Inv, CoreInv, HistInv
  <2> QED  BY <2>1, RowOk
<1>4. /\ iv \in Intervals /\ task[t].mem = None /\ (task[t].plans # <<>> => CurrentPlan(task[t]) = iv)
      /\ \A q \in Current(obj) : ~StrictOverlap(obj[q].env, iv)
  BY <1>1 DEF _assert_historical_eligibility, HistoricalFits, Inv, CoreInv, TypeInv, Source, Opt
<1>5. iv \in Nat \X Nat
  BY <1>4, ObjectivesAssumption
<1> HIDE DEF iv
<1>6. /\ T \in [Tasks -> Opt(TaskRow)] /\ \A u \in Tasks \ {t} : T[u] = task[u]
      /\ T[t] \in TaskRow /\ ExecOk(T[t]) /\ T[t].plans # <<>> /\ T[t].plans[Len(T[t].plans)] = iv
  <2>1. task \in [Tasks -> Opt(TaskRow)]
    BY DEF Inv, CoreInv, TypeInv
  <2>2. CASE task[t].plans # <<>>
    BY <2>1, <2>2, <1>3, <1>4 DEF CurrentPlan
  <2>3. CASE task[t].plans = <<>>
    <3> DEFINE s == [Planned(task[t], iv) EXCEPT !.touched = TRUE]
    <3>1. s \in TaskRow /\ ExecOk(s) /\ s.plans = Append(task[t].plans, iv)
      BY <1>3, <1>4, PlannedRow
    <3>2. T = [task EXCEPT ![t] = s]
      BY <2>3 DEF Advance
    <3>3. s.plans = <<iv>>
      BY <3>1, <2>3
    <3> HIDE DEF s
    <3>4. T[t] = s /\ (\A u \in Tasks \ {t} : T[u] = task[u]) /\ T \in [Tasks -> Opt(TaskRow)]
      BY <2>1, <3>1, <3>2 DEF Opt
    <3> HIDE DEF T
    <3>5. T[t].plans # <<>> /\ T[t].plans[Len(T[t].plans)] = iv
      BY <3>3, <3>4
    <3> QED  BY <3>1, <3>4, <3>5
  <2> QED  BY <2>2, <2>3
<1> HIDE DEF T
<1> DEFINE U == Joined(T, {t}, o)
<1>7. o \in Nat \ {0} /\ DOMAIN obj = 1..Len(obj) /\ o \notin DOMAIN obj
  BY ObjectiveRow
<1>8. Envelope(U, {t}) = iv
  <2>1. U[t].plans = T[t].plans /\ U[t].mem.p = Len(U[t].plans)
    <3>1. Joinable(T, {t}) /\ {t} \in SUBSET Tasks
      BY <1>6 DEF Joinable
    <3> HIDE DEF o
    <3>2. JoinedWell(T, U, {t}, o)
      BY <3>1, <1>6, <1>7, JoinedRows
    <3> HIDE DEF U
    <3> QED  BY <3>2 DEF JoinedWell
  <2>2. {PinnedPlan(U[u]) : u \in {t}} = {iv}
    BY <2>1, <1>6 DEF PinnedPlan
  <2> HIDE DEF U
  <2> QED  BY <2>2, <1>5, HullOfOne DEF Envelope
<1>9. \A q \in Current(obj') \ {o} : q \in Current(obj) /\ obj'[q].env = obj[q].env
  <2> DEFINE y == NewObjective(h, Envelope(U, {t}))
             O == Append(obj, y)
  <2>1. obj' = [O EXCEPT ![o].agg = _derive_material_state(U, O, o)]
    BY <1>1 DEF Created
  <2>2. obj \in Seq(Objective)
    BY ObjectiveRow
  <2> HIDE DEF y, U
  <2>3. DOMAIN O = 1..o /\ \A q \in DOMAIN obj : O[q] = obj[q]
    BY <2>2, <1>7
  <2> HIDE DEF O
  <2>4. DOMAIN obj' = DOMAIN obj \cup {o} /\ \A q \in DOMAIN obj : obj'[q] = obj[q]
    BY <2>1, <2>3, <1>7
  <2> QED  BY <2>4 DEF Current
<1>10. obj'[o].env = iv
  <2> DEFINE y == NewObjective(h, Envelope(U, {t}))
             O == Append(obj, y)
  <2>1. obj' = [O EXCEPT ![o].agg = _derive_material_state(U, O, o)]
    BY <1>1 DEF Created
  <2>2. obj \in Seq(Objective)
    BY ObjectiveRow
  <2>3. y \in Objective /\ y.env = iv
    BY <1>5, <1>8, NewObjectiveType
  <2> HIDE DEF y, U
  <2>4. O[o] = y /\ o \in DOMAIN O
    BY <2>2, <1>7
  <2> HIDE DEF O
  <2>5. obj'[o] = [y EXCEPT !.agg = _derive_material_state(U, O, o)]
    BY <2>1, <2>4
  <2> QED  BY <2>3, <2>5 DEF Objective
<1>11. \A q \in Current(obj') \ {o} : ~StrictOverlap(obj'[q].env, obj'[o].env)
  BY <1>4, <1>9, <1>10
<1>12. \A u \in {t} : /\ T[u] \in TaskRow /\ ExecOk(T[u]) /\ T[u].plans # <<>>
                      /\ task[u] = None \/ task[u].mem = None
  BY <1>4, <1>6
<1>13. {t} \in SUBSET Tasks /\ {t} # {}
  OBVIOUS
<1>14. Joining(o, {t}, {})
  BY <1>1, <1>6, <1>11, <1>12, <1>13, CreatedJoins
<1> QED  BY <1>1, <1>2, <1>14, JoiningKeeps

-----------------------------------------------------------------------------
(* Candidates. *)

(* What every candidate of the current rows gives the command that accepts it. *)
CandidateOk(c) ==
    /\ DOMAIN c.moves \subseteq GroupingTasks
    /\ IF c.kind = "create"
       THEN /\ c.supersede = {} /\ DOMAIN c.moves # {}
            /\ \A t \in DOMAIN c.moves : task[t].mem = None /\ c.moves[t] # "unchanged_context"
       ELSE /\ c.survivor \in Current(obj) /\ c.supersede \subseteq Current(obj) \ {c.survivor}
            /\ \A t \in DOMAIN c.moves :
                  task[t].mem = None \/ task[t].mem.o \in {c.survivor} \cup c.supersede

LEMMA GroupingTask ==
    ASSUME Inv, NEW t \in GroupingTasks
    PROVE  /\ t \in Live(task) /\ t \in Tasks /\ task[t] \in TaskRow /\ ExecOk(task[t]) /\ task[t].plans # <<>>
           /\ CurrentPlan(task[t]) \in Nat \X Nat
           /\ task[t].mem # None => task[t].mem.o \in Current(obj)
<1>1. t \in Live(task) /\ task[t].plans # <<>> /\ ~ObjectiveProtects(task[t], Closed)
  BY DEF GroupingTasks, Ungroupable, OpenWork
<1>2. t \in Tasks /\ task[t] \in TaskRow /\ ExecOk(task[t])
  BY <1>1, RowOk
<1>3. task[t].mem # None => task[t].mem.o \in Current(obj)
  BY <1>1 DEF Inv, CoreInv, MemInv, Belongs, ObjectiveProtects, Current
<1>4. task[t].plans \in Seq(Intervals)
  BY <1>2 DEF TaskRow
<1>5. CurrentPlan(task[t]) \in Intervals
  BY <1>1, <1>4 DEF CurrentPlan
<1>6. CurrentPlan(task[t]) \in Nat \X Nat
  BY <1>5, ObjectivesAssumption
<1> QED  BY <1>1, <1>2, <1>3, <1>6

LEMMA ComponentOk ==
    ASSUME Inv, NEW C \in strict_overlap_components(GroupingTasks)
    PROVE  C \subseteq GroupingTasks /\ C # {}
<1> DEFINE G == GroupingTasks
           starts == {CurrentPlan(task[t])[1] : t \in Opening(G)}
           from(a) == {t \in G : /\ CurrentPlan(task[t])[1] >= a
                                 /\ \A b \in starts : b > a => CurrentPlan(task[t])[1] < b}
<1>1. PICK a \in starts : C = from(a)
  BY DEF strict_overlap_components
<1>2. PICK t \in Opening(G) : a = CurrentPlan(task[t])[1]
  OBVIOUS
<1>3. \A u \in Opening(G) : u \in G
  BY DEF Opening
<1>4. ASSUME NEW u \in Opening(G) PROVE CurrentPlan(task[u])[1] \in Nat
  <2>1. CurrentPlan(task[u]) \in Nat \X Nat
    BY <1>3, GroupingTask
  <2> QED  BY <2>1
<1>5. a \in Nat /\ \A b \in starts : b \in Nat
  BY <1>2, <1>4
<1> HIDE DEF starts
<1>6. t \in from(a)
  BY <1>2, <1>3, <1>5
<1> QED  BY <1>1, <1>6

LEMMA LeastIn ==
    ASSUME NEW A \in SUBSET Nat, A # {}
    PROVE  Least(A) \in A
<1>1. \E x \in A : \A y \in A : x <= y
  BY LeastOf
<1> QED  BY <1>1 DEF Least

LEMMA CurrentNat ==
    ASSUME Inv
    PROVE  Current(obj) \subseteq Nat /\ IsFiniteSet(Current(obj)) /\ None \notin Current(obj)
<1>1. DOMAIN obj = 1..Len(obj) /\ Len(obj) \in Nat
  BY ObjectiveRow
<1>2. IsFiniteSet(1..Len(obj))
  BY <1>1, FS_Interval
<1>3. IsFiniteSet(Current(obj))
  BY <1>1, <1>2, FS_Subset DEF Current
<1> QED  BY <1>1, <1>3, ObjectivesAssumption DEF Current

LEMMA ComponentCandidateOk ==
    ASSUME Inv, NEW C \in SUBSET GroupingTasks, C # {}, NEW split, NEW c \in ComponentCandidate(C, split)
    PROVE  CandidateOk(c)
<1> DEFINE B == ObjectivesOf(C)
           A == B \cup {o \in Current(obj) : StrictOverlap(obj[o].env, Span(C))}
<1>1. B \subseteq Current(obj)
  BY GroupingTask DEF ObjectivesOf
<1>2. A \subseteq Current(obj) /\ A \in SUBSET Nat /\ IsFiniteSet(A)
  BY <1>1, CurrentNat, FS_Subset
<1>3. \A t \in C : task[t].mem = None \/ task[t].mem.o \in A
  BY DEF ObjectivesOf
<1>4. c \in IF A = {} THEN {Candidate("create", "normal", None, Moves(C, None), {})}
            ELSE IF Cardinality(A) = 1 THEN JoinCandidate(C, Least(A))
            ELSE ConsolidateCandidate(C, A)
  BY DEF ComponentCandidate
<1> HIDE DEF A
<1>5. CASE A = {}
  <2>1. c.kind = "create" /\ c.supersede = {} /\ c.moves = Moves(C, None)
    BY <1>4, <1>5 DEF Candidate
  <2>2. DOMAIN c.moves = C /\ \A t \in C : task[t].mem = None /\ c.moves[t] = "add"
    BY <1>3, <1>5, <2>1 DEF Moves, ChangeKind
  <2> QED  BY <2>1, <2>2 DEF CandidateOk
<1>6. CASE A # {} /\ Cardinality(A) = 1
  <2> DEFINE o == Least(A)
             changed == {t \in C : ChangeKind(t, o) # "unchanged_context"}
  <2>1. o \in A
    BY <1>2, <1>6, LeastIn
  <2>2. A = {o}
    BY <1>2, <1>6, <2>1, FS_Singleton
  <2> HIDE DEF o
  <2>3. c \in JoinCandidate(C, o)
    BY <1>4, <1>6 DEF o
  <2> DEFINE kind == IF \E t \in changed : task[t].mem = None THEN "join" ELSE "repin"
  <2>4. \E risk : c = Candidate(kind, risk, o, Moves(changed, o), {o})
    BY <2>3 DEF JoinCandidate
  <2>5. kind \in {"join", "repin"}
    OBVIOUS
  <2> HIDE DEF kind
  <2>6. c.kind \in {"join", "repin"} /\ c.survivor = o /\ c.moves = Moves(changed, o) /\ c.supersede = {}
    BY <2>4, <2>5 DEF Candidate
  <2>7. DOMAIN c.moves = changed
    BY <2>6 DEF Moves
  <2> QED  BY <1>2, <1>3, <2>1, <2>2, <2>6, <2>7 DEF CandidateOk
<1>7. CASE A # {} /\ Cardinality(A) # 1
  <2> DEFINE o == Least(A)
             members == {t \in GroupingTasks : task[t].mem # None /\ task[t].mem.o \in A}
  <2>1. o \in A
    BY <1>2, <1>7, LeastIn
  <2>2. c \in ConsolidateCandidate(C, A)
    BY <1>4, <1>7
  <2>3. c = Candidate("consolidate", "normal", o, Moves(C \cup members, o), A)
    BY <2>2 DEF ConsolidateCandidate
  <2> HIDE DEF o
  <2>4. c.kind = "consolidate" /\ c.survivor = o /\ c.moves = Moves(C \cup members, o) /\ c.supersede = A \ {o}
    BY <2>3 DEF Candidate
  <2>5. DOMAIN c.moves = C \cup members
    BY <2>4 DEF Moves
  <2> QED  BY <1>2, <1>3, <2>1, <2>4, <2>5 DEF CandidateOk
<1> QED  BY <1>5, <1>6, <1>7

LEMMA ManualCandidateOk ==
    ASSUME Inv, NEW o, NEW q, NEW c \in _manual_exact_touch_candidate(o, q)
    PROVE  CandidateOk(c)
<1> DEFINE A == {o, q}
           M == Members(task, o) \cup Members(task, q)
           s == Least(A)
<1>1. /\ A \subseteq Current(obj) /\ M \subseteq GroupingTasks
      /\ c = Candidate("manual_merge", "normal", s, Moves(M, s), A)
  BY DEF _manual_exact_touch_candidate
<1>2. A \in SUBSET Nat /\ A # {}
  BY <1>1, CurrentNat
<1>3. s \in A
  BY <1>2, LeastIn
<1> HIDE DEF s
<1>4. c.kind = "manual_merge" /\ c.survivor = s /\ c.moves = Moves(M, s) /\ c.supersede = A \ {s}
  <2> HIDE DEF A, M
  <2> QED  BY <1>1 DEF Candidate
<1>5. DOMAIN c.moves = M
  BY <1>4 DEF Moves
<1>6. \A t \in M : task[t].mem.o \in A
  BY DEF Members
<1> QED  BY <1>1, <1>3, <1>4, <1>5, <1>6 DEF CandidateOk

LEMMA CandidatesOk ==
    ASSUME Inv, NEW c, _candidate_for_proposal(c)
    PROVE  CandidateOk(c)
<1>1. CASE c.kind = "manual_merge"
  BY <1>1, ManualCandidateOk DEF _candidate_for_proposal
<1>2. CASE c.kind # "manual_merge"
  <2>1. c \in _candidates
    BY <1>2 DEF _candidate_for_proposal
  <2>2. PICK C, split : C \in strict_overlap_components(GroupingTasks) /\ c \in ComponentCandidate(C, split)
    BY <2>1 DEF _candidates
  <2>3. C \subseteq GroupingTasks /\ C # {}
    BY <2>2, ComponentOk
  <2> QED  BY <2>2, <2>3, ComponentCandidateOk
<1> QED  BY <1>1, <1>2

(* The rows of the objectives once o has its envelope and supersedes Q, before *)
(* their aggregates are rebuilt.                                               *)
LEMMA RegroupedRows ==
    ASSUME Inv, NEW c, CandidateOk(c), NEW env \in Nat \X Nat
    PROVE  LET new == c.kind = "create"
               o == IF new THEN Len(obj) + 1 ELSE c.survivor
               base == IF new THEN Append(obj, NewObjective("automatic_grouping", env))
                       ELSE [obj EXCEPT ![o].env = env]
               O == [q \in DOMAIN base |-> IF q \in c.supersede THEN [base[q] EXCEPT !.by = o] ELSE base[q]]
           IN /\ O \in Seq(Objective) /\ o \in DOMAIN O /\ Len(O) = IF new THEN o ELSE Len(obj)
              /\ \A q \in DOMAIN obj \ ({o} \cup c.supersede) : O[q] = obj[q]
              /\ \A q \in c.supersede : q \in DOMAIN O /\ O[q].by # None /\ ~O[q].gone
              /\ ~O[o].gone /\ O[o].by = None /\ O[o].env = env
<1> DEFINE new == c.kind = "create"
           o == IF new THEN Len(obj) + 1 ELSE c.survivor
           base == IF new THEN Append(obj, NewObjective("automatic_grouping", env)) ELSE [obj EXCEPT ![o].env = env]
           O == [q \in DOMAIN base |-> IF q \in c.supersede THEN [base[q] EXCEPT !.by = o] ELSE base[q]]
           n == IF new THEN Len(obj) + 1 ELSE Len(obj)
<1>1. obj \in Seq(Objective) /\ Len(obj) \in Nat /\ DOMAIN obj = 1..Len(obj) /\ \A q \in DOMAIN obj : obj[q] \in Objective
  BY ObjectiveRow
<1>2. c.supersede \subseteq Current(obj) /\ o \notin c.supersede
  BY <1>1 DEF CandidateOk, Current
<1>3. /\ n \in Nat /\ o \in 1..n /\ DOMAIN base = 1..n /\ base[o] \in Objective
      /\ base[o].env = env /\ ~base[o].gone /\ base[o].by = None /\ DOMAIN obj \subseteq 1..n
      /\ \A q \in 1..n : q = o \/ (q \in DOMAIN obj /\ base[q] = obj[q])
  <2>1. CASE new
    <3> DEFINE y == NewObjective("automatic_grouping", env)
    <3>1. y \in Objective /\ y.by = None /\ ~y.gone /\ y.env = env
      BY NewObjectiveType
    <3>2. base = Append(obj, y) /\ o = Len(obj) + 1 /\ n = o
      BY <2>1
    <3> HIDE DEF y, base, o, n, new
    <3>3. n \in Nat /\ o \in 1..n /\ DOMAIN obj \subseteq 1..n /\ \A q \in 1..n : q = o \/ q \in DOMAIN obj
      BY <3>2, <1>1
    <3>4. DOMAIN base = 1..n /\ base[o] = y /\ \A q \in DOMAIN obj : base[q] = obj[q]
      BY <3>1, <3>2, <1>1
    <3> QED  BY <3>1, <3>3, <3>4
  <2>2. CASE ~new
    <3>1. o \in Current(obj) /\ o = c.survivor /\ n = Len(obj)
      BY <2>2 DEF CandidateOk
    <3>2. o \in DOMAIN obj /\ obj[o] \in Objective /\ ~obj[o].gone /\ obj[o].by = None
      BY <3>1, <1>1 DEF Current
    <3> DEFINE y == [obj[o] EXCEPT !.env = env]
    <3>3. y \in Objective /\ y.env = env /\ ~y.gone /\ y.by = None
      BY <3>2 DEF Objective
    <3>4. base = [obj EXCEPT ![o] = y]
      BY <2>2
    <3> HIDE DEF y, base, o, n, new
    <3>5. n \in Nat /\ o \in 1..n /\ DOMAIN obj = 1..n
      BY <3>1, <3>2, <1>1
    <3>6. DOMAIN base = 1..n /\ base[o] = y /\ \A q \in DOMAIN obj \ {o} : base[q] = obj[q]
      BY <3>2, <3>4, <3>5
    <3> QED  BY <3>3, <3>5, <3>6
  <2> QED  BY <2>1, <2>2
<1> HIDE DEF base
<1>4. O = [q \in 1..n |-> IF q \in c.supersede THEN [base[q] EXCEPT !.by = o] ELSE base[q]]
  BY <1>3
<1>5. n = IF new THEN o ELSE Len(obj)
  OBVIOUS
<1> HIDE DEF O, n, o, new
<1>6. ASSUME NEW q \in c.supersede PROVE q \in 1..n /\ O[q] \in Objective /\ O[q].by # None /\ ~O[q].gone
  <2>1. q \in DOMAIN obj /\ ~obj[q].gone /\ q # o /\ q \in 1..n
    BY <1>2, <1>3 DEF Current
  <2>2. O[q] = [obj[q] EXCEPT !.by = o] /\ obj[q] \in Objective
    BY <1>1, <1>3, <1>4, <2>1
  <2>3. o \in Nat \ {0} /\ o # None
    BY <1>3, ObjectivesAssumption
  <2> QED  BY <2>1, <2>2, <2>3 DEF Objective, Opt
<1>7. ASSUME NEW q \in 1..n, q \notin c.supersede PROVE O[q] = base[q]
  BY <1>4, <1>7
<1>8. O \in [1..n -> Objective]
  <2>1. \A q \in 1..n : O[q] \in Objective
    BY <1>1, <1>3, <1>6, <1>7
  <2>2. O = [q \in 1..n |-> O[q]]
    BY <1>4
  <2> QED  BY <2>1, <2>2
<1>9. O \in Seq(Objective) /\ Len(O) = n /\ DOMAIN O = 1..n
  BY <1>3, <1>8, SeqOfFunction
<1>10. /\ O \in Seq(Objective) /\ o \in DOMAIN O /\ Len(O) = IF new THEN o ELSE Len(obj)
       /\ \A q \in DOMAIN obj \ ({o} \cup c.supersede) : O[q] = obj[q]
       /\ \A q \in c.supersede : q \in DOMAIN O /\ O[q].by # None /\ ~O[q].gone
       /\ ~O[o].gone /\ O[o].by = None /\ O[o].env = env
  BY <1>2, <1>3, <1>5, <1>6, <1>7, <1>9
<1> QED  BY <1>10 DEF O, o, new, base

LEMMA AcceptRegroupKeeps ==
    ASSUME Inv, NEW c, accept_regroup_proposal(c)
    PROVE  Inv'
<1> DEFINE new == c.kind = "create"
           o == IF new THEN Len(obj) + 1 ELSE c.survivor
           Q == c.supersede
           J == {t \in DOMAIN c.moves : c.moves[t] # "unchanged_context"}
           T == Joined(task, J, o)
           env == Envelope(T, Members(T, o))
           base == IF new THEN Append(obj, NewObjective("automatic_grouping", env))
                   ELSE [obj EXCEPT ![o].env = env]
           O == [q \in DOMAIN base |-> IF q \in Q THEN [base[q] EXCEPT !.by = o] ELSE base[q]]
<1>1. Around /\ lineage' = lineage
  BY HistoryUnchanged DEF accept_regroup_proposal, wfmVars
<1>2. CandidateOk(c)
  BY CandidatesOk DEF accept_regroup_proposal
<1>3. /\ task' = T /\ obj' = rebuild_aggregate(T, O, {o} \cup Q)
      /\ _assert_no_overlap(obj', o)
  BY Zenon DEF accept_regroup_proposal, Regrouped, _apply_membership_changes, _rebuild_survivor_envelope
<1>4. Len(obj) \in Nat /\ DOMAIN obj = 1..Len(obj) /\ task \in [Tasks -> Opt(TaskRow)]
  BY ObjectiveRow DEF Inv, CoreInv, TypeInv
<1>5. /\ J \in SUBSET Tasks /\ o \in Nat \ {0}
      /\ ~new => o \in Current(obj)
      /\ Q \subseteq Current(obj) \ {o}
  <2>1. \A t \in DOMAIN c.moves : t \in Tasks
    BY <1>2, GroupingTask DEF CandidateOk
  <2> QED  BY <1>2, <1>4, <2>1 DEF CandidateOk, Current
<1>6. Joinable(task, J)
  BY <1>2, GroupingTask DEF CandidateOk, Joinable
<1>7. \A t \in J : task[t].mem = None \/ task[t].mem.o \in {o} \cup Q
  BY <1>2 DEF CandidateOk
<1>8. new => J # {} /\ o = Len(obj) + 1
  BY <1>2 DEF CandidateOk
<1> DEFINE n == IF new THEN o ELSE Len(obj)
<1>9. ASSUME env \in Nat \X Nat
      PROVE  /\ O \in Seq(Objective) /\ o \in DOMAIN O /\ Len(O) = n
             /\ \A q \in DOMAIN obj \ ({o} \cup Q) : O[q] = obj[q]
             /\ \A q \in Q : q \in DOMAIN O /\ O[q].by # None /\ ~O[q].gone
             /\ ~O[o].gone /\ O[o].by = None /\ O[o].env = env
  <2> HIDE DEF env
  <2> QED  BY <1>2, <1>9, RegroupedRows
<1> HIDE DEF base, O, J, o, Q, new
<1>10. JoinedWell(task, T, J, o)
  BY <1>4, <1>5, <1>6, JoinedRows
<1> HIDE DEF T
<1>11. /\ T \in [Tasks -> Opt(TaskRow)] /\ \A t \in Tasks \ J : T[t] = task[t]
       /\ \A t \in J : /\ T[t] \in TaskRow /\ ExecOk(T[t]) /\ T[t].mem # None /\ T[t].mem.o = o
                       /\ T[t].mem.p \in 1..Len(T[t].plans)
  BY <1>10 DEF JoinedWell
<1>12. Members(T, o) # {}
  <2>1. CASE new
    <3>1. PICK t \in J : TRUE
      BY <1>8, <2>1
    <3>2. t \in Members(T, o)
      BY <3>1, <1>5, <1>11, ObjectivesAssumption DEF Members, Live
    <3> QED  BY <3>2
  <2>2. CASE ~new
    <3>1. PICK t \in Members(task, o) : TRUE
      BY <2>2, <1>5 DEF Inv, EnvelopesDisjoint
    <3>2. t \in Members(T, o)
      BY <3>1, <1>5, <1>11, ObjectivesAssumption DEF Members, Live
    <3> QED  BY <3>2
  <2> QED  BY <2>1, <2>2
<1>13. env \in Nat \X Nat
  <2>1. ASSUME NEW t \in Members(T, o)
        PROVE  t \in Tasks /\ T[t] \in TaskRow /\ T[t].mem # None /\ T[t].mem.p \in 1..Len(T[t].plans)
    <3>1. t \in Tasks /\ T[t] # None /\ T[t].mem # None
      BY <2>1 DEF Members, Live
    <3>2. CASE t \in J
      BY <3>1, <3>2, <1>11
    <3>3. CASE t \notin J
      <4>1. T[t] = task[t] /\ t \in Live(task)
        BY <3>1, <3>3, <1>11 DEF Live
      <4>2. task[t] \in TaskRow /\ Belongs(task[t], obj)
        BY <4>1, RowOk DEF Inv, CoreInv, MemInv
      <4> QED  BY <3>1, <4>1, <4>2 DEF Belongs
    <3> QED  BY <3>2, <3>3
  <2>2. Members(T, o) \in SUBSET Tasks
    BY <2>1
  <2> QED  BY <2>1, <2>2, <1>12, EnvelopeType
<1> HIDE DEF env, n
<1>14. /\ O \in Seq(Objective) /\ o \in DOMAIN O /\ Len(O) = n
       /\ \A q \in DOMAIN obj \ ({o} \cup Q) : O[q] = obj[q]
       /\ \A q \in Q : q \in DOMAIN O /\ O[q].by # None /\ ~O[q].gone
       /\ ~O[o].gone /\ O[o].by = None /\ O[o].env = env
  BY <1>9, <1>13
<1>15. obj' \in Seq(Objective) /\ Len(obj') = n /\ DOMAIN obj' = DOMAIN O
  BY <1>3, <1>14, RebuildType
<1>16. /\ \A q \in DOMAIN O \ ({o} \cup Q) : obj'[q] = O[q]
       /\ \A q \in DOMAIN O : obj'[q].by = O[q].by /\ obj'[q].gone = O[q].gone /\ obj'[q].env = O[q].env
  <2>1. \A q \in DOMAIN O : O[q] \in Objective
    BY <1>14
  <2> QED  BY <1>3, <2>1 DEF rebuild_aggregate, Objective
<1>17. \A q \in {o} \cup Q : FreshAt(task', obj', q)
  <2> TAKE q \in {o} \cup Q
  <2>1. q \in DOMAIN O /\ O[q] \in Objective
    BY <1>14
  <2> QED  BY <2>1, <1>3, FreshRebuilt
<1>18. \A q \in DOMAIN obj \ ({o} \cup Q) : obj'[q] = obj[q]
  <2>1. DOMAIN obj \subseteq DOMAIN O
    BY <1>4, <1>8, <1>14 DEF n
  <2> QED  BY <2>1, <1>14, <1>16
<1>19. (o \in Current(obj) /\ Len(obj') = Len(obj)) \/ (o = Len(obj) + 1 /\ Len(obj') = o)
  <2>1. CASE new
    BY <2>1, <1>8, <1>15 DEF n
  <2>2. CASE ~new
    BY <2>2, <1>5, <1>15 DEF n
  <2> QED  BY <2>1, <2>2
<1>20. /\ \A q \in Q : obj'[q].by # None /\ ~obj'[q].gone
       /\ ~obj'[o].gone /\ obj'[o].by = None /\ obj'[o].env = env
  BY <1>14, <1>16
<1>21. \A q \in Current(obj') \ {o} : ~StrictOverlap(obj'[q].env, obj'[o].env)
  BY <1>3 DEF _assert_no_overlap
<1>22. Members(task', o) # {} /\ obj'[o].env = Envelope(task', Members(task', o))
  BY <1>3, <1>12, <1>20 DEF env
<1>23. Joining(o, J, Q)
  BY <1>3, <1>5, <1>7, <1>11, <1>15, <1>17, <1>18, <1>19, <1>20, <1>21, <1>22 DEF Joining
<1> QED  BY <1>1, <1>23, JoiningKeeps

-----------------------------------------------------------------------------
(* The invariant. *)

LEMMA InitInv == Init => Inv
<1> SUFFICES ASSUME Init PROVE Inv
  OBVIOUS
<1> USE DEF Init, WfmInit, CoreInit
<1>1. Live(task) = {} /\ DOMAIN obj = {} /\ obj \in Seq(Objective)
  BY DEF Live
<1>2. Unsourced \in Source
  BY DEF Unsourced, Source, Opt
<1>3. TypeInv
  BY <1>1, <1>2 DEF TypeInv, Opt
<1>4. MemInv /\ ExecInv /\ LineageInv /\ HistInv
  BY <1>1 DEF MemInv, ExecInv, LineageInv, Assigned, Opt, HistInv
<1>5. EnvelopesDisjoint /\ AggregateFresh
  BY <1>1 DEF EnvelopesDisjoint, AggregateFresh, Current
<1> QED  BY <1>3, <1>4, <1>5 DEF Inv, CoreInv

LEMMA CoreNextInv ==
    ASSUME Inv, CoreNext
    PROVE  Inv'
<1> SUFFICES ASSUME UNCHANGED wfmVars PROVE Inv'
  BY DEF CoreNext
<1>1. CASE PlanNext
  <2>1. PICK t \in Tasks \cap bound.use :
           \/ \E plans \in Plans : create_local_task(t, plans, {})
           \/ \E i \in bound.plans : set_task_plan(t, i) \/ correct_task_plan(t, i)
           \/ \E kind \in {"plan", "membership"}, lock \in BOOLEAN : set_explicit_task_lock(t, kind, lock)
           \/ \E l \in Links, link \in BOOLEAN : change_task_relationship(t, l, link)
    BY <1>1 DEF PlanNext
  <2> QED  BY <2>1, CreateKeeps, PlanKeeps, LockKeeps, RelationshipKeeps
<1>2. CASE ExecutionNext
  <2>1. CASE \E o \in DOMAIN obj, S \in SUBSET Tasks, at \in bound.at : start_selected_objective_tasks(o, S, at)
    BY <2>1, StartSelectedKeeps
  <2>2. CASE \E t \in Tasks : \E at \in bound.at : start_task_execution(t, at) \/ end_task_execution(t, at)
    BY <2>2, StartKeeps, EndKeeps
  <2>3. CASE \E t \in Tasks : cancel_task_without_execution(t)
    BY <2>3, CancelKeeps
  <2>4. CASE \E t \in Live(task) : \E i \in DOMAIN task[t].ev, w \in BOOLEAN, at \in bound.at :
                correct_task_execution_evidence(t, i, w, at)
    BY <2>4, CorrectionKeeps
  <2>5. CASE \E t \in Tasks : \E out \in Outcomes : review_task_outcome(t, out) \/ correct_task_outcome(t, out)
    BY <2>5, OutcomeKeeps
  <2> QED  BY <1>2, <2>1, <2>2, <2>3, <2>4, <2>5 DEF ExecutionNext
<1>3. CASE ObjectiveNext
  <2>1. CASE \E S, D \in SUBSET (Tasks \cap bound.use), i \in bound.plans : create_objective_from_preview(S, D, i)
    <3>1. PICK S \in SUBSET Tasks, D \in SUBSET Tasks, i \in bound.plans : create_objective_from_preview(S, D, i)
      BY <2>1
    <3> QED  BY <3>1, CreateObjectiveKeeps
  <2>2. ASSUME NEW o \in DOMAIN obj,
               \/ review_objective(o) \/ archive_objective(o) \/ restore_objective(o)
               \/ cancel_objective_before_execution(o) \/ hard_delete_objective(o)
        PROVE  Inv'
    BY <2>2, ReviewKeeps, ArchiveKeeps, CancelObjectiveKeeps, DeleteObjectiveKeeps
  <2> QED  BY <1>3, <2>1, <2>2 DEF ObjectiveNext
<1> QED  BY <1>1, <1>2, <1>3 DEF CoreNext

LEMMA WfmNextInv ==
    ASSUME Inv, WfmNext
    PROVE  Inv'
<1>1. ASSUME NEW t \in Tasks, NEW no, NEW r,
             \/ \E plans \in Plans : register_manual_wfm_task(t, no, r, plans)
             \/ \E class \in {"active"} \cup TerminalSource : create_or_adopt_wfm_from_source(t, no, r, class)
      PROVE  Inv'
  BY <1>1, RegisterKeeps, AdoptKeeps
<1>2. ASSUME NEW t \in Tasks, NEW r, NEW class,
             reassign_wfm_parent(t, r) \/ reassign_parent_from_source(t, r, class)
      PROVE  Inv'
  <2>1. t \in Live(task) /\ reassign_rfc(t, r)
    BY <1>2, WfmsLive DEF reassign_wfm_parent, reassign_parent_from_source
  <2> QED  BY <2>1, ReassignKeeps
<1>3. ASSUME NEW t \in Tasks, NEW class \in {"active"} \cup TerminalSource, NEW iv \in bound.plans \cup {None},
             apply_wfm_source_projection(t, class, iv)
      PROVE  Inv'
  BY <1>3, ProjectionKeeps
<1>4. ASSUME NEW t \in Tasks, NEW d,
             \/ apply_reviewed_operational_plan_from_source(t)
             \/ resolve_wfm_source_terminal_consequence(t, d)
             \/ set_operational_count_inclusion(t) \/ hard_delete_task(t)
      PROVE  Inv'
  BY <1>4, ReviewedPlanKeeps, ConsequenceKeeps, CountKeeps, DeleteTaskKeeps
<1>5. ASSUME NEW t \in Tasks, NEW p \in hist[t], accept_proposal(t, p) \/ reject_proposal(t, p)
      PROVE  Inv'
  BY <1>5, AcceptHistoricalKeeps, RejectKeeps
<1>6. ASSUME NEW t \in Tasks, NEW s \in Tasks,
             \/ \E i \in bound.plans, links \in SUBSET Links : create_local_task_retry(t, s, i, links)
             \/ link_wfm_retry_attempt(t, s)
      PROVE  Inv'
  <2>1. CASE link_wfm_retry_attempt(t, s)
    BY <2>1, NothingMoves DEF link_wfm_retry_attempt
  <2> QED  BY <1>6, <2>1, RetryKeeps
<1>7. ASSUME NEW r, RfcChanges(r) PROVE Inv'
  BY <1>7, NothingMoves DEF RfcChanges
<1>8. ASSUME NEW r, NEW captured, apply_terminal_cascade(r, captured) PROVE Inv'
  BY <1>8, CascadeKeeps
<1>9. ASSUME NEW seeds \in SUBSET Tasks, NEW d \in Decisions, review_wfm_activity_relationship(seeds, d) PROVE Inv'
  BY <1>9, LineageKeeps
<1>10. CASE \E t \in Tasks \cap bound.use :
        \/ \E no \in TaskNos \cap bound.use, r \in Rfcs \cap bound.use :
            \/ \E plans \in Plans : register_manual_wfm_task(t, no, r, plans)
            \/ \E class \in {"active"} \cup TerminalSource : create_or_adopt_wfm_from_source(t, no, r, class)
        \/ \E r \in Rfcs \cap bound.use : reassign_wfm_parent(t, r)
        \/ \E r \in Rfcs \cap bound.use, class \in {"active"} \cup TerminalSource : reassign_parent_from_source(t, r, class)
        \/ \E class \in {"active"} \cup TerminalSource, iv \in bound.plans \cup {None} :
               "source" \in bound.use /\ apply_wfm_source_projection(t, class, iv)
        \/ apply_reviewed_operational_plan_from_source(t)
        \/ \E d \in {"retain_local_work", "terminate_local_work"} :
               resolve_wfm_source_terminal_consequence(t, d)
        \/ \E p \in hist[t] : accept_proposal(t, p) \/ reject_proposal(t, p)
        \/ set_operational_count_inclusion(t)
        \/ "delete" \in bound.use /\ hard_delete_task(t)
        \/ \E s \in Tasks :
               /\ "retry" \in bound.use
               /\ \/ \E i \in bound.plans, links \in SUBSET Links : create_local_task_retry(t, s, i, links)
                  \/ link_wfm_retry_attempt(t, s)
  <2>1. PICK t \in Tasks \cap bound.use : TRUE /\ (
        \/ \E no \in TaskNos \cap bound.use, r \in Rfcs \cap bound.use :
            \/ \E plans \in Plans : register_manual_wfm_task(t, no, r, plans)
            \/ \E class \in {"active"} \cup TerminalSource : create_or_adopt_wfm_from_source(t, no, r, class)
        \/ \E r, class : reassign_wfm_parent(t, r) \/ reassign_parent_from_source(t, r, class)
        \/ \E class \in {"active"} \cup TerminalSource, iv \in bound.plans \cup {None} :
               apply_wfm_source_projection(t, class, iv)
        \/ \E d : \/ apply_reviewed_operational_plan_from_source(t)
                  \/ resolve_wfm_source_terminal_consequence(t, d)
                  \/ set_operational_count_inclusion(t) \/ hard_delete_task(t)
        \/ \E p \in hist[t] : accept_proposal(t, p) \/ reject_proposal(t, p)
        \/ \E s \in Tasks :
              \/ \E i \in bound.plans, links \in SUBSET Links : create_local_task_retry(t, s, i, links)
              \/ link_wfm_retry_attempt(t, s))
    BY <1>10, Zenon
  <2> QED  BY <2>1, <1>1, <1>2, <1>3, <1>4, <1>5, <1>6
<1> QED  BY <1>7, <1>8, <1>9, <1>10 DEF WfmNext

LEMMA GroupNextInv ==
    ASSUME Inv, GroupNext
    PROVE  Inv'
<1>1. ASSUME NEW S, insert_candidate(S), UNCHANGED <<source, review, bound, wfmVars>> PROVE Inv'
  BY <1>1, InsertKeeps
<1>2. CASE recompute_grouping_proposals
  BY <1>1, <1>2 DEF recompute_grouping_proposals
<1>3. ASSUME NEW o, NEW q, request_manual_merge(o, q) PROVE Inv'
  BY <1>1, <1>3 DEF request_manual_merge
<1>4. CASE enqueue_recompute \/ WorkerSnapshot \/ WorkerDone \/ WorkerDies
  BY <1>4, NothingMoves DEF enqueue_recompute, WorkerSnapshot, WorkerDone, WorkerDies, wfmVars
<1>5. ASSUME NEW c, WorkerPublish(c) PROVE Inv'
  <2>1. CASE Publishable({c}) = {}
    BY <1>5, <2>1, NothingMoves DEF WorkerPublish, coreVars, wfmVars
  <2>2. CASE Publishable({c}) # {}
    BY <1>1, <1>5, <2>2 DEF WorkerPublish
  <2> QED  BY <2>1, <2>2
<1>6. ASSUME NEW c, reject_regroup_proposal(c) \/ reconsider_regroup_inputs(c) PROVE Inv'
  BY <1>6, NothingMoves DEF reject_regroup_proposal, reconsider_regroup_inputs, wfmVars
<1>7. ASSUME NEW c, accept_regroup_proposal(c) PROVE Inv'
  BY <1>7, AcceptRegroupKeeps
<1> QED  BY <1>2, <1>3, <1>4, <1>5, <1>6, <1>7 DEF GroupNext

(* Spec keeps the invariant that the four theorems below rest on: the rows   *)
(* have their types, memberships name objectives and plans that are there,   *)
(* execution states are the folds of their evidence, and the aggregates and  *)
(* envelopes of objectives are those of their members.                       *)
THEOREM WorkInvariant == Spec => []Inv
<1>1. Init => Inv
  BY InitInv
<1>2. Inv /\ [Next]_vars => Inv'
  <2> SUFFICES ASSUME Inv, [Next]_vars PROVE Inv'
    OBVIOUS
  <2>1. CASE Next
    BY <2>1, CoreNextInv, WfmNextInv, GroupNextInv DEF Next
  <2>2. CASE UNCHANGED vars
    BY <2>2, NothingMoves DEF vars, wfmVars
  <2> QED  BY <2>1, <2>2
<1> QED  BY <1>1, <1>2, PTL DEF Spec

(* Whatever a command does to a task, a plan, evidence, an outcome, a review, *)
(* a membership or a count (soma.objectives_tasks.services), the aggregate    *)
(* stored with each objective is the one its members' rows derive, but for    *)
(* the attention of a protected or historical objective after a reviewed plan *)
(* correction.                                                                *)
THEOREM AggregatesAreFresh == Spec => []AggregateFresh
<1>1. Inv => AggregateFresh
  BY DEF Inv
<1> QED  BY <1>1, WorkInvariant, PTL

(* No command or regrouping, immediate, by the worker or manual, lets two     *)
(* current objectives overlap in time, leaves one without members, or stores  *)
(* an envelope other than the hull of the plans its members are pinned to.    *)
THEOREM EnvelopesAreDisjoint == Spec => []EnvelopesDisjoint
<1>1. Inv => EnvelopesDisjoint
  BY DEF Inv
<1> QED  BY <1>1, WorkInvariant, PTL

(* The execution state a task stores (task_execution_projection) is always    *)
(* what _fold_execution_history makes of its evidence, for histories of any   *)
(* length, and it is never the invalid one.                                   *)
THEOREM ExecutionsAreAccounted == Spec => []ExecutionAccounted
<1>1. Inv => ExecutionAccounted
  <2> SUFFICES ASSUME Inv, NEW t \in Live(task)
               PROVE  task[t].x = _fold_execution_history(task[t].ev) /\ task[t].x.st # "invalid"
    BY DEF ExecutionAccounted
  <2>1. task[t] \in TaskRow /\ ExecOk(task[t])
    BY RowOk
  <2> QED  BY <2>1 DEF ExecOk, TaskRow, Execution
<1> QED  BY <1>1, WorkInvariant, PTL

(* Reviews of activity relationships, which decide every task of every        *)
(* lineage their seeds touch (_expand_affected_ids), and deletions leave the  *)
(* tasks of a lineage with one decision, and alone only where they were       *)
(* called distinct.                                                           *)
THEOREM LineagesDoAgree == Spec => []LineagesAgree
<1>1. Inv => LineagesAgree
  <2> SUFFICES ASSUME LineageInv, NEW t \in Assigned
               PROVE  /\ \A u \in Assigned : SameLineage(t, u) => lineage[u].why = lineage[t].why
                      /\ lineage[t].why = "distinct_activity" <=> \A u \in Assigned : SameLineage(t, u) => u = t
    BY DEF Inv, CoreInv, LineagesAgree
  <2>1. LineageOk(t) /\ lineage[t].id \subseteq Assigned /\ \A u \in Assigned : SameLineage(t, u) <=> u \in lineage[t].id
    BY LineageMembers DEF LineageInv, Assigned
  <2> QED  BY <2>1 DEF LineageOk
<1> QED  BY <1>1, WorkInvariant, PTL

=================================================================================
