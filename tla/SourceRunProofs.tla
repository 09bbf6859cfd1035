-------------------------- MODULE SourceRunProofs --------------------------
(* Proofs about SourceRun: a prepared run is never refused by the planner,  *)
(* a reported success hides no leak, and no agent runs more than its slots. *)
EXTENDS SourceRun, FiniteSetTheorems, TLAPS

-----------------------------------------------------------------------------
(* Types, without the bounds of the slot counters                           *)

\* Slot counts are integers here: that they are never negative comes with the
\* sums, in SlotInv.
Shape ==
    /\ used \in [Agent -> Int]
    /\ prepare \in [Coord -> Handler] /\ shard \in [Coord -> Handler]
    /\ release \in [Coord -> Handler \cup {"failed", "overtook"}]
    /\ disk \in [Coord -> {"none", "prepared", "partial"}]
    /\ pc \in [Coord -> {"discover", "select", "prepare", "plan", "shard", "release", "exit"}]
    /\ avail \in [Coord -> [Agent -> Int]]
    /\ safe \in [Coord -> [Agent -> {"yes", "no"}]]
    /\ target \in [Coord -> Agent \cup {0}]
    /\ answer \in [Coord -> {"none", "ok", "error"}]
    /\ err \in [Coord -> {"none", "status", "select", "prepare", "plan", "inspect", "shard",
                          "release", "killed"}]

\* What a run needs is a positive number of slots.
LEMMA RequiredPositive == ASSUME NEW c \in Coord PROVE Required(c) \in Nat \ {0}
BY CellAssumption DEF Required, Least

-----------------------------------------------------------------------------
(* The inductive invariants                                                 *)

\* The agent that prepares a run has room for it, as far as its status told.
SelectionHolds ==
    \A c \in Coord : IsSource(c) =>
        /\ pc[c] \in {"prepare", "plan"} => target[c] \in Agent /\ Fits(c, target[c])
        /\ err[c] # "plan"

\* Where a run stands that has met no error.
Prompt(c) ==
    /\ pc[c] \in {"discover", "select"} => /\ prepare[c] = "none" /\ disk[c] = "none"
                                           /\ release[c] = "none" /\ answer[c] = "none"
    /\ pc[c] = "prepare" => release[c] = "none" /\ (answer[c] = "ok" => prepare[c] = "done")
    /\ pc[c] \in {"plan", "shard", "release"} => prepare[c] \in {"none", "done"}
    /\ pc[c] \in {"plan", "shard"} => release[c] = "none"
    /\ pc[c] = "plan" => answer[c] = "none"
    /\ pc[c] = "release" /\ answer[c] = "ok" => release[c] = "done" /\ disk[c] = "none"
    /\ pc[c] = "release" /\ release[c] = "none" => answer[c] = "none"
    /\ pc[c] = "exit" => disk[c] = "none" /\ prepare[c] \in {"none", "done"}
    /\ ~IsSource(c) => /\ prepare[c] = "none" /\ disk[c] = "none"
                       /\ pc[c] \notin {"select", "prepare", "release"}

NoErrorNoLeak == \A c \in Coord : err[c] = "none" => Prompt(c)

SafeInv == Shape /\ SelectionHolds /\ NoErrorNoLeak

-----------------------------------------------------------------------------
(* Steps that leave the runs of others alone                                *)

\* A step of one run.
OthersSame(c) ==
    \A d \in Coord \ {c} :
        /\ prepare'[d] = prepare[d] /\ release'[d] = release[d] /\ disk'[d] = disk[d]
        /\ pc'[d] = pc[d] /\ avail'[d] = avail[d] /\ safe'[d] = safe[d]
        /\ target'[d] = target[d] /\ answer'[d] = answer[d] /\ err'[d] = err[d]

\* What a step owes the run that takes it.
StaysSafe(c) ==
    /\ IsSource(c) =>
        /\ pc'[c] \in {"prepare", "plan"} => target'[c] \in Agent /\ Fits(c, target[c])'
        /\ err'[c] # "plan"
    /\ err'[c] = "none" => Prompt(c)'

\* Only the run that steps has to be looked at.
LEMMA OneRun ==
    ASSUME SafeInv, NEW c \in Coord, OthersSame(c), Shape', StaysSafe(c) PROVE SafeInv'
<1>1. SelectionHolds'
  <2>1. ASSUME NEW d \in Coord, IsSource(d)
        PROVE  /\ pc'[d] \in {"prepare", "plan"} => target'[d] \in Agent /\ Fits(d, target[d])'
               /\ err'[d] # "plan"
    BY <2>1 DEF SafeInv, SelectionHolds, StaysSafe, OthersSame, Fits, Capacity
  <2>2. QED
    BY <2>1 DEF SelectionHolds, IsSource
<1>2. NoErrorNoLeak'
  <2>1. ASSUME NEW d \in Coord, err'[d] = "none" PROVE Prompt(d)'
    BY <2>1 DEF SafeInv, NoErrorNoLeak, StaysSafe, OthersSame, Prompt, IsSource
  <2>2. QED
    BY <2>1 DEF NoErrorNoLeak
<1>3. QED
  BY <1>1, <1>2 DEF SafeInv

-----------------------------------------------------------------------------
(* One lemma for the types, one for the run that steps                      *)

\* A step of one coordinator or of a handler that serves it.
StepOf(c) == CoordStep(c) \/ AgentStep(c) \/ Kill(c)

\* Every step of a run keeps the types and the other runs.
LEMMA StepShape == ASSUME SafeInv, NEW c \in Coord, StepOf(c) PROVE Shape' /\ OthersSame(c)
<1> USE DEF Shape, Handler, OthersSame, Go, agentVars, handlerVars, statusVars
<1>0. Shape /\ Required(c) \in Int
  BY RequiredPositive DEF SafeInv
<1>1. ASSUME NEW a \in Agent, Discover(c, a) PROVE Shape' /\ OthersSame(c)
  <2>1. Slots[a] - used[a] \in Int
    BY <1>0, CellAssumption
  <2>2. avail' \in [Coord -> [Agent -> Int]] /\ safe' \in [Coord -> [Agent -> {"yes", "no"}]]
    BY <1>0, <1>1, <2>1 DEF Discover
  <2>3. \A d \in Coord \ {c} : avail'[d] = avail[d] /\ safe'[d] = safe[d]
    BY <1>0, <1>1 DEF Discover
  <2>4. QED
    BY <1>0, <1>1, <2>2, <2>3 DEF Discover
<1>2. ASSUME NEW a \in Agent, SelectPrepare(c, a) PROVE Shape' /\ OthersSame(c)
  BY <1>0, <1>2 DEF SelectPrepare
<1>3. ASSUME NEW a \in Agent, Plan(c, a) PROVE Shape' /\ OthersSame(c)
  BY <1>0, <1>3 DEF Plan
<1>4. CASE DiscoverError(c)
  BY <1>0, <1>4 DEF DiscoverError, Fail
<1>5. CASE SelectRefused(c)
  BY <1>0, <1>5 DEF SelectRefused, Fail
<1>6. CASE PlanRefused(c)
  BY <1>0, <1>6 DEF PlanRefused, Fail
<1>7. CASE InspectError(c)
  BY <1>0, <1>7 DEF InspectError, Fail
<1>8. CASE Prepared(c)
  BY <1>0, <1>8 DEF Prepared
<1>9. CASE PrepareFailed(c)
  BY <1>0, <1>9 DEF PrepareFailed, Fail
<1>10. CASE ShardSucceeded(c)
  BY <1>0, <1>10 DEF ShardSucceeded, AfterShard
<1>11. CASE ShardFailed(c)
  BY <1>0, <1>11 DEF ShardFailed, Fail, AfterShard
<1>12. CASE SendRelease(c)
  BY <1>0, <1>12 DEF SendRelease
<1>13. CASE Released(c)
  BY <1>0, <1>13 DEF Released
<1>14. CASE ReleaseFailed(c)
  BY <1>0, <1>14 DEF ReleaseFailed, Fail
<1>15. CASE Kill(c)
  BY <1>0, <1>15 DEF Kill, Fail
<1>16. CASE PrepareStart(c)
  BY <1>0, <1>16 DEF PrepareStart, Reply
<1>17. CASE PrepareDone(c)
  BY <1>0, <1>17 DEF PrepareDone, Reply
<1>18. CASE PrepareUnwinds(c)
  BY <1>0, <1>18 DEF PrepareUnwinds, Reply
<1>19. CASE PrepareStuck(c)
  BY <1>0, <1>19 DEF PrepareStuck, Reply
<1>20. CASE PrepareGone(c)
  BY <1>0, <1>20 DEF PrepareGone, Reply
<1>21. CASE Reject(c)
  BY <1>0, <1>21 DEF Reject, Reply
<1>22. CASE ReleaseStart(c)
  BY <1>0, <1>22 DEF ReleaseStart, Reply
<1>23. CASE ReleaseDone(c)
  BY <1>0, <1>23 DEF ReleaseDone, Reply
<1>24. CASE ReleaseStuck(c)
  BY <1>0, <1>24 DEF ReleaseStuck, Reply
<1>25. CASE Admit(c)
  <2>0. \A t \in Agent : used[t] + Required(c) \in Int
    BY <1>0
  <2>1. used' \in [Agent -> Int]
    BY <1>0, <1>25, <2>0 DEF Admit
  <2>2. QED
    BY <1>0, <1>25, <2>1 DEF Admit
<1>26. ASSUME NEW value \in {"ok", "error"}, ShardDone(c, value) PROVE Shape' /\ OthersSame(c)
  <2>0. \A t \in Agent : used[t] - Required(c) \in Int
    BY <1>0
  <2>1. used' \in [Agent -> Int]
    BY <1>0, <1>26, <2>0 DEF ShardDone
  <2>2. answer' \in [Coord -> {"none", "ok", "error"}] /\ \A d \in Coord \ {c} : answer'[d] = answer[d]
    BY <1>0, <1>26 DEF ShardDone, Reply
  <2>3. QED
    BY <1>0, <1>26, <2>1, <2>2 DEF ShardDone
<1>27. CASE ShardGone(c)
  BY <1>0, <1>27 DEF ShardGone
<1>28. QED
  BY <1>1, <1>2, <1>3, <1>4, <1>5, <1>6, <1>7, <1>8, <1>9, <1>10, <1>11, <1>12, <1>13, <1>14,
     <1>15, <1>16, <1>17, <1>18, <1>19, <1>20, <1>21, <1>22, <1>23, <1>24, <1>25, <1>26, <1>27
     DEF StepOf, CoordStep, AgentStep

\* The run that steps keeps its agent and stays prompt.
LEMMA StepLocal ==
    ASSUME SafeInv, NEW c \in Coord, StepOf(c)
    PROVE  StaysSafe(c)
<1> USE DEF StaysSafe, Shape, Handler, Go, Prompt, IsSource, agentVars, handlerVars, statusVars
<1>0. /\ Shape
      /\ IsSource(c) => /\ pc[c] \in {"prepare", "plan"} => target[c] \in Agent /\ Fits(c, target[c])
                        /\ err[c] # "plan"
      /\ err[c] = "none" => Prompt(c)
  BY DEF SafeInv, SelectionHolds, NoErrorNoLeak
<1>1. ASSUME NEW a \in Agent, Discover(c, a) PROVE StaysSafe(c)
  BY <1>0, <1>1, CellAssumption DEF Discover
<1>2. ASSUME NEW a \in Agent, SelectPrepare(c, a) PROVE StaysSafe(c)
  BY <1>0, <1>2 DEF SelectPrepare, Fits, Capacity
<1>3. ASSUME NEW a \in Agent, Plan(c, a) PROVE StaysSafe(c)
  BY <1>0, <1>3 DEF Plan
<1>4. CASE DiscoverError(c)
  BY <1>0, <1>4 DEF DiscoverError, Fail, Fits, Capacity
<1>5. CASE SelectRefused(c)
  BY <1>0, <1>5 DEF SelectRefused, Fail, Fits, Capacity
<1>6. CASE PlanRefused(c)
  <2>1. ~IsSource(c)
    <3>1. SUFFICES ASSUME IsSource(c) PROVE FALSE
      OBVIOUS
    <3>2. target[c] \in Agent /\ safe[c][target[c]] = "yes" /\ Capacity(c, target[c]) >= Required(c)
      BY <1>0, <1>6, <3>1 DEF PlanRefused, Fits
    <3>3. Capacity(c, target[c]) > 0
      <4>1. avail[c][target[c]] \in Int /\ MaxInFlight[c] \in Int
        <5>1. avail[c] \in [Agent -> Int]
          BY <1>0
        <5>2. avail[c][target[c]] \in Int
          BY <3>2, <5>1
        <5>3. MaxInFlight \in [Coord -> Nat \ {0}]
          BY CellAssumption
        <5>4. QED
          BY <5>2, <5>3
      <4>2. Capacity(c, target[c]) \in Int
        BY <4>1 DEF Capacity, Least
      <4>3. Required(c) \in Int /\ Required(c) > 0
        BY RequiredPositive
      <4>4. QED
        BY <3>2, <4>2, <4>3
    <3>4. target[c] \in Roomy(c)
      BY <3>1, <3>2, <3>3 DEF Roomy, Candidates
    <3>5. QED
      BY <1>6, <3>4 DEF PlanRefused
  <2>2. QED
    BY <1>0, <1>6, <2>1 DEF PlanRefused, Fail
<1>7. CASE InspectError(c)
  BY <1>0, <1>7 DEF InspectError, Fail, Fits, Capacity
<1>8. CASE Prepared(c)
  BY <1>0, <1>8 DEF Prepared, Fits, Capacity
<1>9. CASE PrepareFailed(c)
  BY <1>0, <1>9 DEF PrepareFailed, Fail, Fits, Capacity
<1>10. CASE ShardSucceeded(c)
  BY <1>0, <1>10 DEF ShardSucceeded, AfterShard, Fits, Capacity
<1>11. CASE ShardFailed(c)
  BY <1>0, <1>11 DEF ShardFailed, Fail, AfterShard, Fits, Capacity
<1>12. CASE SendRelease(c)
  BY <1>0, <1>12 DEF SendRelease, Fits, Capacity
<1>13. CASE Released(c)
  BY <1>0, <1>13 DEF Released, Fits, Capacity
<1>14. CASE ReleaseFailed(c)
  BY <1>0, <1>14 DEF ReleaseFailed, Fail, Fits, Capacity
<1>15. CASE Kill(c)
  BY <1>0, <1>15 DEF Kill, Fail, Fits, Capacity
<1>16. CASE PrepareStart(c)
  BY <1>0, <1>16 DEF PrepareStart, Reply, Fits, Capacity
<1>17. CASE PrepareDone(c)
  BY <1>0, <1>17 DEF PrepareDone, Reply, Fits, Capacity
<1>18. CASE PrepareUnwinds(c)
  BY <1>0, <1>18 DEF PrepareUnwinds, Reply, Fits, Capacity
<1>19. CASE PrepareStuck(c)
  BY <1>0, <1>19 DEF PrepareStuck, Reply, Fits, Capacity
<1>20. CASE PrepareGone(c)
  BY <1>0, <1>20 DEF PrepareGone, Reply, Fits, Capacity
<1>21. CASE Reject(c)
  BY <1>0, <1>21 DEF Reject, Reply, Fits, Capacity
<1>22. CASE ReleaseStart(c)
  BY <1>0, <1>22 DEF ReleaseStart, Reply, Fits, Capacity
<1>23. CASE ReleaseDone(c)
  BY <1>0, <1>23 DEF ReleaseDone, Reply, Fits, Capacity
<1>24. CASE ReleaseStuck(c)
  BY <1>0, <1>24 DEF ReleaseStuck, Reply, Fits, Capacity
<1>25. CASE Admit(c)
  BY <1>0, <1>25 DEF Admit, Fits, Capacity
<1>26. ASSUME NEW value \in {"ok", "error"}, ShardDone(c, value) PROVE StaysSafe(c)
  BY <1>0, <1>26 DEF ShardDone, Reply, Fits, Capacity
<1>27. CASE ShardGone(c)
  BY <1>0, <1>27 DEF ShardGone, Fits, Capacity
<1> HIDE DEF StaysSafe, Shape, Handler, Go, Prompt, IsSource, agentVars, handlerVars, statusVars
<1>28. QED
  BY <1>1, <1>2, <1>3, <1>4, <1>5, <1>6, <1>7, <1>8, <1>9, <1>10, <1>11, <1>12, <1>13, <1>14,
     <1>15, <1>16, <1>17, <1>18, <1>19, <1>20, <1>21, <1>22, <1>23, <1>24, <1>25, <1>26, <1>27
     DEF StepOf, CoordStep, AgentStep

-----------------------------------------------------------------------------
(* Theorems                                                                 *)

\* The invariant holds in every reachable state.
LEMMA SafeInvAlways == Spec => []SafeInv
<1>1. Init => SafeInv
  BY CellAssumption DEF Init, SafeInv, Shape, Handler, SelectionHolds, NoErrorNoLeak, Prompt
<1>2. SafeInv /\ [Next]_vars => SafeInv'
  <2>1. SUFFICES ASSUME SafeInv, [Next]_vars PROVE SafeInv'
    OBVIOUS
  <2>2. ASSUME NEW c \in Coord, StepOf(c) PROVE SafeInv'
    <3>1. Shape' /\ OthersSame(c)
      BY <2>1, <2>2, StepShape
    <3>2. StaysSafe(c)
      BY <2>1, <2>2, StepLocal
    <3>3. QED
      BY <2>1, <3>1, <3>2, OneRun
  <2>3. ASSUME UNCHANGED <<used, handlerVars, pc, statusVars, target, answer, err>> PROVE SafeInv'
    BY <2>1, <2>3 DEF SafeInv, Shape, SelectionHolds, NoErrorNoLeak, Prompt, Fits, Capacity, IsSource,
       handlerVars, statusVars
  <2>4. QED
    BY <2>1, <2>2, <2>3 DEF Next, StepOf, Over, vars, agentVars
<1>3. QED
  BY <1>1, <1>2, PTL DEF Spec

\* For any cell and any runs: the planner never refuses a source run whose
\* preparation selectPrepareEndpoint has allowed.
THEOREM PlanFitsSelectionAlways == Spec => []PlanFitsSelection
<1>1. SafeInv => PlanFitsSelection
  BY DEF SafeInv, SelectionHolds, PlanFitsSelection
<1>2. QED
  BY <1>1, SafeInvAlways, PTL

\* For any cell and any runs: a coordinator that exits without an error leaves
\* nothing prepared, whatever calls were lost or answered late.
THEOREM NoHiddenLeakAlways == Spec => []NoHiddenLeak
<1>1. SafeInv => NoHiddenLeak
  BY DEF SafeInv, NoErrorNoLeak, Prompt, NoHiddenLeak
<1>2. QED
  BY <1>1, SafeInvAlways, PTL

-----------------------------------------------------------------------------
(* Sums of slots                                                            *)

\* Of finitely many subsets of a finite set, one has none of the others below it.
LEMMA LeastSet ==
    ASSUME NEW T, IsFiniteSet(T), NEW Bad \in SUBSET SUBSET T, Bad # {}
    PROVE  \E s \in Bad : \A u \in Bad : u \subseteq s => u = s
<1> DEFINE R == StrictSubsetOrdering(T)
<1>1. IsWellFoundedOn(R, SUBSET T)
  BY FS_StrictSubsetOrderingWellFounded, FS_FiniteSubsetsOfFinite
<1>2. PICK s \in Bad : \A u \in Bad : ~(<<u, s>> \in R)
  <2> HIDE DEF R
  <2>1. QED
    BY <1>1, WFMin
<1>3. ASSUME NEW u \in Bad, u \subseteq s, u # s PROVE FALSE
  BY <1>2, <1>3 DEF StrictSubsetOrdering
<1>4. QED
  BY <1>3

\* The slots of a set of runs, as things that can be counted: slot i of run c.
Units(S) == {p \in Coord \X Nat : p[1] \in S /\ p[2] \in 1 .. Required(p[1])}

\* One more run adds the slots it needs.
LEMMA UnitsAdd ==
    ASSUME NEW S \in SUBSET Coord, NEW x \in Coord \ S, IsFiniteSet(Units(S))
    PROVE  /\ IsFiniteSet(Units(S \cup {x}))
           /\ Cardinality(Units(S \cup {x})) = Cardinality(Units(S)) + Required(x)
<1> DEFINE own == {x} \X (1 .. Required(x))
<1>1. Required(x) \in Nat
  BY RequiredPositive
<1>2. IsFiniteSet({x}) /\ Cardinality({x}) = 1
  BY FS_Singleton
<1>3. IsFiniteSet(1 .. Required(x)) /\ Cardinality(1 .. Required(x)) = Required(x)
  BY <1>1, FS_Interval
<1>4. IsFiniteSet(own) /\ Cardinality(own) = 1 * Required(x)
  <2>1. /\ IsFiniteSet({x} \X (1 .. Required(x)))
        /\ Cardinality({x} \X (1 .. Required(x))) = Cardinality({x}) * Cardinality(1 .. Required(x))
    BY <1>2, <1>3, FS_Product
  <2>2. QED
    BY <1>2, <1>3, <2>1
<1>5. Units(S \cup {x}) = Units(S) \cup own
  BY <1>1 DEF Units
<1>6. Units(S) \cap own = {}
  BY DEF Units
<1>7. Cardinality(Units(S)) \in Nat
  BY FS_CardinalityType
<1> HIDE DEF own
<1>8. /\ IsFiniteSet(Units(S) \cup own)
      /\ Cardinality(Units(S) \cup own) = Cardinality(Units(S)) + Cardinality(own) - Cardinality({})
  BY <1>4, <1>6, FS_Union
<1>9. Cardinality({}) = 0 /\ Cardinality(own) = Required(x)
  BY <1>1, <1>4, FS_EmptySet
<1>10. Cardinality(Units(S) \cup own) = Cardinality(Units(S)) + Required(x)
  BY <1>1, <1>7, <1>8, <1>9
<1>11. QED
  BY <1>5, <1>8, <1>10

\* Runs are finitely many, and so are their slots.
LEMMA UnitsFinite ==
    ASSUME NEW S \in SUBSET Coord
    PROVE  IsFiniteSet(Units(S)) /\ Cardinality(Units(S)) \in Nat
<1> DEFINE Bad == {s \in SUBSET Coord : ~IsFiniteSet(Units(s))}
<1>1. SUFFICES ASSUME Bad # {} PROVE FALSE
  <2>1. CASE Bad = {}
    <3>1. IsFiniteSet(Units(S))
      BY <2>1
    <3>2. QED
      BY <3>1, FS_CardinalityType
  <2>2. QED
    BY <2>1
<1>2. PICK s \in Bad : \A u \in Bad : u \subseteq s => u = s
  <2>1. Bad \in SUBSET SUBSET Coord
    OBVIOUS
  <2> HIDE DEF Bad
  <2>2. QED
    BY <1>1, <2>1, LeastSet, CellAssumption
<1>3. CASE s = {}
  <2>1. Units(s) = {}
    BY <1>3 DEF Units
  <2>2. QED
    BY <1>2, <2>1, FS_EmptySet
<1>4. CASE s # {}
  <2>1. PICK x \in s : TRUE
    BY <1>4
  <2>2. s \ {x} \notin Bad /\ s \ {x} \in SUBSET Coord /\ x \in Coord
    BY <1>2, <2>1
  <2>3. IsFiniteSet(Units(s \ {x}))
    BY <2>2
  <2>4. IsFiniteSet(Units((s \ {x}) \cup {x}))
    BY <2>2, <2>3, UnitsAdd
  <2>5. (s \ {x}) \cup {x} = s
    BY <2>1
  <2>6. QED
    BY <1>2, <2>4, <2>5
<1>5. QED
  BY <1>3, <1>4

\* The recursive function that a sum over a set of runs is defined with.
IsSum(g, S) ==
    g = [s \in SUBSET S |-> IF s = {} THEN 0
                            ELSE Required(CHOOSE x \in s : TRUE) + g[s \ {CHOOSE x \in s : TRUE}]]

\* The sum of what runs need is the number of their slots: counting them solves the
\* recursion, and it has no other solution.
LEMMA SumIsUnits ==
    ASSUME NEW S \in SUBSET Coord
    PROVE  MapThenSumSet(Required, S) = Cardinality(Units(S))
<1> DEFINE count == [s \in SUBSET S |-> Cardinality(Units(s))]
<1>1. MapThenSumSet(Required, S) = (CHOOSE g : IsSum(g, S))[S]
  BY DEF MapThenSumSet, MapThenFoldSet, IsSum
<1>2. IsSum(count, S)
  <2>1. ASSUME NEW s \in SUBSET S
        PROVE  count[s] = IF s = {} THEN 0 ELSE Required(CHOOSE x \in s : TRUE) + count[s \ {CHOOSE x \in s : TRUE}]
    <3>1. CASE s = {}
      <4>1. Units(s) = {}
        BY <3>1 DEF Units
      <4>2. QED
        BY <3>1, <4>1, FS_EmptySet
    <3>2. CASE s # {}
      <4> DEFINE x == CHOOSE x \in s : TRUE
      <4>1. x \in s
        BY <3>2
      <4> HIDE DEF x
      <4>2. s \ {x} \in SUBSET Coord /\ x \in Coord \ (s \ {x}) /\ (s \ {x}) \cup {x} = s /\ s \ {x} \in SUBSET S
        BY <4>1
      <4>3. IsFiniteSet(Units(s \ {x})) /\ Cardinality(Units(s \ {x})) \in Nat
        BY <4>2, UnitsFinite
      <4>4. Cardinality(Units((s \ {x}) \cup {x})) = Cardinality(Units(s \ {x})) + Required(x)
        BY <4>2, <4>3, UnitsAdd
      <4>5. Required(x) \in Nat
        BY <4>2, RequiredPositive
      <4>6. count[s] = Required(x) + count[s \ {x}]
        BY <4>2, <4>3, <4>4, <4>5
      <4>7. QED
        BY <3>2, <4>6 DEF x
    <3>3. QED
      BY <3>1, <3>2
  <2>2. QED
    BY <2>1 DEF IsSum
<1>3. ASSUME NEW g, IsSum(g, S) PROVE g[S] = Cardinality(Units(S))
  <2> DEFINE Bad == {s \in SUBSET S : g[s] # count[s]}
  <2> HIDE DEF count
  <2>1. SUFFICES ASSUME Bad # {} PROVE FALSE
    BY DEF count
  <2>2. IsFiniteSet(S)
    BY FS_Subset, CellAssumption
  <2>3. PICK s \in Bad : \A u \in Bad : u \subseteq s => u = s
    <3>1. Bad \in SUBSET SUBSET S
      OBVIOUS
    <3> HIDE DEF Bad
    <3>2. QED
      BY <2>1, <2>2, <3>1, LeastSet
  <2>4. \A u \in SUBSET S : IF u = {} THEN g[u] = 0 /\ count[u] = 0
             ELSE /\ g[u] = Required(CHOOSE x \in u : TRUE) + g[u \ {CHOOSE x \in u : TRUE}]
                  /\ count[u] = Required(CHOOSE x \in u : TRUE) + count[u \ {CHOOSE x \in u : TRUE}]
    BY <1>2, <1>3 DEF IsSum
  <2>5. s # {}
    BY <2>3, <2>4
  <2> DEFINE x == CHOOSE x \in s : TRUE
  <2>6. x \in s
    BY <2>5
  <2>7. g[s] = Required(x) + g[s \ {x}] /\ count[s] = Required(x) + count[s \ {x}]
    BY <2>3, <2>4, <2>5
  <2> HIDE DEF x
  <2>8. s \ {x} \notin Bad /\ s \ {x} \in SUBSET S
    BY <2>3, <2>6
  <2>9. QED
    BY <2>3, <2>7, <2>8
<1>4. IsSum(CHOOSE g : IsSum(g, S), S)
  BY <1>2
<1>5. QED
  BY <1>1, <1>3, <1>4

-----------------------------------------------------------------------------
(* The slots an agent has given out                                         *)

\* Runs with a shard on the agent.
Held(a) == {c \in Coord : shard[c] = "running" /\ target[c] = a}

\* What the agent counts is what they need, and it has that much.
Kept(a) == used[a] = Cardinality(Units(Held(a))) /\ used[a] <= Slots[a]

\* A shard is sent after the plan, to an agent that stays the run's.
Leased(c) ==
    /\ pc[c] \in {"discover", "select", "prepare", "plan"} => shard[c] = "none"
    /\ shard[c] \in {"queued", "running"} => target[c] \in Agent

\* What agents are, and what coordinators know of them.
Known ==
    /\ pressure \in [Agent -> {"ok", "critical"}]
    /\ seen \in [Coord -> SUBSET Agent]
    /\ avail \in [Coord -> [Agent -> Nat]]

SlotInv ==
    /\ SafeInv /\ Known
    /\ \A c \in Coord : Leased(c)
    /\ \A a \in Agent : Kept(a)

\* A step of one run that neither starts nor ends a shard.
Quiet(c) ==
    /\ used' = used
    /\ \A d \in Coord \ {c} : shard'[d] = shard[d]
    /\ shard'[c] = "running" <=> shard[c] = "running"
    /\ shard[c] = "running" => target'[c] = target[c]

LEMMA QuietKeeps ==
    ASSUME SlotInv, SafeInv', Known', NEW c \in Coord, OthersSame(c), Quiet(c), Leased(c)'
    PROVE  SlotInv'
<1>1. ASSUME NEW d \in Coord PROVE Leased(d)'
  <2>1. CASE d = c
    BY <2>1
  <2>2. CASE d # c
    BY <2>2 DEF SlotInv, Leased, OthersSame, Quiet
  <2>3. QED
    BY <2>1, <2>2
<1>2. \A a \in Agent : Held(a)' = Held(a)
  BY DEF Held, OthersSame, Quiet
<1>3. \A a \in Agent : Kept(a)'
  BY <1>2 DEF SlotInv, Kept, Quiet, Units
<1>4. QED
  BY <1>1, <1>3 DEF SlotInv

\* A status is taken from an agent that has not given out more than it has.
LEMMA DiscoverSlots ==
    ASSUME SlotInv, SafeInv', NEW c \in Coord, OthersSame(c), NEW a \in Agent, Discover(c, a) PROVE SlotInv'
<1>0. /\ used \in [Agent -> Int] /\ seen \in [Coord -> SUBSET Agent]
      /\ avail \in [Coord -> [Agent -> Nat]] /\ pc \in [Coord -> {"discover", "select", "prepare", "plan", "shard", "release", "exit"}]
  BY DEF SlotInv, SafeInv, Shape, Known
<1>1. Slots[a] - used[a] \in Nat
  BY <1>0, CellAssumption DEF SlotInv, Kept
<1>2. seen' \in [Coord -> SUBSET Agent]
  BY <1>0 DEF Discover
<1>3. avail' \in [Coord -> [Agent -> Nat]]
  BY <1>0, <1>1 DEF Discover
<1>4. UNCHANGED <<pressure, used, shard, target>>
  BY DEF Discover, agentVars, handlerVars
<1>5. Known' /\ Quiet(c)
  BY <1>2, <1>3, <1>4 DEF SlotInv, Known, Quiet
<1>6. pc[c] = "discover" /\ pc'[c] # "shard"
  BY <1>0 DEF Discover, Go
<1>7. Leased(c)'
  BY <1>4, <1>6 DEF SlotInv, Leased
<1>8. QED
  BY <1>5, <1>7, QuietKeeps

\* Every other step but the start and the end of a shard.
LEMMA OtherSlots ==
    ASSUME SlotInv, SafeInv', NEW c \in Coord, OthersSame(c),
           \/ \E a \in Agent : SelectPrepare(c, a) \/ Plan(c, a)
           \/ DiscoverError(c) \/ SelectRefused(c) \/ PlanRefused(c) \/ InspectError(c)
           \/ Prepared(c) \/ PrepareFailed(c) \/ ShardSucceeded(c) \/ ShardFailed(c)
           \/ SendRelease(c) \/ Released(c) \/ ReleaseFailed(c) \/ Kill(c)
           \/ PrepareStart(c) \/ PrepareDone(c) \/ PrepareUnwinds(c) \/ PrepareStuck(c) \/ PrepareGone(c)
           \/ Reject(c) \/ ShardGone(c) \/ ReleaseStart(c) \/ ReleaseDone(c) \/ ReleaseStuck(c)
    PROVE  SlotInv'
<1>0. /\ pc \in [Coord -> {"discover", "select", "prepare", "plan", "shard", "release", "exit"}]
      /\ target \in [Coord -> Agent \cup {0}] /\ shard \in [Coord -> Handler]
      /\ Leased(c)
  BY DEF SlotInv, SafeInv, Shape
<1>1. UNCHANGED <<pressure, used, seen, avail>>
  BY DEF SelectPrepare, Plan, DiscoverError, SelectRefused, PlanRefused, InspectError, Prepared,
     PrepareFailed, ShardSucceeded, ShardFailed, SendRelease, Released, ReleaseFailed, Kill, PrepareStart,
     PrepareDone, PrepareUnwinds, PrepareStuck, PrepareGone, Reject, ShardGone, ReleaseStart, ReleaseDone,
     ReleaseStuck, agentVars, statusVars
<1>2. Known'
  BY <1>1 DEF SlotInv, Known
<1>3. CASE \E a \in Agent : SelectPrepare(c, a) \/ Plan(c, a)
  <2>1. PICK a \in Agent : SelectPrepare(c, a) \/ Plan(c, a)
    BY <1>3
  <2>2. /\ pc[c] \in {"select", "plan"} /\ target'[c] = a
        /\ \A d \in Coord \ {c} : shard'[d] = shard[d]
    BY <1>0, <2>1 DEF SelectPrepare, Plan
  <2>3. \/ pc'[c] = "prepare" /\ shard' = shard
        \/ pc'[c] = "shard" /\ shard'[c] = "queued"
    <3>1. CASE SelectPrepare(c, a)
      BY <1>0, <3>1 DEF SelectPrepare, Go
    <3>2. CASE Plan(c, a)
      BY <1>0, <3>2 DEF Plan, Go
    <3>3. QED
      BY <2>1, <3>1, <3>2
  <2>4. shard[c] = "none"
    BY <1>0, <2>2 DEF Leased
  <2>5. Quiet(c) /\ Leased(c)'
    BY <1>1, <2>2, <2>3, <2>4 DEF Quiet, Leased
  <2>6. QED
    BY <1>2, <2>5, QuietKeeps
<1>4. CASE Reject(c) \/ ShardGone(c)
  <2>1. shard[c] = "queued" /\ shard'[c] = "done" /\ UNCHANGED <<pc, target>>
        /\ \A d \in Coord \ {c} : shard'[d] = shard[d]
    BY <1>0, <1>4 DEF Reject, ShardGone
  <2>2. Quiet(c) /\ Leased(c)'
    BY <1>0, <1>1, <2>1 DEF Quiet, Leased
  <2>3. QED
    BY <1>2, <2>2, QuietKeeps
<1>5. CASE \/ DiscoverError(c) \/ SelectRefused(c) \/ PlanRefused(c) \/ InspectError(c)
           \/ Prepared(c) \/ PrepareFailed(c) \/ ShardSucceeded(c) \/ ShardFailed(c)
           \/ SendRelease(c) \/ Released(c) \/ ReleaseFailed(c) \/ Kill(c)
           \/ PrepareStart(c) \/ PrepareDone(c) \/ PrepareUnwinds(c) \/ PrepareStuck(c) \/ PrepareGone(c)
           \/ ReleaseStart(c) \/ ReleaseDone(c) \/ ReleaseStuck(c)
  <2>1. UNCHANGED <<shard, target>>
    BY <1>5 DEF DiscoverError, SelectRefused, PlanRefused, InspectError, Prepared,
       PrepareFailed, ShardSucceeded, ShardFailed, SendRelease, Released, ReleaseFailed, Kill, PrepareStart,
       PrepareDone, PrepareUnwinds, PrepareStuck, PrepareGone, ReleaseStart, ReleaseDone,
       ReleaseStuck, handlerVars
  <2>2. \/ pc' = pc
        \/ pc'[c] \in {"release", "exit"}
        \/ pc[c] = "prepare" /\ pc'[c] = "plan"
    BY <1>0, <1>5 DEF DiscoverError, SelectRefused, PlanRefused, InspectError, Prepared,
       PrepareFailed, ShardSucceeded, ShardFailed, SendRelease, Released, ReleaseFailed, Kill, PrepareStart,
       PrepareDone, PrepareUnwinds, PrepareStuck, PrepareGone, ReleaseStart, ReleaseDone,
       ReleaseStuck, Go, AfterShard
  <2>3. Quiet(c) /\ Leased(c)'
    BY <1>0, <1>1, <2>1, <2>2 DEF Quiet, Leased
  <2>4. QED
    BY <1>2, <2>3, QuietKeeps
<1>6. QED
  BY <1>3, <1>4, <1>5

\* A run's slots are added when its shard starts ...
LEMMA AdmitSlots ==
    ASSUME SlotInv, SafeInv', NEW c \in Coord, OthersSame(c), Admit(c) PROVE SlotInv'
<1>0. /\ used \in [Agent -> Int] /\ shard \in [Coord -> Handler]
      /\ shard[c] = "queued" /\ Required(c) \in Nat
      /\ UNCHANGED <<pressure, seen, avail, pc, target>>
  BY RequiredPositive DEF SlotInv, SafeInv, Shape, Admit, statusVars
<1>1. PICK a \in Agent : a = target[c]
  BY <1>0 DEF SlotInv, Leased
<1>2. /\ used'[a] = used[a] + Required(c) /\ used'[a] <= Slots[a]
      /\ \A b \in Agent \ {a} : used'[b] = used[b]
  BY <1>0, <1>1 DEF Admit
<1>3. shard'[c] = "running" /\ \A d \in Coord \ {c} : shard'[d] = shard[d]
  BY <1>0 DEF Admit
<1>4. /\ c \notin Held(a) /\ Held(a)' = Held(a) \cup {c}
      /\ \A b \in Agent \ {a} : Held(b)' = Held(b)
  BY <1>0, <1>1, <1>3 DEF Held
<1>5. Held(a) \in SUBSET Coord
  BY DEF Held
<1>6. Cardinality(Units(Held(a) \cup {c})) = Cardinality(Units(Held(a))) + Required(c)
  BY <1>4, <1>5, UnitsFinite, UnitsAdd
<1>7. ASSUME NEW b \in Agent PROVE Kept(b)'
  <2>1. Units(Held(b))' = Units(Held(b)')
    BY DEF Units
  <2>2. CASE b = a
    BY <1>2, <1>4, <1>6, <2>1, <2>2 DEF SlotInv, Kept
  <2>3. CASE b # a
    BY <1>2, <1>4, <2>1, <2>3 DEF SlotInv, Kept
  <2>4. QED
    BY <2>2, <2>3
<1>8. \A d \in Coord : Leased(d)'
  BY <1>0, <1>1, <1>3 DEF SlotInv, Leased
<1>9. Known'
  BY <1>0 DEF SlotInv, Known
<1>10. QED
  BY <1>7, <1>8, <1>9 DEF SlotInv

\* ... and taken off when it ends, by whoever is still waiting for it.
LEMMA ShardDoneSlots ==
    ASSUME SlotInv, SafeInv', NEW c \in Coord, OthersSame(c),
           NEW value \in {"ok", "error"}, ShardDone(c, value) PROVE SlotInv'
<1>0. /\ used \in [Agent -> Int] /\ shard \in [Coord -> Handler]
      /\ shard[c] = "running" /\ Required(c) \in Nat
      /\ UNCHANGED <<pressure, seen, avail, pc, target>>
  BY RequiredPositive DEF SlotInv, SafeInv, Shape, ShardDone, statusVars
<1>1. PICK a \in Agent : a = target[c]
  BY <1>0 DEF SlotInv, Leased
<1>2. /\ used'[a] = used[a] - Required(c)
      /\ \A b \in Agent \ {a} : used'[b] = used[b]
  BY <1>0, <1>1 DEF ShardDone
<1>3. shard'[c] = "done" /\ \A d \in Coord \ {c} : shard'[d] = shard[d]
  BY <1>0 DEF ShardDone
<1>4. /\ c \notin Held(a)' /\ Held(a) = Held(a)' \cup {c}
      /\ \A b \in Agent \ {a} : Held(b)' = Held(b)
  BY <1>0, <1>1, <1>3 DEF Held
<1>5. Held(a)' \in SUBSET Coord
  BY DEF Held
<1>6. /\ Cardinality(Units(Held(a)' \cup {c})) = Cardinality(Units(Held(a)')) + Required(c)
      /\ Cardinality(Units(Held(a)')) \in Nat
  <2> DEFINE rest == Held(a)'
  <2>1. rest \in SUBSET Coord /\ c \in Coord \ rest
    BY <1>4, <1>5
  <2> HIDE DEF rest
  <2>2. Cardinality(Units(rest \cup {c})) = Cardinality(Units(rest)) + Required(c) /\ Cardinality(Units(rest)) \in Nat
    BY <2>1, UnitsFinite, UnitsAdd
  <2>3. QED
    BY <2>2 DEF rest
<1>7. used[a] = Cardinality(Units(Held(a)' \cup {c})) /\ used[a] <= Slots[a] /\ Slots[a] \in Nat
  BY <1>4, CellAssumption DEF SlotInv, Kept
<1>8. ASSUME NEW b \in Agent PROVE Kept(b)'
  <2>1. Units(Held(b))' = Units(Held(b)')
    BY DEF Units
  <2>2. CASE b = a
    <3>1. used'[a] = Cardinality(Units(Held(a)')) /\ used'[a] <= Slots[a]
      BY <1>0, <1>2, <1>6, <1>7
    <3>2. QED
      BY <2>1, <2>2, <3>1 DEF Kept
  <2>3. CASE b # a
    BY <1>2, <1>4, <2>1, <2>3 DEF SlotInv, Kept
  <2>4. QED
    BY <2>2, <2>3
<1>9. \A d \in Coord : Leased(d)'
  BY <1>0, <1>3 DEF SlotInv, Leased
<1>10. Known'
  BY <1>0 DEF SlotInv, Known
<1>11. QED
  BY <1>8, <1>9, <1>10 DEF SlotInv

LEMMA InitSlots == Init => SlotInv
<1> SUFFICES ASSUME Init PROVE SlotInv
  OBVIOUS
<1>1. SafeInv
  BY CellAssumption DEF Init, SafeInv, Shape, Handler, SelectionHolds, NoErrorNoLeak, Prompt
<1>2. Known
  BY DEF Init, Known
<1>3. \A c \in Coord : Leased(c)
  BY DEF Init, Leased
<1>4. ASSUME NEW a \in Agent PROVE Kept(a)
  <2>1. Units(Held(a)) = {}
    BY DEF Init, Held, Units
  <2>2. Slots[a] \in Nat
    BY CellAssumption
  <2>3. QED
    BY <2>1, <2>2, FS_EmptySet DEF Init, Kept
<1>5. QED
  BY <1>1, <1>2, <1>3, <1>4 DEF SlotInv

\* An agent counts the slots of the shards it runs, abandoned ones included.
THEOREM SlotInvAlways == Spec => []SlotInv
<1>1. SlotInv /\ SafeInv' /\ [Next]_vars => SlotInv'
  <2>1. SUFFICES ASSUME SlotInv, SafeInv', [Next]_vars PROVE SlotInv'
    OBVIOUS
  <2>2. ASSUME NEW c \in Coord, StepOf(c) PROVE SlotInv'
    <3>1. OthersSame(c)
      BY <2>1, <2>2, StepShape DEF SlotInv
    <3>2. QED
      BY <2>1, <2>2, <3>1, DiscoverSlots, OtherSlots, AdmitSlots, ShardDoneSlots
         DEF StepOf, CoordStep, AgentStep
  <2>3. CASE UNCHANGED vars
    <3>1. UNCHANGED <<pressure, used, shard, pc, seen, avail, target>>
      BY <2>3 DEF vars, agentVars, handlerVars, statusVars
    <3>2. ASSUME NEW a \in Agent PROVE Kept(a)'
      <4>1. Held(a)' = Held(a)
        BY <3>1 DEF Held
      <4>2. Units(Held(a))' = Units(Held(a))
        BY <4>1 DEF Units
      <4>3. QED
        BY <2>1, <3>1, <4>2 DEF SlotInv, Kept
    <3>3. Known' /\ \A c \in Coord : Leased(c)'
      BY <2>1, <3>1 DEF SlotInv, Known, Leased
    <3>4. QED
      BY <2>1, <3>2, <3>3 DEF SlotInv
  <2>4. QED
    BY <2>1, <2>2, <2>3 DEF Next, StepOf, Over
<1>2. QED
  BY InitSlots, <1>1, SafeInvAlways, PTL DEF Spec

\* For any cell and any runs: however old the statuses are that coordinators plan
\* with, an agent gives out no more slots than it has, and the count it keeps is the
\* sum of what its shards need.
THEOREM NeverOversubscribedAlways == Spec => []NeverOversubscribed
<1>1. ASSUME SlotInv, NEW a \in Agent
      PROVE  /\ used[a] <= Slots[a]
             /\ used[a] = MapThenSumSet(Required, {c \in Coord : shard[c] = "running" /\ target[c] = a})
  <2>1. Held(a) \in SUBSET Coord
    BY DEF Held
  <2>2. MapThenSumSet(Required, Held(a)) = Cardinality(Units(Held(a)))
    BY <2>1, SumIsUnits
  <2>3. used[a] = MapThenSumSet(Required, Held(a)) /\ used[a] <= Slots[a]
    BY <1>1, <2>2 DEF SlotInv, Kept
  <2>4. QED
    BY <2>3 DEF Held
<1>2. SlotInv => NeverOversubscribed
  BY <1>1 DEF NeverOversubscribed
<1>3. QED
  BY <1>2, SlotInvAlways, PTL

\* The variables keep their types: in particular no count of slots, the agent's or
\* the one a status reported, is ever negative.
THEOREM TypeOKAlways == Spec => []TypeOK
<1>1. ASSUME SlotInv PROVE TypeOK
  <2>1. ASSUME NEW a \in Agent PROVE used[a] \in Nat
    <3>1. Held(a) \in SUBSET Coord
      BY DEF Held
    <3>2. QED
      BY <1>1, <3>1, UnitsFinite DEF SlotInv, Kept
  <2>2. used \in [Agent -> Nat]
    BY <1>1, <2>1 DEF SlotInv, SafeInv, Shape
  <2>3. QED
    BY <1>1, <2>2 DEF SlotInv, SafeInv, Shape, Known, TypeOK
<1>2. SlotInv => TypeOK
  BY <1>1
<1>3. QED
  BY <1>2, SlotInvAlways, PTL
=============================================================================
