-------------------------- MODULE AlertEval_proofs --------------------------
(***************************************************************************)
(* Proofs about AlertEval: its type invariant, the bound on duplicate      *)
(* alerts and the quiet period after a resolved one, for any number of     *)
(* rules, assets and overlapping evaluations.                              *)
(***************************************************************************)
EXTENDS AlertEval, FiniteSetTheorems, TLAPS

\* A pair is not the empty sequence that stands for "no target".
LEMMA TargetIsSome == ASSUME NEW t \in Targets PROVE t # NoTarget
  BY DEF Targets, NoTarget

LEMMA InitTypeOK == Init => TypeOK
<1> SUFFICES ASSUME Init PROVE TypeOK
  OBVIOUS
<1>1. overlapped \in BOOLEAN
  BY DEF Init
<1>2. ruleOn \in [Rules -> BOOLEAN] /\ assetOn \in [Assets -> BOOLEAN]
  BY DEF Init
<1>. QED BY <1>1, <1>2, AlertEvalAssumption DEF Init, TypeOK, Window, NoTarget, NoId

\* The steps of an evaluation keep the type invariant.
LEMMA EvaluateTypeOK ==
  ASSUME TypeOK, NEW e \in Evals, Evaluate(e)
  PROVE  TypeOK'
<1> USE AlertEvalAssumption DEF TypeOK, world, table, run
<1>1. CASE Start(e)
  BY <1>1 DEF Start
<1>2. CASE Finish(e)
  BY <1>2 DEF Finish, GoTo
<1>3. ASSUME NEW r \in Rules, BeginRule(e, r) PROVE TypeOK'
  BY <1>3 DEF BeginRule, AssetsOf, Targets
<1>4. ASSUME NEW t \in Targets, Count(e, t) PROVE TypeOK'
  BY <1>4, TargetIsSome DEF Count
<1>5. CASE Lookup(e)
  BY <1>5 DEF Lookup, NoneFound, NextTarget, GoTo, Active, Window
<1>6. CASE CheckCooldown(e)
  BY <1>6 DEF CheckCooldown, NextTarget, GoTo, Window
<1>7. CASE Insert(e)
  BY <1>7 DEF Insert, NextId, NextTarget, Window
<1>8. CASE Resolve(e)
  BY <1>8 DEF Resolve, NextTarget, Window
<1>. QED BY <1>1, <1>2, <1>3, <1>4, <1>5, <1>6, <1>7, <1>8 DEF Evaluate

\* So do the statements that fail.
LEMMA FailTypeOK ==
  ASSUME TypeOK, NEW e \in Evals, Fail(e)
  PROVE  TypeOK'
<1> USE AlertEvalAssumption DEF TypeOK, world, table, run, Fault
<1>1. CASE LookupFails(e)
  BY <1>1 DEF LookupFails, NoneFound, NextTarget, GoTo, Window
<1>2. CASE CheckCooldownFails(e)
  BY <1>2 DEF CheckCooldownFails, GoTo
<1>3. CASE WriteFails(e)
  BY <1>3 DEF WriteFails, NextTarget, Window
<1>4. CASE TimeOut(e)
  BY <1>4 DEF TimeOut, Window
<1>5. ASSUME NEW t \in Targets, CountFails(e, t) PROVE TypeOK'
  BY <1>5 DEF CountFails
<1>6. ASSUME NEW r \in Rules, BeginRuleFails(e, r) PROVE TypeOK'
  BY <1>6 DEF BeginRuleFails
<1>. QED BY <1>1, <1>2, <1>3, <1>4, <1>5, <1>6 DEF Fail

LEMMA NextTypeOK == TypeOK /\ [Next]_vars => TypeOK'
<1> SUFFICES ASSUME TypeOK, [Next]_vars PROVE TypeOK'
  OBVIOUS
<1> USE AlertEvalAssumption DEF world, table, run
<1>1. ASSUME NEW e \in Evals, Evaluate(e) \/ Fail(e) PROVE TypeOK'
  BY <1>1, EvaluateTypeOK, FailTypeOK
<1>2. ASSUME NEW i \in AlertIds, Ack(i) PROVE TypeOK'
  BY <1>2 DEF Ack, UserAct, TypeOK
<1>3. ASSUME NEW i \in AlertIds, ResolveByUser(i) PROVE TypeOK'
  BY <1>3 DEF ResolveByUser, UserAct, TypeOK
<1>4. ASSUME NEW t \in Targets, NEW w \in Window, Sample(t, w) PROVE TypeOK'
  BY <1>4 DEF Sample, Change, TypeOK
<1>5. ASSUME NEW r \in Rules, SwitchRule(r) PROVE TypeOK'
  BY <1>5 DEF SwitchRule, Change, TypeOK
<1>6. ASSUME NEW a \in Assets, SwitchAsset(a) PROVE TypeOK'
  BY <1>6 DEF SwitchAsset, Change, TypeOK
<1>7. CASE Tick
  BY <1>7 DEF Tick, TypeOK
<1>8. CASE UNCHANGED vars
  BY <1>8 DEF vars, TypeOK
<1>. QED BY <1>1, <1>2, <1>3, <1>4, <1>5, <1>6, <1>7, <1>8 DEF Next

\* The type invariant holds in every behaviour.
THEOREM AlertEvalTypeCorrect == Spec => []TypeOK
<1>. QED BY InitTypeOK, NextTypeOK, PTL DEF Spec

-----------------------------------------------------------------------------
(* The bound on duplicates.                                                *)

\* The sets the bound counts are finite, with cardinalities in Nat.
LEMMA FiniteSets ==
  ASSUME TypeOK, NEW t \in Targets
  PROVE  /\ IsFiniteSet(Active(t)) /\ Cardinality(Active(t)) \in Nat
         /\ IsFiniteSet(Deciding(t)) /\ Cardinality(Deciding(t)) \in Nat
         /\ Cardinality(Deciding(t)) <= Cardinality(Evals)
         /\ Cardinality(Evals) \in Nat
         /\ faults \in Nat
<1>1. IsFiniteSet(AlertIds)
  <2>1. MaxAlerts \in Int /\ 1 \in Int
    BY AlertEvalAssumption
  <2>. QED BY <2>1, FS_Interval DEF AlertIds
<1>2. Active(t) \subseteq AlertIds /\ Deciding(t) \subseteq Evals
  BY DEF Active, Deciding
<1>3. IsFiniteSet(Active(t))
  BY <1>1, <1>2, FS_Subset
<1>4. IsFiniteSet(Deciding(t)) /\ Cardinality(Deciding(t)) <= Cardinality(Evals)
  BY <1>2, FS_Subset, AlertEvalAssumption
<1>5. Cardinality(Evals) \in Nat
  BY FS_CardinalityType, AlertEvalAssumption
<1>6. faults \in Nat
  BY AlertEvalAssumption DEF TypeOK
<1>. QED BY <1>3, <1>4, <1>5, <1>6, FS_CardinalityType

\* One more element makes a set larger by one at most.
LEMMA OneMore ==
  ASSUME NEW S, IsFiniteSet(S), NEW x
  PROVE  /\ IsFiniteSet(S \cup {x})
         /\ Cardinality(S \cup {x}) <= Cardinality(S) + 1
         /\ Cardinality(S \cup {x}) \in Nat
<1>1. Cardinality(S) \in Nat
  BY FS_CardinalityType
<1>2. IsFiniteSet(S \cup {x})
  BY FS_AddElement
<1>3. Cardinality(S \cup {x}) = Cardinality(S) \/ Cardinality(S \cup {x}) = Cardinality(S) + 1
  BY FS_AddElement
<1>. QED BY <1>1, <1>2, <1>3

\* A step under which neither set of a target grows keeps its bound.
LEMMA NoGrowth ==
  ASSUME TypeOK, DuplicatesBounded, NEW t \in Targets,
         Active(t)' \subseteq Active(t), Deciding(t)' \subseteq Deciding(t),
         faults' \in Nat, faults' >= faults
  PROVE  (Cardinality(Active(t)) + Cardinality(Deciding(t))
            <= Cardinality(Evals) + faults)'
<1>1. Cardinality(Active(t)') \in Nat /\ Cardinality(Active(t)') <= Cardinality(Active(t))
  BY FiniteSets, FS_Subset, FS_CardinalityType
<1>2. /\ Cardinality(Deciding(t)') \in Nat
      /\ Cardinality(Deciding(t)') <= Cardinality(Deciding(t))
  BY FiniteSets, FS_Subset, FS_CardinalityType
<1>. QED BY <1>1, <1>2, FiniteSets DEF DuplicatesBounded

\* A lookup adds its evaluation to the deciding ones only when it has found no
\* active alert: then the bound is the number of evaluations itself.
LEMMA LookupBounded ==
  ASSUME TypeOK, TypeOK', DuplicatesBounded, NEW e \in Evals, Lookup(e)
  PROVE  DuplicatesBounded'
<1> SUFFICES ASSUME NEW t \in Targets
             PROVE  (Cardinality(Active(t)) + Cardinality(Deciding(t))
                       <= Cardinality(Evals) + faults)'
  BY DEF DuplicatesBounded
<1>1. Active(t)' = Active(t) /\ faults' = faults
  BY DEF Lookup, table, Active
<1>2. /\ Cardinality(Deciding(t)') <= Cardinality(Evals)
      /\ Cardinality(Deciding(t)') \in Nat
  <2>1. Deciding(t)' \subseteq Evals
    BY DEF Deciding
  <2>. QED BY <2>1, FS_Subset, FS_CardinalityType, AlertEvalAssumption
<1>3. CASE Active(t) = {}
  <2>1. Cardinality(Active(t)') = 0
    BY <1>1, <1>3, FS_EmptySet
  <2>. QED BY <2>1, <1>1, <1>2, FiniteSets
<1>4. CASE Active(t) # {}
  <2>1. Deciding(t)' \subseteq Deciding(t)
    BY <1>4 DEF Lookup, NoneFound, NextTarget, GoTo, Deciding, TypeOK
  <2>. QED BY <2>1, <1>1, FiniteSets, NoGrowth
<1>. QED BY <1>3, <1>4

\* A lookup that fails lets its evaluation decide blindly, and is counted.
LEMMA LookupFailsBounded ==
  ASSUME TypeOK, TypeOK', DuplicatesBounded, NEW e \in Evals, LookupFails(e)
  PROVE  DuplicatesBounded'
<1> SUFFICES ASSUME NEW t \in Targets
             PROVE  (Cardinality(Active(t)) + Cardinality(Deciding(t))
                       <= Cardinality(Evals) + faults)'
  BY DEF DuplicatesBounded
<1>1. Active(t)' = Active(t) /\ faults' = faults + 1
  BY DEF LookupFails, Fault, table, Active
<1>2. Deciding(t)' \subseteq Deciding(t) \cup {e}
  BY DEF LookupFails, NoneFound, NextTarget, GoTo, Deciding, TypeOK
<1>3. /\ IsFiniteSet(Deciding(t) \cup {e})
      /\ Cardinality(Deciding(t) \cup {e}) <= Cardinality(Deciding(t)) + 1
      /\ Cardinality(Deciding(t) \cup {e}) \in Nat
  BY FiniteSets, OneMore
<1>4. /\ Cardinality(Deciding(t)') <= Cardinality(Deciding(t) \cup {e})
      /\ Cardinality(Deciding(t)') \in Nat
  BY <1>2, <1>3, FS_Subset, FS_CardinalityType
<1>. QED BY <1>1, <1>3, <1>4, FiniteSets DEF DuplicatesBounded

\* An insert turns a deciding evaluation into an active alert.
LEMMA InsertBounded ==
  ASSUME TypeOK, TypeOK', DuplicatesBounded, NEW e \in Evals, Insert(e)
  PROVE  DuplicatesBounded'
<1> SUFFICES ASSUME NEW t \in Targets
             PROVE  (Cardinality(Active(t)) + Cardinality(Deciding(t))
                       <= Cardinality(Evals) + faults)'
  BY DEF DuplicatesBounded
<1>1. PICK i \in AlertIds : /\ NextId(i)
                            /\ status' = [status EXCEPT ![i] = "active"]
                            /\ about' = [about EXCEPT ![i] = target[e]]
  BY DEF Insert
<1>2. faults' = faults
  BY DEF Insert
<1>3. pc[e] = "insert" /\ pc' = [pc EXCEPT ![e] = "next"]
      /\ target' = [target EXCEPT ![e] = NoTarget]
  BY DEF Insert, NextTarget
<1>4. CASE t = target[e]
  <2>1. Active(t)' \subseteq Active(t) \cup {i}
    BY <1>1 DEF Active, TypeOK
  <2>2. Deciding(t)' \subseteq Deciding(t) \ {e} /\ e \in Deciding(t)
    BY <1>3, <1>4 DEF Deciding, TypeOK
  <2>3. /\ IsFiniteSet(Active(t) \cup {i})
        /\ Cardinality(Active(t) \cup {i}) <= Cardinality(Active(t)) + 1
        /\ Cardinality(Active(t) \cup {i}) \in Nat
    BY FiniteSets, OneMore
  <2>4. /\ Cardinality(Active(t)') <= Cardinality(Active(t) \cup {i})
        /\ Cardinality(Active(t)') \in Nat
    BY <2>1, <2>3, FS_Subset, FS_CardinalityType
  <2>5. /\ IsFiniteSet(Deciding(t) \ {e})
        /\ Cardinality(Deciding(t) \ {e}) = Cardinality(Deciding(t)) - 1
    BY <2>2, FiniteSets, FS_RemoveElement
  <2>6. /\ Cardinality(Deciding(t)') <= Cardinality(Deciding(t) \ {e})
        /\ Cardinality(Deciding(t)') \in Nat
    BY <2>2, <2>5, FS_Subset, FS_CardinalityType
  <2>. QED BY <1>2, <2>3, <2>4, <2>5, <2>6, FiniteSets DEF DuplicatesBounded
<1>5. CASE t # target[e]
  <2>1. Active(t)' \subseteq Active(t)
    BY <1>1, <1>5 DEF Active, TypeOK
  <2>2. Deciding(t)' \subseteq Deciding(t)
    BY <1>3 DEF Deciding, TypeOK
  <2>. QED BY <1>2, <2>1, <2>2, FiniteSets, NoGrowth
<1>. QED BY <1>4, <1>5

\* No other step lets an alert become active or an evaluation decide.
LEMMA OthersBounded ==
  ASSUME TypeOK, TypeOK', DuplicatesBounded, [Next]_vars,
         \A e \in Evals : ~Lookup(e) /\ ~LookupFails(e) /\ ~Insert(e)
  PROVE  DuplicatesBounded'
<1> SUFFICES ASSUME NEW t \in Targets
             PROVE  (Cardinality(Active(t)) + Cardinality(Deciding(t))
                       <= Cardinality(Evals) + faults)'
  BY DEF DuplicatesBounded
<1> USE DEF world, table, run
<1>0. faults' \in Nat /\ faults \in Nat
  BY AlertEvalAssumption DEF TypeOK
<1>1. ASSUME NEW e \in Evals, Evaluate(e) \/ Fail(e)
      PROVE  /\ Active(t)' \subseteq Active(t)
             /\ Deciding(t)' \subseteq Deciding(t)
             /\ faults' >= faults
  <2>1. CASE Start(e)
    BY <2>1, <1>0 DEF Start, Active, Deciding, TypeOK
  <2>2. CASE Finish(e)
    BY <2>2, <1>0 DEF Finish, GoTo, Active, Deciding, TypeOK
  <2>3. ASSUME NEW r \in Rules, BeginRule(e, r)
        PROVE Active(t)' = Active(t) /\ Deciding(t)' = Deciding(t) /\ faults' = faults
    BY <2>3 DEF BeginRule, Active, Deciding
  <2>4. ASSUME NEW u \in Targets, Count(e, u)
        PROVE  /\ Active(t)' = Active(t) /\ faults' = faults
               /\ Deciding(t)' \subseteq Deciding(t)
    BY <2>4 DEF Count, Active, Deciding, TypeOK
  <2>5. CASE CheckCooldown(e)
    BY <2>5, <1>0 DEF CheckCooldown, NextTarget, GoTo, Active, Deciding, TypeOK
  <2>6. CASE Resolve(e)
    BY <2>6, <1>0 DEF Resolve, NextTarget, Active, Deciding, TypeOK
  <2>7. CASE CheckCooldownFails(e)
    BY <2>7, <1>0 DEF CheckCooldownFails, Fault, GoTo, Active, Deciding, TypeOK
  <2>8. CASE WriteFails(e)
    BY <2>8, <1>0 DEF WriteFails, Fault, NextTarget, Active, Deciding, TypeOK
  <2>9. CASE TimeOut(e)
    BY <2>9, <1>0 DEF TimeOut, Fault, Active, Deciding, TypeOK
  <2>10. ASSUME NEW u \in Targets, CountFails(e, u)
         PROVE  /\ Active(t)' = Active(t) /\ Deciding(t)' = Deciding(t)
                /\ faults' = faults + 1
    BY <2>10 DEF CountFails, Fault, Active, Deciding
  <2>11. ASSUME NEW r \in Rules, BeginRuleFails(e, r)
         PROVE  /\ Active(t)' = Active(t) /\ Deciding(t)' = Deciding(t)
                /\ faults' = faults + 1
    BY <2>11 DEF BeginRuleFails, Fault, Active, Deciding
  <2>. QED BY <1>0, <1>1, <2>1, <2>2, <2>3, <2>4, <2>5, <2>6, <2>7, <2>8, <2>9, <2>10, <2>11
              DEF Evaluate, Fail
<1>2. ASSUME NEW i \in AlertIds, Ack(i) \/ ResolveByUser(i)
      PROVE  Active(t)' \subseteq Active(t) /\ Deciding(t)' = Deciding(t) /\ faults' = faults
  BY <1>2 DEF Ack, ResolveByUser, Active, Deciding, TypeOK
<1>3. ASSUME \/ \E u \in Targets, w \in Window : Sample(u, w)
             \/ \E r \in Rules : SwitchRule(r)
             \/ \E a \in Assets : SwitchAsset(a)
             \/ Tick
             \/ UNCHANGED vars
      PROVE  Active(t)' = Active(t) /\ Deciding(t)' = Deciding(t) /\ faults' = faults
  BY <1>3 DEF Sample, SwitchRule, SwitchAsset, Tick, vars, Active, Deciding
<1>4. /\ Active(t)' \subseteq Active(t)
      /\ Deciding(t)' \subseteq Deciding(t)
      /\ faults' >= faults
  BY <1>0, <1>1, <1>2, <1>3 DEF Next
<1>. QED BY <1>0, <1>4, NoGrowth

\* However many evaluations overlap and however their statements interleave, a
\* target has no more active alerts than overlapping evaluations plus lookups
\* that failed; with one evaluation and no failure, never two.
THEOREM AlertEvalDuplicatesBounded == Spec => []DuplicatesBounded
<1>1. Init => DuplicatesBounded
  <2> SUFFICES ASSUME Init, NEW t \in Targets
               PROVE  Cardinality(Active(t)) + Cardinality(Deciding(t))
                        <= Cardinality(Evals) + faults
    BY DEF DuplicatesBounded
  <2>1. Active(t) = {} /\ Deciding(t) = {}
    BY DEF Init, Active, Deciding
  <2>2. TypeOK
    BY InitTypeOK
  <2>. QED BY <2>1, <2>2, FS_EmptySet, FiniteSets
<1>2. TypeOK /\ DuplicatesBounded /\ [Next]_vars => DuplicatesBounded'
  BY NextTypeOK, LookupBounded, LookupFailsBounded, InsertBounded, OthersBounded
<1>. QED BY <1>1, <1>2, AlertEvalTypeCorrect, PTL DEF Spec

-----------------------------------------------------------------------------
(* The quiet period.  What it rests on: as long as no evaluations have     *)
(* overlapped only one is under way, an alert nobody has handled is not    *)
(* acknowledged, and an evaluation that means to fire has seen that every  *)
(* alert of its target that nobody has handled is resolved, and before it  *)
(* inserts, that it was resolved long enough ago.                          *)

OneRuns == ~overlapped => \A d, e \in Evals : pc[d] # "idle" /\ pc[e] # "idle" => d = e

Unhandled == \A j \in AlertIds : ~touched[j] => status[j] # "acked"

Over(e, j) == status[j] = "resolved" /\ (pc[e] = "insert" => age[j] = Cooldown)

SeenOver ==
  ~overlapped /\ faults = 0 =>
    \A e \in Evals : pc[e] \in {"cooldown", "insert"} =>
      \A j \in AlertIds : about[j] = target[e] /\ ~touched[j] => Over(e, j)

QuietInv == TypeOK /\ OneRuns /\ Unhandled /\ SeenOver

LEMMA OneRunsHolds == TypeOK /\ OneRuns /\ [Next]_vars => OneRuns'
<1>. SUFFICES ASSUME TypeOK, OneRuns, [Next]_vars PROVE OneRuns'
  OBVIOUS
<1>1. ASSUME NEW e \in Evals, Start(e) PROVE OneRuns'
  BY <1>1 DEF Start, OneRuns, TypeOK
<1>2. ASSUME NEW e \in Evals, pc[e] # "idle", NEW l, pc' = [pc EXCEPT ![e] = l],
             overlapped' = overlapped
      PROVE  OneRuns'
  BY <1>2 DEF OneRuns, TypeOK
<1>3. ASSUME UNCHANGED <<pc, overlapped>> PROVE OneRuns'
  BY <1>3 DEF OneRuns
<1>4. ASSUME NEW e \in Evals, Evaluate(e) PROVE OneRuns'
  <2>1. CASE Finish(e) \/ Lookup(e) \/ CheckCooldown(e) \/ Insert(e) \/ Resolve(e)
    BY <1>2, <2>1 DEF Finish, Lookup, NoneFound, CheckCooldown, Insert, Resolve, NextTarget, GoTo
  <2>2. ASSUME NEW t \in Targets, Count(e, t) PROVE OneRuns'
    BY <1>2, <2>2 DEF Count
  <2>3. ASSUME NEW r \in Rules, BeginRule(e, r) PROVE OneRuns'
    BY <1>3, <2>3 DEF BeginRule
  <2>. QED BY <1>1, <1>4, <2>1, <2>2, <2>3 DEF Evaluate
<1>5. ASSUME NEW e \in Evals, Fail(e) PROVE OneRuns'
  <2>1. CASE LookupFails(e) \/ CheckCooldownFails(e) \/ WriteFails(e) \/ TimeOut(e)
    BY <1>2, <2>1 DEF LookupFails, NoneFound, CheckCooldownFails, WriteFails, TimeOut,
                      NextTarget, GoTo
  <2>2. CASE \/ \E r \in Rules : BeginRuleFails(e, r)
             \/ \E t \in Targets : CountFails(e, t)
    BY <1>3, <2>2 DEF BeginRuleFails, CountFails
  <2>. QED BY <1>5, <2>1, <2>2 DEF Fail
<1>. QED BY <1>3, <1>4, <1>5
         DEF Next, Ack, ResolveByUser, Sample, SwitchRule, SwitchAsset, Tick, vars, run

LEMMA UnhandledHolds == TypeOK /\ Unhandled /\ [Next]_vars => Unhandled'
<1>. SUFFICES ASSUME TypeOK, Unhandled, [Next]_vars PROVE Unhandled'
  OBVIOUS
<1>1. ASSUME UNCHANGED <<status, touched>> PROVE Unhandled'
  BY <1>1 DEF Unhandled
<1>2. ASSUME NEW e \in Evals, Insert(e) \/ Resolve(e) PROVE Unhandled'
  BY <1>2 DEF Insert, Resolve, Unhandled, TypeOK
<1>3. ASSUME NEW i \in AlertIds, Ack(i) \/ ResolveByUser(i) PROVE Unhandled'
  BY <1>3 DEF Ack, ResolveByUser, UserAct, Unhandled, TypeOK
<1>4. ASSUME NEW e \in Evals, Evaluate(e), ~Insert(e), ~Resolve(e) PROVE UNCHANGED table
  BY <1>4 DEF Evaluate, Start, Finish, BeginRule, Count, Lookup, CheckCooldown
<1>5. ASSUME NEW e \in Evals, Fail(e) PROVE UNCHANGED table
  BY <1>5 DEF Fail, LookupFails, CheckCooldownFails, WriteFails, TimeOut, BeginRuleFails, CountFails
<1>6. CASE Tick \/ UNCHANGED vars
  BY <1>1, <1>6 DEF Tick, vars, table
<1>. QED BY <1>1, <1>2, <1>3, <1>4, <1>5, <1>6
         DEF Next, Sample, SwitchRule, SwitchAsset, table

\* The steps of an evaluation: it decides only when it has looked.
LEMMA EvaluateSeesOver ==
  ASSUME QuietInv, NEW e \in Evals, Evaluate(e)
  PROVE  SeenOver'
<1>. USE DEF QuietInv
<1>0. faults' = faults /\ (~overlapped' => ~overlapped)
  BY DEF Evaluate, Start, Finish, BeginRule, Count, Lookup, CheckCooldown, Insert, Resolve, TypeOK, run
<1>. SUFFICES ASSUME ~overlapped, ~overlapped', faults = 0,
                     NEW d \in Evals, pc'[d] \in {"cooldown", "insert"},
                     NEW j \in AlertIds, about'[j] = target'[d], ~touched'[j]
              PROVE  Over(d, j)'
  BY <1>0 DEF SeenOver
<1>1. CASE Start(e)
  BY <1>1 DEF Start, SeenOver, Over, TypeOK, table
<1>2. CASE Finish(e)
  BY <1>2 DEF Finish, GoTo, SeenOver, Over, TypeOK, table
<1>3. ASSUME NEW r \in Rules, BeginRule(e, r) PROVE Over(d, j)'
  BY <1>3 DEF BeginRule, SeenOver, Over, table
<1>4. ASSUME NEW t \in Targets, Count(e, t) PROVE Over(d, j)'
  BY <1>4 DEF Count, SeenOver, Over, TypeOK, table
<1>5. CASE Lookup(e)
  <2>1. UNCHANGED <<status, about, age, touched>> /\ pc[e] = "lookup"
    BY <1>5 DEF Lookup, table
  <2>2. CASE d = e
    <3>1. Active(target[e]) = {} /\ NoneFound(e) /\ UNCHANGED target /\ pc'[e] = "cooldown"
      BY <1>5, <2>2 DEF Lookup, NoneFound, NextTarget, GoTo, TypeOK
    <3>2. target[e] # NoTarget
      BY <2>1 DEF TypeOK
    <3>3. status[j] \in {"active", "acked", "resolved"}
      BY <2>1, <2>2, <3>1, <3>2 DEF TypeOK
    <3>. QED BY <2>1, <2>2, <3>1, <3>3 DEF Active, Unhandled, Over
  <2>3. CASE d # e
    BY <1>5, <2>1, <2>3 DEF Lookup, NoneFound, NextTarget, GoTo, SeenOver, Over, TypeOK
  <2>. QED BY <2>2, <2>3
<1>6. CASE CheckCooldown(e)
  <2>1. UNCHANGED <<status, about, age, touched>> /\ pc[e] = "cooldown"
    BY <1>6 DEF CheckCooldown, table
  <2>2. CASE d = e
    <3>1. ~CoolingDown(target[e]) /\ UNCHANGED target
      BY <1>6, <2>2 DEF CheckCooldown, NextTarget, GoTo, TypeOK
    <3>2. status[j] = "resolved"
      BY <2>1, <2>2, <3>1 DEF SeenOver, Over
    <3>3. age[j] \in 0..Cooldown /\ ~ (age[j] < Cooldown)
      BY <2>1, <2>2, <3>1, <3>2 DEF CoolingDown, TypeOK
    <3>. QED BY <2>1, <3>2, <3>3, AlertEvalAssumption DEF Over
  <2>3. CASE d # e
    BY <1>6, <2>1, <2>3 DEF CheckCooldown, NextTarget, GoTo, SeenOver, Over, TypeOK
  <2>. QED BY <2>2, <2>3
<1>7. CASE Insert(e) \/ Resolve(e)
  <2>1. pc[e] # "idle" /\ pc' = [pc EXCEPT ![e] = "next"]
    BY <1>7 DEF Insert, Resolve, NextTarget
  <2>2. d # e /\ pc[d] # "idle"
    BY <2>1 DEF TypeOK
  <2>. QED BY <2>1, <2>2 DEF OneRuns
<1>. QED BY <1>1, <1>2, <1>3, <1>4, <1>5, <1>6, <1>7 DEF Evaluate

LEMMA OthersSeeOver ==
  ASSUME QuietInv, [Next]_vars, \A e \in Evals : ~Evaluate(e)
  PROVE  SeenOver'
<1>. USE DEF QuietInv
<1>1. ASSUME NEW e \in Evals, Fail(e) PROVE faults' # 0
  BY <1>1 DEF Fail, LookupFails, CheckCooldownFails, WriteFails, TimeOut, BeginRuleFails,
             CountFails, Fault, TypeOK
<1>2. ASSUME NEW i \in AlertIds, Ack(i) \/ ResolveByUser(i) PROVE SeenOver'
  BY <1>2 DEF Ack, ResolveByUser, UserAct, SeenOver, Over, run, TypeOK
<1>3. CASE Tick
  BY <1>3, AlertEvalAssumption DEF Tick, SeenOver, Over, run, TypeOK
<1>4. CASE \/ \E t \in Targets, w \in Window : Sample(t, w)
           \/ \E r \in Rules : SwitchRule(r)
           \/ \E a \in Assets : SwitchAsset(a)
           \/ UNCHANGED vars
  BY <1>4 DEF Sample, SwitchRule, SwitchAsset, SeenOver, Over, run, table, vars
<1>. QED BY <1>1, <1>2, <1>3, <1>4 DEF Next, SeenOver

LEMMA QuietHolds == QuietInv /\ [Next]_vars => QuietInv'
  BY NextTypeOK, OneRunsHolds, UnhandledHolds, EvaluateSeesOver, OthersSeeOver DEF QuietInv

\* No step that fires an alert comes too early.
LEMMA FiresQuietly ==
  ASSUME QuietInv, [Next]_vars, ~overlapped, faults = 0, NEW i \in AlertIds, Fires(i),
         NEW j \in AlertIds, about[j] = about'[i], ~touched[j]
  PROVE  status[j] = "resolved" /\ age[j] = Cooldown
<1>1. PICK e \in Evals : Insert(e)
  <2>1. ASSUME NEW e \in Evals, Fail(e) PROVE ~Fires(i)
    BY <2>1 DEF Fail, LookupFails, CheckCooldownFails, WriteFails, TimeOut, BeginRuleFails,
               CountFails, Fires, table
  <2>2. ASSUME NEW e \in Evals, Evaluate(e), ~Insert(e) PROVE ~Fires(i)
    BY <2>2 DEF Evaluate, Start, Finish, BeginRule, Count, Lookup, CheckCooldown, Resolve,
               Fires, table, QuietInv, TypeOK
  <2>3. ASSUME NEW k \in AlertIds, Ack(k) \/ ResolveByUser(k) PROVE ~Fires(i)
    BY <2>3 DEF Ack, ResolveByUser, Fires, QuietInv, TypeOK
  <2>. QED BY <2>1, <2>2, <2>3 DEF Next, Sample, SwitchRule, SwitchAsset, Tick, Fires, table, vars
<1>2. about'[i] = target[e] /\ pc[e] = "insert"
  BY <1>1 DEF Insert, Fires, QuietInv, TypeOK
<1>. QED BY <1>2 DEF QuietInv, SeenOver, Over

\* A target is not alerted again before the cooldown of its last alert is over, unless
\* evaluations overlapped, the database failed or an operator handled the alert: for
\* any number of rules and assets and any cooldown.
THEOREM AlertEvalKeepsQuiet == Spec => QuietPeriod
<1>1. Init => QuietInv
  <2>. SUFFICES ASSUME Init PROVE QuietInv
    OBVIOUS
  <2>1. TypeOK
    BY InitTypeOK
  <2>. QED BY <2>1 DEF Init, QuietInv, OneRuns, Unhandled, SeenOver
<1>2. QuietInv /\ [Next]_vars =>
        [~overlapped /\ faults = 0 =>
           \A i \in AlertIds : Fires(i) =>
             \A j \in AlertIds : about[j] = about'[i] /\ ~touched[j] =>
               status[j] = "resolved" /\ age[j] = Cooldown]_vars
  BY FiresQuietly
<1>. QED BY <1>1, <1>2, QuietHolds, PTL DEF Spec, QuietPeriod

=============================================================================
