------------------------- MODULE ServiceCheck_proofs -------------------------
(***************************************************************************)
(* Proofs about ServiceCheck: type correctness for any checks, runs and    *)
(* slots; and that the alerts of a check follow its results, for any       *)
(* number of checks and slots, where the runs do not overlap and no name   *)
(* contains another (with either, the code does lose track: see the run    *)
(* service_twice).                                                         *)
(***************************************************************************)
EXTENDS ServiceCheck, TLAPS

CheckStep(r, c) == Work(r, c) \/ StoreFails(r, c) \/ AlertFails(r, c)
Outside(c) == \/ \E v \in Verdicts : Change(c, v)
              \/ AgentPost(c) \/ Create(c) \/ Delete(c) \/ HandleAlert(c)

\* The steps of a run, of its workers, and of everybody else.
LEMMA Steps3 ==
  Next <=> \/ \E r \in Runs : Start(r)
           \/ \E r \in Runs, c \in Checks : CheckStep(r, c)
           \/ \E c \in Checks : Outside(c)
  BY DEF Next, CheckStep, Outside

LEMMA InitTypeOK == Init => TypeOK
  BY ServiceCheckAssumption DEF Init, TypeOK, Steps

-----------------------------------------------------------------------------
(* Types.                                                                  *)

GotOK(r, c) == got[r][c] = "none" <=> at[r][c] \in {"none", "queued", "probe"}

\* A worker changes its own step and finding only.
LEMMA WorkerTypes ==
  ASSUME TypeOK, NEW r \in Runs, NEW c \in Checks,
         NEW a \in Steps, NEW g \in Verdicts \cup {"none"},
         g = "none" <=> a \in {"none", "queued", "probe"},
         at' = [at EXCEPT ![r][c] = a], got' = [got EXCEPT ![r][c] = g]
  PROVE  /\ at' \in [Runs -> [Checks -> Steps]]
         /\ got' \in [Runs -> [Checks -> Verdicts \cup {"none"}]]
         /\ at'[r][c] = a /\ got'[r][c] = g
         /\ \A q \in Runs, d \in Checks :
              <<q, d>> # <<r, c>> => at'[q][d] = at[q][d] /\ got'[q][d] = got[q][d]
         /\ \A q \in Runs, d \in Checks : GotOK(q, d)'
<1>1. /\ at' \in [Runs -> [Checks -> Steps]]
      /\ got' \in [Runs -> [Checks -> Verdicts \cup {"none"}]]
  BY DEF TypeOK
<1>2. at'[r][c] = a /\ got'[r][c] = g
  BY DEF TypeOK
<1>3. ASSUME NEW q \in Runs, NEW d \in Checks, <<q, d>> # <<r, c>>
      PROVE  at'[q][d] = at[q][d] /\ got'[q][d] = got[q][d]
  <2>1. CASE q # r
    BY <2>1 DEF TypeOK
  <2>2. CASE q = r /\ d # c
    BY <2>2 DEF TypeOK
  <2>. QED BY <1>3, <2>1, <2>2
<1>4. ASSUME NEW q \in Runs, NEW d \in Checks
      PROVE  GotOK(q, d)'
  <2>1. CASE <<q, d>> = <<r, c>>
    BY <1>2, <2>1 DEF GotOK
  <2>2. CASE <<q, d>> # <<r, c>>
    BY <1>3, <2>2 DEF GotOK, TypeOK
  <2>. QED BY <2>1, <2>2
<1>. QED BY <1>1, <1>2, <1>3, <1>4

\* Unless a worker writes it, a finding is left alone.
LEMMA SameGot ==
  ASSUME TypeOK, NEW r \in Runs, NEW c \in Checks, UNCHANGED got
  PROVE  got' = [got EXCEPT ![r][c] = got[r][c]]
  BY DEF TypeOK

\* What a step of a worker does, to its own place and to the alerts.
WorkerMoves(r, c) ==
  \/ /\ at[r][c] = "queued"
     /\ at' = [at EXCEPT ![r][c] = "probe"] /\ UNCHANGED <<got, resultVars, alertVars, faults>>
  \/ /\ at[r][c] = "probe"
     /\ at' = [at EXCEPT ![r][c] = "store"] /\ got' = [got EXCEPT ![r][c] = service[c]]
     /\ UNCHANGED <<resultVars, alertVars, faults>>
  \/ /\ at[r][c] = "store"
     /\ at' = [at EXCEPT ![r][c] = "compare"]
     /\ AddResult(c, got[r][c]) /\ UNCHANGED <<got, alertVars, faults>>
  \/ /\ at[r][c] = "compare"
     /\ IF Reaction(before[c], got[r][c]) = "none"
          THEN Leave(r, c)
          ELSE /\ at' = [at EXCEPT ![r][c] = Reaction(before[c], got[r][c])]
               /\ UNCHANGED got
     /\ UNCHANGED <<resultVars, alertVars, faults>>
  \/ /\ at[r][c] = "raise"
     /\ alerts' = [alerts EXCEPT ![c] = @ + 1]
     /\ handled' = [handled EXCEPT ![c] = FALSE]
     /\ Leave(r, c) /\ UNCHANGED <<resultVars, faults>>
  \/ /\ at[r][c] = "resolve"
     /\ alerts' = [d \in Checks |-> IF <<c, d>> \in Covers THEN 0 ELSE alerts[d]]
     /\ Leave(r, c) /\ UNCHANGED <<resultVars, handled, faults>>

\* A statement that fails leaves the results and the alerts alone.
WorkerFails(r, c) ==
  /\ \/ /\ at[r][c] = "store"
        /\ at' = [at EXCEPT ![r][c] = "compare"] /\ UNCHANGED got
     \/ at[r][c] \in {"compare", "raise", "resolve"} /\ Leave(r, c)
  /\ faults' = faults + 1 /\ faults < MaxFaults
  /\ UNCHANGED <<resultVars, alertVars>>

LEMMA StepOfWorker ==
  ASSUME NEW r \in Runs, NEW c \in Checks, CheckStep(r, c)
  PROVE  /\ WorkerMoves(r, c) \/ WorkerFails(r, c)
         /\ UNCHANGED <<service, row, changes, posts, userActs>>
<1>1. CASE Launch(r, c)
  BY <1>1 DEF Launch, WorkerMoves, bounds
<1>2. CASE Probe(r, c)
  BY <1>2 DEF Probe, WorkerMoves, bounds
<1>3. CASE Store(r, c)
  BY <1>3 DEF Store, WorkerMoves, bounds
<1>4. CASE Compare(r, c)
  BY <1>4 DEF Compare, WorkerMoves, bounds
<1>5. CASE Raise(r, c)
  BY <1>5 DEF Raise, WorkerMoves, bounds
<1>6. CASE Resolve(r, c)
  BY <1>6 DEF Resolve, WorkerMoves, bounds
<1>7. CASE StoreFails(r, c)
  BY <1>7 DEF StoreFails, Fault, WorkerFails
<1>8. CASE AlertFails(r, c)
  BY <1>8 DEF AlertFails, Fault, WorkerFails
<1>. QED BY <1>1, <1>2, <1>3, <1>4, <1>5, <1>6, <1>7, <1>8 DEF CheckStep, Work

\* Where a worker goes.
LEMMA WorkerPlace ==
  ASSUME TypeOK, NEW r \in Runs, NEW c \in Checks, WorkerMoves(r, c) \/ WorkerFails(r, c)
  PROVE  \E a \in Steps, g \in Verdicts \cup {"none"} :
           /\ g = "none" <=> a \in {"none", "queued", "probe"}
           /\ at' = [at EXCEPT ![r][c] = a] /\ got' = [got EXCEPT ![r][c] = g]
<1>. DEFINE Goes(a, g) == at' = [at EXCEPT ![r][c] = a] /\ got' = [got EXCEPT ![r][c] = g]
<1>1. GotOK(r, c) /\ got[r][c] \in Verdicts \cup {"none"} /\ service[c] \in Verdicts
  BY DEF TypeOK, GotOK
<1>2. CASE at[r][c] = "queued"
  <2>1. Goes("probe", got[r][c])
    BY <1>2, SameGot DEF WorkerMoves, WorkerFails
  <2>. QED BY <1>1, <1>2, <2>1 DEF GotOK, Steps
<1>3. CASE at[r][c] = "probe"
  <2>1. Goes("store", service[c])
    BY <1>3 DEF WorkerMoves, WorkerFails
  <2>. QED BY <1>1, <2>1, ServiceCheckAssumption DEF Steps
<1>4. CASE at[r][c] = "store"
  <2>1. Goes("compare", got[r][c])
    BY <1>4, SameGot DEF WorkerMoves, WorkerFails
  <2>. QED BY <1>1, <1>4, <2>1 DEF GotOK, Steps
<1>5. CASE at[r][c] \in {"compare", "raise", "resolve"}
  <2>1. \/ Goes("none", "none")
        \/ /\ at[r][c] = "compare" /\ Reaction(before[c], got[r][c]) # "none"
           /\ Goes(Reaction(before[c], got[r][c]), got[r][c])
    BY <1>5, SameGot DEF WorkerMoves, WorkerFails, Leave
  <2>2. Reaction(before[c], got[r][c]) \in {"none", "raise", "resolve"}
    BY DEF Reaction
  <2>. QED BY <1>1, <1>5, <2>1, <2>2 DEF GotOK, Steps
<1>. QED BY <1>2, <1>3, <1>4, <1>5 DEF WorkerMoves, WorkerFails

\* A step of a worker keeps the types.
LEMMA WorkerTypeOK ==
  ASSUME TypeOK, NEW r \in Runs, NEW c \in Checks, CheckStep(r, c)
  PROVE  TypeOK'
<1>1. /\ WorkerMoves(r, c) \/ WorkerFails(r, c)
      /\ UNCHANGED <<service, row, changes, posts, userActs>>
  BY StepOfWorker
<1>2. /\ at' \in [Runs -> [Checks -> Steps]]
      /\ got' \in [Runs -> [Checks -> Verdicts \cup {"none"}]]
      /\ \A q \in Runs, d \in Checks : GotOK(q, d)'
  BY <1>1, WorkerPlace, WorkerTypes
<1>3. /\ newest' \in [Checks -> Verdicts \cup {"none"}]
      /\ before' \in [Checks -> Verdicts \cup {"none"}]
      /\ sawGood' \in [Checks -> BOOLEAN]
  <2>1. UNCHANGED <<newest, before, sawGood>> \/ AddResult(c, got[r][c])
    BY <1>1 DEF WorkerMoves, WorkerFails, resultVars
  <2>2. CASE AddResult(c, got[r][c])
    <3>1. got[r][c] \in Verdicts \cup {"none"} /\ newest[c] \in Verdicts \cup {"none"}
      BY DEF TypeOK
    <3>2. (sawGood[c] \/ got[r][c] # "critical") \in BOOLEAN
      OBVIOUS
    <3>. QED BY <2>2, <3>1, <3>2 DEF AddResult, TypeOK
  <2>. QED BY <2>1, <2>2 DEF TypeOK
<1>4. alerts' \in [Checks -> Nat]
  <2>1. \/ UNCHANGED alerts
        \/ alerts' = [alerts EXCEPT ![c] = @ + 1]
        \/ alerts' = [d \in Checks |-> IF <<c, d>> \in Covers THEN 0 ELSE alerts[d]]
    BY <1>1 DEF WorkerMoves, WorkerFails, alertVars
  <2>2. alerts[c] + 1 \in Nat
    BY DEF TypeOK
  <2>3. [alerts EXCEPT ![c] = @ + 1] \in [Checks -> Nat]
    BY <2>2 DEF TypeOK
  <2>4. [d \in Checks |-> IF <<c, d>> \in Covers THEN 0 ELSE alerts[d]] \in [Checks -> Nat]
    BY DEF TypeOK
  <2>5. alerts \in [Checks -> Nat]
    BY DEF TypeOK
  <2>. QED BY <2>1, <2>3, <2>4, <2>5
<1>5. handled' \in [Checks -> BOOLEAN] /\ faults' \in 0..MaxFaults
  <2>1. UNCHANGED handled \/ handled' = [handled EXCEPT ![c] = FALSE]
    BY <1>1 DEF WorkerMoves, WorkerFails, alertVars
  <2>2. UNCHANGED faults \/ (faults' = faults + 1 /\ faults < MaxFaults)
    BY <1>1 DEF WorkerMoves, WorkerFails
  <2>3. faults' \in 0..MaxFaults
    BY <2>2, ServiceCheckAssumption DEF TypeOK
  <2>4. handled \in [Checks -> BOOLEAN]
    BY DEF TypeOK
  <2>5. [handled EXCEPT ![c] = FALSE] \in [Checks -> BOOLEAN]
    BY <2>4
  <2>. QED BY <2>1, <2>3, <2>4, <2>5
<1>. QED BY <1>1, <1>2, <1>3, <1>4, <1>5 DEF TypeOK, GotOK

LEMMA StartTypeOK ==
  ASSUME TypeOK, NEW r \in Runs, Start(r)
  PROVE  TypeOK'
<1>. DEFINE started == [c \in Checks |-> IF row[c] = "on" THEN "queued" ELSE "none"]
<1>1. at' = [at EXCEPT ![r] = started] /\ started \in [Checks -> {"none", "queued"}]
  BY DEF Start
<1>2. at' \in [Runs -> [Checks -> Steps]]
  BY <1>1 DEF TypeOK, Steps
<1>3. \A q \in Runs, d \in Checks : GotOK(q, d)'
  <2>1. \A d \in Checks : got[r][d] = "none"
    BY DEF Start, Idle, TypeOK
  <2>2. ASSUME NEW q \in Runs, NEW d \in Checks
        PROVE  GotOK(q, d)'
    <3>1. CASE q = r
      BY <1>1, <2>1, <3>1 DEF GotOK, TypeOK, Start
    <3>2. CASE q # r
      BY <1>1, <3>2 DEF GotOK, TypeOK, Start
    <3>. QED BY <3>1, <3>2
  <2>. QED BY <2>2
<1>4. UNCHANGED <<service, row, resultVars, alertVars, got, bounds>>
  BY DEF Start
<1>. QED BY <1>2, <1>3, <1>4 DEF TypeOK, GotOK, resultVars, alertVars, bounds

LEMMA OutsideTypeOK ==
  ASSUME TypeOK, NEW c \in Checks, Outside(c)
  PROVE  TypeOK'
<1>1. ASSUME NEW v \in Verdicts, Change(c, v)
      PROVE  TypeOK'
  BY <1>1, ServiceCheckAssumption DEF Change, TypeOK, resultVars, alertVars, workVars
<1>2. CASE AgentPost(c)
  BY <1>2, ServiceCheckAssumption DEF AgentPost, AddResult, TypeOK, alertVars, workVars
<1>3. CASE Create(c)
  BY <1>3 DEF Create, TypeOK, resultVars, alertVars, workVars, bounds
<1>4. CASE Delete(c)
  BY <1>4, ServiceCheckAssumption DEF Delete, UserAct, TypeOK, resultVars, alertVars, workVars
<1>5. CASE HandleAlert(c)
  <2>1. alerts[c] - 1 \in Nat
    BY <1>5 DEF HandleAlert, TypeOK
  <2>2. alerts' \in [Checks -> Nat]
    BY <1>5, <2>1 DEF HandleAlert, TypeOK
  <2>. QED BY <1>5, <2>2, ServiceCheckAssumption DEF HandleAlert, UserAct, TypeOK, resultVars, workVars
<1>. QED BY <1>1, <1>2, <1>3, <1>4, <1>5 DEF Outside

LEMMA NextTypeOK == ASSUME TypeOK, [Next]_vars PROVE TypeOK'
<1>1. CASE UNCHANGED vars
  BY <1>1 DEF vars, resultVars, alertVars, workVars, bounds, TypeOK
<1>. QED BY <1>1, Steps3, StartTypeOK, WorkerTypeOK, OutsideTypeOK

\* Every variable of the service checks keeps its type, for any checks, overlapping
\* runs and slots; in particular a worker holds a finding from its probe to its end.
THEOREM ServiceTypeCorrect == Spec => []TypeOK
<1>1. TypeOK /\ [Next]_vars => TypeOK'
  BY NextTypeOK
<1>. QED BY InitTypeOK, <1>1, PTL DEF Spec
-----------------------------------------------------------------------------
(* Alerts that follow the results.                                         *)

\* The runs end within the minute, and no name is part of another.
Apart == \A q, r \in Runs : q = r
Separate == \A c, d \in Checks : <<c, d>> \in Covers => c = d

\* A check that is down, and was good before, has an alert once the result has been
\* acted upon, unless an operator dealt with it; whatever else a probe may find.
CriticalIsAlerted ==
  Undisturbed =>
    \A c \in Checks :
      Settled(c) /\ ~handled[c] /\ newest[c] = "critical" /\ sawGood[c] => alerts[c] > 0

\* What makes it inductive: between storing a result and acting on it the worker
\* still has the newest result in its hands, and the alerts are those of the one before.
Watched(c) ==
  /\ newest[c] \notin {"none", "critical"} => sawGood[c]
  /\ newest[c] = "none" => ~sawGood[c]
  /\ Settled(c) /\ ~handled[c] /\ newest[c] = "critical" /\ sawGood[c] => alerts[c] > 0
  /\ \A r \in Runs :
       /\ at[r][c] = "compare" =>
            /\ got[r][c] = newest[c]
            /\ before[c] \notin {"none", "critical"} => sawGood[c]
            /\ before[c] = "none" /\ newest[c] = "critical" => ~sawGood[c]
            /\ before[c] = newest[c] /\ newest[c] = "critical" /\ ~handled[c] /\ sawGood[c]
                 => alerts[c] > 0
       /\ at[r][c] = "resolve" => newest[c] = "ok"

\* With two verdicts the alerts are exact.
Expected(c) == IF newest[c] = "critical" /\ sawGood[c] THEN 1 ELSE 0
Exact(c) ==
  /\ alerts[c] <= 1
  /\ handled[c] => alerts[c] = 0
  /\ Settled(c) /\ ~handled[c] => alerts[c] = Expected(c)
  /\ \A r \in Runs :
       /\ at[r][c] = "compare" =>
            /\ before[c] = newest[c] /\ ~handled[c] => alerts[c] = Expected(c)
            /\ before[c] # "critical" => alerts[c] = 0
       /\ at[r][c] = "raise" => alerts[c] = 0 /\ newest[c] = "critical" /\ sawGood[c]

AllWatched == Undisturbed => \A c \in Checks : Watched(c)
AllExact == Undisturbed => \A c \in Checks : Exact(c)

\* Nothing of the check changes.
SameCheck(c) ==
  /\ newest'[c] = newest[c] /\ before'[c] = before[c] /\ sawGood'[c] = sawGood[c]
  /\ alerts'[c] = alerts[c] /\ handled'[c] = handled[c]
  /\ \A r \in Runs : at'[r][c] = at[r][c] /\ got'[r][c] = got[r][c]

LEMMA Untouched ==
  ASSUME NEW c \in Checks, SameCheck(c)
  PROVE  (Watched(c) => Watched(c)') /\ (Exact(c) => Exact(c)')
<1>1. Settled(c)' = Settled(c) /\ Expected(c)' = Expected(c)
  BY DEF SameCheck, Settled, Expected
<1>2. Watched(c) => Watched(c)'
  BY <1>1 DEF SameCheck, Watched
<1>3. Exact(c) => Exact(c)'
  BY <1>1 DEF SameCheck, Exact
<1>. QED BY <1>2, <1>3

\* A worker changes no other check.
LEMMA OthersUntouched ==
  ASSUME TypeOK, Separate, NEW r \in Runs, NEW c \in Checks, WorkerMoves(r, c),
         NEW d \in Checks, d # c
  PROVE  SameCheck(d)
<1>1. \A q \in Runs : at'[q][d] = at[q][d] /\ got'[q][d] = got[q][d]
  BY WorkerPlace, WorkerTypes
<1>2. newest'[d] = newest[d] /\ before'[d] = before[d] /\ sawGood'[d] = sawGood[d]
  <2>1. UNCHANGED <<newest, before, sawGood>> \/ AddResult(c, got[r][c])
    BY DEF WorkerMoves, resultVars
  <2>. QED BY <2>1 DEF AddResult, TypeOK
<1>3. alerts'[d] = alerts[d] /\ handled'[d] = handled[d]
  <2>1. <<c, d>> \notin Covers
    BY DEF Separate
  <2>2. \/ UNCHANGED alerts
        \/ alerts' = [alerts EXCEPT ![c] = @ + 1]
        \/ alerts' = [e \in Checks |-> IF <<c, e>> \in Covers THEN 0 ELSE alerts[e]]
    BY DEF WorkerMoves, alertVars
  <2>3. UNCHANGED handled \/ handled' = [handled EXCEPT ![c] = FALSE]
    BY DEF WorkerMoves, alertVars
  <2>4. alerts'[d] = alerts[d]
    BY <2>1, <2>2 DEF TypeOK
  <2>. QED BY <2>3, <2>4 DEF TypeOK
<1>. QED BY <1>1, <1>2, <1>3 DEF SameCheck

\* Where the one worker of a check is after its step.
GoesTo(r, c, a) == at' = [at EXCEPT ![r][c] = a]

LEMMA OneWorker ==
  ASSUME TypeOK, Apart, NEW r \in Runs, NEW c \in Checks, NEW a \in Steps, GoesTo(r, c, a)
  PROVE  /\ \A q \in Runs : at'[q][c] = a /\ at[q][c] = at[r][c]
         /\ Settled(c) <=> at[r][c] \in {"none", "queued", "probe", "store"}
         /\ Settled(c)' <=> a \in {"none", "queued", "probe", "store"}
  BY DEF TypeOK, Apart, Settled, GoesTo

\* The worker compares and acts on its own result, so that the check stays watched.
LEMMA WorkerWatched ==
  ASSUME TypeOK, Apart, Separate, NEW r \in Runs, NEW c \in Checks, WorkerMoves(r, c), Watched(c)
  PROVE  Watched(c)'
<1>. DEFINE quiet == {"none", "queued", "probe", "store"}
<1>0. \A q \in Runs : q = r
  BY DEF Apart
<1>1. CASE at[r][c] = "queued" \/ at[r][c] = "probe"
  <2>1. PICK a \in {"probe", "store"} : at' = [at EXCEPT ![r][c] = a]
    BY <1>1 DEF WorkerMoves
  <2>2. UNCHANGED <<newest, before, sawGood, alerts, handled>>
    BY <1>1 DEF WorkerMoves, resultVars, alertVars
  <2>3. Settled(c) /\ \A q \in Runs : at'[q][c] = a
    <3>1. a \in Steps
      BY DEF Steps
    <3>2. at[r][c] \in {"none", "queued", "probe", "store"}
      BY <1>1
    <3>3. GoesTo(r, c, a)
      BY <2>1 DEF GoesTo
    <3>. QED BY <3>1, <3>2, <3>3, OneWorker
  <2>. QED BY <2>2, <2>3 DEF Watched
<1>2. CASE at[r][c] = "store"
  <2>1. at' = [at EXCEPT ![r][c] = "compare"] /\ AddResult(c, got[r][c])
        /\ UNCHANGED <<got, alerts, handled>>
    BY <1>2 DEF WorkerMoves, alertVars
  <2>2. Settled(c) /\ ~Settled(c)' /\ \A q \in Runs : at'[q][c] = "compare"
    <3>1. "compare" \in Steps /\ "compare" \notin {"none", "queued", "probe", "store"}
      BY DEF Steps
    <3>2. at[r][c] \in {"none", "queued", "probe", "store"}
      BY <1>2
    <3>3. GoesTo(r, c, "compare")
      BY <2>1 DEF GoesTo
    <3>. QED BY <3>1, <3>2, <3>3, OneWorker
  <2>3. /\ newest'[c] = got[r][c] /\ before'[c] = newest[c]
        /\ sawGood'[c] = (sawGood[c] \/ got[r][c] # "critical")
    BY <2>1 DEF AddResult, TypeOK
  <2>4. got[r][c] # "none"
    BY <1>2 DEF TypeOK
  <2>. QED BY <1>0, <2>1, <2>2, <2>3, <2>4 DEF Watched
<1>3. CASE at[r][c] = "compare"
  <2>1. got[r][c] = newest[c] /\ newest[c] # "none"
    BY <1>3 DEF Watched, TypeOK
  <2>2. UNCHANGED <<newest, before, sawGood, alerts, handled>>
    BY <1>3 DEF WorkerMoves, resultVars, alertVars
  <2>3. at' = [at EXCEPT ![r][c] = Reaction(before[c], newest[c])]
    BY <1>3, <2>1 DEF WorkerMoves, Leave
  <2>4. Reaction(before[c], newest[c]) \in {"none", "raise", "resolve"}
    BY DEF Reaction
  <2>5. \A q \in Runs : at'[q][c] = Reaction(before[c], newest[c])
    <3>1. GoesTo(r, c, Reaction(before[c], newest[c]))
      BY <2>3 DEF GoesTo
    <3>2. Reaction(before[c], newest[c]) \in Steps
      BY <2>4 DEF Steps
    <3>. QED BY <3>1, <3>2, OneWorker
  <2>6. Reaction(before[c], newest[c]) = "resolve" => newest[c] = "ok"
    BY DEF Reaction
  <2>7. Settled(c)' => Reaction(before[c], newest[c]) = "none"
    <3>1. {"none", "raise", "resolve"} \subseteq Steps
      BY DEF Steps
    <3>2. Settled(c)' => Reaction(before[c], newest[c]) \in {"none", "queued", "probe", "store"}
      BY <2>3, <2>4, <3>1, OneWorker DEF GoesTo
    <3>. QED BY <2>4, <3>2
  <2>8. Reaction(before[c], newest[c]) = "none" /\ newest[c] = "critical"
          => before[c] = "none" \/ before[c] = newest[c]
    BY DEF Reaction
  <2>. QED BY <1>3, <2>1, <2>2, <2>4, <2>5, <2>6, <2>7, <2>8 DEF Watched
<1>4. CASE at[r][c] = "raise"
  <2>1. alerts'[c] = alerts[c] + 1 /\ alerts[c] \in Nat
    BY <1>4 DEF WorkerMoves, TypeOK
  <2>2. UNCHANGED <<newest, before, sawGood>> /\ at' = [at EXCEPT ![r][c] = "none"]
    BY <1>4 DEF WorkerMoves, resultVars, Leave
  <2>3. \A q \in Runs : at'[q][c] = "none"
    BY <2>2, OneWorker DEF Steps, GoesTo
  <2>. QED BY <2>1, <2>2, <2>3 DEF Watched
<1>5. CASE at[r][c] = "resolve"
  <2>1. newest[c] = "ok"
    BY <1>5 DEF Watched
  <2>2. UNCHANGED <<newest, before, sawGood>> /\ at' = [at EXCEPT ![r][c] = "none"]
    BY <1>5 DEF WorkerMoves, resultVars, Leave
  <2>3. \A q \in Runs : at'[q][c] = "none"
    BY <2>2, OneWorker DEF Steps, GoesTo
  <2>. QED BY <2>1, <2>2, <2>3 DEF Watched
<1>. QED BY <1>1, <1>2, <1>3, <1>4, <1>5 DEF WorkerMoves

\* The same for the number of alerts.
LEMMA WorkerExact ==
  ASSUME TypeOK, Apart, Separate, Verdicts = {"ok", "critical"},
         NEW r \in Runs, NEW c \in Checks, WorkerMoves(r, c), Watched(c), Exact(c)
  PROVE  Exact(c)'
<1>0. \A q \in Runs : q = r
  BY DEF Apart
<1>1. CASE at[r][c] = "queued" \/ at[r][c] = "probe"
  <2>1. PICK a \in {"probe", "store"} : at' = [at EXCEPT ![r][c] = a]
    BY <1>1 DEF WorkerMoves
  <2>2. UNCHANGED <<newest, before, sawGood, alerts, handled>>
    BY <1>1 DEF WorkerMoves, resultVars, alertVars
  <2>3. Settled(c) /\ \A q \in Runs : at'[q][c] = a
    <3>1. a \in Steps
      BY DEF Steps
    <3>2. at[r][c] \in {"none", "queued", "probe", "store"}
      BY <1>1
    <3>3. GoesTo(r, c, a)
      BY <2>1 DEF GoesTo
    <3>. QED BY <3>1, <3>2, <3>3, OneWorker
  <2>. QED BY <2>2, <2>3 DEF Exact, Expected
<1>2. CASE at[r][c] = "store"
  <2>1. at' = [at EXCEPT ![r][c] = "compare"] /\ AddResult(c, got[r][c])
        /\ UNCHANGED <<got, alerts, handled>>
    BY <1>2 DEF WorkerMoves, alertVars
  <2>2. Settled(c) /\ ~Settled(c)' /\ \A q \in Runs : at'[q][c] = "compare"
    <3>1. "compare" \in Steps /\ "compare" \notin {"none", "queued", "probe", "store"}
      BY DEF Steps
    <3>2. at[r][c] \in {"none", "queued", "probe", "store"}
      BY <1>2
    <3>3. GoesTo(r, c, "compare")
      BY <2>1 DEF GoesTo
    <3>. QED BY <3>1, <3>2, <3>3, OneWorker
  <2>3. /\ newest'[c] = got[r][c] /\ before'[c] = newest[c]
        /\ sawGood'[c] = (sawGood[c] \/ got[r][c] # "critical")
    BY <2>1 DEF AddResult, TypeOK
  <2>4. newest[c] = newest'[c] => Expected(c)' = Expected(c)
    BY <2>3 DEF Expected
  <2>5. ~handled[c] => alerts[c] = Expected(c)
    BY <2>2 DEF Exact
  <2>6. newest[c] # "critical" => Expected(c) = 0
    BY DEF Expected
  <2>. QED BY <2>1, <2>2, <2>3, <2>4, <2>5, <2>6 DEF Exact
<1>3. CASE at[r][c] = "compare"
  <2>1. got[r][c] = newest[c] /\ newest[c] \in Verdicts
    BY <1>3 DEF Watched, TypeOK
  <2>2. UNCHANGED <<newest, before, sawGood, alerts, handled>>
    BY <1>3 DEF WorkerMoves, resultVars, alertVars
  <2>3. at' = [at EXCEPT ![r][c] = Reaction(before[c], newest[c])]
    BY <1>3, <2>1 DEF WorkerMoves, Leave
  <2>4. Reaction(before[c], newest[c]) \in {"none", "raise", "resolve"}
    BY DEF Reaction
  <2>5. \A q \in Runs : at'[q][c] = Reaction(before[c], newest[c])
    <3>1. GoesTo(r, c, Reaction(before[c], newest[c]))
      BY <2>3 DEF GoesTo
    <3>2. Reaction(before[c], newest[c]) \in Steps
      BY <2>4 DEF Steps
    <3>. QED BY <3>1, <3>2, OneWorker
  <2>6. Settled(c)' => Reaction(before[c], newest[c]) = "none"
    <3>1. {"none", "raise", "resolve"} \subseteq Steps
      BY DEF Steps
    <3>2. Settled(c)' => Reaction(before[c], newest[c]) \in {"none", "queued", "probe", "store"}
      BY <2>3, <2>4, <3>1, OneWorker DEF GoesTo
    <3>. QED BY <2>4, <3>2
  <2>7. Expected(c)' = Expected(c)
    BY <2>2 DEF Expected
  <2>8. ASSUME Reaction(before[c], newest[c]) = "none", ~handled[c]
        PROVE  alerts[c] = Expected(c)
    <3>1. before[c] = newest[c] \/ before[c] = "none"
      BY <2>1, <2>8 DEF Reaction, TypeOK
    <3>2. CASE before[c] = "none"
      <4>1. alerts[c] = 0
        BY <1>3, <3>2 DEF Exact
      <4>2. newest[c] = "critical" => ~sawGood[c]
        BY <1>3, <3>2 DEF Watched
      <4>. QED BY <4>1, <4>2 DEF Expected
    <3>3. CASE before[c] = newest[c]
      BY <1>3, <2>8, <3>3 DEF Exact
    <3>. QED BY <3>1, <3>2, <3>3
  <2>9. ASSUME Reaction(before[c], newest[c]) = "raise"
        PROVE  alerts[c] = 0 /\ newest[c] = "critical" /\ sawGood[c]
    <3>1. before[c] \notin {"none", newest[c]} /\ newest[c] = "critical"
      BY <2>9 DEF Reaction
    <3>. QED BY <1>3, <3>1 DEF Exact, Watched
  <2>. QED BY <2>2, <2>4, <2>5, <2>6, <2>7, <2>8, <2>9 DEF Exact
<1>4. CASE at[r][c] = "raise"
  <2>1. alerts[c] = 0 /\ newest[c] = "critical" /\ sawGood[c]
    BY <1>4 DEF Exact
  <2>2. alerts'[c] = 1 /\ handled'[c] = FALSE
    BY <1>4, <2>1 DEF WorkerMoves, TypeOK
  <2>3. UNCHANGED <<newest, before, sawGood>> /\ at' = [at EXCEPT ![r][c] = "none"]
    BY <1>4 DEF WorkerMoves, resultVars, Leave
  <2>4. \A q \in Runs : at'[q][c] = "none"
    BY <2>3, OneWorker DEF Steps, GoesTo
  <2>5. Expected(c)' = 1
    BY <2>1, <2>3 DEF Expected
  <2>. QED BY <2>2, <2>4, <2>5 DEF Exact
<1>5. CASE at[r][c] = "resolve"
  <2>1. newest[c] = "ok" /\ <<c, c>> \in Covers
    BY <1>5, ServiceCheckAssumption DEF Watched
  <2>2. alerts'[c] = 0 /\ handled'[c] = handled[c]
    BY <1>5, <2>1 DEF WorkerMoves, TypeOK
  <2>3. UNCHANGED <<newest, before, sawGood>> /\ at' = [at EXCEPT ![r][c] = "none"]
    BY <1>5 DEF WorkerMoves, resultVars, Leave
  <2>4. \A q \in Runs : at'[q][c] = "none"
    BY <2>3, OneWorker DEF Steps, GoesTo
  <2>5. Expected(c)' = 0
    BY <2>1, <2>3 DEF Expected
  <2>. QED BY <2>2, <2>4, <2>5 DEF Exact
<1>. QED BY <1>1, <1>2, <1>3, <1>4, <1>5 DEF WorkerMoves

\* A run that starts puts no worker past its probe.
LEMMA StartSettled ==
  ASSUME TypeOK, NEW r \in Runs, Start(r), NEW c \in Checks
  PROVE  (Watched(c) => Watched(c)') /\ (Exact(c) => Exact(c)')
<1>1. UNCHANGED <<newest, before, sawGood, alerts, handled, got>>
  BY DEF Start, resultVars, alertVars
<1>2. \A q \in Runs : \/ at'[q][c] = at[q][c]
                      \/ at[q][c] = "none" /\ at'[q][c] = "queued"
  BY DEF Start, Idle, TypeOK
<1>3. Settled(c)' => Settled(c)
  BY <1>2 DEF Settled
<1>4. Expected(c)' = Expected(c)
  BY <1>1 DEF Expected
<1>5. Watched(c) => Watched(c)'
  BY <1>1, <1>2, <1>3 DEF Watched
<1>6. Exact(c) => Exact(c)'
  BY <1>1, <1>2, <1>3, <1>4 DEF Exact
<1>. QED BY <1>5, <1>6

\* What others do, an agent's result excepted, which is a disturbance.
LEMMA OutsideKeeps ==
  ASSUME TypeOK, NEW c \in Checks, Outside(c), ~AgentPost(c), NEW d \in Checks
  PROVE  (Watched(d) => Watched(d)') /\ (Watched(d) /\ Exact(d) => Exact(d)')
<1>1. CASE UNCHANGED <<resultVars, alertVars, workVars>>
  BY <1>1, Untouched DEF SameCheck, resultVars, alertVars, workVars
<1>2. CASE HandleAlert(c)
  <2>1. UNCHANGED <<newest, before, sawGood, at, got>>
    BY <1>2 DEF HandleAlert, resultVars, workVars
  <2>2. CASE d # c
    <3>1. alerts'[d] = alerts[d] /\ handled'[d] = handled[d]
      BY <1>2, <2>2 DEF HandleAlert, TypeOK
    <3>. QED BY <2>1, <3>1, Untouched DEF SameCheck
  <2>3. CASE d = c
    <3>1. alerts[c] > 0 /\ alerts'[c] = alerts[c] - 1 /\ handled'[c] = TRUE /\ alerts[c] \in Nat
      BY <1>2 DEF HandleAlert, TypeOK
    <3>2. Settled(c)' = Settled(c)
      BY <2>1 DEF Settled
    <3>3. Watched(c) => Watched(c)'
      BY <2>1, <3>1, <3>2 DEF Watched
    <3>4. ASSUME Watched(c), Exact(c)
          PROVE  Exact(c)'
      <4>1. alerts'[c] = 0
        BY <3>1, <3>4 DEF Exact
      <4>. QED BY <2>1, <3>1, <3>2, <3>4, <4>1 DEF Exact
    <3>. QED BY <2>3, <3>3, <3>4
  <2>. QED BY <2>2, <2>3
<1>. QED BY <1>1, <1>2 DEF Outside, Change, Create, Delete

\* What has been disturbed stays so.
LEMMA DisturbedOnce ==
  ASSUME TypeOK, [Next]_vars, Undisturbed'
  PROVE  /\ Undisturbed
         /\ \A r \in Runs, c \in Checks : CheckStep(r, c) => WorkerMoves(r, c)
         /\ \A c \in Checks : ~AgentPost(c)
<1>0. faults \in Nat /\ posts \in Nat /\ faults' = 0 /\ posts' = 0
  BY ServiceCheckAssumption DEF TypeOK, Undisturbed
<1>1. ASSUME NEW r \in Runs, NEW c \in Checks, CheckStep(r, c)
      PROVE  Undisturbed /\ WorkerMoves(r, c)
  BY <1>0, <1>1, StepOfWorker DEF WorkerMoves, WorkerFails, Undisturbed
<1>2. ASSUME NEW r \in Runs, Start(r)
      PROVE  Undisturbed
  BY <1>0, <1>2 DEF Start, bounds, Undisturbed
<1>3. \A c \in Checks : ~AgentPost(c)
  BY <1>0 DEF AgentPost
<1>4. ASSUME NEW c \in Checks, Outside(c)
      PROVE  Undisturbed
  BY <1>0, <1>3, <1>4 DEF Outside, Change, Create, Delete, HandleAlert, UserAct, bounds, Undisturbed
<1>5. UNCHANGED vars => Undisturbed
  BY <1>0 DEF vars, bounds, Undisturbed
<1>. QED BY <1>1, <1>2, <1>3, <1>4, <1>5, Steps3

LEMMA NextWatched ==
  ASSUME Apart, Separate, TypeOK, AllWatched, [Next]_vars
  PROVE  AllWatched'
<1>1. SUFFICES ASSUME Undisturbed', NEW d \in Checks
               PROVE  Watched(d)'
  BY DEF AllWatched
<1>2. \A c \in Checks : Watched(c)
  BY <1>1, DisturbedOnce DEF AllWatched
<1>3. ASSUME NEW r \in Runs, NEW c \in Checks, CheckStep(r, c)
      PROVE  Watched(d)'
  <2>1. WorkerMoves(r, c)
    BY <1>1, <1>3, DisturbedOnce
  <2>. QED BY <1>2, <2>1, WorkerWatched, OthersUntouched, Untouched
<1>4. ASSUME NEW c \in Checks, Outside(c)
      PROVE  Watched(d)'
  BY <1>1, <1>2, <1>4, DisturbedOnce, OutsideKeeps
<1>5. CASE UNCHANGED vars
  BY <1>2, <1>5, Untouched DEF vars, SameCheck, resultVars, alertVars, workVars
<1>. QED BY <1>2, <1>3, <1>4, <1>5, StartSettled, Steps3

LEMMA NextExact ==
  ASSUME Apart, Separate, Verdicts = {"ok", "critical"}, TypeOK, AllWatched, AllExact, [Next]_vars
  PROVE  AllExact'
<1>1. SUFFICES ASSUME Undisturbed', NEW d \in Checks
               PROVE  Exact(d)'
  BY DEF AllExact
<1>2. \A c \in Checks : Watched(c) /\ Exact(c)
  BY <1>1, DisturbedOnce DEF AllWatched, AllExact
<1>3. ASSUME NEW r \in Runs, NEW c \in Checks, CheckStep(r, c)
      PROVE  Exact(d)'
  <2>1. WorkerMoves(r, c)
    BY <1>1, <1>3, DisturbedOnce
  <2>. QED BY <1>2, <2>1, WorkerExact, OthersUntouched, Untouched
<1>4. ASSUME NEW c \in Checks, Outside(c)
      PROVE  Exact(d)'
  BY <1>1, <1>2, <1>4, DisturbedOnce, OutsideKeeps
<1>5. CASE UNCHANGED vars
  BY <1>2, <1>5, Untouched DEF vars, SameCheck, resultVars, alertVars, workVars
<1>. QED BY <1>2, <1>3, <1>4, <1>5, StartSettled, Steps3

LEMMA InitWatched == Init => AllWatched /\ AllExact
  BY DEF Init, AllWatched, AllExact, Watched, Exact, Expected

LEMMA WatchedAlways ==
  ASSUME Apart, Separate
  PROVE  Spec => [](TypeOK /\ AllWatched)
<1>1. TypeOK /\ AllWatched /\ [Next]_vars => (TypeOK /\ AllWatched)'
  BY NextTypeOK, NextWatched
<1>. QED BY InitTypeOK, InitWatched, <1>1, PTL DEF Spec

\* Where runs do not overlap and names are apart, a check that is down and was good
\* has an alert as soon as its last result has been acted upon, for any checks, slots
\* and verdicts, unless an operator dealt with it.
THEOREM ServiceCriticalIsAlerted ==
  ASSUME Apart, Separate
  PROVE  Spec => []CriticalIsAlerted
<1>1. AllWatched => CriticalIsAlerted
  BY DEF AllWatched, Watched, CriticalIsAlerted
<1>. QED BY <1>1, WatchedAlways, PTL

\* And if probes tell ok from critical only, it has exactly the alert it should have.
THEOREM ServiceAlertTracksState ==
  ASSUME Apart, Separate, Verdicts = {"ok", "critical"}
  PROVE  Spec => []AlertTracksState
<1>1. AllExact => AlertTracksState
  BY DEF AllExact, Exact, Expected, AlertTracksState
<1>2. TypeOK /\ AllWatched /\ AllExact /\ [Next]_vars => AllExact'
  BY NextExact
<1>3. Init => AllExact
  BY InitWatched
<1>. QED BY <1>1, <1>2, <1>3, WatchedAlways, PTL DEF Spec
=============================================================================
