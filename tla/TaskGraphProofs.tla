--------------------------- MODULE TaskGraphProofs ---------------------------
(***************************************************************************)
(* Facts about the operators of TaskGraph, for every plan: what refresh()  *)
(* blocks and promotes, and that the statuses agree with the graph after   *)
(* each operation of it.                                                   *)
(***************************************************************************)
EXTENDS TaskGraph, WellFoundedInduction, TLAPS

\* The statuses are told apart by their names only.
LEMMA StatusNames ==
    /\ UNLOCKING \subseteq Terminal /\ Dead \subseteq Terminal /\ Terminal \subseteq TaskStatus
    /\ UNLOCKING \cap Dead = {}
    /\ \A s \in {"PENDING", "READY", "RUNNING"} : s \in TaskStatus \ Terminal
    /\ TaskStatus = Terminal \cup {"PENDING", "READY", "RUNNING"}
    /\ Terminal = UNLOCKING \cup Dead
BY DEF UNLOCKING, Dead, Terminal, TaskStatus

-----------------------------------------------------------------------------
(* What the sweeps of refresh() block *)

\* refresh() leaves no task it should have blocked.
LEMMA DoomedClosed ==
    ASSUME NEW deps, NEW st
    PROVE  ClosedUnderBlocking(deps, st, Doomed(deps, st))
<1> DEFINE X == Doomed(deps, st)
<1>1. SUFFICES ASSUME NEW t \in DOMAIN deps, st[t] \in {"PENDING", "READY"},
                      NEW d \in deps[t], st[d] \in Dead \/ d \in X,
                      NEW E \in SUBSET DOMAIN deps, ClosedUnderBlocking(deps, st, E)
               PROVE  t \in E
  BY DEF ClosedUnderBlocking, Doomed
<1>2. d \in X => d \in E
  BY <1>1 DEF Doomed
<1>3. QED
  BY <1>1, <1>2 DEF ClosedUnderBlocking

\* refresh() blocks only tasks that had not started, each because of a
\* dependency that ended badly or is blocked with it.
LEMMA DoomedSound ==
    ASSUME NEW deps, NEW st, NEW t \in Doomed(deps, st)
    PROVE  /\ st[t] \in {"PENDING", "READY"}
           /\ \E d \in deps[t] : st[d] \in Dead \/ d \in Doomed(deps, st)
<1> DEFINE X == Doomed(deps, st)
           Y == {u \in X : /\ st[u] \in {"PENDING", "READY"}
                           /\ \E d \in deps[u] : st[d] \in Dead \/ d \in X}
<1>1. Y \in SUBSET DOMAIN deps
  BY DEF Doomed
<1>2. ClosedUnderBlocking(deps, st, Y)
  <2>1. SUFFICES ASSUME NEW u \in DOMAIN deps, st[u] \in {"PENDING", "READY"},
                        NEW d \in deps[u], st[d] \in Dead \/ d \in Y
                 PROVE  u \in Y
    BY DEF ClosedUnderBlocking
  <2>2. u \in X
    BY <2>1, DoomedClosed DEF ClosedUnderBlocking
  <2>3. QED
    BY <2>1, <2>2
<1>3. t \in Y
  BY <1>1, <1>2 DEF Doomed
<1>4. QED
  BY <1>3

-----------------------------------------------------------------------------
(* What refresh() returns *)

LEMMA RefreshType ==
    ASSUME NEW deps, NEW st \in [DOMAIN deps -> TaskStatus]
    PROVE  Refresh(deps, st) \in [DOMAIN deps -> TaskStatus]
BY DEF Refresh, TaskStatus

\* refresh() moves no settled and no running task, and every move it makes is
\* one transition_to() accepts.
LEMMA RefreshMoves ==
    ASSUME NEW deps, NEW st \in [DOMAIN deps -> TaskStatus], NEW t \in DOMAIN deps,
           Refresh(deps, st)[t] # st[t]
    PROVE  <<st[t], Refresh(deps, st)[t]>> \in TASK_TRANSITIONS
<1>1. CASE t \in Doomed(deps, st)
  <2>1. st[t] \in {"PENDING", "READY"}
    BY <1>1, DoomedSound
  <2>2. QED
    BY <1>1, <2>1 DEF Refresh, TASK_TRANSITIONS
<1>2. CASE t \notin Doomed(deps, st)
  BY <1>2 DEF Refresh, TASK_TRANSITIONS
<1>3. QED
  BY <1>1, <1>2

\* The statuses agree with the graph after refresh(), provided that before it
\* what had started was unlocked and what was blocked had a reason to be.
LEMMA RefreshConsistent ==
    ASSUME NEW deps, NEW st \in [DOMAIN deps -> TaskStatus],
           \A t \in DOMAIN deps : deps[t] \subseteq DOMAIN deps,
           \A t \in DOMAIN deps : st[t] \notin {"PENDING", "BLOCKED"}
                                     => DependenciesSatisfied(deps, st, t),
           \A t \in DOMAIN deps : st[t] = "BLOCKED" => HasFailedDependency(deps, st, t)
    PROVE  Consistent(deps, Refresh(deps, st))
<1> DEFINE X == Doomed(deps, st)
           r == Refresh(deps, st)
<1>1. X \subseteq DOMAIN deps
  BY DEF Doomed
<1>2. \A t \in X : st[t] \in {"PENDING", "READY"} /\ st[t] \notin UNLOCKING /\ st[t] \notin Dead
  BY DoomedSound DEF UNLOCKING, Dead
<1>3. \A t \in X : \E d \in deps[t] : st[d] \in Dead \/ d \in X
  BY DoomedSound
<1>4. \A t \in DOMAIN deps : r[t] \in UNLOCKING <=> st[t] \in UNLOCKING
  BY <1>2 DEF Refresh, UNLOCKING
<1>5. \A t \in DOMAIN deps : r[t] \in Dead <=> st[t] \in Dead \/ t \in X
  BY <1>2 DEF Refresh, Dead
<1>6. \A t \in DOMAIN deps : DependenciesSatisfied(deps, r, t)
                                <=> DependenciesSatisfied(deps, st, t)
  BY <1>4 DEF DependenciesSatisfied
<1>7. \A t \in DOMAIN deps : HasFailedDependency(deps, r, t)
                                <=> \E d \in deps[t] : st[d] \in Dead \/ d \in X
  BY <1>5 DEF HasFailedDependency
<1>8. ASSUME NEW t \in DOMAIN deps
      PROVE  /\ r[t] \notin {"PENDING", "BLOCKED"} => DependenciesSatisfied(deps, st, t)
             /\ r[t] = "BLOCKED" <=> \E d \in deps[t] : st[d] \in Dead \/ d \in X
             /\ r[t] = "PENDING" => ~DependenciesSatisfied(deps, st, t)
  <2>1. r[t] = IF t \in X THEN "BLOCKED"
               ELSE IF st[t] = "PENDING" /\ DependenciesSatisfied(deps, st, t) THEN "READY"
               ELSE st[t]
    BY DEF Refresh
  <2>2. r[t] = "BLOCKED" => \E d \in deps[t] : st[d] \in Dead \/ d \in X
    BY <2>1, <1>3 DEF HasFailedDependency
  <2>3. ASSUME NEW d \in deps[t], st[d] \in Dead \/ d \in X
        PROVE  r[t] = "BLOCKED"
    <3>1. st[t] \in {"PENDING", "READY"} => t \in X
      BY <2>3, DoomedClosed DEF ClosedUnderBlocking
    <3>2. st[d] \notin UNLOCKING
      BY <2>3, <1>2, StatusNames
    <3>3. st[t] \in {"PENDING", "BLOCKED"}
      BY <3>2 DEF DependenciesSatisfied
    <3>4. QED
      BY <2>1, <3>1, <3>3
  <2>4. r[t] \notin {"PENDING", "BLOCKED"} => DependenciesSatisfied(deps, st, t)
    BY <2>1
  <2>5. r[t] = "PENDING" => ~DependenciesSatisfied(deps, st, t)
    BY <2>1
  <2>6. QED
    BY <2>2, <2>3, <2>4, <2>5
<1>9. QED
  BY <1>6, <1>7, <1>8 DEF Consistent

-----------------------------------------------------------------------------
(* The operations *)

\* A new plan, refreshed: nothing has failed, so nothing is blocked.
LEMMA FirstRefreshConsistent ==
    ASSUME NEW n \in Nat, NEW deps \in [1 .. n -> SUBSET (1 .. n)]
    PROVE  Consistent(deps, Refresh(deps, [t \in DOMAIN deps |-> "PENDING"]))
<1> DEFINE st == [t \in DOMAIN deps |-> "PENDING"]
<1>1. st \in [DOMAIN deps -> TaskStatus] /\ \A t \in DOMAIN deps : st[t] = "PENDING"
  BY DEF TaskStatus
<1>2. \A t \in DOMAIN deps : deps[t] \subseteq DOMAIN deps
  OBVIOUS
<1> HIDE DEF st
<1>3. QED
  BY <1>1, <1>2, RefreshConsistent

\* Starting a ready task, or requeueing a running one, keeps the agreement.
LEMMA StartConsistent ==
    ASSUME NEW deps, NEW st \in [DOMAIN deps -> TaskStatus], Consistent(deps, st),
           \A t \in DOMAIN deps : deps[t] \subseteq DOMAIN deps,
           NEW t \in DOMAIN deps, NEW s, st[t] \in {"READY", "RUNNING"},
           s \in {"READY", "RUNNING"}
    PROVE  Consistent(deps, [st EXCEPT ![t] = s])
<1> DEFINE r == [st EXCEPT ![t] = s]
<1>1. \A u \in DOMAIN deps : r[u] = IF u = t THEN s ELSE st[u]
  OBVIOUS
<1>2. \A u \in DOMAIN deps : r[u] \in UNLOCKING <=> st[u] \in UNLOCKING
  BY <1>1 DEF UNLOCKING
<1>3. \A u \in DOMAIN deps : r[u] \in Dead <=> st[u] \in Dead
  BY <1>1 DEF Dead
<1>4. \A u \in DOMAIN deps : DependenciesSatisfied(deps, r, u)
                                <=> DependenciesSatisfied(deps, st, u)
  BY <1>2 DEF DependenciesSatisfied
<1>5. \A u \in DOMAIN deps : HasFailedDependency(deps, r, u)
                                <=> HasFailedDependency(deps, st, u)
  BY <1>3 DEF HasFailedDependency
<1>6. QED
  BY <1>1, <1>4, <1>5 DEF Consistent

\* So does marking a running task and refreshing: everything downstream of a
\* failure is blocked, everything whose last dependency this was is ready.
LEMMA MarkConsistent ==
    ASSUME NEW deps, NEW st \in [DOMAIN deps -> TaskStatus], Consistent(deps, st),
           \A t \in DOMAIN deps : deps[t] \subseteq DOMAIN deps,
           NEW t \in DOMAIN deps, st[t] = "RUNNING",
           NEW s \in {"SUCCEEDED", "DEFERRED", "FAILED"}
    PROVE  Consistent(deps, Mark(deps, st, t, s))
<1> DEFINE m == [st EXCEPT ![t] = s]
<1>1. m \in [DOMAIN deps -> TaskStatus]
  BY DEF TaskStatus
<1>2. \A u \in DOMAIN deps : m[u] = IF u = t THEN s ELSE st[u]
  OBVIOUS
<1>3. st[t] \notin UNLOCKING /\ st[t] \notin Dead
  BY DEF UNLOCKING, Dead
<1>4. ASSUME NEW u \in DOMAIN deps, m[u] \notin {"PENDING", "BLOCKED"}
      PROVE  DependenciesSatisfied(deps, m, u)
  <2>1. DependenciesSatisfied(deps, st, u)
    BY <1>2, <1>4 DEF Consistent
  <2>2. QED
    BY <2>1, <1>2, <1>3 DEF DependenciesSatisfied
<1>5. ASSUME NEW u \in DOMAIN deps, m[u] = "BLOCKED"
      PROVE  HasFailedDependency(deps, m, u)
  <2>1. HasFailedDependency(deps, st, u)
    BY <1>2, <1>5 DEF Consistent
  <2>2. QED
    BY <2>1, <1>2, <1>3 DEF HasFailedDependency
<1> HIDE DEF m
<1>6. Consistent(deps, Refresh(deps, m))
  BY <1>1, <1>4, <1>5, RefreshConsistent
<1>7. QED
  BY <1>6 DEF Mark, m

LEMMA MarkType ==
    ASSUME NEW deps, NEW st \in [DOMAIN deps -> TaskStatus], NEW t \in DOMAIN deps,
           NEW s \in {"SUCCEEDED", "DEFERRED", "FAILED"}
    PROVE  Mark(deps, st, t, s) \in [DOMAIN deps -> TaskStatus]
<1>1. [st EXCEPT ![t] = s] \in [DOMAIN deps -> TaskStatus]
  BY DEF TaskStatus
<1>2. QED
  BY <1>1, RefreshType DEF Mark

\* In a plan without cycles whose statuses agree with it, some task is ready
\* or running unless all have ended.
LEMMA AcyclicNotStranded ==
    ASSUME NEW deps, NEW st \in [DOMAIN deps -> TaskStatus], Consistent(deps, st),
           \A t \in DOMAIN deps : deps[t] \subseteq DOMAIN deps,
           Acyclic(deps),
           \A t \in DOMAIN deps : st[t] \notin {"READY", "RUNNING"}
    PROVE  AllEnded(st)
<1> DEFINE S == {t \in DOMAIN deps : st[t] = "PENDING"}
<1>1. SUFFICES ASSUME S # {} PROVE FALSE
  BY StatusNames DEF AllEnded
<1>2. PICK t \in S : deps[t] \cap S = {}
  BY <1>1 DEF Acyclic
<1>3. PICK d \in deps[t] : st[d] \notin UNLOCKING
  BY <1>2 DEF Consistent, DependenciesSatisfied
<1>4. st[d] \in Dead
  BY <1>2, <1>3, StatusNames
<1>5. st[t] = "BLOCKED"
  BY <1>2, <1>3, <1>4 DEF Consistent, HasFailedDependency
<1>6. QED
  BY <1>2, <1>5

\* A nonempty set of naturals has a least element.
LEMMA LeastElement ==
    ASSUME NEW S \in SUBSET Nat, S # {}
    PROVE  \E x \in S : \A y \in S : x <= y
<1>1. PICK x \in S : \A y \in S : ~(<<y, x>> \in OpToRel(<, Nat))
  BY NatLessThanWellFounded, WFMin
<1>2. \A y \in S : ~(y < x)
  BY <1>1 DEF OpToRel
<1>3. QED
  BY <1>2

\* next_task() returns the ready task of highest priority.
LEMMA NextTaskReady ==
    ASSUME NEW n \in Nat, NEW st, DOMAIN st = 1 .. n, ReadyTasks(st) # {}
    PROVE  NextTask(st) \in 1 .. n /\ st[NextTask(st)] = "READY"
<1>1. ReadyTasks(st) \in SUBSET Nat
  BY DEF ReadyTasks
<1>2. \E t \in ReadyTasks(st) : \A u \in ReadyTasks(st) : t <= u
  BY <1>1, LeastElement
<1>3. NextTask(st) \in ReadyTasks(st)
  BY <1>2 DEF NextTask
<1>4. QED
  BY <1>3 DEF ReadyTasks
=============================================================================
