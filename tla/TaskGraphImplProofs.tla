------------------------- MODULE TaskGraphImplProofs -------------------------
(***************************************************************************)
(* What class TaskGraph computes with loops, for plans of any size: Kahn's *)
(* traversal accepts a plan exactly when it has no cycle, the sweeps of    *)
(* refresh() end in the fixpoint Refresh defines, and so the loops         *)
(* implement TaskScheduler; and what TaskScheduler promises its client,    *)
(* which this module and Orchestrator inherit by implementing it.          *)
(***************************************************************************)
EXTENDS TaskGraphImpl, TaskGraphProofs, FiniteSetTheorems, SequenceTheorems

-----------------------------------------------------------------------------
(* sorted() *)

\* sorted(S) holds each task of S once: its positions are the ranks of S.
LEMMA SortedTasksLists ==
    ASSUME NEW S \in SUBSET Nat, IsFiniteSet(S)
    PROVE  /\ SortedTasks(S) \in Seq(S) /\ Len(SortedTasks(S)) = Cardinality(S)
           /\ \A t \in S : \E i \in 1 .. Cardinality(S) : SortedTasks(S)[i] = t
           /\ \A i, j \in 1 .. Cardinality(S) : SortedTasks(S)[i] = SortedTasks(S)[j] => i = j
<1> DEFINE Below(t) == {u \in S : u < t}
           rank == [t \in S |-> Cardinality(Below(t)) + 1]
<1>1. PICK n \in Nat : n = Cardinality(S)
  BY FS_CardinalityType
<1>2. \A t \in S : IsFiniteSet(Below(t)) /\ Cardinality(Below(t)) \in Nat
  BY FS_Subset, FS_CardinalityType
<1> HIDE DEF Below
<1>3. \A t \in S : Cardinality(Below(t)) + 1 \in 1 .. n
  <2> SUFFICES ASSUME NEW t \in S PROVE Cardinality(Below(t)) + 1 \in 1 .. n
    OBVIOUS
  <2>1. IsFiniteSet(S \ {t}) /\ Cardinality(S \ {t}) = n - 1
    BY <1>1, FS_RemoveElement
  <2>2. Below(t) \subseteq S \ {t}
    BY DEF Below
  <2>3. Cardinality(Below(t)) <= n - 1
    BY <2>1, <2>2, FS_Subset
  <2>4. Cardinality(Below(t)) \in Nat
    BY <1>2
  <2>5. QED
    BY <2>3, <2>4
<1>4. \A t, u \in S : t < u => Cardinality(Below(t)) < Cardinality(Below(u))
  <2> SUFFICES ASSUME NEW t \in S, NEW u \in S, t < u
               PROVE  Cardinality(Below(t)) < Cardinality(Below(u))
    OBVIOUS
  <2>1. Below(t) \subseteq Below(u) \ {t} /\ t \in Below(u)
    <3>1. \A w \in S : w \in Nat
      OBVIOUS
    <3>2. ASSUME NEW w \in Below(t) PROVE w \in Below(u) /\ w # t
      <4>1. w \in S /\ w < t
        BY DEF Below
      <4>2. w < u /\ w # t
        BY <3>1, <4>1
      <4>3. QED
        BY <4>1, <4>2 DEF Below
    <3>3. QED
      BY <3>2 DEF Below
  <2>2. IsFiniteSet(Below(u) \ {t}) /\ Cardinality(Below(u) \ {t}) = Cardinality(Below(u)) - 1
    BY <1>2, <2>1, FS_RemoveElement
  <2>3. Cardinality(Below(t)) <= Cardinality(Below(u)) - 1
    BY <2>1, <2>2, FS_Subset
  <2>4. QED
    BY <1>2, <2>3
<1>5. \A t, u \in S : rank[t] = rank[u] => t = u
  BY <1>2, <1>4
<1>6. rank \in Injection(S, 1 .. n)
  <2>1. rank \in [S -> 1 .. n]
    BY <1>3
  <2>2. QED
    BY <2>1, <1>5 DEF Injection, IsInjective
<1>7. IsFiniteSet(1 .. n) /\ Cardinality(1 .. n) = n
  BY FS_Interval
<1>8. \A i \in 1 .. n : \E t \in S : rank[t] = i
  <2>1. rank \in Surjection(S, 1 .. n)
    BY <1>1, <1>6, <1>7, FS_Injection
  <2>2. QED
    BY <2>1 DEF Surjection
<1> DEFINE At(i) == CHOOSE t \in S : Cardinality({u \in S : u < t}) = i - 1
<1>9. \A i \in 1 .. n : At(i) \in S /\ Cardinality(Below(At(i))) = i - 1
  <2> SUFFICES ASSUME NEW i \in 1 .. n
               PROVE  At(i) \in S /\ Cardinality(Below(At(i))) = i - 1
    OBVIOUS
  <2>1. PICK t \in S : rank[t] = i
    BY <1>8
  <2>2. Cardinality(Below(t)) = i - 1
    BY <1>2, <2>1
  <2>3. \E v \in S : Cardinality({u \in S : u < v}) = i - 1
    BY <2>2 DEF Below
  <2>4. QED
    BY <2>3 DEF Below
<1>10. SortedTasks(S) = [i \in 1 .. n |-> At(i)]
  BY <1>1 DEF SortedTasks
<1> HIDE DEF At
<1>11. \A t \in S : SortedTasks(S)[rank[t]] = t
  <2> SUFFICES ASSUME NEW t \in S PROVE SortedTasks(S)[rank[t]] = t
    OBVIOUS
  <2>1. PICK i \in 1 .. n : i = rank[t]
    BY <1>3
  <2>2. At(i) \in S /\ Cardinality(Below(At(i))) = i - 1
    BY <1>9
  <2>3. rank[At(i)] = i
    BY <2>2
  <2>4. At(i) = t
    BY <1>5, <2>1, <2>2, <2>3
  <2>5. QED
    BY <1>10, <2>1, <2>4
<1>12. \A t \in S : \E i \in 1 .. n : SortedTasks(S)[i] = t
  BY <1>3, <1>11
<1>13. \A i, j \in 1 .. n : SortedTasks(S)[i] = SortedTasks(S)[j] => i = j
  BY <1>9, <1>10
<1>14. SortedTasks(S) \in Seq(S) /\ Len(SortedTasks(S)) = n
  <2>1. SortedTasks(S) \in [1 .. n -> S]
    BY <1>9, <1>10
  <2>2. QED
    BY <2>1
<1>15. QED
  BY <1>1, <1>12, <1>13, <1>14

-----------------------------------------------------------------------------
(* The inductive invariant *)

Visited == {order[i] : i \in 1 .. Len(order)}
Queued == {queue[i] : i \in 1 .. Len(queue)}

\* What has been accepted or is being judged, and where a sweep stands.
TypeInv ==
    /\ pc \in {"new", "kahn", "rejected", "idle", "sweep"}
    /\ pc = "new" => order = <<>> /\ pos = 1
    /\ pc # "new" =>
          \E n \in 1 .. MaxTasks :
              /\ deps \in PlanShapes(n)
              /\ status \in [1 .. n -> TaskStatus]
              /\ attempts \in [1 .. n -> 0 .. MaxAttempts]
              /\ pos \in 1 .. n + 1
    /\ dirty \in BOOLEAN

\* The traversal: each visited task comes after its dependencies, an indegree
\* counts the dependencies not visited, and the queue holds, once each, the
\* tasks that wait for none.
KahnInv ==
    pc = "kahn" =>
        /\ status = [t \in Tasks |-> "PENDING"] /\ attempts = [t \in Tasks |-> 0]
        /\ order \in Seq(Tasks) /\ queue \in Seq(Tasks)
        /\ Cardinality(Visited) = Len(order)
        /\ \A i \in 1 .. Len(order) : \A d \in deps[order[i]] : \E j \in 1 .. i - 1 : order[j] = d
        /\ indegree = [u \in Tasks |-> Cardinality(deps[u] \ Visited)]
        /\ Queued = {u \in Tasks \ Visited : deps[u] \subseteq Visited}
        /\ \A i, j \in 1 .. Len(queue) : queue[i] = queue[j] => i = j

\* A sweep is on its way to statuses that agree with the graph; as long as it
\* changed nothing, nothing it passed had to change.
SweepInv ==
    pc = "sweep" =>
        /\ Consistent(deps, Refresh(deps, status))
        /\ ~dirty => \A t \in Tasks : t < pos => Refreshed(t) = status[t]

IInv == TypeInv /\ KahnInv /\ SweepInv /\ RejectsExactlyCycles /\ IdleIsConsistent

LEMMA InitIInv == Init => IInv
BY DEF Init, IInv, TypeInv, KahnInv, SweepInv, RejectsExactlyCycles, IdleIsConsistent, Constructed

-----------------------------------------------------------------------------
(* Kahn's traversal *)

\* The queue after popleft() and the appends.
LEMMA QueueAdvances ==
    ASSUME NEW T, NEW q \in Seq(T), q # <<>>, NEW r \in Seq(T),
           \A i, j \in 1 .. Len(q) : q[i] = q[j] => i = j,
           \A i, j \in 1 .. Len(r) : r[i] = r[j] => i = j,
           \A i \in 1 .. Len(q), j \in 1 .. Len(r) : q[i] # r[j]
    PROVE  LET p == Tail(q) \o r
           IN  /\ p \in Seq(T)
               /\ {p[i] : i \in 1 .. Len(p)}
                     = ({q[i] : i \in 1 .. Len(q)} \ {Head(q)}) \cup {r[i] : i \in 1 .. Len(r)}
               /\ \A i, j \in 1 .. Len(p) : p[i] = p[j] => i = j
<1> DEFINE p == Tail(q) \o r
           m == Len(q) - 1
<1>1. /\ m \in Nat /\ Len(q) = m + 1 /\ Len(r) \in Nat
      /\ Tail(q) \in Seq(T) /\ Len(Tail(q)) = m
      /\ \A i \in 1 .. m : Tail(q)[i] = q[i + 1]
      /\ Head(q) = q[1]
  OBVIOUS
<1>2. /\ p \in Seq(T) /\ Len(p) = m + Len(r)
      /\ \A i \in 1 .. m : p[i] = q[i + 1]
      /\ \A i \in 1 .. Len(r) : p[m + i] = r[i]
  BY <1>1
<1> HIDE DEF p
<1> SUFFICES /\ {p[i] : i \in 1 .. Len(p)}
                    = ({q[i] : i \in 1 .. Len(q)} \ {q[1]}) \cup {r[i] : i \in 1 .. Len(r)}
             /\ \A i, j \in 1 .. Len(p) : p[i] = p[j] => i = j
  BY <1>1, <1>2 DEF p
<1>3. ASSUME NEW i \in 1 .. Len(p)
      PROVE  (i \in 1 .. m /\ p[i] = q[i + 1]) \/ (i - m \in 1 .. Len(r) /\ p[i] = r[i - m])
  <2>1. CASE i <= m
    BY <1>1, <1>2, <2>1
  <2>2. CASE i > m
    <3>1. i - m \in 1 .. Len(r) /\ m + (i - m) = i
      BY <1>1, <1>2, <2>2
    <3>2. QED
      BY <1>2, <3>1
  <2>3. QED
    BY <1>1, <1>2, <2>1, <2>2
<1>4. \A i, j \in 1 .. Len(p) : p[i] = p[j] => i = j
  <2> SUFFICES ASSUME NEW i \in 1 .. Len(p), NEW j \in 1 .. Len(p), p[i] = p[j] PROVE i = j
    OBVIOUS
  <2>1. CASE i \in 1 .. m /\ j \in 1 .. m
    <3>1. i + 1 \in 1 .. Len(q) /\ j + 1 \in 1 .. Len(q)
      BY <1>1, <2>1
    <3>2. q[i + 1] = q[j + 1]
      BY <1>2, <2>1
    <3>3. i + 1 = j + 1
      BY <3>1, <3>2
    <3>4. QED
      BY <1>1, <2>1, <3>3
  <2>2. CASE i \in 1 .. m /\ j \notin 1 .. m
    <3>1. i + 1 \in 1 .. Len(q) /\ p[i] = q[i + 1]
      BY <1>1, <1>2, <2>2
    <3>2. j - m \in 1 .. Len(r) /\ p[j] = r[j - m]
      BY <1>3, <2>2
    <3>3. QED
      BY <3>1, <3>2
  <2>3. CASE i \notin 1 .. m /\ j \in 1 .. m
    BY <1>1, <1>3, <2>3
  <2>4. CASE i \notin 1 .. m /\ j \notin 1 .. m
    <3>1. i - m \in 1 .. Len(r) /\ p[i] = r[i - m] /\ j - m \in 1 .. Len(r) /\ p[j] = r[j - m]
      BY <1>3, <2>4
    <3>2. i - m = j - m
      BY <3>1
    <3>3. QED
      BY <1>1, <1>2, <3>2
  <2>5. QED
    BY <2>1, <2>2, <2>3, <2>4
<1>5. ASSUME NEW x PROVE x \in {p[i] : i \in 1 .. Len(p)}
                         <=> x \in ({q[i] : i \in 1 .. Len(q)} \ {q[1]}) \cup {r[i] : i \in 1 .. Len(r)}
  <2>1. ASSUME NEW i \in 1 .. Len(p), x = p[i]
        PROVE  x \in ({q[k] : k \in 1 .. Len(q)} \ {q[1]}) \cup {r[k] : k \in 1 .. Len(r)}
    <3>1. CASE i \in 1 .. m /\ p[i] = q[i + 1]
      <4>1. i + 1 \in 1 .. Len(q) /\ i + 1 # 1 /\ 1 \in 1 .. Len(q)
        BY <1>1, <3>1
      <4>2. x = q[i + 1] /\ q[i + 1] # q[1]
        BY <2>1, <3>1, <4>1
      <4>3. QED
        BY <4>1, <4>2
    <3>2. CASE i - m \in 1 .. Len(r) /\ p[i] = r[i - m]
      BY <2>1, <3>2
    <3>3. QED
      BY <1>3, <3>1, <3>2
  <2>2. ASSUME NEW i \in 1 .. Len(q), x = q[i], x # q[1]
        PROVE  x \in {p[k] : k \in 1 .. Len(p)}
    <3>1. i - 1 \in 1 .. m /\ (i - 1) + 1 = i
      BY <1>1, <2>2
    <3>2. p[i - 1] = q[i] /\ i - 1 \in 1 .. Len(p)
      BY <1>1, <1>2, <3>1
    <3>3. QED
      BY <2>2, <3>2
  <2>3. ASSUME NEW i \in 1 .. Len(r), x = r[i]
        PROVE  x \in {p[k] : k \in 1 .. Len(p)}
    <3>1. p[m + i] = r[i] /\ m + i \in 1 .. Len(p)
      BY <1>1, <1>2
    <3>2. QED
      BY <2>3, <3>1
  <2>4. QED
    BY <2>1, <2>2, <2>3
<1>6. QED
  BY <1>4, <1>5

\* The plan's dependencies are tasks of the plan, and there are finitely many.
LEMMA PlanIsFinite ==
    ASSUME NEW n \in Nat, NEW d \in PlanShapes(n)
    PROVE  /\ DOMAIN d = 1 .. n /\ IsFiniteSet(1 .. n) /\ Cardinality(1 .. n) = n
           /\ \A t \in 1 .. n : d[t] \subseteq 1 .. n /\ IsFiniteSet(d[t]) /\ t \notin d[t]
           /\ d \in [1 .. n -> SUBSET (1 .. n)]
<1>1. DOMAIN d = 1 .. n /\ d \in [1 .. n -> SUBSET (1 .. n)] /\ \A t \in 1 .. n : t \notin d[t]
  BY DEF PlanShapes
<1>2. IsFiniteSet(1 .. n) /\ Cardinality(1 .. n) = n
  BY FS_Interval
<1>3. \A t \in 1 .. n : d[t] \subseteq 1 .. n
  BY <1>1
<1>4. \A t \in 1 .. n : IsFiniteSet(d[t])
  BY <1>2, <1>3, FS_Subset
<1>5. QED
  BY <1>1, <1>2, <1>3, <1>4

\* The constructor starts the traversal with nothing visited.
LEMMA ConstructKahn ==
    ASSUME TypeInv, NEW n \in 1 .. MaxTasks, NEW d \in PlanShapes(n), Construct(d)
    PROVE  TypeInv' /\ KahnInv'
<1>1. n \in Nat /\ MaxTasks \in Nat /\ MaxAttempts \in Nat
  BY PlanAssumption
<1>2. /\ DOMAIN d = 1 .. n /\ IsFiniteSet(1 .. n)
      /\ \A t \in 1 .. n : d[t] \subseteq 1 .. n /\ IsFiniteSet(d[t])
  BY <1>1, PlanIsFinite
<1>3. order = <<>> /\ pos = 1 /\ dirty \in BOOLEAN
  BY DEF Construct, TypeInv
<1>4. /\ pc' = "kahn" /\ deps' = d /\ order' = <<>> /\ pos' = 1 /\ dirty' \in BOOLEAN
      /\ status' = [t \in DOMAIN d |-> "PENDING"]
      /\ attempts' = [t \in DOMAIN d |-> 0]
      /\ indegree' = [t \in DOMAIN d |-> Cardinality(d[t])]
      /\ queue' = SortedTasks({t \in DOMAIN d : d[t] = {}})
  BY <1>3 DEF Construct, sweepVars
<1>5. TypeInv'
  <2>1. status' \in [1 .. n -> TaskStatus] /\ attempts' \in [1 .. n -> 0 .. MaxAttempts]
    BY <1>1, <1>2, <1>4 DEF TaskStatus
  <2>2. pos' \in 1 .. n + 1
    BY <1>1, <1>4
  <2>3. QED
    BY <1>4, <2>1, <2>2 DEF TypeInv
<1>6. KahnInv'
  <2> DEFINE S == {t \in 1 .. n : d[t] = {}}
  <2>1. S \in SUBSET Nat /\ IsFiniteSet(S) /\ S \subseteq 1 .. n
    BY <1>1, <1>2, FS_Subset
  <2>2. /\ queue' \in Seq(S) /\ Len(queue') = Cardinality(S)
        /\ \A t \in S : \E i \in 1 .. Cardinality(S) : queue'[i] = t
        /\ \A i, j \in 1 .. Cardinality(S) : queue'[i] = queue'[j] => i = j
    BY <1>2, <1>4, <2>1, SortedTasksLists
  <2> HIDE DEF S
  <2>3. {queue'[i] : i \in 1 .. Len(queue')} = S /\ queue' \in Seq(1 .. n)
    <3>1. PICK q : q = queue'
      OBVIOUS
    <3>2. PICK c : c = Cardinality(S)
      OBVIOUS
    <3>3. q \in Seq(S) /\ Len(q) = c /\ \A t \in S : \E i \in 1 .. c : q[i] = t
      BY <2>2, <3>1, <3>2
    <3>4. q \in [1 .. c -> S] /\ c \in Nat
      BY <3>3
    <3>5. {q[i] : i \in 1 .. c} = S
      BY <3>3, <3>4
    <3>6. q \in [1 .. c -> 1 .. n]
      BY <2>1, <3>4
    <3>7. q \in Seq(1 .. n)
      BY <3>4, <3>6
    <3>8. QED
      BY <3>1, <3>3, <3>5, <3>7
  <2>4. Visited' = {} /\ Len(order') = 0
    BY <1>4 DEF Visited
  <2>5. Queued' = {u \in Tasks' \ Visited' : (deps')[u] \subseteq Visited'}
    BY <1>2, <1>4, <2>3, <2>4 DEF Queued, Tasks, S
  <2>6. \A u \in 1 .. n : d[u] \ Visited' = d[u]
    BY <2>4
  <2>7. indegree' = [u \in Tasks' |-> Cardinality((deps')[u] \ Visited')]
    BY <1>2, <1>4, <2>6 DEF Tasks
  <2>8. Cardinality(Visited') = Len(order')
    BY <2>4, FS_EmptySet
  <2>9. order' \in Seq(Tasks') /\ queue' \in Seq(Tasks')
    BY <1>2, <1>4, <2>3 DEF Tasks
  <2>10. \A i, j \in 1 .. Len(queue') : queue'[i] = queue'[j] => i = j
    BY <2>2
  <2>11. \A i \in 1 .. Len(order') :
            \A e \in (deps')[order'[i]] : \E j \in 1 .. i - 1 : order'[j] = e
    BY <2>4
  <2>12. status' = [t \in Tasks' |-> "PENDING"] /\ attempts' = [t \in Tasks' |-> 0]
    BY <1>4 DEF Tasks
  <2>13. QED
    BY <2>5, <2>7, <2>8, <2>9, <2>10, <2>11, <2>12 DEF KahnInv
<1>7. QED
  BY <1>5, <1>6

\* One task popped: its dependents lose it, and those that waited for it only
\* join the queue.
LEMMA VisitKahn ==
    ASSUME TypeInv, KahnInv, Visit
    PROVE  TypeInv' /\ KahnInv'
<1> DEFINE t == Head(queue)
<1>1. PICK n \in 1 .. MaxTasks :
          /\ deps \in PlanShapes(n)
          /\ status \in [1 .. n -> TaskStatus]
          /\ attempts \in [1 .. n -> 0 .. MaxAttempts]
          /\ pos \in 1 .. n + 1
  BY DEF Visit, TypeInv
<1>2. n \in Nat /\ MaxTasks \in Nat /\ MaxAttempts \in Nat
  BY PlanAssumption
<1>3. /\ Tasks = 1 .. n /\ IsFiniteSet(1 .. n)
      /\ \A u \in 1 .. n : deps[u] \subseteq 1 .. n /\ IsFiniteSet(deps[u]) /\ u \notin deps[u]
  BY <1>1, <1>2, PlanIsFinite DEF Tasks
<1>4. /\ pc = "kahn" /\ queue # <<>> /\ order' = Append(order, t)
      /\ indegree' = [u \in Tasks |-> IF t \in deps[u] THEN indegree[u] - 1 ELSE indegree[u]]
      /\ queue' = Tail(queue) \o SortedTasks(Unlocked(t))
      /\ pc' = pc /\ deps' = deps /\ status' = status /\ attempts' = attempts
      /\ pos' = pos /\ dirty' = dirty
  BY DEF Visit, sweepVars
<1>5. /\ status = [u \in Tasks |-> "PENDING"] /\ attempts = [u \in Tasks |-> 0]
      /\ order \in Seq(Tasks) /\ queue \in Seq(Tasks)
      /\ Cardinality(Visited) = Len(order)
      /\ \A i \in 1 .. Len(order) : \A d \in deps[order[i]] : \E j \in 1 .. i - 1 : order[j] = d
      /\ indegree = [u \in Tasks |-> Cardinality(deps[u] \ Visited)]
      /\ Queued = {u \in Tasks \ Visited : deps[u] \subseteq Visited}
      /\ \A i, j \in 1 .. Len(queue) : queue[i] = queue[j] => i = j
  BY <1>4 DEF KahnInv
<1>6. TypeInv'
  BY <1>1, <1>4 DEF TypeInv
<1>7. t \in Tasks /\ t \notin Visited /\ deps[t] \subseteq Visited
  <2>1. 1 \in 1 .. Len(queue) /\ t = queue[1]
    BY <1>4, <1>5
  <2>2. t \in Queued
    BY <2>1 DEF Queued
  <2>3. QED
    BY <1>5, <2>2
<1>8. Visited \subseteq Tasks /\ IsFiniteSet(Visited)
  <2>1. \A i \in 1 .. Len(order) : order[i] \in Tasks
    BY <1>5
  <2>2. Visited \subseteq Tasks
    BY <2>1 DEF Visited
  <2>3. QED
    BY <1>3, <2>2, FS_Subset
<1> HIDE DEF t
<1>9. /\ Len(order) \in Nat /\ order' \in Seq(Tasks) /\ Len(order') = Len(order) + 1
      /\ \A i \in 1 .. Len(order) : order'[i] = order[i]
      /\ order'[Len(order) + 1] = t
  BY <1>4, <1>5, <1>7
<1>10. Visited' = Visited \cup {t}
  <2>1. Visited' = {order'[i] : i \in 1 .. Len(order')}
    BY DEF Visited
  <2>2. PICK l \in Nat : l = Len(order)
    BY <1>9
  <2>3. PICK o : o = order'
    OBVIOUS
  <2>4. Visited' = {o[i] : i \in 1 .. l + 1} /\ Visited = {order[i] : i \in 1 .. l}
    BY <1>9, <2>1, <2>2, <2>3 DEF Visited
  <2>5. (\A i \in 1 .. l : o[i] = order[i]) /\ o[l + 1] = t
    BY <1>9, <2>2, <2>3
  <2>6. {o[i] : i \in 1 .. l + 1} = {order[i] : i \in 1 .. l} \cup {t}
    BY <2>2, <2>5
  <2>7. QED
    BY <2>4, <2>6
<1>11. Cardinality(Visited') = Len(order')
  <2>1. Cardinality(Visited \cup {t}) = Cardinality(Visited) + 1
    BY <1>7, <1>8, FS_AddElement
  <2>2. QED
    BY <1>5, <1>9, <1>10, <2>1
<1>12. ASSUME NEW i \in 1 .. Len(order'), NEW d \in deps[order'[i]]
       PROVE  \E j \in 1 .. i - 1 : order'[j] = d
  <2>1. CASE i \in 1 .. Len(order)
    <3>1. PICK j \in 1 .. i - 1 : order[j] = d
      BY <1>5, <1>9, <1>12, <2>1
    <3>2. j \in 1 .. Len(order)
      BY <1>9, <2>1
    <3>3. QED
      BY <1>9, <3>1, <3>2
  <2>2. CASE i = Len(order) + 1
    <3>1. d \in Visited
      BY <1>7, <1>9, <1>12, <2>2
    <3>2. PICK j \in 1 .. Len(order) : order[j] = d
      BY <3>1 DEF Visited
    <3>3. QED
      BY <1>9, <2>2, <3>2
  <2>3. QED
    BY <1>9, <2>1, <2>2
\* What a visited task depends on was visited before it, so t blocks none of them.
<1>13. \A u \in Tasks : t \in deps[u] => u \notin Visited /\ u # t
  <2>1. \A u \in Visited : deps[u] \subseteq Visited
    <3> SUFFICES ASSUME NEW u \in Visited, NEW d \in deps[u] PROVE d \in Visited
      OBVIOUS
    <3>1. PICK i \in 1 .. Len(order) : order[i] = u
      BY DEF Visited
    <3>2. PICK j \in 1 .. i - 1 : order[j] = d
      BY <1>5, <3>1
    <3>3. j \in 1 .. Len(order)
      BY <1>9
    <3>4. QED
      BY <3>2, <3>3 DEF Visited
  <2>2. QED
    BY <1>3, <1>7, <2>1
<1>14. \A u \in Tasks : /\ IsFiniteSet(deps[u] \ Visited)
                        /\ Cardinality(deps[u] \ Visited) \in Nat
                        /\ indegree[u] = Cardinality(deps[u] \ Visited)
                        /\ t \in deps[u] =>
                              Cardinality(deps[u] \ Visited')
                                 = Cardinality(deps[u] \ Visited) - 1
                        /\ t \notin deps[u] => deps[u] \ Visited' = deps[u] \ Visited
  <2> SUFFICES ASSUME NEW u \in Tasks
               PROVE  /\ IsFiniteSet(deps[u] \ Visited)
                      /\ Cardinality(deps[u] \ Visited) \in Nat
                      /\ indegree[u] = Cardinality(deps[u] \ Visited)
                      /\ t \in deps[u] =>
                            Cardinality(deps[u] \ Visited') = Cardinality(deps[u] \ Visited) - 1
                      /\ t \notin deps[u] => deps[u] \ Visited' = deps[u] \ Visited
    OBVIOUS
  <2>1. IsFiniteSet(deps[u])
    BY <1>3
  <2>2. IsFiniteSet(deps[u] \ Visited) /\ deps[u] \ Visited \subseteq deps[u]
    BY <2>1, FS_Subset
  <2>3. Cardinality(deps[u] \ Visited) \in Nat
    BY <2>2, FS_CardinalityType
  <2>4. indegree[u] = Cardinality(deps[u] \ Visited)
    BY <1>5
  <2>5. ASSUME t \in deps[u]
        PROVE  Cardinality(deps[u] \ Visited') = Cardinality(deps[u] \ Visited) - 1
    <3>1. deps[u] \ Visited' = (deps[u] \ Visited) \ {t} /\ t \in deps[u] \ Visited
      BY <1>7, <1>10, <2>5
    <3>2. QED
      BY <2>2, <3>1, FS_RemoveElement
  <2>6. ASSUME t \notin deps[u] PROVE deps[u] \ Visited' = deps[u] \ Visited
    BY <1>10, <2>6
  <2>7. QED
    BY <2>2, <2>3, <2>4, <2>5, <2>6
<1>15. indegree' = [u \in Tasks |-> Cardinality(deps[u] \ Visited')]
  BY <1>4, <1>14
<1>16. Unlocked(t) = {u \in Tasks : t \in deps[u] /\ deps[u] \subseteq Visited'}
  <2> SUFFICES ASSUME NEW u \in Tasks, t \in deps[u]
               PROVE  indegree[u] = 1 <=> deps[u] \subseteq Visited'
    BY DEF Unlocked
  <2>1. IsFiniteSet(deps[u] \ Visited)
    BY <1>14
  <2>2. IsFiniteSet(deps[u] \ Visited')
    <3>1. deps[u] \ Visited' \subseteq deps[u] \ Visited
      BY <1>10
    <3>2. QED
      BY <2>1, <3>1, FS_Subset
  <2>3. Cardinality(deps[u] \ Visited') = indegree[u] - 1 /\ indegree[u] \in Nat
    BY <1>14
  <2>4. Cardinality(deps[u] \ Visited') = 0 <=> deps[u] \ Visited' = {}
    BY <2>2, FS_EmptySet
  <2>5. QED
    BY <2>3, <2>4
<1>17. /\ queue' \in Seq(Tasks)
       /\ Queued' = (Queued \ {t}) \cup Unlocked(t)
       /\ \A i, j \in 1 .. Len(queue') : queue'[i] = queue'[j] => i = j
  <2> DEFINE U == Unlocked(t)
             r == SortedTasks(U)
  <2>1. U \in SUBSET Nat /\ IsFiniteSet(U) /\ U \subseteq Tasks
    <3>1. U \subseteq Tasks
      BY <1>16
    <3>2. QED
      BY <1>3, <3>1, FS_Subset
  <2>2. /\ r \in Seq(U) /\ Len(r) = Cardinality(U)
        /\ \A u \in U : \E i \in 1 .. Cardinality(U) : r[i] = u
        /\ \A i, j \in 1 .. Cardinality(U) : r[i] = r[j] => i = j
    BY <2>1, SortedTasksLists
  <2> HIDE DEF r, U
  <2>3. r \in Seq(Tasks) /\ {r[i] : i \in 1 .. Len(r)} = U
    <3>1. PICK c : c = Cardinality(U)
      OBVIOUS
    <3>2. r \in [1 .. c -> U] /\ c \in Nat
      BY <2>2, <3>1
    <3>3. {r[i] : i \in 1 .. c} = U
      BY <2>2, <3>1, <3>2
    <3>4. r \in [1 .. c -> Tasks]
      BY <2>1, <3>2
    <3>5. r \in Seq(Tasks)
      BY <3>2, <3>4
    <3>6. QED
      BY <2>2, <3>1, <3>3, <3>5
  <2>4. \A i \in 1 .. Len(queue), j \in 1 .. Len(r) : queue[i] # r[j]
    <3> SUFFICES ASSUME NEW i \in 1 .. Len(queue), NEW j \in 1 .. Len(r), queue[i] = r[j]
                 PROVE  FALSE
      OBVIOUS
    <3>1. queue[i] \in Queued
      BY DEF Queued
    <3>2. r[j] \in U
      BY <2>3
    <3>3. t \in deps[queue[i]] /\ deps[queue[i]] \subseteq Visited
      BY <1>5, <1>16, <3>1, <3>2 DEF U
    <3>4. QED
      BY <1>7, <3>3
  <2>5. \A i, j \in 1 .. Len(r) : r[i] = r[j] => i = j
    BY <2>2
  <2>6. PICK p : p = Tail(queue) \o r
    OBVIOUS
  <2>7. /\ p \in Seq(Tasks)
        /\ {p[i] : i \in 1 .. Len(p)}
              = ({queue[i] : i \in 1 .. Len(queue)} \ {t}) \cup {r[i] : i \in 1 .. Len(r)}
        /\ \A i, j \in 1 .. Len(p) : p[i] = p[j] => i = j
    <3>1. queue \in Seq(Tasks) /\ queue # <<>> /\ r \in Seq(Tasks)
          /\ \A i, j \in 1 .. Len(queue) : queue[i] = queue[j] => i = j
      BY <1>4, <1>5, <2>3
    <3>2. LET p1 == Tail(queue) \o r
          IN  /\ p1 \in Seq(Tasks)
              /\ {p1[i] : i \in 1 .. Len(p1)}
                    = ({queue[i] : i \in 1 .. Len(queue)} \ {Head(queue)})
                        \cup {r[i] : i \in 1 .. Len(r)}
              /\ \A i, j \in 1 .. Len(p1) : p1[i] = p1[j] => i = j
      BY <2>4, <2>5, <3>1, QueueAdvances, Zenon
    <3>3. QED
      BY <2>6, <3>2 DEF t
  <2>8. queue' = p
    BY <1>4, <2>6 DEF r, U
  <2>9. Queued' = {p[i] : i \in 1 .. Len(p)}
    BY <2>8 DEF Queued
  <2>10. QED
    BY <2>3, <2>7, <2>8, <2>9 DEF Queued, U
<1>18. Queued' = {u \in Tasks \ Visited' : deps[u] \subseteq Visited'}
  BY <1>5, <1>7, <1>10, <1>13, <1>16, <1>17
<1>19. Tasks' = Tasks
  BY <1>4 DEF Tasks
<1>20. QED
  <2>1. order' \in Seq(Tasks') /\ queue' \in Seq(Tasks')
    BY <1>9, <1>17, <1>19
  <2>2. status' = [u \in Tasks' |-> "PENDING"] /\ attempts' = [u \in Tasks' |-> 0]
    BY <1>4, <1>5, <1>19
  <2>3. \A i \in 1 .. Len(order') :
           \A d \in (deps')[order'[i]] : \E j \in 1 .. i - 1 : order'[j] = d
    BY <1>4, <1>12
  <2>4. indegree' = [u \in Tasks' |-> Cardinality((deps')[u] \ Visited')]
    BY <1>4, <1>15, <1>19
  <2>5. Queued' = {u \in Tasks' \ Visited' : (deps')[u] \subseteq Visited'}
    BY <1>4, <1>18, <1>19
  <2>6. KahnInv'
    BY <1>11, <1>17, <2>1, <2>2, <2>3, <2>4, <2>5 DEF KahnInv
  <2>7. QED
    BY <1>6, <2>6

\* The whole plan visited: the first visited task of a set has no dependency in it.
LEMMA VisitedAcyclic ==
    ASSUME NEW n \in Nat, deps \in PlanShapes(n), KahnInv, pc = "kahn", queue = <<>>,
           Len(order) = Cardinality(Tasks)
    PROVE  Acyclic(deps)
<1>1. /\ Tasks = 1 .. n /\ IsFiniteSet(1 .. n)
      /\ order \in Seq(Tasks) /\ Cardinality(Visited) = Len(order)
      /\ \A i \in 1 .. Len(order) : \A d \in deps[order[i]] : \E j \in 1 .. i - 1 : order[j] = d
  BY PlanIsFinite DEF KahnInv, Tasks
<1>2. \A i \in 1 .. Len(order) : order[i] \in Tasks
  BY <1>1
<1>3. Visited = Tasks
  <2>1. Visited \subseteq 1 .. n
    BY <1>1, <1>2 DEF Visited
  <2>2. QED
    BY <1>1, <2>1, FS_Subset
<1> SUFFICES ASSUME NEW S \in SUBSET Tasks, S # {}
             PROVE  \E t \in S : deps[t] \cap S = {}
  BY DEF Acyclic, Tasks
<1> DEFINE I == {i \in 1 .. Len(order) : order[i] \in S}
<1>4. I \in SUBSET Nat /\ I # {}
  <2>1. PICK x \in S : x \in Visited
    BY <1>3
  <2>2. \E i \in 1 .. Len(order) : order[i] = x
    BY <2>1 DEF Visited
  <2>3. I \subseteq Nat
    BY <1>1
  <2>4. QED
    BY <2>1, <2>2, <2>3
<1>5. PICK i \in I : \A j \in I : i <= j
  BY <1>4, LeastElement
<1>6. deps[order[i]] \cap S = {}
  <2> SUFFICES ASSUME NEW d \in deps[order[i]], d \in S PROVE FALSE
    OBVIOUS
  <2>1. PICK j \in 1 .. i - 1 : order[j] = d
    BY <1>1
  <2>2. j \in I /\ j < i
    BY <1>1, <1>5, <2>1
  <2>3. QED
    BY <1>4, <1>5, <2>2
<1>7. QED
  BY <1>5, <1>6

\* The queue ran dry early: each task left waits for another one left.
LEMMA LeftoverCyclic ==
    ASSUME NEW n \in Nat, deps \in PlanShapes(n), KahnInv, pc = "kahn", queue = <<>>,
           Len(order) # Cardinality(Tasks)
    PROVE  ~Acyclic(deps)
<1>1. /\ Tasks = 1 .. n
      /\ order \in Seq(Tasks) /\ Cardinality(Visited) = Len(order)
      /\ Queued = {u \in Tasks \ Visited : deps[u] \subseteq Visited}
      /\ \A t \in 1 .. n : deps[t] \subseteq 1 .. n
  BY PlanIsFinite DEF KahnInv, Tasks
<1> DEFINE S == Tasks \ Visited
<1>2. Visited \subseteq Tasks /\ Visited # Tasks
  <2>1. \A i \in 1 .. Len(order) : order[i] \in Tasks
    BY <1>1
  <2>2. QED
    BY <1>1, <2>1 DEF Visited
<1>3. Queued = {}
  BY DEF Queued
<1>4. S # {} /\ \A u \in S : deps[u] \cap S # {}
  BY <1>1, <1>2, <1>3
<1>5. QED
  BY <1>4 DEF Acyclic, Tasks

-----------------------------------------------------------------------------
(* The sweeps of refresh() *)

\* Where nothing has to change refresh() changes nothing: both when a sweep
\* changed nothing and when the statuses agree with the graph already.
LEMMA StableIsRefreshed ==
    ASSUME NEW d, NEW st \in [DOMAIN d -> TaskStatus],
           \A t \in DOMAIN d :
              /\ st[t] \in {"PENDING", "READY"} => ~HasFailedDependency(d, st, t)
              /\ st[t] = "PENDING" => ~DependenciesSatisfied(d, st, t)
    PROVE  Refresh(d, st) = st
<1>1. Doomed(d, st) = {}
  <2>1. ClosedUnderBlocking(d, st, {})
    BY DEF ClosedUnderBlocking, HasFailedDependency
  <2>2. QED
    BY <2>1 DEF Doomed
<1>2. QED
  BY <1>1 DEF Refresh

LEMMA ConsistentIsRefreshed ==
    ASSUME NEW d, NEW st \in [DOMAIN d -> TaskStatus], Consistent(d, st)
    PROVE  Refresh(d, st) = st
BY StableIsRefreshed DEF Consistent

LEMMA SweepWithoutChange ==
    ASSUME NEW n \in Nat, deps \in PlanShapes(n), status \in [1 .. n -> TaskStatus],
           \A t \in Tasks : Refreshed(t) = status[t]
    PROVE  Refresh(deps, status) = status
<1>1. DOMAIN deps = 1 .. n
  BY PlanIsFinite
<1>2. ASSUME NEW t \in DOMAIN deps
      PROVE  /\ status[t] \in {"PENDING", "READY"} => ~HasFailedDependency(deps, status, t)
             /\ status[t] = "PENDING" => ~DependenciesSatisfied(deps, status, t)
  BY DEF Tasks, Refreshed
<1>3. QED
  BY <1>1, <1>2, StableIsRefreshed

\* One visit of a sweep is a part of the refresh it belongs to: the fixpoint
\* the sweeps are heading for does not depend on the order of the visits.
LEMMA SweepTowardsRefresh ==
    ASSUME NEW n \in Nat, deps \in PlanShapes(n), status \in [1 .. n -> TaskStatus],
           NEW t \in Tasks
    PROVE  /\ [status EXCEPT ![t] = Refreshed(t)] \in [1 .. n -> TaskStatus]
           /\ Refresh(deps, [status EXCEPT ![t] = Refreshed(t)]) = Refresh(deps, status)
<1>1. /\ DOMAIN deps = 1 .. n /\ DOMAIN status = 1 .. n /\ Tasks = 1 .. n
      /\ \A u \in 1 .. n : deps[u] \subseteq 1 .. n
  BY PlanIsFinite DEF Tasks
<1> DEFINE st == [status EXCEPT ![t] = Refreshed(t)]
<1>2. st \in [1 .. n -> TaskStatus]
  BY <1>1 DEF Refreshed, TaskStatus
<1>3. st[t] = Refreshed(t) /\ \A u \in 1 .. n \ {t} : st[u] = status[u]
  BY <1>1
<1>4. Refreshed(t) = status[t] => st = status
  BY <1>1
<1> HIDE DEF st
<1>5. ASSUME status[t] \in {"PENDING", "READY"}, HasFailedDependency(deps, status, t)
      PROVE  Refresh(deps, st) = Refresh(deps, status)
  <2>1. st[t] = "BLOCKED"
    BY <1>3, <1>5 DEF Refreshed
  <2>2. t \in Doomed(deps, status)
    BY <1>1, <1>5, DoomedClosed DEF ClosedUnderBlocking, HasFailedDependency, Tasks
  <2>3. \A E \in SUBSET DOMAIN deps :
           ClosedUnderBlocking(deps, st, E) <=> ClosedUnderBlocking(deps, status, E \cup {t})
    <3> SUFFICES ASSUME NEW E \in SUBSET DOMAIN deps
                 PROVE  ClosedUnderBlocking(deps, st, E)
                           <=> ClosedUnderBlocking(deps, status, E \cup {t})
      OBVIOUS
    <3>1. \A u \in 1 .. n : \A d \in deps[u] :
             (st[d] \in Dead \/ d \in E) <=> (status[d] \in Dead \/ d \in E \cup {t})
      BY <1>1, <1>3, <2>1, <1>5 DEF Dead
    <3>2. \A u \in 1 .. n \ {t} : st[u] = status[u]
      BY <1>3
    <3>3. QED
      BY <1>1, <2>1, <3>1, <3>2 DEF ClosedUnderBlocking
  <2>4. Doomed(deps, st) = Doomed(deps, status) \ {t}
    <3>1. t \notin Doomed(deps, st)
      BY <2>1, DoomedSound
    <3>2. ASSUME NEW u \in Doomed(deps, st) PROVE u \in Doomed(deps, status)
      <4> SUFFICES ASSUME NEW E \in SUBSET DOMAIN deps, ClosedUnderBlocking(deps, status, E)
                   PROVE  u \in E
        BY <3>2 DEF Doomed
      <4>1. t \in E
        BY <2>2 DEF Doomed
      <4>2. E \cup {t} = E
        BY <4>1
      <4>3. ClosedUnderBlocking(deps, st, E)
        BY <2>3, <4>2
      <4>4. QED
        BY <3>2, <4>3 DEF Doomed
    <3>3. ASSUME NEW u \in Doomed(deps, status), u # t PROVE u \in Doomed(deps, st)
      <4>1. u \in DOMAIN deps
        BY DEF Doomed
      <4>2. ASSUME NEW E \in SUBSET DOMAIN deps, ClosedUnderBlocking(deps, st, E)
            PROVE  u \in E
        <5>1. ClosedUnderBlocking(deps, status, E \cup {t}) /\ E \cup {t} \in SUBSET DOMAIN deps
          BY <1>1, <2>3, <4>2
        <5>2. u \in E \cup {t}
          BY <5>1 DEF Doomed
        <5>3. QED
          BY <3>3, <5>2
      <4>3. QED
        BY <4>1, <4>2 DEF Doomed
    <3>4. QED
      BY <3>1, <3>2, <3>3
  <2>5. \A u \in 1 .. n : DependenciesSatisfied(deps, st, u) <=> DependenciesSatisfied(deps, status, u)
    <3>1. \A u \in 1 .. n : st[u] \in UNLOCKING <=> status[u] \in UNLOCKING
      BY <1>3, <1>5, <2>1 DEF UNLOCKING
    <3>2. QED
      BY <1>1, <3>1 DEF DependenciesSatisfied
  <2>6. ASSUME NEW u \in 1 .. n
        PROVE  Refresh(deps, st)[u] = Refresh(deps, status)[u]
    <3>1. CASE u = t
      BY <1>1, <2>1, <2>2, <2>4, <3>1 DEF Refresh
    <3>2. CASE u # t
      BY <1>1, <1>3, <2>4, <2>5, <3>2 DEF Refresh
    <3>3. QED
      BY <3>1, <3>2
  <2>7. QED
    BY <1>1, <2>6 DEF Refresh
<1>6. ASSUME status[t] = "PENDING", ~HasFailedDependency(deps, status, t),
             DependenciesSatisfied(deps, status, t)
      PROVE  Refresh(deps, st) = Refresh(deps, status)
  <2>1. st[t] = "READY"
    BY <1>3, <1>6 DEF Refreshed
  <2>2. \A E \in SUBSET DOMAIN deps :
           ClosedUnderBlocking(deps, st, E) <=> ClosedUnderBlocking(deps, status, E)
    <3>1. \A u \in 1 .. n : st[u] \in {"PENDING", "READY"} <=> status[u] \in {"PENDING", "READY"}
      BY <1>3, <1>6, <2>1
    <3>2. \A u \in 1 .. n : st[u] \in Dead <=> status[u] \in Dead
      BY <1>3, <1>6, <2>1 DEF Dead
    <3>3. QED
      BY <1>1, <3>1, <3>2 DEF ClosedUnderBlocking
  <2>3. Doomed(deps, st) = Doomed(deps, status)
    BY <2>2 DEF Doomed
  <2>4. t \notin Doomed(deps, status)
    <3> SUFFICES ASSUME t \in Doomed(deps, status) PROVE FALSE
      OBVIOUS
    <3>1. PICK d \in deps[t] : status[d] \in Dead \/ d \in Doomed(deps, status)
      BY DoomedSound
    <3>2. status[d] \in UNLOCKING
      BY <1>6 DEF DependenciesSatisfied
    <3>3. d \in Doomed(deps, status) => status[d] \in {"PENDING", "READY"}
      BY DoomedSound
    <3>4. QED
      BY <3>1, <3>2, <3>3 DEF UNLOCKING, Dead
  <2>5. \A u \in 1 .. n : DependenciesSatisfied(deps, st, u) <=> DependenciesSatisfied(deps, status, u)
    <3>1. \A u \in 1 .. n : st[u] \in UNLOCKING <=> status[u] \in UNLOCKING
      BY <1>3, <1>6, <2>1 DEF UNLOCKING
    <3>2. QED
      BY <1>1, <3>1 DEF DependenciesSatisfied
  <2>6. ASSUME NEW u \in 1 .. n
        PROVE  Refresh(deps, st)[u] = Refresh(deps, status)[u]
    <3>1. CASE u = t
      BY <1>1, <1>6, <2>1, <2>3, <2>4, <3>1 DEF Refresh
    <3>2. CASE u # t
      BY <1>1, <1>3, <2>3, <2>5, <3>2 DEF Refresh
    <3>3. QED
      BY <3>1, <3>2
  <2>7. QED
    BY <1>1, <2>6 DEF Refresh
<1>7. ASSUME Refreshed(t) = status[t] PROVE Refresh(deps, st) = Refresh(deps, status)
  BY <1>4, <1>7
<1>8. Refresh(deps, st) = Refresh(deps, status)
  <2>1. Refreshed(t) = status[t]
          \/ (status[t] \in {"PENDING", "READY"} /\ HasFailedDependency(deps, status, t))
          \/ (/\ status[t] = "PENDING" /\ ~HasFailedDependency(deps, status, t)
              /\ DependenciesSatisfied(deps, status, t))
    BY DEF Refreshed
  <2>2. CASE status[t] \in {"PENDING", "READY"} /\ HasFailedDependency(deps, status, t)
    BY <1>5, <2>2
  <2>3. CASE /\ status[t] = "PENDING" /\ ~HasFailedDependency(deps, status, t)
             /\ DependenciesSatisfied(deps, status, t)
    BY <1>6, <2>3
  <2>4. QED
    BY <1>7, <2>1, <2>2, <2>3
<1>9. QED
  BY <1>2, <1>8 DEF st

-----------------------------------------------------------------------------
(* Every step keeps the invariant *)

\* What TypeInv says of the plan once it was proposed.
LEMMA PlanShape ==
    ASSUME TypeInv, pc # "new"
    PROVE  \E n \in 1 .. MaxTasks :
              /\ n \in Nat /\ deps \in PlanShapes(n)
              /\ Tasks = 1 .. n /\ DOMAIN deps = 1 .. n /\ DOMAIN status = 1 .. n
              /\ \A t \in 1 .. n : deps[t] \subseteq 1 .. n
              /\ deps # <<>>
              /\ status \in [1 .. n -> TaskStatus]
              /\ attempts \in [1 .. n -> 0 .. MaxAttempts]
              /\ pos \in 1 .. n + 1
<1>1. PICK n \in 1 .. MaxTasks :
              /\ deps \in PlanShapes(n)
              /\ status \in [1 .. n -> TaskStatus]
              /\ attempts \in [1 .. n -> 0 .. MaxAttempts]
              /\ pos \in 1 .. n + 1
  BY DEF TypeInv
<1>2. n \in Nat /\ 1 \in 1 .. n
  BY PlanAssumption
<1>3. DOMAIN deps = 1 .. n /\ \A t \in 1 .. n : deps[t] \subseteq 1 .. n
  BY <1>1, <1>2, PlanIsFinite
<1>4. deps # <<>>
  BY <1>2, <1>3
<1>5. QED
  BY <1>1, <1>2, <1>3, <1>4 DEF Tasks

\* A step that keeps the plan and leaves a well-typed picture keeps TypeInv.
LEMMA TypeKept ==
    ASSUME NEW n \in 1 .. MaxTasks, deps \in PlanShapes(n), deps' = deps,
           pc' \in {"kahn", "rejected", "idle", "sweep"},
           status' \in [1 .. n -> TaskStatus], attempts' \in [1 .. n -> 0 .. MaxAttempts],
           pos' \in 1 .. n + 1, dirty' \in BOOLEAN
    PROVE  TypeInv'
BY DEF TypeInv

LEMMA RejectKeeps == ASSUME IInv, Reject PROVE IInv'
<1>1. PICK n \in 1 .. MaxTasks :
         /\ n \in Nat /\ deps \in PlanShapes(n)
         /\ status \in [1 .. n -> TaskStatus]
         /\ attempts \in [1 .. n -> 0 .. MaxAttempts]
         /\ pos \in 1 .. n + 1
  BY PlanShape DEF IInv, Reject
<1>2. /\ pc = "kahn" /\ queue = <<>> /\ Len(order) # Cardinality(Tasks)
      /\ pc' = "rejected" /\ deps' = deps /\ status' = status /\ attempts' = attempts
      /\ pos' = pos /\ dirty' = dirty /\ dirty \in BOOLEAN
  BY DEF Reject, sweepVars, IInv, TypeInv
<1>3. ~Acyclic(deps)
  BY <1>1, <1>2, LeftoverCyclic DEF IInv
<1>4. TypeInv'
  BY <1>1, <1>2, TypeKept
<1>5. RejectsExactlyCycles'
  BY <1>2, <1>3 DEF RejectsExactlyCycles, Constructed
<1>6. QED
  BY <1>2, <1>4, <1>5 DEF IInv, KahnInv, SweepInv, IdleIsConsistent

\* A sweep that starts where the refresh would agree with the graph.
LEMMA SweepStarts ==
    ASSUME TypeInv', NEW g, Sweep(g), Acyclic(deps'), Consistent(deps', Refresh(deps', status'))
    PROVE  IInv'
<1>1. pc' = "sweep" /\ pos' = 1 /\ dirty' = FALSE
  BY DEF Sweep
<1>2. \A t \in Tasks' : ~(t < pos')
  <2>1. PICK n \in Nat : Tasks' = 1 .. n
    BY <1>1, PlanAssumption, PlanIsFinite DEF TypeInv, Tasks
  <2>2. QED
    BY <1>1, <2>1
<1>3. SweepInv'
  BY <1>1, <1>2 DEF SweepInv
<1>4. RejectsExactlyCycles'
  BY <1>1 DEF RejectsExactlyCycles, Constructed
<1>5. QED
  BY <1>1, <1>3, <1>4 DEF IInv, KahnInv, IdleIsConsistent

LEMMA AcceptKeeps == ASSUME IInv, Accept PROVE IInv'
<1>1. PICK n \in 1 .. MaxTasks :
         /\ n \in Nat /\ deps \in PlanShapes(n)
         /\ status \in [1 .. n -> TaskStatus]
         /\ attempts \in [1 .. n -> 0 .. MaxAttempts]
         /\ pos \in 1 .. n + 1
  BY PlanShape DEF IInv, Accept
<1>2. /\ pc = "kahn" /\ queue = <<>> /\ Len(order) = Cardinality(Tasks)
      /\ Sweep("return") /\ deps' = deps /\ status' = status /\ attempts' = attempts
      /\ pc' = "sweep" /\ pos' = 1 /\ dirty' = FALSE
  BY DEF Accept, Sweep
<1>3. Acyclic(deps)
  BY <1>1, <1>2, VisitedAcyclic DEF IInv
<1>4. status = [t \in DOMAIN deps |-> "PENDING"]
  BY <1>2 DEF IInv, KahnInv, Tasks
<1>5. Consistent(deps, Refresh(deps, status))
  BY <1>1, <1>4, PlanIsFinite, FirstRefreshConsistent
<1>6. TypeInv'
  <2>1. pos' \in 1 .. n + 1
    BY <1>1, <1>2
  <2>2. QED
    BY <1>1, <1>2, <2>1, TypeKept
<1>7. QED
  BY <1>2, <1>3, <1>5, <1>6, SweepStarts

LEMMA SweepTaskKeeps == ASSUME IInv, SweepTask PROVE IInv'
<1>1. PICK n \in 1 .. MaxTasks :
         /\ n \in Nat /\ deps \in PlanShapes(n) /\ Tasks = 1 .. n
         /\ status \in [1 .. n -> TaskStatus]
         /\ attempts \in [1 .. n -> 0 .. MaxAttempts]
         /\ pos \in 1 .. n + 1
  BY PlanShape DEF IInv, SweepTask
<1>2. /\ pc = "sweep" /\ pos \in Tasks
      /\ status' = [status EXCEPT ![pos] = Refreshed(pos)]
      /\ dirty' = (dirty \/ Changes(pos)) /\ pos' = pos + 1
      /\ pc' = pc /\ deps' = deps /\ attempts' = attempts
  BY DEF SweepTask
<1>3. /\ status' \in [1 .. n -> TaskStatus]
      /\ Refresh(deps, status') = Refresh(deps, status)
  BY <1>1, <1>2, SweepTowardsRefresh
<1>4. TypeInv'
  <2>1. pos' \in 1 .. n + 1
    BY <1>1, <1>2
  <2>2. dirty' \in BOOLEAN
    BY <1>2 DEF IInv, TypeInv, Changes
  <2>3. QED
    BY <1>1, <1>2, <1>3, <2>1, <2>2, TypeKept
<1>5. SweepInv'
  <2>1. Consistent(deps, Refresh(deps, status))
    BY <1>2 DEF IInv, SweepInv
  <2>2. ASSUME ~dirty', NEW t \in Tasks', t < pos' PROVE Refreshed(t)' = status'[t]
    <3>1. ~dirty /\ Refreshed(pos) = status[pos]
      BY <1>2, <2>2 DEF Changes
    <3>2. status' = status
      BY <1>1, <1>2, <3>1
    <3>3. t \in Tasks /\ (t < pos \/ t = pos)
      BY <1>1, <1>2, <2>2 DEF Tasks
    <3>4. Refreshed(t) = status[t]
      BY <1>2, <3>1, <3>3 DEF IInv, SweepInv
    <3>5. Refreshed(t)' = Refreshed(t)
      BY <1>2, <3>2 DEF Refreshed
    <3>6. QED
      BY <3>2, <3>4, <3>5
  <2>3. QED
    BY <1>2, <1>3, <2>1, <2>2 DEF SweepInv
<1>6. RejectsExactlyCycles'
  BY <1>2 DEF IInv, RejectsExactlyCycles, Constructed
<1>7. QED
  BY <1>2, <1>4, <1>5, <1>6 DEF IInv, KahnInv, IdleIsConsistent

LEMMA SweepAgainKeeps == ASSUME IInv, SweepAgain PROVE IInv'
<1>1. PICK n \in 1 .. MaxTasks :
         /\ n \in Nat /\ deps \in PlanShapes(n) /\ Tasks = 1 .. n
         /\ status \in [1 .. n -> TaskStatus]
         /\ attempts \in [1 .. n -> 0 .. MaxAttempts]
  BY PlanShape DEF IInv, SweepAgain
<1>2. /\ pc = "sweep" /\ pos' = 1 /\ dirty' = FALSE
      /\ pc' = pc /\ deps' = deps /\ status' = status /\ attempts' = attempts
  BY DEF SweepAgain
<1>3. TypeInv'
  <2>1. pos' \in 1 .. n + 1
    BY <1>1, <1>2
  <2>2. QED
    BY <1>1, <1>2, <2>1, TypeKept
<1>4. SweepInv'
  <2>1. Consistent(deps', Refresh(deps', status'))
    BY <1>2 DEF IInv, SweepInv
  <2>2. \A t \in Tasks' : ~(t < pos')
    BY <1>1, <1>2 DEF Tasks
  <2>3. QED
    BY <2>1, <2>2 DEF SweepInv
<1>5. RejectsExactlyCycles'
  BY <1>2 DEF IInv, RejectsExactlyCycles, Constructed
<1>6. QED
  BY <1>2, <1>3, <1>4, <1>5 DEF IInv, KahnInv, IdleIsConsistent

\* Between two calls: nothing but the statuses and attempts may have moved.
LEMMA IdleKept ==
    ASSUME NEW n \in 1 .. MaxTasks, deps \in PlanShapes(n), deps' = deps, Acyclic(deps),
           pc' = "idle",
           status' \in [1 .. n -> TaskStatus], attempts' \in [1 .. n -> 0 .. MaxAttempts],
           pos' \in 1 .. n + 1, dirty' \in BOOLEAN,
           Consistent(deps, status')
    PROVE  IInv'
<1>1. TypeInv'
  BY TypeKept
<1>2. RejectsExactlyCycles' /\ IdleIsConsistent'
  BY DEF RejectsExactlyCycles, IdleIsConsistent, Constructed
<1>3. QED
  BY <1>1, <1>2 DEF IInv, KahnInv, SweepInv

\* What a sweep that ended without a change has reached.
LEMMA SweepReached ==
    ASSUME IInv, pc = "sweep", pos \notin Tasks, ~dirty
    PROVE  Refresh(deps, status) = status /\ Consistent(deps, status)
<1>1. PICK n \in 1 .. MaxTasks :
         /\ n \in Nat /\ deps \in PlanShapes(n) /\ Tasks = 1 .. n
         /\ status \in [1 .. n -> TaskStatus] /\ pos \in 1 .. n + 1
  BY PlanShape DEF IInv
<1>2. \A t \in Tasks : t < pos
  BY <1>1
<1>3. \A t \in Tasks : Refreshed(t) = status[t]
  BY <1>2 DEF IInv, SweepInv
<1>4. Refresh(deps, status) = status
  BY <1>1, <1>3, SweepWithoutChange
<1>5. QED
  BY <1>4 DEF IInv, SweepInv

LEMMA SweepEndsKeeps == ASSUME IInv, SweepEnds PROVE IInv'
<1>1. PICK n \in 1 .. MaxTasks :
         /\ n \in Nat /\ deps \in PlanShapes(n) /\ Tasks = 1 .. n
         /\ DOMAIN deps = 1 .. n /\ DOMAIN status = 1 .. n
         /\ \A t \in 1 .. n : deps[t] \subseteq 1 .. n
         /\ status \in [1 .. n -> TaskStatus]
         /\ attempts \in [1 .. n -> 0 .. MaxAttempts]
         /\ pos \in 1 .. n + 1
  BY PlanShape DEF IInv, SweepEnds
<1>2. /\ pc = "sweep" /\ pos \notin Tasks /\ ~dirty /\ pc' = "idle"
      /\ status' = IF goal = "start" /\ ReadyTasks(status) # {}
                   THEN [status EXCEPT ![NextTask(status)] = "RUNNING"]
                   ELSE status
      /\ deps' = deps /\ attempts' = attempts /\ pos' = pos /\ dirty' = dirty
      /\ dirty \in BOOLEAN
  BY DEF SweepEnds, IInv, TypeInv
<1>3. Consistent(deps, status)
  BY <1>2, SweepReached
<1>4. status' \in [1 .. n -> TaskStatus] /\ Consistent(deps, status')
  <2>1. CASE goal = "start" /\ ReadyTasks(status) # {}
    <3>1. NextTask(status) \in 1 .. n /\ status[NextTask(status)] = "READY"
      BY <1>1, <2>1, NextTaskReady
    <3>2. Consistent(deps, [status EXCEPT ![NextTask(status)] = "RUNNING"])
      BY <1>1, <1>3, <3>1, StartConsistent
    <3>3. [status EXCEPT ![NextTask(status)] = "RUNNING"] \in [1 .. n -> TaskStatus]
      BY <1>1, <3>1 DEF TaskStatus
    <3>4. QED
      BY <1>2, <2>1, <3>2, <3>3
  <2>2. CASE ~(goal = "start" /\ ReadyTasks(status) # {})
    BY <1>1, <1>2, <1>3, <2>2
  <2>3. QED
    BY <2>1, <2>2
<1>5. Acyclic(deps)
  BY <1>2 DEF IInv, RejectsExactlyCycles, Constructed
<1>6. QED
  BY <1>1, <1>2, <1>4, <1>5, IdleKept

LEMMA CallNextTaskKeeps == ASSUME IInv, CallNextTask PROVE IInv'
<1>1. PICK n \in 1 .. MaxTasks :
         /\ n \in Nat /\ deps \in PlanShapes(n) /\ DOMAIN deps = 1 .. n
         /\ status \in [1 .. n -> TaskStatus]
         /\ attempts \in [1 .. n -> 0 .. MaxAttempts]
  BY PlanShape DEF IInv, CallNextTask
<1>2. /\ pc = "idle" /\ Sweep("start") /\ pc' = "sweep" /\ pos' = 1 /\ dirty' = FALSE
      /\ deps' = deps /\ status' = status /\ attempts' = attempts
  BY DEF CallNextTask, Sweep
<1>3. Consistent(deps, status) /\ Acyclic(deps)
  BY <1>2 DEF IInv, IdleIsConsistent, RejectsExactlyCycles, Constructed
<1>4. Consistent(deps, Refresh(deps, status))
  BY <1>1, <1>3, ConsistentIsRefreshed
<1>5. TypeInv'
  <2>1. pos' \in 1 .. n + 1
    BY <1>1, <1>2
  <2>2. QED
    BY <1>1, <1>2, <2>1, TypeKept
<1>6. QED
  BY <1>2, <1>3, <1>4, <1>5, SweepStarts

LEMMA AttemptKeeps == ASSUME IInv, NEW t \in Tasks, Attempt(t) PROVE IInv'
<1>1. PICK n \in 1 .. MaxTasks :
         /\ n \in Nat /\ deps \in PlanShapes(n) /\ Tasks = 1 .. n
         /\ status \in [1 .. n -> TaskStatus]
         /\ attempts \in [1 .. n -> 0 .. MaxAttempts]
         /\ pos \in 1 .. n + 1
  BY PlanShape DEF IInv, Attempt
<1>2. /\ pc = "idle" /\ pc' = pc /\ attempts[t] < MaxAttempts
      /\ attempts' = [attempts EXCEPT ![t] = @ + 1]
      /\ deps' = deps /\ status' = status /\ pos' = pos /\ dirty' = dirty /\ dirty \in BOOLEAN
  BY DEF Attempt, sweepVars, IInv, TypeInv
<1>3. attempts' \in [1 .. n -> 0 .. MaxAttempts]
  BY <1>1, <1>2, PlanAssumption
<1>4. Consistent(deps, status) /\ Acyclic(deps)
  BY <1>2 DEF IInv, IdleIsConsistent, RejectsExactlyCycles, Constructed
<1>5. QED
  BY <1>1, <1>2, <1>3, <1>4, IdleKept

LEMMA CallMarkKeeps ==
    ASSUME IInv, NEW t \in Tasks, NEW s \in {"SUCCEEDED", "DEFERRED", "FAILED"}, CallMark(t, s)
    PROVE  IInv'
<1>1. PICK n \in 1 .. MaxTasks :
         /\ n \in Nat /\ deps \in PlanShapes(n) /\ Tasks = 1 .. n /\ DOMAIN deps = 1 .. n
         /\ \A u \in 1 .. n : deps[u] \subseteq 1 .. n
         /\ status \in [1 .. n -> TaskStatus]
         /\ attempts \in [1 .. n -> 0 .. MaxAttempts]
  BY PlanShape DEF IInv, CallMark
<1>2. /\ pc = "idle" /\ status[t] = "RUNNING" /\ status' = [status EXCEPT ![t] = s]
      /\ Sweep("return") /\ pc' = "sweep" /\ pos' = 1 /\ dirty' = FALSE
      /\ deps' = deps /\ attempts' = attempts
  BY DEF CallMark, Sweep
<1>3. Consistent(deps, status) /\ Acyclic(deps)
  BY <1>2 DEF IInv, IdleIsConsistent, RejectsExactlyCycles, Constructed
<1>4. Consistent(deps, Refresh(deps, status'))
  <2>1. Consistent(deps, Mark(deps, status, t, s))
    BY <1>1, <1>2, <1>3, MarkConsistent
  <2>2. QED
    BY <1>2, <2>1 DEF Mark
<1>5. TypeInv'
  <2>1. pos' \in 1 .. n + 1
    BY <1>1, <1>2
  <2>2. status' \in [1 .. n -> TaskStatus]
    BY <1>1, <1>2 DEF TaskStatus
  <2>3. QED
    BY <1>1, <1>2, <2>1, <2>2, TypeKept
<1>6. QED
  BY <1>2, <1>3, <1>4, <1>5, SweepStarts

LEMMA CallRequeueKeeps == ASSUME IInv, NEW t \in Tasks, CallRequeue(t) PROVE IInv'
<1>1. PICK n \in 1 .. MaxTasks :
         /\ n \in Nat /\ deps \in PlanShapes(n) /\ Tasks = 1 .. n /\ DOMAIN deps = 1 .. n
         /\ \A u \in 1 .. n : deps[u] \subseteq 1 .. n
         /\ status \in [1 .. n -> TaskStatus]
         /\ attempts \in [1 .. n -> 0 .. MaxAttempts]
         /\ pos \in 1 .. n + 1
  BY PlanShape DEF IInv, CallRequeue
<1>2. /\ pc = "idle" /\ pc' = pc /\ status[t] = "RUNNING"
      /\ status' = [status EXCEPT ![t] = "READY"]
      /\ deps' = deps /\ attempts' = attempts /\ pos' = pos /\ dirty' = dirty /\ dirty \in BOOLEAN
  BY DEF CallRequeue, sweepVars, IInv, TypeInv
<1>3. Consistent(deps, status) /\ Acyclic(deps)
  BY <1>2 DEF IInv, IdleIsConsistent, RejectsExactlyCycles, Constructed
<1>4. Consistent(deps, status')
  BY <1>1, <1>2, <1>3, StartConsistent
<1>5. status' \in [1 .. n -> TaskStatus]
  BY <1>1, <1>2 DEF TaskStatus
<1>6. QED
  BY <1>1, <1>2, <1>3, <1>4, <1>5, IdleKept

LEMMA NextIInv == IInv /\ [Next]_vars => IInv'
<1> SUFFICES ASSUME IInv, [Next]_vars PROVE IInv'
  OBVIOUS
<1>1. ASSUME NEW n \in 1 .. MaxTasks, NEW d \in PlanShapes(n), Construct(d) PROVE IInv'
  <2>1. TypeInv' /\ KahnInv'
    BY <1>1, ConstructKahn DEF IInv
  <2>2. pc' = "kahn"
    BY <1>1 DEF Construct
  <2>3. QED
    BY <2>1, <2>2 DEF IInv, SweepInv, RejectsExactlyCycles, Constructed, IdleIsConsistent
<1>2. CASE Visit
  <2>1. TypeInv' /\ KahnInv'
    BY <1>2, VisitKahn DEF IInv
  <2>2. pc' = "kahn"
    BY <1>2 DEF Visit
  <2>3. QED
    BY <2>1, <2>2 DEF IInv, SweepInv, RejectsExactlyCycles, Constructed, IdleIsConsistent
<1>3. CASE Algorithm
  BY <1>2, <1>3, RejectKeeps, AcceptKeeps, SweepTaskKeeps, SweepAgainKeeps, SweepEndsKeeps
  DEF Algorithm
<1>4. ASSUME NEW t \in Tasks,
             \/ Attempt(t)
             \/ \E s \in {"SUCCEEDED", "DEFERRED", "FAILED"} : CallMark(t, s)
             \/ CallRequeue(t)
      PROVE  IInv'
  BY <1>4, AttemptKeeps, CallMarkKeeps, CallRequeueKeeps
<1>5. CASE UNCHANGED vars
  <2>1. /\ TypeInv' = TypeInv /\ KahnInv' = KahnInv /\ SweepInv' = SweepInv
        /\ RejectsExactlyCycles' = RejectsExactlyCycles /\ IdleIsConsistent' = IdleIsConsistent
    BY <1>5 DEF vars, TypeInv, KahnInv, SweepInv, RejectsExactlyCycles, IdleIsConsistent,
       Tasks, Visited, Queued, Refreshed, Constructed
  <2>2. QED
    BY <2>1 DEF IInv
<1>6. QED
  BY <1>1, <1>3, <1>4, <1>5, CallNextTaskKeeps DEF Next, Over

\* Kahn's traversal rejects a plan only for a cycle, and no plan with a cycle is
\* ever scheduled, whatever its size and the order the queue is served in.
THEOREM AcceptsExactlyDags == Spec => []RejectsExactlyCycles
<1>1. IInv => RejectsExactlyCycles
  BY DEF IInv
<1>2. QED
  BY InitIInv, NextIInv, <1>1, PTL DEF Spec

\* When refresh() returns, every task that may run is unlocked, all that is
\* downstream of a failure is blocked and nothing else is: the sweeps stop
\* only at the fixpoint.
THEOREM RefreshReachesFixpoint == Spec => []IdleIsConsistent
<1>1. IInv => IdleIsConsistent
  BY DEF IInv
<1>2. QED
  BY InitIInv, NextIInv, <1>1, PTL DEF Spec

-----------------------------------------------------------------------------
(* The loops implement the scheduler *)

\* The operators of TaskGraph are the same ones in both modules.
LEMMA SameGraph ==
    /\ \A d : Scheduler!Acyclic(d) <=> Acyclic(d)
    /\ \A d, st : Scheduler!Refresh(d, st) = Refresh(d, st)
    /\ \A n : Scheduler!PlanShapes(n) = PlanShapes(n)
    /\ \A st : Scheduler!ReadyTasks(st) = ReadyTasks(st)
    /\ \A st : Scheduler!NextTask(st) = NextTask(st)
    /\ \A d, st, t, s : Scheduler!Mark(d, st, t, s) = Mark(d, st, t, s)
BY DEF Scheduler!Acyclic, Acyclic, Scheduler!Refresh, Refresh, Scheduler!Doomed, Doomed,
    Scheduler!ClosedUnderBlocking, ClosedUnderBlocking, Scheduler!Dead, Dead,
    Scheduler!DependenciesSatisfied, DependenciesSatisfied, Scheduler!UNLOCKING, UNLOCKING,
    Scheduler!PlanShapes, PlanShapes, Scheduler!ReadyTasks, ReadyTasks,
    Scheduler!NextTask, NextTask, Scheduler!Mark, Mark

\* Before the plan is accepted and after it was, nothing the scheduler sees moved.
LEMMA StutterUnconstructed ==
    ASSUME ~Constructed, ~Constructed' PROVE UNCHANGED Scheduler!vars
BY DEF Scheduler!vars

LEMMA StutterConstructed ==
    ASSUME Constructed, Constructed', deps' = deps, attempts' = attempts,
           Refresh(deps, status') = Refresh(deps, status)
    PROVE  UNCHANGED Scheduler!vars
<1>1. Refresh(deps', status') = Refresh(deps, status)
  OBVIOUS
<1>2. QED
  BY <1>1 DEF Scheduler!vars

\* The scheduler's picture of an accepted plan whose statuses agree with it.
LEMMA AcceptStep == ASSUME IInv, Accept PROVE Scheduler!Next
<1>1. PICK n \in 1 .. MaxTasks :
         /\ deps \in PlanShapes(n) /\ deps # <<>> /\ Tasks = DOMAIN deps
  BY PlanShape DEF IInv, Accept, Tasks
<1>2. /\ pc = "kahn" /\ pc' = "sweep"
      /\ deps' = deps /\ status' = status /\ attempts' = attempts
      /\ status = [t \in DOMAIN deps |-> "PENDING"] /\ attempts = [t \in DOMAIN deps |-> 0]
  BY DEF Accept, Sweep, IInv, KahnInv, Tasks
<1>3. ~Constructed /\ Constructed'
  BY <1>2 DEF Constructed
<1>4. Acyclic(deps)
  BY <1>2, <1>3, AcceptKeeps DEF IInv, RejectsExactlyCycles
<1>5. Refresh(deps', status') = Refresh(deps, [t \in DOMAIN deps |-> "PENDING"])
  BY <1>2
<1>6. Scheduler!Accept(deps)
  BY <1>1, <1>2, <1>3, <1>4, <1>5, SameGraph DEF Scheduler!Accept
<1>7. deps \in Scheduler!PlanShapes(n)
  BY <1>1, SameGraph
<1>8. QED
  BY <1>3, <1>6, <1>7 DEF Scheduler!Next

\* next_task() is one step of the scheduler, taken when its sweeps are over.
LEMMA SweepEndsStep == ASSUME IInv, SweepEnds PROVE [Scheduler!Next]_(Scheduler!vars)
<1>1. /\ pc = "sweep" /\ pc' = "idle" /\ deps' = deps /\ attempts' = attempts
      /\ pos \notin Tasks /\ ~dirty
      /\ status' = IF goal = "start" /\ ReadyTasks(status) # {}
                   THEN [status EXCEPT ![NextTask(status)] = "RUNNING"]
                   ELSE status
  BY DEF SweepEnds
<1>2. Constructed /\ Constructed'
  BY <1>1 DEF Constructed
<1>3. Refresh(deps, status) = status
  BY <1>1, SweepReached
<1>4. Refresh(deps, status') = status'
  <2>1. IInv'
    BY SweepEndsKeeps
  <2>2. PICK n \in 1 .. MaxTasks :
           n \in Nat /\ deps' \in PlanShapes(n) /\ status' \in [1 .. n -> TaskStatus]
    BY <1>1, <2>1, PlanAssumption DEF IInv, TypeInv
  <2>3. Consistent(deps, status') /\ DOMAIN deps = 1 .. n
    BY <1>1, <2>1, <2>2, PlanIsFinite DEF IInv, IdleIsConsistent
  <2>4. QED
    BY <2>2, <2>3, ConsistentIsRefreshed
<1>5. CASE goal = "start" /\ ReadyTasks(status) # {}
  <2>1. Scheduler!Start
    BY <1>1, <1>2, <1>3, <1>4, <1>5, SameGraph DEF Scheduler!Start
  <2>2. QED
    BY <2>1 DEF Scheduler!Next
<1>6. CASE ~(goal = "start" /\ ReadyTasks(status) # {})
  BY <1>1, <1>2, <1>3, <1>6, StutterConstructed
<1>7. QED
  BY <1>5, <1>6

\* The client's calls on a running task.
LEMMA ClientStep ==
    ASSUME IInv, NEW t \in Tasks,
           \/ Attempt(t)
           \/ \E s \in {"SUCCEEDED", "DEFERRED", "FAILED"} : CallMark(t, s)
           \/ CallRequeue(t)
    PROVE  Scheduler!Next
<1>1. pc = "idle" /\ pc' \in {"idle", "sweep"} /\ deps' = deps
  BY DEF Attempt, CallMark, CallRequeue, Sweep
<1>2. Constructed /\ Constructed'
  BY <1>1 DEF Constructed
<1>3. PICK n \in 1 .. MaxTasks :
         /\ n \in Nat /\ deps \in PlanShapes(n) /\ DOMAIN deps = 1 .. n
         /\ status \in [1 .. n -> TaskStatus]
  BY <1>1, PlanShape DEF IInv
<1>4. Refresh(deps, status) = status
  BY <1>1, <1>3, ConsistentIsRefreshed DEF IInv, IdleIsConsistent
<1>5. CASE Attempt(t)
  <2>1. status' = status /\ Refresh(deps', status') = status
    BY <1>1, <1>4, <1>5 DEF Attempt
  <2>2. Scheduler!Attempt(t)
    BY <1>1, <1>2, <1>4, <1>5, <2>1 DEF Scheduler!Attempt, Attempt
  <2>3. QED
    BY <1>2, <2>2 DEF Scheduler!Next, Tasks
<1>6. ASSUME NEW s \in {"SUCCEEDED", "DEFERRED", "FAILED"}, CallMark(t, s)
      PROVE  Scheduler!Next
  <2>1. status[t] = "RUNNING" /\ attempts' = attempts
        /\ Refresh(deps', status') = Mark(deps, status, t, s)
    BY <1>1, <1>6 DEF CallMark, Mark
  <2>2. Scheduler!Settle(t, s)
    BY <1>1, <1>2, <1>4, <2>1, SameGraph DEF Scheduler!Settle
  <2>3. QED
    BY <1>2, <2>2 DEF Scheduler!Next, Tasks
<1>7. CASE CallRequeue(t)
  <2>1. /\ status[t] = "RUNNING" /\ attempts[t] < MaxAttempts
        /\ status' = [status EXCEPT ![t] = "READY"] /\ attempts' = attempts /\ pc' = "idle"
    BY <1>1, <1>7 DEF CallRequeue
  <2>2. IInv'
    BY <1>7, CallRequeueKeeps
  <2>3. Refresh(deps, status') = status'
    <3>1. Consistent(deps, status')
      BY <1>1, <2>1, <2>2 DEF IInv, IdleIsConsistent
    <3>2. status' \in [DOMAIN deps -> TaskStatus]
      BY <1>3, <2>1 DEF TaskStatus
    <3>3. QED
      BY <3>1, <3>2, ConsistentIsRefreshed
  <2>4. Scheduler!Requeue(t)
    BY <1>1, <1>2, <1>4, <2>1, <2>3 DEF Scheduler!Requeue
  <2>5. QED
    BY <1>2, <2>4 DEF Scheduler!Next, Tasks
<1>8. QED
  BY <1>5, <1>6, <1>7

\* Whatever the order in which the loops visit the tasks, the plan graph is the
\* scheduler: construction accepts or rejects in one step, a visit of a sweep
\* is no step, and each call of the client is the operation it stands for.
THEOREM LoopsImplementScheduler == Spec => ImplementsScheduler
<1>1. Init => Scheduler!Init
  BY DEF Init, Scheduler!Init, Constructed
<1>2. IInv /\ [Next]_vars => [Scheduler!Next]_(Scheduler!vars)
  <2> SUFFICES ASSUME IInv, [Next]_vars PROVE [Scheduler!Next]_(Scheduler!vars)
    OBVIOUS
  <2>1. ASSUME NEW n \in 1 .. MaxTasks, NEW d \in PlanShapes(n), Construct(d)
        PROVE  UNCHANGED Scheduler!vars
    BY <2>1, StutterUnconstructed DEF Construct, Constructed
  <2>2. CASE Visit \/ Reject
    BY <2>2, StutterUnconstructed DEF Visit, Reject, Constructed
  <2>3. CASE SweepTask
    <3>1. PICK n \in Nat : deps \in PlanShapes(n) /\ status \in [1 .. n -> TaskStatus]
      BY <2>3, PlanShape DEF IInv, SweepTask
    <3>2. Refresh(deps, status') = Refresh(deps, status)
      BY <2>3, <3>1, SweepTowardsRefresh DEF SweepTask
    <3>3. QED
      BY <2>3, <3>2, StutterConstructed DEF SweepTask, Constructed
  <2>4. CASE SweepAgain \/ CallNextTask
    BY <2>4, StutterConstructed DEF SweepAgain, CallNextTask, Sweep, Constructed
  <2>5. CASE Algorithm
    BY <2>2, <2>3, <2>4, <2>5, AcceptStep, SweepEndsStep DEF Algorithm
  <2>6. ASSUME NEW t \in Tasks,
               \/ Attempt(t)
               \/ \E s \in {"SUCCEEDED", "DEFERRED", "FAILED"} : CallMark(t, s)
               \/ CallRequeue(t)
        PROVE  [Scheduler!Next]_(Scheduler!vars)
    BY <2>6, ClientStep
  <2>7. CASE UNCHANGED vars
    BY <2>7 DEF vars, Scheduler!vars, Constructed
  <2>8. QED
    BY <2>1, <2>4, <2>5, <2>6, <2>7 DEF Next, Over
<1>3. QED
  BY InitIInv, NextIInv, <1>1, <1>2, PTL DEF Spec, ImplementsScheduler, Scheduler!Spec

-----------------------------------------------------------------------------
(* What the scheduler promises: TaskScheduler on its own, on the same variables *)

Promise == INSTANCE TaskScheduler

\* The operators of TaskGraph are the same ones in the instance.
LEMMA SamePromise ==
    /\ Promise!TaskStatus = TaskStatus /\ Promise!TASK_TRANSITIONS = TASK_TRANSITIONS
    /\ \A d : Promise!Acyclic(d) <=> Acyclic(d)
    /\ \A d, st : Promise!Refresh(d, st) = Refresh(d, st)
    /\ \A d, st : Promise!Consistent(d, st) <=> Consistent(d, st)
    /\ \A n : Promise!PlanShapes(n) = PlanShapes(n)
    /\ \A st : Promise!ReadyTasks(st) = ReadyTasks(st)
    /\ \A st : Promise!NextTask(st) = NextTask(st)
    /\ \A st : Promise!AllEnded(st) <=> AllEnded(st)
    /\ \A d, st, t, s : Promise!Mark(d, st, t, s) = Mark(d, st, t, s)
BY DEF Promise!TaskStatus, TaskStatus, Promise!TASK_TRANSITIONS, TASK_TRANSITIONS,
    Promise!Acyclic, Acyclic, Promise!Refresh, Refresh, Promise!Doomed, Doomed,
    Promise!ClosedUnderBlocking, ClosedUnderBlocking, Promise!Dead, Dead,
    Promise!Consistent, Consistent, Promise!HasFailedDependency, HasFailedDependency,
    Promise!DependenciesSatisfied, DependenciesSatisfied, Promise!UNLOCKING, UNLOCKING,
    Promise!PlanShapes, PlanShapes, Promise!ReadyTasks, ReadyTasks,
    Promise!NextTask, NextTask, Promise!Mark, Mark,
    Promise!AllEnded, AllEnded, Promise!Terminal, Terminal

PromiseInv == Promise!TypeOK /\ Promise!GraphConsistent

\* Before a plan is accepted there is nothing to disagree about.
LEMMA InitPromise == Promise!Init => PromiseInv
<1> SUFFICES ASSUME Promise!Init PROVE PromiseInv
  OBVIOUS
<1>1. 0 \in 0 .. MaxTasks
  BY PlanAssumption
<1>2. /\ deps \in [1 .. 0 -> SUBSET (1 .. 0)]
      /\ status \in [1 .. 0 -> TaskStatus]
      /\ attempts \in [1 .. 0 -> 0 .. MaxAttempts]
  BY SamePromise DEF Promise!Init
<1>3. Promise!TypeOK
  BY <1>1, <1>2, SamePromise DEF Promise!TypeOK
<1>4. Promise!GraphConsistent
  BY SamePromise DEF Promise!Init, Promise!GraphConsistent, Consistent
<1>5. QED
  BY <1>3, <1>4 DEF PromiseInv

\* Every operation keeps the type and the agreement.
LEMMA NextPromise == PromiseInv /\ [Promise!Next]_(Promise!vars) => PromiseInv'
<1> SUFFICES ASSUME PromiseInv, [Promise!Next]_(Promise!vars) PROVE PromiseInv'
  OBVIOUS
<1>1. PICK n \in 0 .. MaxTasks :
          /\ deps \in [1 .. n -> SUBSET (1 .. n)]
          /\ status \in [1 .. n -> TaskStatus]
          /\ attempts \in [1 .. n -> 0 .. MaxAttempts]
  BY SamePromise DEF PromiseInv, Promise!TypeOK
<1>2. /\ DOMAIN deps = 1 .. n /\ DOMAIN status = 1 .. n
      /\ \A t \in DOMAIN deps : deps[t] \subseteq DOMAIN deps
      /\ status \in [DOMAIN deps -> TaskStatus]
      /\ n \in Nat /\ MaxAttempts \in Nat
  BY <1>1, PlanAssumption
<1>3. Consistent(deps, status) /\ (deps # <<>> => Acyclic(deps))
  BY SamePromise DEF PromiseInv, Promise!GraphConsistent
<1>a. ASSUME deps' = deps, status' \in [DOMAIN deps -> TaskStatus],
             attempts' \in [1 .. n -> 0 .. MaxAttempts], Consistent(deps, status')
      PROVE  PromiseInv'
  BY <1>a, <1>1, <1>2, <1>3, SamePromise DEF PromiseInv, Promise!TypeOK, Promise!GraphConsistent
<1>4. ASSUME NEW k \in 1 .. MaxTasks, NEW d \in PlanShapes(k), Promise!Accept(d)
      PROVE  PromiseInv'
  <2>1. k \in Nat /\ k \in 0 .. MaxTasks /\ d \in [1 .. k -> SUBSET (1 .. k)]
    BY PlanAssumption DEF PlanShapes
  <2>2. [t \in DOMAIN d |-> "PENDING"] \in [DOMAIN d -> TaskStatus]
    BY DEF TaskStatus
  <2>3. status' \in [1 .. k -> TaskStatus]
    BY <1>4, <2>1, <2>2, RefreshType, SamePromise DEF Promise!Accept
  <2>4. attempts' \in [1 .. k -> 0 .. MaxAttempts] /\ deps' = d
    BY <1>4, <2>1, PlanAssumption, SamePromise DEF Promise!Accept
  <2>5. Promise!TypeOK'
    BY <2>1, <2>3, <2>4, SamePromise DEF Promise!TypeOK
  <2>6. Consistent(deps', status') /\ Acyclic(deps')
    BY <1>4, <2>1, <2>4, FirstRefreshConsistent, SamePromise DEF Promise!Accept
  <2>7. QED
    BY <2>5, <2>6, SamePromise DEF PromiseInv, Promise!GraphConsistent
<1>5. CASE Promise!Start
  <2>1. NextTask(status) \in DOMAIN deps /\ status[NextTask(status)] = "READY"
    BY <1>2, <1>5, NextTaskReady, SamePromise DEF Promise!Start
  <2>2. status' = [status EXCEPT ![NextTask(status)] = "RUNNING"]
    BY <1>5, SamePromise DEF Promise!Start
  <2>3. status' \in [DOMAIN deps -> TaskStatus]
    BY <1>2, <2>1, <2>2 DEF TaskStatus
  <2>4. Consistent(deps, status')
    BY <1>2, <1>3, <2>1, <2>2, StartConsistent
  <2>5. QED
    BY <1>a, <1>1, <1>5, <2>3, <2>4, SamePromise DEF Promise!Start
<1>6. ASSUME NEW t \in DOMAIN deps, Promise!Attempt(t)
      PROVE  PromiseInv'
  <2>1. attempts' \in [1 .. n -> 0 .. MaxAttempts]
    BY <1>1, <1>2, <1>6, SamePromise DEF Promise!Attempt
  <2>2. QED
    BY <1>a, <1>2, <1>3, <1>6, <2>1, SamePromise DEF Promise!Attempt
<1>7. ASSUME NEW t \in DOMAIN deps, NEW s \in {"SUCCEEDED", "DEFERRED", "FAILED"},
             Promise!Settle(t, s)
      PROVE  PromiseInv'
  <2>1. status' \in [DOMAIN deps -> TaskStatus]
    BY <1>2, <1>7, MarkType, SamePromise DEF Promise!Settle
  <2>2. Consistent(deps, status')
    BY <1>2, <1>3, <1>7, MarkConsistent, SamePromise DEF Promise!Settle
  <2>3. QED
    BY <1>a, <1>1, <1>7, <2>1, <2>2, SamePromise DEF Promise!Settle
<1>8. ASSUME NEW t \in DOMAIN deps, Promise!Requeue(t)
      PROVE  PromiseInv'
  <2>1. status' \in [DOMAIN deps -> TaskStatus]
    BY <1>2, <1>8, SamePromise DEF Promise!Requeue, TaskStatus
  <2>2. Consistent(deps, status')
    BY <1>2, <1>3, <1>8, StartConsistent, SamePromise DEF Promise!Requeue
  <2>3. QED
    BY <1>a, <1>1, <1>8, <2>1, <2>2, SamePromise DEF Promise!Requeue
<1>9. CASE UNCHANGED Promise!vars
  BY <1>a, <1>1, <1>2, <1>3, <1>9, SamePromise DEF Promise!vars
<1>10. QED
  BY <1>4, <1>5, <1>6, <1>7, <1>8, <1>9, SamePromise DEF Promise!Next

\* The plan graph never disagrees with its statuses: a task that started has
\* its dependencies unlocked, and a task is blocked exactly when a failure is
\* upstream of it, whatever the client's sequence of calls.
THEOREM SchedulerInvariant == Promise!Spec => [](Promise!TypeOK /\ Promise!GraphConsistent)
<1>1. PromiseInv => Promise!TypeOK /\ Promise!GraphConsistent
  BY DEF PromiseInv
<1>2. QED
  BY InitPromise, NextPromise, <1>1, PTL DEF Promise!Spec

\* A plan that was accepted never leaves a task waiting when none can move.
THEOREM SchedulerNotStranded == Promise!Spec => []Promise!NoTaskStranded
<1>1. PromiseInv => Promise!NoTaskStranded
  <2> SUFFICES ASSUME PromiseInv, \A t \in DOMAIN deps : status[t] \notin {"READY", "RUNNING"}
               PROVE  AllEnded(status)
    BY SamePromise DEF Promise!NoTaskStranded
  <2>1. PICK n \in 0 .. MaxTasks :
          /\ deps \in [1 .. n -> SUBSET (1 .. n)]
          /\ status \in [1 .. n -> TaskStatus]
    BY SamePromise DEF PromiseInv, Promise!TypeOK
  <2>2. /\ status \in [DOMAIN deps -> TaskStatus]
        /\ \A t \in DOMAIN deps : deps[t] \subseteq DOMAIN deps
    BY <2>1
  <2>3. CASE deps = <<>>
    BY <2>2, <2>3 DEF AllEnded
  <2>4. CASE deps # <<>>
    BY <2>2, <2>4, AcyclicNotStranded, SamePromise DEF PromiseInv, Promise!GraphConsistent
  <2>5. QED
    BY <2>3, <2>4
<1>2. QED
  BY InitPromise, NextPromise, <1>1, PTL DEF Promise!Spec

\* No operation of the graph makes a move transition_to() would reject: a
\* settled task stays settled, a running one is never blocked.
THEOREM SchedulerMovesLegal == Promise!Spec => Promise!SettledIsFinal
<1>1. PromiseInv /\ [Promise!Next]_(Promise!vars) =>
        [\A t \in DOMAIN deps : status'[t] # status[t]
           => <<status[t], status'[t]>> \in Promise!TASK_TRANSITIONS]_(Promise!vars)
  <2> SUFFICES ASSUME PromiseInv, Promise!Next, NEW t \in DOMAIN deps, status'[t] # status[t]
               PROVE  <<status[t], status'[t]>> \in TASK_TRANSITIONS
    BY SamePromise
  <2>1. PICK n \in 0 .. MaxTasks :
          /\ deps \in [1 .. n -> SUBSET (1 .. n)]
          /\ status \in [1 .. n -> TaskStatus]
    BY SamePromise DEF PromiseInv, Promise!TypeOK
  <2>2. status \in [DOMAIN deps -> TaskStatus] /\ deps # <<>> /\ n \in Nat
    BY <2>1
  <2>3. CASE Promise!Start
    <3>1. NextTask(status) \in 1 .. n /\ status[NextTask(status)] = "READY"
      BY <2>1, <2>2, <2>3, NextTaskReady, SamePromise DEF Promise!Start
    <3>2. QED
      BY <2>1, <2>3, <3>1, SamePromise DEF Promise!Start, TASK_TRANSITIONS
  <2>4. ASSUME NEW u \in DOMAIN deps, Promise!Requeue(u)
        PROVE  <<status[t], status'[t]>> \in TASK_TRANSITIONS
    BY <2>1, <2>4, SamePromise DEF Promise!Requeue, TASK_TRANSITIONS
  <2>5. ASSUME NEW u \in DOMAIN deps, NEW s \in {"SUCCEEDED", "DEFERRED", "FAILED"},
               Promise!Settle(u, s)
        PROVE  <<status[t], status'[t]>> \in TASK_TRANSITIONS
    <3> DEFINE m == [status EXCEPT ![u] = s]
    <3>1. m \in [DOMAIN deps -> TaskStatus] /\ status' = Refresh(deps, m)
      BY <2>2, <2>5, SamePromise DEF Promise!Settle, Mark, TaskStatus
    <3>2. m[t] = IF t = u THEN s ELSE status[t]
      BY <2>1
    <3> HIDE DEF m
    <3>3. status'[t] # m[t] => <<m[t], status'[t]>> \in TASK_TRANSITIONS
      BY <3>1, RefreshMoves
    <3>4. m[u] = s /\ s \in Terminal /\ (status'[u] = m[u])
      <4>1. m[u] = s
        BY <2>1 DEF m
      <4>2. ~(\E x : <<s, x>> \in TASK_TRANSITIONS)
        BY DEF TASK_TRANSITIONS
      <4>3. status'[u] # m[u] => <<m[u], status'[u]>> \in TASK_TRANSITIONS
        BY <3>1, RefreshMoves
      <4>4. QED
        BY <4>1, <4>2, <4>3 DEF Terminal
    <3>5. CASE t = u
      BY <2>5, <3>4, <3>5, SamePromise DEF Promise!Settle, TASK_TRANSITIONS
    <3>6. CASE t # u
      BY <3>2, <3>3, <3>6
    <3>7. QED
      BY <3>5, <3>6
  <2>6. QED
    BY <2>2, <2>3, <2>4, <2>5, SamePromise DEF Promise!Next, Promise!Attempt
<1>2. QED
  BY InitPromise, NextPromise, <1>1, PTL DEF Promise!Spec, Promise!SettledIsFinal
=============================================================================
