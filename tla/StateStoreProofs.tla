--------------------------- MODULE StateStoreProofs ---------------------------
(***************************************************************************)
(* The execution store, proved for plans of any size, any number of        *)
(* attempts, executions and artifacts, and a kill between any two          *)
(* statements.                                                             *)
(***************************************************************************)
EXTENDS StateStore, TaskGraphProofs, FiniteSetTheorems, SequenceTheorems

-----------------------------------------------------------------------------
(* The inductive invariant *)

Row == [deps : SUBSET Nat, status : TaskStatus, attempts : Nat]

\* The statements of a call: on the execution, on a task's row, and the rest.
Quiet == ({"unlink"} \X SUBSET Nat) \cup ({"link"} \X Nat \X Nat)
            \cup ({"open", "write", "row"} \X Contents)
TaskSaves == {"task"} \X Nat \X Row
Statements ==
    ({"execution"} \X ProjectState) \cup ({"audit"} \X ProjectState \X ProjectState)
        \cup TaskSaves \cup Quiet

\* A graph in memory: a plan just saved, or one that agrees with itself.
GraphInv(d, st, at) ==
    /\ \E n \in Nat : d \in [1 .. n -> SUBSET (1 .. n)]
    /\ st \in [DOMAIN d -> TaskStatus]
    /\ at \in [DOMAIN d -> Nat]
    /\ Consistent(d, st) \/ \A t \in DOMAIN d : st[t] = "PENDING"

\* The execution's row, its last audit row and the statements due move
\* together: a transition is due in full, due in part, or done, and whatever
\* else is due writes the state the execution is in.
Stays(s, state_) == s[1] # "audit" /\ (s[1] = "execution" => s[2] = state_)

Audited(state_, row, last, td) ==
    \/ /\ Len(td) >= 2 /\ td[1] = <<"execution", state_>> /\ td[2] = <<"audit", row, state_>>
       /\ last[2] = row /\ CanTransition(row, state_)
       /\ \A i \in 3 .. Len(td) : Stays(td[i], state_)
    \/ /\ Len(td) >= 1 /\ td[1] = <<"audit", last[2], state_>>
       /\ row = state_ /\ CanTransition(last[2], state_)
       /\ \A i \in 2 .. Len(td) : Stays(td[i], state_)
    \/ /\ row = state_ /\ last[2] = state_
       /\ \A i \in 1 .. Len(td) : Stays(td[i], state_)

\* What the row of task t may hold once it is saved: refresh() may have
\* promoted the task since, and is run again when the rows are loaded.
Saved(row, d, st, at, t) ==
    /\ row.deps = d[t] /\ row.attempts = at[t]
    /\ row.status = st[t] \/ (row.status = "PENDING" /\ st[t] = "READY")

\* The tasks whose row a due statement writes, and that rows are written in
\* rank order.
Due(td) == {td[i][2] : i \in {j \in DOMAIN td : td[j][1] = "task"}}

InOrder(td) ==
    \A i, j \in DOMAIN td :
        i < j /\ td[i][1] = "task" /\ td[j][1] = "task" => td[i][2] <= td[j][2]

\* A row due is the row of its task, and every other task has its row.
DueInv(d, st, at, td, rw) ==
    /\ \A i \in DOMAIN td : td[i][1] = "task" =>
          td[i][2] \in DOMAIN d /\ Saved(td[i][3], d, st, at, td[i][2])
    /\ InOrder(td)
    /\ \A t \in DOMAIN d \ Due(td) : t \in DOMAIN rw /\ Saved(rw[t], d, st, at, t)

\* A row that says its task got further, or is blocked, is not ahead of the
\* rows of its dependencies.
Agrees(rw, t) ==
    /\ rw[t].status \notin {"PENDING", "BLOCKED"} =>
          \A u \in rw[t].deps : u \in DOMAIN rw /\ rw[u].status \in UNLOCKING
    /\ rw[t].status = "BLOCKED" =>
          \E u \in rw[t].deps : u \in DOMAIN rw /\ rw[u].status \in Dead

\* The rows, old and new, are of the plan in memory, and a task that ended
\* stays as its row says.
RowInv(d, st, rw) ==
    /\ DOMAIN rw \subseteq DOMAIN d
    /\ \A t \in DOMAIN rw :
          /\ rw[t] \in Row /\ rw[t].deps = d[t]
          /\ rw[t].status \in Terminal => st[t] = rw[t].status
          /\ Backward(d) => Agrees(rw, t)

SavedInv(d, st, at, td, rw) ==
    GraphInv(d, st, at) /\ DueInv(d, st, at, td, rw) /\ RowInv(d, st, rw)

StoreTypeOK ==
    /\ pc \in {"running", "dead", "resumed", "resumedNone", "resumeRaised"}
    /\ executions \in Nat
    /\ state \in ProjectState /\ execRow \in ProjectState
    /\ audit \in ProjectState \X ProjectState
    /\ todo \in Seq(Statements)
    /\ files \in [Contents -> {"absent", "partial", "complete"}]

IInv ==
    /\ StoreTypeOK
    /\ pc = "running" =>
          /\ Audited(state, execRow, audit, todo)
          /\ SavedInv(deps, status, attempts, todo, rows)
          /\ state = "RECEIVED" => DOMAIN deps = {}
    /\ pc # "running" =>
          /\ todo = <<>>
          /\ lost.todo \in Seq(Statements)
          /\ SavedInv(lost.deps, lost.status, lost.attempts, lost.todo, rows)
    /\ AuditExplainsState /\ ResumeExact /\ ResumedConsistent

-----------------------------------------------------------------------------
(* Statements *)

LEMMA Kinds ==
    /\ \A s \in Quiet : s[1] \notin {"task", "execution", "audit"}
    /\ \A s \in TaskSaves : s[1] = "task" /\ s[2] \in Nat /\ s[3] \in Row /\ s = <<s[1], s[2], s[3]>>
    /\ \A s \in Statements : s[1] = "task" => s \in TaskSaves
    /\ TaskSaves \subseteq Statements /\ Quiet \subseteq Statements
BY DEF Quiet, TaskSaves, Statements

LEMMA SetToSeqElements ==
    ASSUME NEW S, IsFiniteSet(S)
    PROVE  SetToSeq(S) \in Seq(S)
<1>1. Cardinality(S) \in Nat /\ ExistsBijection(1 .. Cardinality(S), S)
  BY FS_CardinalityType
<1>2. \E f \in [1 .. Cardinality(S) -> S] : IsInjective(f)
  BY <1>1 DEF ExistsBijection, Bijection, Injection, IsInjective
<1>3. SetToSeq(S) \in [1 .. Cardinality(S) -> S]
  BY <1>2 DEF SetToSeq
<1>4. QED
  BY <1>1, <1>3, SeqDef

\* What flattening has collected after the first m sequences.
Collects(g, seqs, m) ==
    \A n \in 1 .. m : g[n] = IF n = 1 THEN seqs[n] ELSE g[n - 1] \o seqs[n]

LEMMA CollectionsExist ==
    ASSUME NEW seqs
    PROVE  \A m \in Nat : \E g : Collects(g, seqs, m)
<1> DEFINE S == {m \in Nat : ~\E g : Collects(g, seqs, m)}
<1> SUFFICES ASSUME S # {} PROVE FALSE
  OBVIOUS
<1>1. PICK m \in S : \A j \in S : m <= j
  BY LeastElement
<1>2. m # 0
  BY <1>1 DEF Collects
<1>3. m - 1 \in Nat /\ m - 1 \notin S
  BY <1>1, <1>2
<1>4. PICK g : Collects(g, seqs, m - 1)
  BY <1>3
<1> DEFINE h == [n \in 1 .. m |-> IF n < m THEN g[n]
                                  ELSE IF n = 1 THEN seqs[n] ELSE g[n - 1] \o seqs[n]]
<1>5. ASSUME NEW n \in 1 .. m
      PROVE  h[n] = IF n = 1 THEN seqs[n] ELSE h[n - 1] \o seqs[n]
  <2>1. n # 1 => n - 1 \in 1 .. m /\ n - 1 < m /\ h[n - 1] = g[n - 1]
    BY <1>3
  <2>2. CASE n < m
    <3>1. n \in 1 .. m - 1
      BY <1>3, <2>2
    <3>2. g[n] = IF n = 1 THEN seqs[n] ELSE g[n - 1] \o seqs[n]
      BY <1>4, <3>1 DEF Collects
    <3>3. QED
      BY <2>1, <2>2, <3>2
  <2>3. CASE n = m
    BY <2>1, <2>3
  <2>4. QED
    BY <2>2, <2>3
<1> HIDE DEF h
<1>6. Collects(h, seqs, m)
  BY <1>5 DEF Collects
<1>7. QED
  BY <1>1, <1>6

\* FlattenSeq returns the last of what it collects.
LEMMA Flattening ==
    ASSUME NEW X, NEW seqs \in Seq(X), NEW n \in Nat, n # 0, Len(seqs) = n
    PROVE  \E F : Collects(F, seqs, n) /\ FlattenSeq(seqs) = F[n]
<1> DEFINE F == CHOOSE f : f = [i \in 1 .. n |-> IF i = 1 THEN seqs[i] ELSE f[i - 1] \o seqs[i]]
<1>1. FlattenSeq(seqs) = F[n]
  BY DEF FlattenSeq
<1>2. PICK g : Collects(g, seqs, n)
  BY CollectionsExist
<1> DEFINE f == [i \in 1 .. n |-> g[i]]
<1>3. ASSUME NEW i \in 1 .. n
      PROVE  f[i] = IF i = 1 THEN seqs[i] ELSE f[i - 1] \o seqs[i]
  <2>1. i # 1 => i - 1 \in 1 .. n
    OBVIOUS
  <2>2. QED
    BY <1>2, <2>1 DEF Collects
<1>4. f = [i \in 1 .. n |-> IF i = 1 THEN seqs[i] ELSE f[i - 1] \o seqs[i]]
  BY <1>3
<1> HIDE DEF f
<1>5. F = [i \in 1 .. n |-> IF i = 1 THEN seqs[i] ELSE F[i - 1] \o seqs[i]]
  BY <1>4
<1> HIDE DEF F
<1>6. Collects(F, seqs, n)
  <2> SUFFICES ASSUME NEW i \in 1 .. n
               PROVE  F[i] = IF i = 1 THEN seqs[i] ELSE F[i - 1] \o seqs[i]
    BY DEF Collects
  <2>1. QED
    BY <1>5
<1>7. QED
  BY <1>1, <1>6

LEMMA Concatenated ==
    ASSUME NEW S, NEW a \in Seq(S), NEW b \in Seq(S)
    PROVE  /\ a \o b \in Seq(S)
           /\ Len(a \o b) = Len(a) + Len(b)
           /\ DOMAIN (a \o b) = 1 .. Len(a) + Len(b)
           /\ \A i \in 1 .. Len(a) : (a \o b)[i] = a[i]
           /\ \A i \in 1 .. Len(a) + Len(b) : i > Len(a) =>
                 i - Len(a) \in 1 .. Len(b) /\ (a \o b)[i] = b[i - Len(a)]
<1>1. Len(a) \in Nat /\ Len(b) \in Nat
  OBVIOUS
<1>2. /\ a \o b \in Seq(S)
      /\ Len(a \o b) = Len(a) + Len(b)
      /\ \A i \in 1 .. Len(a) + Len(b) :
            (a \o b)[i] = IF i <= Len(a) THEN a[i] ELSE b[i - Len(a)]
  BY ConcatProperties
<1>3. DOMAIN (a \o b) = 1 .. Len(a) + Len(b)
  BY <1>2
<1>4. QED
  BY <1>1, <1>2, <1>3

\* save_task writes the row first and nothing but edges after it.
LEMMA SaveTaskStatements ==
    ASSUME NEW t \in Nat, NEW row \in Row, IsFiniteSet(row.deps)
    PROVE  /\ SaveTask(t, row) \in Seq(TaskSaves \cup Quiet)
           /\ Len(SaveTask(t, row)) >= 1
           /\ SaveTask(t, row)[1] = <<"task", t, row>>
           /\ \A i \in 2 .. Len(SaveTask(t, row)) : SaveTask(t, row)[i] \in Quiet
<1> DEFINE Links == {<<"link", t, d>> : d \in row.deps}
           first == << <<"task", t, row>>, Unlink(t) >>
           links == SetToSeq(Links)
<1>1. IsFiniteSet(Links)
  <2> DEFINE f == [d \in row.deps |-> <<"link", t, d>>]
  <2>1. f \in Surjection(row.deps, Links)
    BY DEF Surjection
  <2>2. QED
    BY <2>1, FS_Surjection
<1>2. links \in Seq(Links)
  BY <1>1, SetToSeqElements
<1>3. Links \subseteq Quiet
  BY DEF Row, Quiet
<1>4. links \in Seq(Quiet)
  BY <1>2, <1>3
<1>5. <<"task", t, row>> \in TaskSaves /\ Unlink(t) \in Quiet
  BY DEF TaskSaves, Quiet, Unlink
<1>6. first \in Seq(TaskSaves \cup Quiet) /\ Len(first) = 2
      /\ first[1] = <<"task", t, row>> /\ first[2] \in Quiet
  BY <1>5
<1> HIDE DEF first, links
<1>7. SaveTask(t, row) = first \o links
  BY DEF SaveTask, first, links
<1>8. links \in Seq(TaskSaves \cup Quiet)
  BY <1>4
<1> DEFINE All == TaskSaves \cup Quiet
<1> HIDE DEF All
<1>9. /\ first \o links \in Seq(All)
      /\ Len(first \o links) = 2 + Len(links)
      /\ \A i \in 1 .. 2 : (first \o links)[i] = first[i]
      /\ \A i \in 1 .. 2 + Len(links) : i > 2 =>
            i - 2 \in 1 .. Len(links) /\ (first \o links)[i] = links[i - 2]
  <2>1. first \in Seq(All) /\ links \in Seq(All)
    BY <1>6, <1>8 DEF All
  <2>2. /\ first \o links \in Seq(All)
        /\ Len(first \o links) = Len(first) + Len(links)
        /\ \A i \in 1 .. Len(first) : (first \o links)[i] = first[i]
        /\ \A i \in 1 .. Len(first) + Len(links) : i > Len(first) =>
              i - Len(first) \in 1 .. Len(links) /\ (first \o links)[i] = links[i - Len(first)]
    BY <2>1, Concatenated
  <2>3. Len(first) = 2
    BY <1>6
  <2>4. QED
    BY <2>2, <2>3
<1>10. ASSUME NEW i \in 2 .. 2 + Len(links)
       PROVE  (first \o links)[i] \in Quiet
  <2>1. \A j \in 1 .. Len(links) : links[j] \in Quiet
    BY <1>4
  <2>2. CASE i = 2
    BY <1>6, <1>9, <2>2
  <2>3. CASE i > 2
    BY <1>9, <2>1, <2>3
  <2>4. i = 2 \/ i > 2
    BY <1>4
  <2>5. QED
    BY <2>2, <2>3, <2>4
<1>11. (first \o links)[1] = <<"task", t, row>> /\ Len(first \o links) >= 1
  BY <1>4, <1>6, <1>9
<1>12. QED
  BY <1>7, <1>9, <1>10, <1>11 DEF All

\* The statements s save the tasks 1 .. n in rank order, each as its row.
SavesUpTo(s, n, row) ==
    /\ s \in Seq(TaskSaves \cup Quiet)
    /\ \A i \in 1 .. Len(s) : s[i][1] = "task" => s[i][2] \in 1 .. n /\ s[i][3] = row[s[i][2]]
    /\ \A t \in 1 .. n : \E i \in 1 .. Len(s) : s[i][1] = "task" /\ s[i][2] = t
    /\ InOrder(s)

LEMMA SavesOneMore ==
    ASSUME NEW n \in Nat, NEW row, NEW a, SavesUpTo(a, n, row),
           NEW b \in Seq(TaskSaves \cup Quiet), Len(b) >= 1,
           b[1] = <<"task", n + 1, row[n + 1]>>,
           \A i \in 2 .. Len(b) : b[i] \in Quiet
    PROVE  SavesUpTo(a \o b, n + 1, row)
<1> DEFINE All == TaskSaves \cup Quiet
           s == a \o b
<1> HIDE DEF All
<1>1. a \in Seq(All) /\ b \in Seq(All)
  BY DEF SavesUpTo, All
<1>2. Len(a) \in Nat /\ Len(b) \in Nat /\ DOMAIN a = 1 .. Len(a)
  BY <1>1
<1>3. /\ s \in Seq(All)
      /\ Len(s) = Len(a) + Len(b)
      /\ DOMAIN s = 1 .. Len(a) + Len(b)
      /\ \A i \in 1 .. Len(a) : s[i] = a[i]
      /\ \A i \in 1 .. Len(a) + Len(b) : i > Len(a) =>
            i - Len(a) \in 1 .. Len(b) /\ s[i] = b[i - Len(a)]
  BY <1>1, Concatenated
<1> HIDE DEF s
<1>4. s[Len(a) + 1] = <<"task", n + 1, row[n + 1]>>
  <2>1. Len(a) + 1 \in 1 .. Len(a) + Len(b) /\ Len(a) + 1 > Len(a)
        /\ (Len(a) + 1) - Len(a) = 1
    BY <1>2
  <2>2. QED
    BY <1>3, <2>1
<1>5. \A i \in 1 .. Len(a) + Len(b) : s[i][1] = "task" => i <= Len(a) + 1
  <2> SUFFICES ASSUME NEW i \in 1 .. Len(a) + Len(b), i > Len(a) + 1
               PROVE  s[i][1] # "task"
    BY <1>2
  <2>1. i - Len(a) \in 2 .. Len(b) /\ s[i] = b[i - Len(a)]
    BY <1>2, <1>3
  <2>2. QED
    BY <2>1, Kinds
<1>6. \A i \in 1 .. Len(s) : s[i][1] = "task" => s[i][2] \in 1 .. n + 1 /\ s[i][3] = row[s[i][2]]
  <2> SUFFICES ASSUME NEW i \in 1 .. Len(a) + Len(b), s[i][1] = "task"
               PROVE  s[i][2] \in 1 .. n + 1 /\ s[i][3] = row[s[i][2]]
    BY <1>3
  <2>1. CASE i <= Len(a)
    <3>1. i \in 1 .. Len(a) /\ s[i] = a[i]
      BY <1>2, <1>3, <2>1
    <3>2. a[i][2] \in 1 .. n /\ a[i][3] = row[a[i][2]]
      BY <3>1 DEF SavesUpTo
    <3>3. QED
      BY <3>1, <3>2
  <2>2. CASE i = Len(a) + 1
    BY <1>4, <2>2
  <2>3. QED
    BY <1>2, <1>5, <2>1, <2>2
<1>7. ASSUME NEW t \in 1 .. n + 1
      PROVE  \E i \in 1 .. Len(s) : s[i][1] = "task" /\ s[i][2] = t
  <2>1. CASE t \in 1 .. n
    <3>1. PICK i \in 1 .. Len(a) : a[i][1] = "task" /\ a[i][2] = t
      BY <2>1 DEF SavesUpTo
    <3>2. i \in 1 .. Len(s) /\ s[i] = a[i]
      BY <1>2, <1>3
    <3>3. QED
      BY <3>1, <3>2
  <2>2. CASE t = n + 1
    <3>1. Len(a) + 1 \in 1 .. Len(s)
      BY <1>2, <1>3
    <3>2. QED
      BY <1>4, <2>2, <3>1
  <2>3. QED
    BY <2>1, <2>2
<1>8. InOrder(s)
  <2> SUFFICES ASSUME NEW i \in 1 .. Len(a) + Len(b), NEW j \in 1 .. Len(a) + Len(b), i < j,
                      s[i][1] = "task", s[j][1] = "task"
               PROVE  s[i][2] <= s[j][2]
    BY <1>3 DEF InOrder
  <2>1. i \in 1 .. Len(a) /\ s[i] = a[i]
    BY <1>2, <1>3, <1>5
  <2>2. a[i][2] \in 1 .. n
    BY <2>1 DEF SavesUpTo
  <2>3. CASE j <= Len(a)
    <3>1. j \in 1 .. Len(a) /\ s[j] = a[j]
      BY <1>2, <1>3, <2>3
    <3>2. QED
      BY <1>2, <2>1, <3>1 DEF SavesUpTo, InOrder
  <2>4. CASE j = Len(a) + 1
    BY <1>4, <2>1, <2>2, <2>4
  <2>5. QED
    BY <1>2, <1>5, <2>3, <2>4
<1>9. QED
  BY <1>3, <1>6, <1>7, <1>8 DEF SavesUpTo, All, s

\* save_tasks saves every task of the plan.
LEMMA SaveTasksStatements ==
    ASSUME NEW n \in Nat, n # 0, NEW d \in [1 .. n -> SUBSET (1 .. n)],
           NEW st \in [1 .. n -> TaskStatus], NEW at \in [1 .. n -> Nat]
    PROVE  SavesUpTo(SaveTasks(d, st, at), n,
                     [t \in 1 .. n |-> [deps |-> d[t], status |-> st[t], attempts |-> at[t]]])
<1> DEFINE row == [t \in 1 .. n |-> [deps |-> d[t], status |-> st[t], attempts |-> at[t]]]
           seqs == [t \in 1 .. n |-> SaveTask(t, [deps |-> d[t], status |-> st[t],
                                                  attempts |-> at[t]])]
           All == TaskSaves \cup Quiet
<1>1. ASSUME NEW t \in 1 .. n
      PROVE  /\ seqs[t] \in Seq(All) /\ Len(seqs[t]) >= 1
             /\ seqs[t][1] = <<"task", t, row[t]>>
             /\ \A i \in 2 .. Len(seqs[t]) : seqs[t][i] \in Quiet
  <2>1. row[t] \in Row /\ row[t].deps \subseteq 1 .. n
    BY DEF Row
  <2>2. IsFiniteSet(row[t].deps)
    <3>1. IsFiniteSet(1 .. n)
      BY FS_Interval
    <3>2. QED
      BY <2>1, <3>1, FS_Subset
  <2>3. seqs[t] = SaveTask(t, row[t]) /\ t \in Nat
    OBVIOUS
  <2> HIDE DEF seqs, row
  <2>4. QED
    BY <2>1, <2>2, <2>3, SaveTaskStatements
<1>2. seqs \in Seq(Seq(All)) /\ Len(seqs) = n
  <2>1. \A t \in 1 .. n : seqs[t] \in Seq(All)
    BY <1>1
  <2> HIDE DEF All
  <2>2. seqs \in [1 .. n -> Seq(All)]
    BY <2>1
  <2>3. QED
    BY <2>2
<1>3. SaveTasks(d, st, at) = FlattenSeq(seqs)
  BY DEF SaveTasks
<1> HIDE DEF seqs, row, All
<1>4. PICK F : Collects(F, seqs, n) /\ FlattenSeq(seqs) = F[n]
  BY <1>2, Flattening
<1>5. SavesUpTo(<< >>, 0, row)
  BY DEF SavesUpTo, InOrder
<1> DEFINE S == {k \in 1 .. n : ~SavesUpTo(F[k], k, row)}
<1>6. S = {}
  <2> SUFFICES ASSUME S # {} PROVE FALSE
    OBVIOUS
  <2>1. S \in SUBSET Nat
    OBVIOUS
  <2>2. PICK k \in S : \A j \in S : k <= j
    BY <2>1, LeastElement
  <2>3. k \in 1 .. n /\ ~SavesUpTo(F[k], k, row)
    BY <2>2
  <2>4. CASE k = 1
    <3>1. F[1] = seqs[1]
      BY <1>4, <2>3, <2>4 DEF Collects
    <3>2. << >> \o seqs[1] = seqs[1]
      BY <1>1, ConcatEmptySeq
    <3>3. SavesUpTo(<< >> \o seqs[1], 0 + 1, row)
      <4>1. 1 \in 1 .. n /\ 0 + 1 = 1
        BY <2>3
      <4>2. QED
        BY <1>1, <1>5, <4>1, SavesOneMore DEF All
    <3>4. QED
      BY <2>3, <2>4, <3>1, <3>2, <3>3
  <2>5. CASE k # 1
    <3>1. k - 1 \in 1 .. n /\ k - 1 \in Nat /\ (k - 1) + 1 = k
      BY <2>3, <2>5
    <3>2. k - 1 \notin S
      BY <2>2, <3>1
    <3>3. F[k] = F[k - 1] \o seqs[k]
      BY <1>4, <2>3, <2>5 DEF Collects
    <3>4. SavesUpTo(F[k - 1], k - 1, row)
      BY <3>1, <3>2
    <3>5. SavesUpTo(F[k - 1] \o seqs[k], (k - 1) + 1, row)
      BY <1>1, <2>3, <3>1, <3>4, SavesOneMore DEF All
    <3>6. QED
      BY <2>3, <3>1, <3>3, <3>5
  <2>6. QED
    BY <2>4, <2>5
<1>7. SavesUpTo(F[n], n, row)
  BY <1>6
<1>8. QED
  BY <1>3, <1>4, <1>7 DEF row

-----------------------------------------------------------------------------
(* What is due *)

\* Statements that save no task may be added in front.
LEMMA PrefixDue ==
    ASSUME NEW d, NEW st, NEW at, NEW rw, NEW pre \in Seq(Statements), NEW s \in Seq(Statements),
           \A i \in 1 .. Len(pre) : pre[i][1] # "task",
           DueInv(d, st, at, s, rw)
    PROVE  DueInv(d, st, at, pre \o s, rw)
<1> DEFINE all == pre \o s
<1>1. Len(pre) \in Nat /\ Len(s) \in Nat /\ DOMAIN s = 1 .. Len(s)
  OBVIOUS
<1>2. /\ DOMAIN all = 1 .. Len(pre) + Len(s)
      /\ \A i \in 1 .. Len(pre) : all[i] = pre[i]
      /\ \A i \in 1 .. Len(pre) + Len(s) : i > Len(pre) =>
            i - Len(pre) \in 1 .. Len(s) /\ all[i] = s[i - Len(pre)]
  BY Concatenated
<1> HIDE DEF all
<1>3. ASSUME NEW i \in DOMAIN all, all[i][1] = "task"
      PROVE  i > Len(pre) /\ i - Len(pre) \in DOMAIN s /\ all[i] = s[i - Len(pre)]
  <2>1. ~(i <= Len(pre))
    <3>1. SUFFICES ASSUME i <= Len(pre) PROVE FALSE
      OBVIOUS
    <3>2. i \in 1 .. Len(pre)
      BY <1>1, <1>2, <1>3, <3>1
    <3>3. QED
      BY <1>2, <1>3, <3>2
  <2>2. QED
    BY <1>1, <1>2, <1>3, <2>1
<1>4. ASSUME NEW j \in DOMAIN s
      PROVE  j + Len(pre) \in DOMAIN all /\ all[j + Len(pre)] = s[j]
  <2>1. j + Len(pre) \in 1 .. Len(pre) + Len(s) /\ j + Len(pre) > Len(pre)
        /\ (j + Len(pre)) - Len(pre) = j
    BY <1>1
  <2>2. QED
    BY <1>2, <2>1
<1>5. Due(all) = Due(s)
  <2>1. ASSUME NEW t \in Due(all) PROVE t \in Due(s)
    <3>1. PICK i \in DOMAIN all : all[i][1] = "task" /\ t = all[i][2]
      BY DEF Due
    <3>2. QED
      BY <1>3, <3>1 DEF Due
  <2>2. ASSUME NEW t \in Due(s) PROVE t \in Due(all)
    <3>1. PICK j \in DOMAIN s : s[j][1] = "task" /\ t = s[j][2]
      BY DEF Due
    <3>2. QED
      BY <1>4, <3>1 DEF Due
  <2>3. QED
    BY <2>1, <2>2
<1>6. InOrder(all)
  <2> SUFFICES ASSUME NEW i \in DOMAIN all, NEW j \in DOMAIN all, i < j,
                      all[i][1] = "task", all[j][1] = "task"
               PROVE  all[i][2] <= all[j][2]
    BY DEF InOrder
  <2>1. /\ i - Len(pre) \in DOMAIN s /\ all[i] = s[i - Len(pre)]
        /\ j - Len(pre) \in DOMAIN s /\ all[j] = s[j - Len(pre)]
    BY <1>3
  <2>2. i - Len(pre) < j - Len(pre)
    BY <1>1, <1>2
  <2>3. QED
    BY <2>1, <2>2 DEF DueInv, InOrder
<1>7. ASSUME NEW i \in DOMAIN all, all[i][1] = "task"
      PROVE  all[i][2] \in DOMAIN d /\ Saved(all[i][3], d, st, at, all[i][2])
  BY <1>3, <1>7 DEF DueInv
<1>8. QED
  BY <1>5, <1>6, <1>7 DEF DueInv, all

\* save_tasks leaves nothing that is not due, whatever the rows hold.
LEMMA AllDue ==
    ASSUME NEW n \in Nat, n # 0, NEW d \in [1 .. n -> SUBSET (1 .. n)],
           NEW st \in [1 .. n -> TaskStatus], NEW at \in [1 .. n -> Nat], NEW rw
    PROVE  /\ SaveTasks(d, st, at) \in Seq(TaskSaves \cup Quiet)
           /\ DueInv(d, st, at, SaveTasks(d, st, at), rw)
<1> DEFINE s == SaveTasks(d, st, at)
           row == [t \in 1 .. n |-> [deps |-> d[t], status |-> st[t], attempts |-> at[t]]]
<1>1. SavesUpTo(s, n, row)
  BY SaveTasksStatements
<1>2. \A t \in 1 .. n : Saved(row[t], d, st, at, t)
  BY DEF Saved
<1> HIDE DEF s, row
<1>3. s \in Seq(TaskSaves \cup Quiet) /\ DOMAIN s = 1 .. Len(s)
  BY <1>1 DEF SavesUpTo
<1>4. 1 .. n \subseteq Due(s)
  BY <1>1, <1>3 DEF SavesUpTo, Due
<1>5. \A i \in DOMAIN s : s[i][1] = "task" =>
         s[i][2] \in DOMAIN d /\ Saved(s[i][3], d, st, at, s[i][2])
  BY <1>1, <1>2, <1>3 DEF SavesUpTo
<1>6. QED
  BY <1>1, <1>3, <1>4, <1>5 DEF DueInv, SavesUpTo, s

\* save_task leaves its task due; the others have their rows.
LEMMA OneDue ==
    ASSUME NEW n \in Nat, NEW d \in [1 .. n -> SUBSET (1 .. n)], NEW st, NEW at, NEW rw,
           NEW t \in 1 .. n, NEW row \in Row, Saved(row, d, st, at, t),
           \A u \in 1 .. n : u # t => u \in DOMAIN rw /\ Saved(rw[u], d, st, at, u)
    PROVE  /\ SaveTask(t, row) \in Seq(TaskSaves \cup Quiet)
           /\ DueInv(d, st, at, SaveTask(t, row), rw)
<1> DEFINE s == SaveTask(t, row)
<1>1. IsFiniteSet(row.deps)
  <2>1. IsFiniteSet(1 .. n)
    BY FS_Interval
  <2>2. row.deps \subseteq 1 .. n
    BY DEF Saved
  <2>3. QED
    BY <2>1, <2>2, FS_Subset
<1>2. /\ s \in Seq(TaskSaves \cup Quiet) /\ Len(s) >= 1 /\ s[1] = <<"task", t, row>>
      /\ \A i \in 2 .. Len(s) : s[i] \in Quiet
  <2>1. t \in Nat
    OBVIOUS
  <2>2. QED
    BY <1>1, <2>1, SaveTaskStatements
<1> HIDE DEF s
<1>3. DOMAIN s = 1 .. Len(s) /\ Len(s) \in Nat
  BY <1>2
<1>4. \A i \in DOMAIN s : s[i][1] = "task" => i = 1
  BY <1>2, <1>3, Kinds
<1>5. t \in Due(s)
  BY <1>2, <1>3 DEF Due
<1>6. InOrder(s)
  BY <1>3, <1>4 DEF InOrder
<1>7. \A i \in DOMAIN s : s[i][1] = "task" =>
         s[i][2] \in DOMAIN d /\ Saved(s[i][3], d, st, at, s[i][2])
  BY <1>2, <1>4
<1>8. QED
  BY <1>2, <1>5, <1>6, <1>7 DEF DueInv, s

LEMMA TailFacts ==
    ASSUME NEW td \in Seq(Statements), td # << >>
    PROVE  /\ Tail(td) \in Seq(Statements)
           /\ Len(td) \in Nat /\ Len(td) >= 1 /\ Len(Tail(td)) = Len(td) - 1
           /\ DOMAIN td = 1 .. Len(td) /\ DOMAIN Tail(td) = 1 .. Len(td) - 1
           /\ \A i \in DOMAIN Tail(td) : i + 1 \in DOMAIN td /\ Tail(td)[i] = td[i + 1]
           /\ 1 \in DOMAIN td /\ Head(td) = td[1] /\ td[1] \in Statements
<1>1. Len(td) \in Nat /\ Len(td) >= 1
  BY EmptySeq
<1>2. /\ Tail(td) \in Seq(Statements) /\ Len(Tail(td)) = Len(td) - 1
      /\ \A i \in 1 .. Len(Tail(td)) : Tail(td)[i] = td[i + 1]
  BY HeadTailProperties
<1>3. QED
  BY <1>1, <1>2

\* After a statement on something else, the same rows are due.
LEMMA DropOther ==
    ASSUME NEW d, NEW st, NEW at, NEW rw, NEW td \in Seq(Statements), td # << >>,
           td[1][1] # "task", DueInv(d, st, at, td, rw)
    PROVE  DueInv(d, st, at, Tail(td), rw)
<1> DEFINE tl == Tail(td)
<1>1. /\ DOMAIN td = 1 .. Len(td) /\ DOMAIN tl = 1 .. Len(td) - 1 /\ Len(td) \in Nat
      /\ \A i \in DOMAIN tl : i + 1 \in DOMAIN td /\ tl[i] = td[i + 1]
  BY TailFacts
<1> HIDE DEF tl
<1>2. \A i \in DOMAIN tl : tl[i][1] = "task" =>
         tl[i][2] \in DOMAIN d /\ Saved(tl[i][3], d, st, at, tl[i][2])
  BY <1>1 DEF DueInv
<1>3. InOrder(tl)
  BY <1>1 DEF DueInv, InOrder
<1>4. Due(td) \subseteq Due(tl)
  <2> SUFFICES ASSUME NEW j \in DOMAIN td, td[j][1] = "task"
               PROVE  td[j][2] \in Due(tl)
    BY DEF Due
  <2>1. j # 1 /\ j - 1 \in DOMAIN tl /\ (j - 1) + 1 = j
    BY <1>1
  <2>2. tl[j - 1] = td[j]
    BY <1>1, <2>1
  <2>3. QED
    BY <2>1, <2>2 DEF Due
<1>5. QED
  BY <1>2, <1>3, <1>4 DEF DueInv, tl

\* Writing the first row that is due: dependencies that point backwards have
\* their rows by then, so the new row does not run ahead of them.
LEMMA DropTask ==
    ASSUME NEW d, NEW st, NEW at, NEW rw, NEW td \in Seq(Statements), td # << >>,
           td[1][1] = "task", SavedInv(d, st, at, td, rw),
           NEW new, new = [u \in DOMAIN rw \cup {td[1][2]} |->
                             IF u = td[1][2] THEN td[1][3] ELSE rw[u]]
    PROVE  SavedInv(d, st, at, Tail(td), new)
<1> DEFINE tl == Tail(td)
           t == td[1][2]
<1>1. /\ DOMAIN td = 1 .. Len(td) /\ DOMAIN tl = 1 .. Len(td) - 1 /\ Len(td) \in Nat
      /\ \A i \in DOMAIN tl : i + 1 \in DOMAIN td /\ tl[i] = td[i + 1]
      /\ 1 \in DOMAIN td /\ td[1] \in Statements
  BY TailFacts
<1> HIDE DEF tl
<1>2. t \in DOMAIN d /\ Saved(td[1][3], d, st, at, t) /\ td[1][3] \in Row
  BY <1>1, Kinds DEF SavedInv, DueInv
<1>3. /\ DOMAIN new = DOMAIN rw \cup {t} /\ new[t] = td[1][3]
      /\ \A u \in DOMAIN rw : u # t => new[u] = rw[u]
  OBVIOUS
<1>4. PICK n \in Nat : d \in [1 .. n -> SUBSET (1 .. n)]
  BY DEF SavedInv, GraphInv
<1>5. st \in [1 .. n -> TaskStatus] /\ t \in 1 .. n /\ DOMAIN d = 1 .. n
  BY <1>2, <1>4 DEF SavedInv, GraphInv
<1>6. \A u \in Due(td) : u \in Nat /\ t <= u
  <2> SUFFICES ASSUME NEW j \in DOMAIN td, td[j][1] = "task"
               PROVE  td[j][2] \in Nat /\ t <= td[j][2]
    BY DEF Due
  <2>1. td[j][2] \in 1 .. n
    BY <1>5 DEF SavedInv, DueInv
  <2>2. CASE j = 1
    BY <2>1, <2>2
  <2>3. CASE j # 1
    BY <1>1, <2>1, <2>3 DEF SavedInv, DueInv, InOrder
  <2>4. QED
    BY <2>2, <2>3
<1>7. Due(td) \subseteq Due(tl) \cup {t}
  <2> SUFFICES ASSUME NEW j \in DOMAIN td, td[j][1] = "task", j # 1
               PROVE  td[j][2] \in Due(tl)
    BY DEF Due
  <2>1. j - 1 \in DOMAIN tl /\ (j - 1) + 1 = j
    BY <1>1
  <2>2. tl[j - 1] = td[j]
    BY <1>1, <2>1
  <2>3. QED
    BY <2>1, <2>2 DEF Due
<1>8. DueInv(d, st, at, tl, new)
  <2>1. \A i \in DOMAIN tl : tl[i][1] = "task" =>
           tl[i][2] \in DOMAIN d /\ Saved(tl[i][3], d, st, at, tl[i][2])
    BY <1>1 DEF SavedInv, DueInv
  <2>2. InOrder(tl)
    BY <1>1 DEF SavedInv, DueInv, InOrder
  <2>3. ASSUME NEW u \in DOMAIN d \ Due(tl)
        PROVE  u \in DOMAIN new /\ Saved(new[u], d, st, at, u)
    <3>1. CASE u = t
      BY <1>2, <1>3, <3>1
    <3>2. CASE u # t
      BY <1>3, <1>7, <3>2 DEF SavedInv, DueInv
    <3>3. QED
      BY <3>1, <3>2
  <2>4. QED
    BY <2>1, <2>2, <2>3 DEF DueInv
<1>9. new[t].status \in Terminal => st[t] = new[t].status
  BY <1>2, <1>3 DEF Saved, Terminal
\* A row that told of an end still tells it.
<1>10. \A u \in DOMAIN rw : rw[u].status \in Terminal => new[u].status = rw[u].status
  <2> SUFFICES ASSUME t \in DOMAIN rw, rw[t].status \in Terminal
               PROVE  new[t].status = rw[t].status
    BY <1>3
  <2>1. st[t] \in Terminal /\ st[t] = rw[t].status
    BY DEF SavedInv, RowInv
  <2>2. QED
    BY <1>2, <1>3, <2>1 DEF Saved, Terminal
<1>11. ASSUME Backward(d), NEW u \in d[t]
       PROVE  u \in DOMAIN new /\ (st[u] \in Terminal => new[u].status = st[u])
  <2>1. u \in 1 .. n /\ u < t
    BY <1>4, <1>5, <1>11 DEF Backward
  <2>2. u \notin Due(td)
    BY <1>5, <1>6, <2>1
  <2>3. u \in DOMAIN rw /\ Saved(rw[u], d, st, at, u) /\ u # t
    BY <1>5, <2>1, <2>2 DEF SavedInv, DueInv
  <2>4. QED
    BY <1>3, <2>3 DEF Saved, Terminal
<1>12. ASSUME Backward(d) PROVE Agrees(new, t)
  <2>1. new[t].deps = d[t] /\ (new[t].status = st[t] \/ new[t].status = "PENDING")
    BY <1>2, <1>3 DEF Saved
  <2>2. CASE new[t].status = "PENDING"
    BY <2>2 DEF Agrees
  <2>3. CASE new[t].status # "PENDING"
    <3>1. new[t].status = st[t] /\ st[t] # "PENDING" /\ Consistent(d, st)
      BY <1>5, <2>1, <2>3 DEF SavedInv, GraphInv
    <3>2. st[t] \notin {"PENDING", "BLOCKED"} => \A u \in d[t] : st[u] \in UNLOCKING
      BY <1>5, <3>1 DEF Consistent, DependenciesSatisfied
    <3>3. st[t] = "BLOCKED" => \E u \in d[t] : st[u] \in Dead
      BY <1>5, <3>1 DEF Consistent, HasFailedDependency
    <3>4. \A u \in d[t] : st[u] \in UNLOCKING \cup Dead =>
             u \in DOMAIN new /\ new[u].status = st[u]
      BY <1>11, <1>12, StatusNames
    <3>5. QED
      BY <2>1, <3>1, <3>2, <3>3, <3>4, <1>11, <1>12 DEF Agrees
  <2>4. QED
    BY <2>2, <2>3
<1>13. ASSUME Backward(d), NEW u \in DOMAIN rw, u # t PROVE Agrees(new, u)
  <2>1. Agrees(rw, u) /\ new[u] = rw[u]
    BY <1>3, <1>13 DEF SavedInv, RowInv
  <2>2. \A v \in DOMAIN rw : rw[v].status \in UNLOCKING \cup Dead => new[v].status = rw[v].status
    BY <1>10, StatusNames
  <2>3. QED
    BY <1>3, <2>1, <2>2 DEF Agrees
<1>14. RowInv(d, st, new)
  <2>1. DOMAIN new \subseteq DOMAIN d
    BY <1>2, <1>3 DEF SavedInv, RowInv
  <2>2. new[t] \in Row /\ new[t].deps = d[t]
    BY <1>2, <1>3 DEF Saved
  <2>3. \A u \in DOMAIN rw : u # t =>
           /\ new[u] \in Row /\ new[u].deps = d[u]
           /\ new[u].status \in Terminal => st[u] = new[u].status
    BY <1>3 DEF SavedInv, RowInv
  <2>4. QED
    BY <1>3, <1>9, <1>12, <1>13, <2>1, <2>2, <2>3 DEF RowInv
<1>15. QED
  BY <1>8, <1>14 DEF SavedInv, tl

-----------------------------------------------------------------------------
(* The audit trail *)

LEMMA NoWayOut == \A from, to : CanTransition(from, to) => from \notin TerminalStates
BY DEF CanTransition, PROJECT_TRANSITIONS, TerminalStates

LEMMA TaskStatementsStay ==
    ASSUME NEW s \in TaskSaves \cup Quiet, NEW st
    PROVE  Stays(s, st)
BY Kinds DEF Stays

\* A transition is due in full when its call begins.
LEMMA TransitionDue ==
    ASSUME NEW from \in ProjectState, NEW to \in ProjectState, CanTransition(from, to),
           NEW last, last[2] = from,
           NEW s \in Seq(Statements), \A i \in 1 .. Len(s) : Stays(s[i], to)
    PROVE  /\ RecordTransition(from, to) \in Seq(Statements)
           /\ \A i \in 1 .. Len(RecordTransition(from, to)) :
                 RecordTransition(from, to)[i][1] # "task"
           /\ RecordTransition(from, to) \o s \in Seq(Statements)
           /\ Audited(to, from, last, RecordTransition(from, to) \o s)
<1> DEFINE pre == RecordTransition(from, to)
           td == pre \o s
<1>1. <<"execution", to>> \in Statements /\ <<"audit", from, to>> \in Statements
  BY DEF Statements
<1>2. pre = << <<"execution", to>>, <<"audit", from, to>> >>
  BY DEF RecordTransition
<1>3. pre \in Seq(Statements) /\ Len(pre) = 2
      /\ pre[1] = <<"execution", to>> /\ pre[2] = <<"audit", from, to>>
  BY <1>1, <1>2
<1>4. \A i \in 1 .. Len(pre) : pre[i][1] # "task"
  <2>1. \A i \in 1 .. 2 : i = 1 \/ i = 2
    OBVIOUS
  <2>2. QED
    BY <1>3, <2>1
<1> HIDE DEF pre
<1>5. /\ td \in Seq(Statements) /\ Len(td) = Len(pre) + Len(s)
      /\ \A i \in 1 .. Len(pre) : td[i] = pre[i]
      /\ \A i \in 1 .. Len(pre) + Len(s) : i > Len(pre) =>
            i - Len(pre) \in 1 .. Len(s) /\ td[i] = s[i - Len(pre)]
  BY <1>3, Concatenated
<1>6. Len(s) \in Nat
  OBVIOUS
<1> HIDE DEF td
<1>7. Len(td) >= 2 /\ td[1] = <<"execution", to>> /\ td[2] = <<"audit", from, to>>
  BY <1>3, <1>5, <1>6
<1>8. \A i \in 3 .. Len(td) : Stays(td[i], to)
  <2> SUFFICES ASSUME NEW i \in 3 .. Len(td) PROVE Stays(td[i], to)
    OBVIOUS
  <2>1. i \in 1 .. Len(pre) + Len(s) /\ i > Len(pre)
    BY <1>3, <1>5, <1>6
  <2>2. QED
    BY <1>5, <2>1
<1>9. Audited(to, from, last, td)
  BY <1>7, <1>8 DEF Audited
<1>10. QED
  BY <1>3, <1>4, <1>5, <1>9 DEF pre, td

\* The statements of the store keep the execution's row and its audit trail
\* explained.
LEMMA AuditedAdvances ==
    ASSUME NEW st \in ProjectState, NEW row \in ProjectState,
           NEW last \in ProjectState \X ProjectState,
           NEW td \in Seq(Statements), td # << >>, Audited(st, row, last, td),
           NEW row2, row2 = (IF td[1][1] = "execution" THEN td[1][2] ELSE row),
           NEW last2, last2 = (IF td[1][1] = "audit" THEN <<td[1][2], td[1][3]>> ELSE last)
    PROVE  Audited(st, row2, last2, Tail(td))
<1> DEFINE tl == Tail(td)
<1>1. /\ DOMAIN td = 1 .. Len(td) /\ Len(td) \in Nat /\ Len(td) >= 1 /\ Len(tl) = Len(td) - 1
      /\ DOMAIN tl = 1 .. Len(td) - 1
      /\ \A i \in DOMAIN tl : i + 1 \in DOMAIN td /\ tl[i] = td[i + 1]
  BY TailFacts
<1> HIDE DEF tl
<1>2. CASE /\ Len(td) >= 2 /\ td[1] = <<"execution", st>> /\ td[2] = <<"audit", row, st>>
           /\ last[2] = row /\ CanTransition(row, st)
           /\ \A i \in 3 .. Len(td) : Stays(td[i], st)
  <2>1. row2 = st /\ last2 = last
    BY <1>2
  <2>2. Len(tl) >= 1 /\ tl[1] = <<"audit", last2[2], st>>
    BY <1>1, <1>2, <2>1
  <2>3. \A i \in 2 .. Len(tl) : Stays(tl[i], st)
    BY <1>1, <1>2
  <2>4. QED
    BY <1>2, <2>1, <2>2, <2>3 DEF Audited, tl
<1>3. CASE /\ Len(td) >= 1 /\ td[1] = <<"audit", last[2], st>>
           /\ row = st /\ CanTransition(last[2], st)
           /\ \A i \in 2 .. Len(td) : Stays(td[i], st)
  <2>1. row2 = st /\ last2 = <<last[2], st>>
    BY <1>3
  <2>2. \A i \in 1 .. Len(tl) : Stays(tl[i], st)
    BY <1>1, <1>3
  <2>3. QED
    BY <2>1, <2>2 DEF Audited, tl
<1>4. CASE /\ row = st /\ last[2] = st
           /\ \A i \in 1 .. Len(td) : Stays(td[i], st)
  <2>1. row2 = st /\ last2 = last
    BY <1>1, <1>4 DEF Stays
  <2>2. \A i \in 1 .. Len(tl) : Stays(tl[i], st)
    BY <1>1, <1>4
  <2>3. QED
    BY <1>4, <2>1, <2>2 DEF Audited, tl
<1>5. QED
  BY <1>2, <1>3, <1>4 DEF Audited

LEMMA AuditedExplains ==
    ASSUME Audited(state, execRow, audit, todo)
    PROVE  AuditExplainsState
BY NoWayOut DEF Audited, AuditExplainsState

-----------------------------------------------------------------------------
(* What refresh() redoes *)

\* There is nothing to block in a plan whose statuses agree with it.
LEMMA NothingDoomed ==
    ASSUME NEW d, NEW st,
           \A t \in DOMAIN d : st[t] \in {"PENDING", "READY"} => \A u \in d[t] : st[u] \notin Dead
    PROVE  Doomed(d, st) = {}
<1>1. ClosedUnderBlocking(d, st, {})
  BY DEF ClosedUnderBlocking
<1>2. QED
  BY <1>1 DEF Doomed

LEMMA ConsistentIsRefreshed ==
    ASSUME NEW d, NEW st \in [DOMAIN d -> TaskStatus], Consistent(d, st)
    PROVE  Refresh(d, st) = st
<1>1. Doomed(d, st) = {}
  BY NothingDoomed DEF Consistent, HasFailedDependency
<1>2. \A t \in DOMAIN d : Refresh(d, st)[t] = st[t]
  BY <1>1 DEF Refresh, Consistent
<1>3. QED
  BY <1>2 DEF Refresh

LEMMA PendingIsRefreshed ==
    ASSUME NEW d, NEW st, \A t \in DOMAIN d : st[t] = "PENDING",
           \A t \in DOMAIN d : d[t] \subseteq DOMAIN d
    PROVE  \A t \in DOMAIN d : Refresh(d, st)[t] \in {"PENDING", "READY"}
<1>1. Doomed(d, st) = {}
  BY NothingDoomed DEF Dead
<1>2. QED
  BY <1>1 DEF Refresh

\* Rows that hold a task as pending where the memory had promoted it are
\* refreshed to what the memory is refreshed to.
LEMMA SavedIsRefreshed ==
    ASSUME NEW d, NEW st \in [DOMAIN d -> TaskStatus], NEW saved \in [DOMAIN d -> TaskStatus],
           \A t \in DOMAIN d : d[t] \subseteq DOMAIN d,
           \A t \in DOMAIN d : saved[t] = st[t] \/ (saved[t] = "PENDING" /\ st[t] = "READY"),
           Consistent(d, st) \/ \A t \in DOMAIN d : st[t] = "PENDING"
    PROVE  Refresh(d, saved) = Refresh(d, st)
<1>1. CASE \A t \in DOMAIN d : st[t] = "PENDING"
  <2>1. saved = st
    BY <1>1
  <2>2. QED
    BY <2>1
<1>2. CASE Consistent(d, st)
  <2>1. \A t \in DOMAIN d : saved[t] \in Dead <=> st[t] \in Dead
    BY DEF Dead
  <2>2. \A t \in DOMAIN d : saved[t] \in UNLOCKING <=> st[t] \in UNLOCKING
    BY DEF UNLOCKING
  <2>3. Doomed(d, saved) = {}
    <3>1. ASSUME NEW t \in DOMAIN d, saved[t] \in {"PENDING", "READY"}, NEW u \in d[t]
          PROVE  saved[u] \notin Dead
      <4>1. st[t] # "BLOCKED"
        BY <3>1
      <4>2. st[u] \notin Dead
        BY <1>2, <3>1, <4>1 DEF Consistent, HasFailedDependency
      <4>3. QED
        BY <2>1, <3>1, <4>2
    <3>2. QED
      BY <3>1, NothingDoomed
  <2>4. \A t \in DOMAIN d : DependenciesSatisfied(d, saved, t) <=> DependenciesSatisfied(d, st, t)
    BY <2>2 DEF DependenciesSatisfied
  <2>5. \A t \in DOMAIN d : Refresh(d, saved)[t] = st[t]
    BY <1>2, <2>3, <2>4 DEF Refresh, Consistent
  <2>6. Refresh(d, saved) = st
    BY <2>5 DEF Refresh
  <2>7. QED
    BY <1>2, <2>6, ConsistentIsRefreshed
<1>3. QED
  BY <1>1, <1>2

LEMMA RefreshKeepsEnds ==
    ASSUME NEW d, NEW st \in [DOMAIN d -> TaskStatus], NEW t \in DOMAIN d, st[t] \in Terminal
    PROVE  Refresh(d, st)[t] = st[t]
<1>1. SUFFICES ASSUME Refresh(d, st)[t] # st[t] PROVE FALSE
  OBVIOUS
<1>2. <<st[t], Refresh(d, st)[t]>> \in TASK_TRANSITIONS
  BY <1>1, RefreshMoves
<1>3. QED
  BY <1>2 DEF TASK_TRANSITIONS, Terminal

LEMMA RowsKept ==
    ASSUME NEW d, NEW st, NEW new, NEW rw, RowInv(d, st, rw),
           \A t \in DOMAIN d : st[t] \in Terminal => new[t] = st[t]
    PROVE  RowInv(d, new, rw)
BY DEF RowInv

-----------------------------------------------------------------------------
(* Every call of the orchestrator keeps the invariant *)

\* Between two calls everything is on disk.
LEMMA IdleFacts ==
    ASSUME IInv, Idle
    PROVE  /\ pc = "running" /\ todo = << >>
           /\ execRow = state /\ audit[2] = state
           /\ GraphInv(deps, status, attempts) /\ RowInv(deps, status, rows)
           /\ DueInv(deps, status, attempts, << >>, rows)
           /\ \A t \in DOMAIN deps :
                 t \in DOMAIN rows /\ Saved(rows[t], deps, status, attempts, t)
<1>1. pc = "running" /\ todo = << >>
  BY DEF Idle
<1>2. Audited(state, execRow, audit, todo) /\ SavedInv(deps, status, attempts, todo, rows)
  BY <1>1 DEF IInv
<1>3. execRow = state /\ audit[2] = state
  BY <1>1, <1>2 DEF Audited
<1>4. Due(<< >>) = {}
  BY DEF Due
<1>5. QED
  BY <1>1, <1>2, <1>3, <1>4 DEF SavedInv, DueInv

LEMMA CallStep ==
    ASSUME IInv, Idle, NEW target \in ProjectState \ {"RECEIVED"},
           NEW s \in Seq(Statements), \A i \in 1 .. Len(s) : Stays(s[i], target),
           Call(target, s),
           GraphInv(deps', status', attempts'), RowInv(deps', status', rows),
           DueInv(deps', status', attempts', s, rows)
    PROVE  IInv'
<1>1. /\ pc = "running" /\ execRow = state /\ audit[2] = state
      /\ state \in ProjectState
  BY IdleFacts DEF IInv, StoreTypeOK
<1>2. /\ CanTransition(state, target) /\ state' = target
      /\ todo' = RecordTransition(state, target) \o s
      /\ pc' = pc /\ executions' = executions /\ lost' = lost
      /\ execRow' = execRow /\ audit' = audit /\ rows' = rows /\ files' = files
  BY DEF Call, disk
<1>3. /\ RecordTransition(state, target) \in Seq(Statements)
      /\ \A i \in 1 .. Len(RecordTransition(state, target)) :
            RecordTransition(state, target)[i][1] # "task"
      /\ todo' \in Seq(Statements)
      /\ Audited(state', execRow', audit', todo')
  BY <1>1, <1>2, TransitionDue
<1>4. DueInv(deps', status', attempts', todo', rows')
  BY <1>2, <1>3, PrefixDue
<1>5. StoreTypeOK'
  BY <1>2, <1>3 DEF IInv, StoreTypeOK
<1>6. AuditExplainsState'
  BY <1>2 DEF IInv, AuditExplainsState
<1>7. ResumeExact' /\ ResumedConsistent'
  BY <1>1, <1>2 DEF ResumeExact, ResumedConsistent
<1>8. QED
  BY <1>1, <1>2, <1>3, <1>4, <1>5, <1>6, <1>7 DEF IInv, SavedInv

LEMMA SaveStep ==
    ASSUME IInv, Idle, state # "RECEIVED", NEW s \in Seq(TaskSaves \cup Quiet), Save(s),
           GraphInv(deps', status', attempts'), RowInv(deps', status', rows),
           DueInv(deps', status', attempts', s, rows)
    PROVE  IInv'
<1>1. pc = "running" /\ execRow = state /\ audit[2] = state
  BY IdleFacts
<1>2. /\ state' = state /\ todo' = s
      /\ pc' = pc /\ executions' = executions /\ lost' = lost
      /\ execRow' = execRow /\ audit' = audit /\ rows' = rows /\ files' = files
  BY DEF Save, disk
<1>3. s \in Seq(Statements) /\ \A i \in 1 .. Len(s) : Stays(s[i], state)
  BY Kinds, TaskStatementsStay
<1>4. Audited(state', execRow', audit', todo')
  BY <1>1, <1>2, <1>3 DEF Audited
<1>5. StoreTypeOK'
  BY <1>2, <1>3 DEF IInv, StoreTypeOK
<1>6. AuditExplainsState'
  BY <1>2 DEF IInv, AuditExplainsState
<1>7. ResumeExact' /\ ResumedConsistent'
  BY <1>1, <1>2 DEF ResumeExact, ResumedConsistent
<1>8. QED
  BY <1>1, <1>2, <1>4, <1>5, <1>6, <1>7 DEF IInv, SavedInv

LEMMA OutputStatements ==
    ASSUME NEW c \in Contents
    PROVE  RecordOutput(c) \in Seq(Quiet)
<1>1. <<"open", c>> \in Quiet /\ <<"write", c>> \in Quiet /\ <<"row", c>> \in Quiet
  BY DEF Quiet
<1>2. Put(c) \in Seq(Quiet) /\ << <<"row", c>> >> \in Seq(Quiet)
  BY <1>1 DEF Put
<1>3. QED
  BY <1>2, ConcatProperties DEF RecordOutput

\* A call that records an output and then saves tasks has those due.
LEMMA OutputThenSaves ==
    ASSUME NEW c \in Contents, NEW d, NEW st, NEW at, NEW rw,
           NEW s \in Seq(TaskSaves \cup Quiet), DueInv(d, st, at, s, rw), NEW target
    PROVE  /\ RecordOutput(c) \o s \in Seq(Statements)
           /\ \A i \in 1 .. Len(RecordOutput(c) \o s) : Stays((RecordOutput(c) \o s)[i], target)
           /\ DueInv(d, st, at, RecordOutput(c) \o s, rw)
<1> DEFINE pre == RecordOutput(c)
           All == TaskSaves \cup Quiet
<1>1. pre \in Seq(Quiet)
  BY OutputStatements
<1>2. pre \in Seq(All) /\ pre \in Seq(Statements) /\ s \in Seq(Statements)
  BY <1>1, Kinds
<1>3. \A i \in 1 .. Len(pre) : pre[i][1] # "task"
  BY <1>1, Kinds
<1> HIDE DEF pre, All
<1>4. pre \o s \in Seq(All)
  BY <1>2, ConcatProperties DEF All
<1>5. pre \o s \in Seq(Statements) /\ \A i \in 1 .. Len(pre \o s) : Stays((pre \o s)[i], target)
  <2> DEFINE q == pre \o s
  <2> HIDE DEF q
  <2>1. q \in Seq(TaskSaves \cup Quiet)
    BY <1>4 DEF q, All
  <2>2. q \in Seq(Statements) /\ \A i \in 1 .. Len(q) : q[i] \in TaskSaves \cup Quiet
    BY <2>1, Kinds
  <2>3. QED
    BY <2>2, TaskStatementsStay DEF q
<1>6. DueInv(d, st, at, pre \o s, rw)
  BY <1>2, <1>3, PrefixDue
<1>7. QED
  BY <1>5, <1>6 DEF pre

\* A call that leaves the graph alone and records what an agent or a command
\* put out, or nothing.
LEMMA RecordStep ==
    ASSUME IInv, Idle, NEW target \in ProjectState \ {"RECEIVED"},
           NEW s, s = << >> \/ \E c \in Contents : s = RecordOutput(c),
           Call(target, s), UNCHANGED <<deps, status, attempts>>
    PROVE  IInv'
<1>1. s \in Seq(Quiet)
  <2>1. CASE s = << >>
    BY <2>1
  <2>2. ASSUME NEW c \in Contents, s = RecordOutput(c) PROVE s \in Seq(Quiet)
    BY <2>2, OutputStatements
  <2>3. QED
    BY <2>1, <2>2
<1>2. /\ s \in Seq(Statements)
      /\ \A i \in 1 .. Len(s) : s[i][1] # "task" /\ Stays(s[i], target)
  BY <1>1, Kinds DEF Stays
<1>3. << >> \in Seq(Statements) /\ s \o << >> = s
  BY <1>2, ConcatEmptySeq
<1>4. /\ GraphInv(deps, status, attempts) /\ RowInv(deps, status, rows)
      /\ DueInv(deps, status, attempts, << >>, rows)
  BY IdleFacts
<1>5. DueInv(deps, status, attempts, s \o << >>, rows)
  BY <1>2, <1>3, <1>4, PrefixDue
<1>6. deps' = deps /\ status' = status /\ attempts' = attempts
  OBVIOUS
<1>7. QED
  BY <1>2, <1>3, <1>4, <1>5, <1>6, CallStep

LEMMA SavePlanStep ==
    ASSUME IInv, Idle, state = "RECEIVED", NEW n \in 1 .. MaxTasks, NEW d \in PlanShapes(n),
           NEW c \in Contents, SavePlan(d, c)
    PROVE  IInv'
<1>1. n \in Nat /\ n # 0 /\ d \in [1 .. n -> SUBSET (1 .. n)] /\ DOMAIN d = 1 .. n
  BY PlanAssumption DEF PlanShapes
<1>2. /\ deps' = d /\ status' = [t \in 1 .. n |-> "PENDING"] /\ attempts' = [t \in 1 .. n |-> 0]
      /\ Call("PLANNING", RecordOutput(c) \o SaveTasks(d, status', attempts'))
  BY <1>1 DEF SavePlan
<1>3. status' \in [1 .. n -> TaskStatus] /\ attempts' \in [1 .. n -> Nat]
  BY <1>2 DEF TaskStatus
<1>4. GraphInv(deps', status', attempts')
  BY <1>1, <1>2, <1>3 DEF GraphInv
<1>5. DOMAIN rows = {}
  BY IdleFacts DEF IInv, RowInv
<1>6. RowInv(deps', status', rows)
  BY <1>5 DEF RowInv
<1>7. /\ SaveTasks(d, status', attempts') \in Seq(TaskSaves \cup Quiet)
      /\ DueInv(d, status', attempts', SaveTasks(d, status', attempts'), rows)
  BY <1>1, <1>3, AllDue
<1> DEFINE s == RecordOutput(c) \o SaveTasks(d, status', attempts')
<1>8. /\ s \in Seq(Statements)
      /\ \A i \in 1 .. Len(s) : Stays(s[i], "PLANNING")
      /\ DueInv(d, status', attempts', s, rows)
  BY <1>7, OutputThenSaves
<1>9. "PLANNING" \in ProjectState \ {"RECEIVED"}
  BY DEF ProjectState
<1>10. Call("PLANNING", s) /\ DueInv(deps', status', attempts', s, rows)
  BY <1>2, <1>8
<1> HIDE DEF s
<1>11. QED
  BY <1>4, <1>6, <1>8, <1>9, <1>10, CallStep

LEMMA RunningPlan ==
    ASSUME IInv, Idle, NEW t \in Tasks, status[t] # "PENDING"
    PROVE  /\ Consistent(deps, status)
           /\ state # "RECEIVED"
BY IdleFacts DEF IInv, GraphInv, Tasks

\* The plan of a running execution, refreshed.
LEMMA RefreshedPlan ==
    ASSUME IInv, Idle
    PROVE  /\ Consistent(deps, Refresh(deps, status))
           /\ Refresh(deps, status) \in [DOMAIN deps -> TaskStatus]
           /\ \A t \in DOMAIN deps :
                 \/ Refresh(deps, status)[t] = status[t]
                 \/ status[t] = "PENDING" /\ Refresh(deps, status)[t] = "READY"
<1>1. GraphInv(deps, status, attempts)
  BY IdleFacts
<1>2. PICK n \in Nat : deps \in [1 .. n -> SUBSET (1 .. n)]
  BY <1>1 DEF GraphInv
<1>3. status \in [DOMAIN deps -> TaskStatus]
  BY <1>1 DEF GraphInv
<1>4. CASE Consistent(deps, status)
  BY <1>3, <1>4, ConsistentIsRefreshed
<1>5. CASE \A t \in DOMAIN deps : status[t] = "PENDING"
  <2>1. status = [t \in DOMAIN deps |-> "PENDING"]
    BY <1>3, <1>5
  <2>2. Consistent(deps, Refresh(deps, status))
    BY <1>2, <2>1, FirstRefreshConsistent
  <2>3. \A t \in DOMAIN deps : Refresh(deps, status)[t] \in {"PENDING", "READY"}
    BY <1>2, <1>5, PendingIsRefreshed
  <2>4. QED
    BY <1>3, <1>5, <2>2, <2>3, RefreshType
<1>6. QED
  BY <1>1, <1>4, <1>5 DEF GraphInv

LEMMA StartTaskStep ==
    ASSUME IInv, Idle, StartTask
    PROVE  IInv'
<1> DEFINE st == Refresh(deps, status)
           t == NextTask(st)
           row == [deps |-> deps[t], status |-> "RUNNING", attempts |-> attempts[t]]
<1>1. PICK n \in Nat : deps \in [1 .. n -> SUBSET (1 .. n)]
  BY IdleFacts DEF GraphInv
<1>2. /\ status \in [1 .. n -> TaskStatus] /\ attempts \in [1 .. n -> Nat] /\ DOMAIN deps = 1 .. n
      /\ RowInv(deps, status, rows)
      /\ \A u \in 1 .. n : u \in DOMAIN rows /\ Saved(rows[u], deps, status, attempts, u)
  BY <1>1, IdleFacts DEF GraphInv
<1>3. /\ Consistent(deps, st) /\ st \in [1 .. n -> TaskStatus]
      /\ \A u \in 1 .. n : st[u] = status[u] \/ (status[u] = "PENDING" /\ st[u] = "READY")
  BY <1>1, RefreshedPlan
<1>4. /\ ReadyTasks(st) # {} /\ status' = [st EXCEPT ![t] = "RUNNING"]
      /\ Save(SaveTask(t, row))
      /\ deps' = deps /\ attempts' = attempts
  BY DEF StartTask
<1> HIDE DEF st, t
<1>5. t \in 1 .. n /\ st[t] = "READY"
  BY <1>3, <1>4, NextTaskReady DEF t
<1>6. Consistent(deps, status')
  BY <1>1, <1>3, <1>4, <1>5, StartConsistent
<1>7. /\ status' \in [1 .. n -> TaskStatus] /\ status'[t] = "RUNNING"
      /\ \A u \in 1 .. n : u # t => status'[u] = st[u]
  BY <1>3, <1>4, <1>5 DEF TaskStatus
<1>8. GraphInv(deps', status', attempts')
  BY <1>1, <1>2, <1>4, <1>6, <1>7 DEF GraphInv
<1>9. \A u \in 1 .. n : status[u] \in Terminal => status'[u] = status[u]
  BY <1>3, <1>5, <1>7 DEF Terminal
<1>10. RowInv(deps', status', rows)
  BY <1>1, <1>2, <1>4, <1>9, RowsKept
<1>11. row \in Row /\ Saved(row, deps, status', attempts, t)
  BY <1>1, <1>2, <1>5, <1>7 DEF Row, Saved, TaskStatus
<1>12. \A u \in 1 .. n : u # t => u \in DOMAIN rows /\ Saved(rows[u], deps, status', attempts, u)
  BY <1>2, <1>3, <1>7 DEF Saved
<1> HIDE DEF row
<1>13. /\ SaveTask(t, row) \in Seq(TaskSaves \cup Quiet)
       /\ DueInv(deps', status', attempts', SaveTask(t, row), rows)
  BY <1>1, <1>4, <1>5, <1>11, <1>12, OneDue
<1>14. state # "RECEIVED"
  <2>1. DOMAIN deps # {}
    BY <1>2, <1>5
  <2>2. QED
    BY <2>1, IdleFacts DEF IInv
<1>15. QED
  BY <1>4, <1>8, <1>10, <1>13, <1>14, SaveStep

LEMMA AttemptStep ==
    ASSUME IInv, Idle, NEW t \in Tasks, NEW c \in Contents, Attempt(t, c)
    PROVE  IInv'
<1> DEFINE row == [deps |-> deps[t], status |-> "RUNNING", attempts |-> attempts[t] + 1]
<1>1. PICK n \in Nat : deps \in [1 .. n -> SUBSET (1 .. n)]
  BY IdleFacts DEF GraphInv
<1>2. /\ status \in [1 .. n -> TaskStatus] /\ attempts \in [1 .. n -> Nat] /\ DOMAIN deps = 1 .. n
      /\ RowInv(deps, status, rows)
      /\ Consistent(deps, status) \/ \A u \in 1 .. n : status[u] = "PENDING"
      /\ \A u \in 1 .. n : u \in DOMAIN rows /\ Saved(rows[u], deps, status, attempts, u)
  BY <1>1, IdleFacts DEF GraphInv
<1>3. /\ t \in 1 .. n /\ status[t] = "RUNNING"
      /\ attempts' = [attempts EXCEPT ![t] = attempts[t] + 1]
      /\ Call("IMPLEMENTATION", RecordOutput(c) \o SaveTask(t, row))
      /\ deps' = deps /\ status' = status
  BY <1>2 DEF Attempt, Running, Tasks
<1>4. /\ attempts' \in [1 .. n -> Nat] /\ attempts'[t] = attempts[t] + 1
      /\ \A u \in 1 .. n : u # t => attempts'[u] = attempts[u]
  BY <1>2, <1>3
<1>5. GraphInv(deps', status', attempts') /\ RowInv(deps', status', rows)
  BY <1>1, <1>2, <1>3, <1>4 DEF GraphInv
<1>6. row \in Row /\ Saved(row, deps, status, attempts', t)
  BY <1>1, <1>2, <1>3, <1>4 DEF Row, Saved, TaskStatus
<1>7. \A u \in 1 .. n : u # t => u \in DOMAIN rows /\ Saved(rows[u], deps, status, attempts', u)
  BY <1>2, <1>4 DEF Saved
<1> DEFINE s == SaveTask(t, row)
           all == RecordOutput(c) \o s
<1> HIDE DEF row
<1>8. s \in Seq(TaskSaves \cup Quiet) /\ DueInv(deps, status, attempts', s, rows)
  BY <1>1, <1>3, <1>6, <1>7, OneDue
<1> HIDE DEF s
<1>9. /\ all \in Seq(Statements)
      /\ \A i \in 1 .. Len(all) : Stays(all[i], "IMPLEMENTATION")
      /\ DueInv(deps, status, attempts', all, rows)
  BY <1>8, OutputThenSaves
<1>10. Call("IMPLEMENTATION", all) /\ DueInv(deps', status', attempts', all, rows)
  BY <1>3, <1>9 DEF s
<1>11. "IMPLEMENTATION" \in ProjectState \ {"RECEIVED"}
  BY DEF ProjectState
<1> HIDE DEF all
<1>12. QED
  BY <1>5, <1>9, <1>10, <1>11, CallStep

LEMMA SettleStep ==
    ASSUME IInv, Idle, NEW t \in Tasks, NEW o \in {"SUCCEEDED", "DEFERRED", "FAILED"},
           Settle(t, o)
    PROVE  IInv'
<1>1. PICK n \in Nat : deps \in [1 .. n -> SUBSET (1 .. n)]
  BY IdleFacts DEF GraphInv
<1>2. /\ status \in [1 .. n -> TaskStatus] /\ attempts \in [1 .. n -> Nat] /\ DOMAIN deps = 1 .. n
      /\ RowInv(deps, status, rows)
  BY <1>1, IdleFacts DEF GraphInv
<1>3. /\ t \in 1 .. n /\ n # 0 /\ status[t] = "RUNNING"
      /\ status' = Mark(deps, status, t, o)
      /\ Save(SaveTasks(deps, status', attempts))
      /\ deps' = deps /\ attempts' = attempts
  BY <1>2 DEF Settle, Running, Tasks
<1>4. Consistent(deps, status) /\ state # "RECEIVED"
  BY <1>3, RunningPlan
<1>5. Consistent(deps, status') /\ status' \in [1 .. n -> TaskStatus]
  BY <1>1, <1>2, <1>3, <1>4, MarkConsistent, MarkType
<1>6. GraphInv(deps', status', attempts')
  BY <1>1, <1>2, <1>3, <1>5 DEF GraphInv
<1>7. ASSUME NEW u \in 1 .. n, status[u] \in Terminal
      PROVE  status'[u] = status[u]
  <2> DEFINE m == [status EXCEPT ![t] = o]
  <2>1. m \in [DOMAIN deps -> TaskStatus] /\ u # t /\ m[u] = status[u]
    BY <1>2, <1>3, <1>7 DEF TaskStatus, Terminal
  <2> HIDE DEF m
  <2>2. Refresh(deps, m)[u] = m[u]
    BY <1>2, <1>7, <2>1, RefreshKeepsEnds
  <2>3. QED
    BY <1>3, <2>1, <2>2 DEF Mark, m
<1>8. RowInv(deps', status', rows)
  BY <1>2, <1>3, <1>7, RowsKept
<1>9. /\ SaveTasks(deps, status', attempts) \in Seq(TaskSaves \cup Quiet)
      /\ DueInv(deps, status', attempts, SaveTasks(deps, status', attempts), rows)
  BY <1>1, <1>2, <1>3, <1>5, AllDue
<1>10. QED
  BY <1>3, <1>4, <1>6, <1>8, <1>9, SaveStep

LEMMA FinishStep ==
    ASSUME IInv, Idle, NEW target \in TerminalStates, Finish(target)
    PROVE  IInv'
<1> DEFINE s == << <<"execution", target>> >>
<1>1. target \in ProjectState \ {"RECEIVED"}
  BY DEF TerminalStates, ProjectState
<1>2. <<"execution", target>> \in Statements
  BY <1>1 DEF Statements
<1>3. s \in Seq(Statements) /\ Len(s) = 1 /\ s[1] = <<"execution", target>>
  BY <1>2
<1>4. \A i \in 1 .. Len(s) : s[i][1] # "task" /\ Stays(s[i], target)
  BY <1>3 DEF Stays
<1>5. Call(target, s) /\ deps' = deps /\ status' = status /\ attempts' = attempts
  BY DEF Finish
<1> HIDE DEF s
<1>6. << >> \in Seq(Statements) /\ s \o << >> = s
  BY <1>3, ConcatEmptySeq
<1>7. /\ GraphInv(deps, status, attempts) /\ RowInv(deps, status, rows)
      /\ DueInv(deps, status, attempts, << >>, rows)
  BY IdleFacts
<1>8. DueInv(deps, status, attempts, s \o << >>, rows)
  BY <1>3, <1>4, <1>6, <1>7, PrefixDue
<1>9. QED
  BY <1>1, <1>3, <1>4, <1>5, <1>6, <1>7, <1>8, CallStep

LEMMA OrchestrateStep ==
    ASSUME IInv, Idle, Orchestrate
    PROVE  IInv'
<1>1. ASSUME state = "RECEIVED", NEW n \in 1 .. MaxTasks, NEW d \in PlanShapes(n),
             NEW c \in Contents, SavePlan(d, c)
      PROVE  IInv'
  BY <1>1, SavePlanStep
<1>2. CASE StartTask
  BY <1>2, StartTaskStep
<1>3. ASSUME NEW c \in Contents, RejectPlan(c)
      PROVE  IInv'
  <2>1. "PLANNING" \in ProjectState \ {"RECEIVED"}
    BY DEF ProjectState
  <2>2. Call("PLANNING", RecordOutput(c)) /\ UNCHANGED <<deps, status, attempts>>
    BY <1>3 DEF RejectPlan
  <2>3. QED
    BY <2>1, <2>2, RecordStep
<1>4. ASSUME NEW t \in Tasks, NEW c \in Contents, Attempt(t, c)
      PROVE  IInv'
  BY <1>4, AttemptStep
<1>5. ASSUME NEW target \in {"VERIFICATION", "REVIEW", "REPAIR"}, NEW c \in Contents,
             Phase(target, c)
      PROVE  IInv'
  <2>1. target \in ProjectState \ {"RECEIVED"}
    BY DEF ProjectState
  <2>2. Call(target, RecordOutput(c)) /\ UNCHANGED <<deps, status, attempts>>
    BY <1>5 DEF Phase
  <2>3. QED
    BY <2>1, <2>2, RecordStep
<1>6. ASSUME NEW target \in {"VERIFICATION", "REVIEW", "REPAIR", "IMPLEMENTATION"},
             NEW c \in Contents, GatePhase(target, c)
      PROVE  IInv'
  <2> DEFINE s == IF target = "REVIEW" THEN <<>> ELSE RecordOutput(c)
  <2>1. target \in ProjectState \ {"RECEIVED"}
    BY DEF ProjectState
  <2>2. Call(target, s) /\ UNCHANGED <<deps, status, attempts>>
    BY <1>6 DEF GatePhase
  <2>3. s = << >> \/ \E e \in Contents : s = RecordOutput(e)
    OBVIOUS
  <2> HIDE DEF s
  <2>4. QED
    BY <2>1, <2>2, <2>3, RecordStep
<1>7. ASSUME NEW t \in Tasks, NEW s \in {"SUCCEEDED", "DEFERRED", "FAILED"}, Settle(t, s)
      PROVE  IInv'
  BY <1>7, SettleStep
<1>8. ASSUME NEW target \in TerminalStates, Finish(target)
      PROVE  IInv'
  BY <1>8, FinishStep
<1>9. QED
  BY <1>1, <1>2, <1>3, <1>4, <1>5, <1>6, <1>7, <1>8 DEF Orchestrate

-----------------------------------------------------------------------------
(* Every statement, kill and restart keeps it *)

LEMMA CommitStep ==
    ASSUME IInv, Commit
    PROVE  IInv'
<1> DEFINE s == todo[1]
<1>1. /\ pc = "running" /\ todo # << >> /\ todo \in Seq(Statements)
      /\ Audited(state, execRow, audit, todo)
      /\ SavedInv(deps, status, attempts, todo, rows)
      /\ state = "RECEIVED" => DOMAIN deps = {}
      /\ state \in ProjectState /\ execRow \in ProjectState
      /\ audit \in ProjectState \X ProjectState
      /\ files \in [Contents -> {"absent", "partial", "complete"}]
      /\ executions \in Nat
  BY DEF Commit, IInv, StoreTypeOK
<1>2. Tail(todo) \in Seq(Statements) /\ Head(todo) = s /\ s \in Statements
  BY <1>1, TailFacts
<1>3. /\ todo' = Tail(todo)
      /\ execRow' = (IF s[1] = "execution" THEN s[2] ELSE execRow)
      /\ audit' = (IF s[1] = "audit" THEN <<s[2], s[3]>> ELSE audit)
      /\ rows' = (IF s[1] = "task" THEN Upserted(s[2], s[3]) ELSE rows)
      /\ files' = CASE s[1] = "open" -> [files EXCEPT ![s[2]] = "partial"]
                    [] s[1] = "write" -> [files EXCEPT ![s[2]] = "complete"]
                    [] OTHER -> files
      /\ pc' = pc /\ executions' = executions /\ lost' = lost
      /\ state' = state /\ deps' = deps /\ status' = status /\ attempts' = attempts
  BY <1>2 DEF Commit, memory
<1> HIDE DEF s
<1>4. Audited(state', execRow', audit', todo')
  BY <1>1, <1>3, AuditedAdvances DEF s
<1>5. SavedInv(deps', status', attempts', todo', rows')
  <2>1. CASE s[1] = "task"
    <3>1. rows' = [u \in DOMAIN rows \cup {s[2]} |-> IF u = s[2] THEN s[3] ELSE rows[u]]
      BY <1>3, <2>1 DEF Upserted
    <3>2. SavedInv(deps, status, attempts, Tail(todo), rows')
      BY <1>1, <2>1, <3>1, DropTask DEF s
    <3>3. QED
      BY <1>3, <3>2
  <2>2. CASE s[1] # "task"
    <3>1. DueInv(deps, status, attempts, Tail(todo), rows)
      BY <1>1, <2>2, DropOther DEF s, SavedInv
    <3>2. rows' = rows
      BY <1>3, <2>2
    <3>3. QED
      BY <1>1, <1>3, <3>1, <3>2 DEF SavedInv
  <2>3. QED
    BY <2>1, <2>2
<1>6. execRow' \in ProjectState
  <2>1. s[1] = "execution" => s[2] \in ProjectState
    BY <1>2 DEF Statements, TaskSaves, Quiet
  <2>2. QED
    BY <1>1, <1>3, <2>1
<1>7. audit' \in ProjectState \X ProjectState
  <2>1. s[1] = "audit" => s[2] \in ProjectState /\ s[3] \in ProjectState
    BY <1>2 DEF Statements, TaskSaves, Quiet
  <2>2. QED
    BY <1>1, <1>3, <2>1
<1>8. files' \in [Contents -> {"absent", "partial", "complete"}]
  BY <1>1, <1>3
<1>9. StoreTypeOK'
  BY <1>1, <1>2, <1>3, <1>6, <1>7, <1>8 DEF StoreTypeOK
<1>10. AuditExplainsState'
  BY <1>4, NoWayOut DEF Audited, AuditExplainsState
<1>11. ResumeExact' /\ ResumedConsistent'
  BY <1>1, <1>3 DEF ResumeExact, ResumedConsistent
<1>12. QED
  BY <1>1, <1>3, <1>4, <1>5, <1>9, <1>10, <1>11 DEF IInv

LEMMA KillStep ==
    ASSUME IInv, Kill
    PROVE  IInv'
<1>1. /\ pc = "running" /\ pc' = "dead" /\ todo' = << >> /\ state' = "RECEIVED"
      /\ lost'.deps = deps /\ lost'.status = status /\ lost'.attempts = attempts
      /\ lost'.todo = todo
      /\ executions' = executions
      /\ execRow' = execRow /\ audit' = audit /\ rows' = rows /\ files' = files
  BY DEF Kill, disk
<1>2. todo \in Seq(Statements) /\ SavedInv(deps, status, attempts, todo, rows)
  BY <1>1 DEF IInv, StoreTypeOK
<1>3. StoreTypeOK'
  <2>1. << >> \in Seq(Statements) /\ "RECEIVED" \in ProjectState
    BY DEF ProjectState
  <2>2. QED
    BY <1>1, <2>1 DEF IInv, StoreTypeOK
<1>4. AuditExplainsState'
  BY <1>1 DEF IInv, AuditExplainsState
<1>5. ResumeExact' /\ ResumedConsistent'
  BY <1>1 DEF ResumeExact, ResumedConsistent
<1>6. QED
  BY <1>1, <1>2, <1>3, <1>4, <1>5 DEF IInv

\* What resume_graph loads, when every row it finds is of a task of the plan
\* and every task has its row.
LEMMA LoadedRows ==
    ASSUME NEW d, NEW st, NEW at, NEW td, NEW rw, SavedInv(d, st, at, td, rw),
           DOMAIN rw = DOMAIN d
    PROVE  /\ [t \in DOMAIN rw |-> rw[t].deps] = d
           /\ [t \in DOMAIN rw |-> rw[t].status] \in [DOMAIN d -> TaskStatus]
           /\ \A t \in DOMAIN d : d[t] \subseteq DOMAIN d
           /\ td = << >> =>
                 /\ [t \in DOMAIN rw |-> rw[t].attempts] = at
                 /\ Refresh(d, [t \in DOMAIN rw |-> rw[t].status]) = Refresh(d, st)
           /\ Backward(d) => Consistent(d, Refresh(d, [t \in DOMAIN rw |-> rw[t].status]))
<1> DEFINE saved == [t \in DOMAIN rw |-> rw[t].status]
<1>1. PICK n \in Nat : d \in [1 .. n -> SUBSET (1 .. n)]
  BY DEF SavedInv, GraphInv
<1>2. /\ st \in [DOMAIN d -> TaskStatus] /\ at \in [DOMAIN d -> Nat]
      /\ Consistent(d, st) \/ \A t \in DOMAIN d : st[t] = "PENDING"
  BY DEF SavedInv, GraphInv
<1>3. \A t \in DOMAIN d : d[t] \subseteq DOMAIN d
  BY <1>1
<1>4. \A t \in DOMAIN d : rw[t] \in Row /\ rw[t].deps = d[t]
  BY DEF SavedInv, RowInv
<1>5. [t \in DOMAIN rw |-> rw[t].deps] = d
  BY <1>1, <1>4
<1>6. saved \in [DOMAIN d -> TaskStatus] /\ \A t \in DOMAIN d : saved[t] = rw[t].status
  BY <1>4 DEF Row
<1> HIDE DEF saved
<1>7. ASSUME td = << >>
      PROVE  /\ [t \in DOMAIN rw |-> rw[t].attempts] = at
             /\ Refresh(d, saved) = Refresh(d, st)
  <2>1. Due(td) = {}
    BY <1>7 DEF Due
  <2>2. \A t \in DOMAIN d : Saved(rw[t], d, st, at, t)
    BY <2>1 DEF SavedInv, DueInv
  <2>3. [t \in DOMAIN rw |-> rw[t].attempts] = at
    BY <1>2, <2>2 DEF Saved
  <2>4. \A t \in DOMAIN d : saved[t] = st[t] \/ (saved[t] = "PENDING" /\ st[t] = "READY")
    BY <1>6, <2>2 DEF Saved
  <2>5. Refresh(d, saved) = Refresh(d, st)
    BY <1>2, <1>3, <1>6, <2>4, SavedIsRefreshed
  <2>6. QED
    BY <2>3, <2>5
<1>8. ASSUME Backward(d)
      PROVE  Consistent(d, Refresh(d, saved))
  <2>1. \A t \in DOMAIN d : Agrees(rw, t)
    BY <1>8 DEF SavedInv, RowInv
  <2>2. \A t \in DOMAIN d : saved[t] \notin {"PENDING", "BLOCKED"}
                               => DependenciesSatisfied(d, saved, t)
    BY <1>3, <1>4, <1>6, <2>1 DEF Agrees, DependenciesSatisfied
  <2>3. \A t \in DOMAIN d : saved[t] = "BLOCKED" => HasFailedDependency(d, saved, t)
    BY <1>3, <1>4, <1>6, <2>1 DEF Agrees, HasFailedDependency
  <2>4. QED
    BY <1>3, <1>6, <2>2, <2>3, RefreshConsistent
<1>9. QED
  BY <1>3, <1>5, <1>6, <1>7, <1>8 DEF saved

LEMMA ResumeStep ==
    ASSUME IInv, Resume
    PROVE  IInv'
<1>1. /\ pc = "dead"
      /\ executions' = executions /\ state' = state /\ todo' = todo /\ lost' = lost
      /\ execRow' = execRow /\ audit' = audit /\ rows' = rows /\ files' = files
  BY DEF Resume, disk
<1>2. pc' \in {"resumed", "resumedNone", "resumeRaised"}
  BY DEF Resume
<1>3. SavedInv(lost.deps, lost.status, lost.attempts, lost.todo, rows)
  BY <1>1 DEF IInv
<1>4. pc' = "resumed" =>
         /\ deps' = [t \in DOMAIN rows |-> rows[t].deps]
         /\ status' = Refresh(deps', [t \in DOMAIN rows |-> rows[t].status])
         /\ attempts' = [t \in DOMAIN rows |-> rows[t].attempts]
  BY DEF Resume, Resumed
<1>5. StoreTypeOK'
  BY <1>1, <1>2 DEF IInv, StoreTypeOK
<1>6. AuditExplainsState'
  BY <1>1 DEF IInv, AuditExplainsState
<1>7. ResumeExact'
  <2> SUFFICES ASSUME pc' = "resumed", lost.todo = << >>
               PROVE  /\ deps' = lost.deps /\ attempts' = lost.attempts
                      /\ status' = Refresh(lost.deps, lost.status)
    BY <1>1 DEF ResumeExact
  <2>1. Due(lost.todo) = {}
    BY DEF Due
  <2>2. DOMAIN rows = DOMAIN lost.deps
    BY <1>3, <2>1 DEF SavedInv, DueInv, RowInv
  <2>3. /\ [t \in DOMAIN rows |-> rows[t].deps] = lost.deps
        /\ [t \in DOMAIN rows |-> rows[t].attempts] = lost.attempts
        /\ Refresh(lost.deps, [t \in DOMAIN rows |-> rows[t].status])
              = Refresh(lost.deps, lost.status)
    <3> DEFINE d == lost.deps
               st == lost.status
               at == lost.attempts
               td == lost.todo
    <3>1. SavedInv(d, st, at, td, rows) /\ DOMAIN rows = DOMAIN d /\ td = << >>
      BY <1>3, <2>2
    <3> HIDE DEF d, st, at, td
    <3>2. /\ [t \in DOMAIN rows |-> rows[t].deps] = d
          /\ [t \in DOMAIN rows |-> rows[t].attempts] = at
          /\ Refresh(d, [t \in DOMAIN rows |-> rows[t].status]) = Refresh(d, st)
      BY <3>1, LoadedRows
    <3>3. QED
      BY <3>2 DEF d, st, at
  <2>4. deps' = lost.deps /\ attempts' = lost.attempts
    BY <1>4, <2>3
  <2>5. status' = Refresh(lost.deps, [t \in DOMAIN rows |-> rows[t].status])
    BY <1>4, <2>4
  <2>6. QED
    BY <2>3, <2>4, <2>5
<1>8. ResumedConsistent'
  <2> SUFFICES ASSUME pc' = "resumed", DOMAIN rows = DOMAIN lost.deps, Backward(lost.deps)
               PROVE  Consistent(deps', status')
    BY <1>1 DEF ResumedConsistent, PlanSaved
  <2>1. /\ [t \in DOMAIN rows |-> rows[t].deps] = lost.deps
        /\ Consistent(lost.deps, Refresh(lost.deps, [t \in DOMAIN rows |-> rows[t].status]))
    BY <1>3, LoadedRows
  <2>2. deps' = lost.deps
    BY <1>4, <2>1
  <2>3. status' = Refresh(lost.deps, [t \in DOMAIN rows |-> rows[t].status])
    BY <1>4, <2>2
  <2>4. QED
    BY <2>1, <2>2, <2>3
<1>9. QED
  BY <1>1, <1>2, <1>3, <1>5, <1>6, <1>7, <1>8 DEF IInv

\* An execution that has just been created.
LEMMA Fresh ==
    ASSUME NEW d, d = << >>, NEW st, st = << >>, NEW at, at = << >>, NEW rw, rw = << >>,
           NEW td, td = << >>
    PROVE  SavedInv(d, st, at, td, rw) /\ DOMAIN d = {}
<1>1. DOMAIN d = {} /\ DOMAIN rw = {} /\ DOMAIN st = {} /\ DOMAIN at = {} /\ DOMAIN td = {}
  OBVIOUS
<1>2. d \in [1 .. 0 -> SUBSET (1 .. 0)]
  OBVIOUS
<1>3. st \in [DOMAIN d -> TaskStatus] /\ at \in [DOMAIN d -> Nat]
  OBVIOUS
<1>4. GraphInv(d, st, at)
  BY <1>1, <1>2, <1>3 DEF GraphInv
<1>5. DueInv(d, st, at, td, rw) /\ RowInv(d, st, rw)
  BY <1>1 DEF DueInv, InOrder, RowInv
<1>6. QED
  BY <1>1, <1>4, <1>5 DEF SavedInv

LEMMA FreshAudit ==
    ASSUME NEW td, td = << >>
    PROVE  /\ Audited("RECEIVED", "RECEIVED", NoAudit, td)
           /\ "RECEIVED" \in ProjectState /\ NoAudit \in ProjectState \X ProjectState
           /\ td \in Seq(Statements)
BY DEF Audited, NoAudit, ProjectState

LEMMA NewExecutionStep ==
    ASSUME IInv, NewExecution
    PROVE  IInv'
<1>1. todo = << >> /\ executions \in Nat
      /\ files \in [Contents -> {"absent", "partial", "complete"}]
  BY DEF NewExecution, IInv, StoreTypeOK
<1>2. /\ pc' = "running" /\ executions' = executions + 1 /\ state' = "RECEIVED"
      /\ deps' = << >> /\ status' = << >> /\ attempts' = << >> /\ rows' = << >>
      /\ execRow' = "RECEIVED" /\ audit' = NoAudit /\ todo' = << >> /\ files' = files
  BY <1>1 DEF NewExecution
<1>3. SavedInv(deps', status', attempts', todo', rows') /\ DOMAIN deps' = {}
  BY <1>2, Fresh
<1>4. /\ Audited(state', execRow', audit', todo')
      /\ state' \in ProjectState /\ execRow' \in ProjectState
      /\ audit' \in ProjectState \X ProjectState /\ todo' \in Seq(Statements)
  BY <1>2, FreshAudit
<1>5. StoreTypeOK'
  BY <1>1, <1>2, <1>4 DEF StoreTypeOK
<1>6. AuditExplainsState' /\ ResumeExact' /\ ResumedConsistent'
  BY <1>2 DEF AuditExplainsState, ResumeExact, ResumedConsistent, NoAudit
<1>7. QED
  BY <1>2, <1>3, <1>4, <1>5, <1>6 DEF IInv

LEMMA InitIInv == Init => IInv
<1> SUFFICES ASSUME Init PROVE IInv
  OBVIOUS
<1>1. /\ pc = "running" /\ executions = 1 /\ state = "RECEIVED"
      /\ deps = << >> /\ status = << >> /\ attempts = << >> /\ rows = << >>
      /\ execRow = "RECEIVED" /\ audit = NoAudit /\ todo = << >>
      /\ files \in [Contents -> {"absent", "partial", "complete"}]
  BY DEF Init
<1>2. SavedInv(deps, status, attempts, todo, rows) /\ DOMAIN deps = {}
  BY <1>1, Fresh
<1>3. /\ Audited(state, execRow, audit, todo)
      /\ state \in ProjectState /\ execRow \in ProjectState
      /\ audit \in ProjectState \X ProjectState /\ todo \in Seq(Statements)
  BY <1>1, FreshAudit
<1>4. StoreTypeOK
  BY <1>1, <1>3 DEF StoreTypeOK
<1>5. AuditExplainsState /\ ResumeExact /\ ResumedConsistent
  BY <1>1 DEF AuditExplainsState, ResumeExact, ResumedConsistent, NoAudit
<1>6. QED
  BY <1>1, <1>2, <1>3, <1>4, <1>5 DEF IInv

LEMMA NextIInv == IInv /\ [Next]_vars => IInv'
<1> SUFFICES ASSUME IInv, [Next]_vars PROVE IInv'
  OBVIOUS
<1>1. CASE Idle /\ Orchestrate
  BY <1>1, OrchestrateStep
<1>2. CASE Commit
  BY <1>2, CommitStep
<1>3. CASE Kill
  BY <1>3, KillStep
<1>4. CASE Resume
  BY <1>4, ResumeStep
<1>5. CASE NewExecution
  BY <1>5, NewExecutionStep
<1>6. CASE UNCHANGED vars
  <2>1. /\ pc' = pc /\ executions' = executions /\ state' = state
        /\ deps' = deps /\ status' = status /\ attempts' = attempts /\ todo' = todo
        /\ execRow' = execRow /\ audit' = audit /\ rows' = rows /\ files' = files
        /\ lost' = lost
    BY <1>6 DEF vars
  <2>2. StoreTypeOK' /\ AuditExplainsState'
    BY <2>1 DEF IInv, StoreTypeOK, AuditExplainsState
  <2>3. ResumeExact' /\ ResumedConsistent'
    BY <2>1 DEF IInv, ResumeExact, ResumedConsistent, PlanSaved
  <2>4. QED
    BY <2>1, <2>2, <2>3 DEF IInv
<1>7. QED
  BY <1>1, <1>2, <1>3, <1>4, <1>5, <1>6 DEF Next

-----------------------------------------------------------------------------
(* The theorems *)

LEMMA StoreInvariant == Spec => []IInv
<1>1. QED
  BY InitIInv, NextIInv, PTL DEF Spec

\* A kill between two calls of the store loses nothing: resume_graph rebuilds
\* the graph the dead process had, with its attempts, and refresh() promotes and
\* blocks what it would have promoted and blocked.
THEOREM KillBetweenCallsLosesNothing == Spec => []ResumeExact
<1>1. IInv => ResumeExact
  BY DEF IInv
<1>2. QED
  BY <1>1, StoreInvariant, PTL

\* A kill inside save_task or save_tasks leaves rows of two ages; once every
\* task of the plan has a row, and where dependencies point to tasks saved
\* earlier, the graph resume_graph rebuilds still agrees with itself.
THEOREM KillInsideSaveIsRepaired == Spec => []ResumedConsistent
<1>1. IInv => ResumedConsistent
  BY DEF IInv
<1>2. QED
  BY <1>1, StoreInvariant, PTL

\* record_transition writes the executions row before the audit row, each in a
\* statement that commits by itself: the row is never behind the trail, and at
\* most one legal transition ahead of it.
THEOREM TrailExplainsState == Spec => []AuditExplainsState
<1>1. IInv => AuditExplainsState
  BY DEF IInv
<1>2. QED
  BY <1>1, StoreInvariant, PTL

\* Every value the store writes is one its readers accept.
THEOREM StoreTypesAreKept == Spec => []StoreTypeOK
<1>1. IInv => StoreTypeOK
  BY DEF IInv
<1>2. QED
  BY <1>1, StoreInvariant, PTL
=============================================================================
