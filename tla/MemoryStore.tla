----------------------------- MODULE MemoryStore ------------------------------
(***************************************************************************)
(* The durable memory of memory/store.py with its validation, retrieval    *)
(* and consolidation, as several processes use it: `edith memory` in one   *)
(* shell while a run retrieves in another.                                 *)
(*                                                                         *)
(* A row has its standing twice: in the columns, which visible_to filters  *)
(* on, and in the payload, which every reader decodes.  The connection     *)
(* commits each statement by itself, so an operation is the list of        *)
(* statements it still has to make; between two of them other processes    *)
(* move, and a kill or an error drops the rest.  Titles, texts, counters   *)
(* and scores are left out.                                                *)
(***************************************************************************)
EXTENDS Naturals, Sequences, SequencesExt, FiniteSets

CONSTANTS Procs,         \* processes with a connection
          Projects,      \* project ids
          Global,        \* the scope of records without a project
          MaxRecords,    \* how many memories are ever proposed
          MaxSelected,   \* max_memories of a retrieval
          MaxOps,        \* how many operations are begun in all
          None           \* no row, no id

ASSUME MemoryBounds ==
  MaxRecords \in Nat \ {0} /\ MaxSelected \in Nat \ {0} /\ MaxOps \in Nat \ {0}

Ids == 1..MaxRecords

Owners == Projects \cup {Global}

VARIABLES rows,         \* the memories table
          fresh,        \* number of ids given out
          begun,        \* number of operations begun
          todo,         \* per process: the statements its operation still makes
          interrupted,  \* records a dropped statement was to retire (history)
          raced         \* records written over a standing that was not the one
                        \* read, or retired in favour of a retired record (history)

msVars == <<rows, fresh, begun, todo, interrupted, raced>>

-------------------------------------------------------------------------------
(* Records and proposals *)

MemoryStatus == {"ACTIVE", "SUPERSEDED", "ARCHIVED", "REJECTED"}

Standing == [status : MemoryStatus, by : Ids \cup {None}]

Active == [status |-> "ACTIVE", by |-> None]

\* A PROJECT-scoped record names its project and a GLOBAL one does not: the
\* owner is one or the other.
Record == [owner : Owners, supersedes : Ids \cup {None}, standing : Standing]

\* An absent row or id is neither.
ASSUME NoneAssumption == None \notin Ids \cup Record

Proposal == [owner : Owners, supersedes : Ids \cup {None},
             sound : BOOLEAN, trusted : BOOLEAN]

\* validate(): sound stands for a source reference, enough content, no
\* credential, no protected location, and no speculation by an untrusted source.
Validate(q) ==
  IF ~q.sound THEN "rejected" ELSE IF q.trusted THEN "accepted" ELSE "requires_approval"

ToRecord(q, approved) ==
  [owner |-> q.owner, supersedes |-> q.supersedes,
   standing |-> [Active EXCEPT !.status = IF q.trusted \/ approved THEN "ACTIVE" ELSE "REJECTED"]]

-------------------------------------------------------------------------------
(* The table *)

Stored == {id \in Ids : rows[id] # None}

\* _decode: a record is what the payload says.
Get(id) == [owner |-> rows[id].owner, supersedes |-> rows[id].supersedes,
            standing |-> rows[id].payload]

\* The isolation boundary: the SQL predicate of visible_to.
VisibleTo(project, include_global) ==
  {id \in Stored :
     /\ rows[id].column.status = "ACTIVE"
     /\ \/ rows[id].owner = project
        \/ rows[id].owner = Global /\ include_global}

\* The statements of an operation.
SaveStmt(id, record, read) == [kind |-> "save", id |-> id, record |-> record, read |-> read]
MarkStmt(old, new) == [kind |-> "mark", id |-> old, new |-> new]
UpdateStmt(old, new) == [kind |-> "update", id |-> old, new |-> new]
AccessStmt(id) == [kind |-> "access", id |-> id, record |-> Get(id)]

MayBegin(p) == todo[p] = << >> /\ begun < MaxOps

Begin(p, statements) ==
  /\ begun' = begun + 1
  /\ todo' = [todo EXCEPT ![p] = statements]
  /\ UNCHANGED <<rows, interrupted, raced>>

MSInit ==
  /\ rows = [id \in Ids |-> None]
  /\ fresh = 0 /\ begun = 0
  /\ todo = [p \in Procs |-> << >>]
  /\ interrupted = {} /\ raced = {}

-------------------------------------------------------------------------------
(* Operations *)

\* propose(): a refusal stores nothing.
Propose(p) ==
  /\ MayBegin(p) /\ fresh < MaxRecords
  /\ \E q \in Proposal, approved \in BOOLEAN :
       /\ Validate(q) = "accepted" \/ (Validate(q) = "requires_approval" /\ approved)
       /\ q.supersedes \in Stored \cup {None}  \* an id somebody has been shown
       /\ fresh' = fresh + 1
       /\ Begin(p, <<SaveStmt(fresh + 1, ToRecord(q, approved), None)>>)

\* archive() and bump_recurrence(): get, change the record, save it.
Archive(p) ==
  /\ MayBegin(p)
  /\ \E id \in Stored :
       Begin(p, <<SaveStmt(id, [Get(id) EXCEPT !.standing.status = "ARCHIVED"], Get(id))>>)
  /\ UNCHANGED fresh

BumpRecurrence(p) ==
  /\ MayBegin(p)
  /\ \E id \in Stored : Begin(p, <<SaveStmt(id, Get(id), Get(id))>>)
  /\ UNCHANGED fresh

\* What the ranker and the thresholds may leave of the candidates: a query's
\* words can make any of them relevant.
Selections(candidates) == {s \in SUBSET candidates : Cardinality(s) <= MaxSelected}

\* retrieve(): ranks and cuts what the project may see, and writes back every
\* record it selected.
Retrieve(p) ==
  /\ MayBegin(p)
  /\ \E project \in Owners, include_global \in BOOLEAN :
       \E selected \in Selections(VisibleTo(project, include_global)) :
         LET order == SetToSeq(selected)
         IN Begin(p, [i \in DOMAIN order |-> AccessStmt(order[i])])
  /\ UNCHANGED fresh

\* Mutant: the primary is left among the duplicates.
WholeGroup(group, primary) == SetToSeq(group)

\* The records of a group that its primary stands for.
Duplicates(group, primary) == SetToSeq(group \ {primary})

Retired(id, primary) ==
  SaveStmt(id, [Get(id) EXCEPT !.standing = [status |-> "SUPERSEDED", by |-> primary]], Get(id))

\* consolidate_group(): the primary is saved, and then the others as
\* superseded by it.
ConsolidateGroup(group, primary) ==
  LET rest == Duplicates(group, primary)
  IN <<SaveStmt(primary, Get(primary), Get(primary))>> \o
     [i \in DOMAIN rest |-> Retired(rest[i], primary)]

\* consolidate_project(): the near-duplicates among what is active form disjoint
\* groups, and all of them are read before the first one is written.
DuplicateGroups(records) ==
  {groups \in SUBSET {g \in SUBSET records : Cardinality(g) > 1} :
     \A g, h \in groups : g # h => g \cap h = {}}

Consolidate(p) ==
  /\ MayBegin(p)
  /\ \E project \in Owners :
       \E groups \in DuplicateGroups(VisibleTo(project, FALSE)) \ {{}} :
         \E primary \in [groups -> Ids] :
           /\ \A g \in groups : primary[g] \in g
           /\ LET order == SetToSeq(groups)
              IN Begin(p, FlattenSeq([i \in DOMAIN order |->
                                        ConsolidateGroup(order[i], primary[order[i]])]))
  /\ UNCHANGED fresh

\* delete() and purge_project() are one statement.
Delete(p) ==
  /\ MayBegin(p)
  /\ \E id \in Stored : rows' = [rows EXCEPT ![id] = None]
  /\ begun' = begun + 1
  /\ UNCHANGED <<fresh, todo, interrupted, raced>>

PurgeProject(p) ==
  /\ MayBegin(p)
  /\ \E project \in Projects :
       /\ \E id \in Stored : rows[id].owner = project
       /\ rows' = [id \in Ids |-> IF rows[id] # None /\ rows[id].owner = project
                                  THEN None ELSE rows[id]]
  /\ begun' = begun + 1
  /\ UNCHANGED <<fresh, todo, interrupted, raced>>

-------------------------------------------------------------------------------
(* Statements *)

Row(record) == [owner |-> record.owner, supersedes |-> record.supersedes,
                column |-> record.standing, payload |-> record.standing]

Stands(id) == rows[id] # None /\ rows[id].column.status = "ACTIVE"

\* The upsert of save(); a record that replaces another and is active goes on
\* to retire it.
Save(p) ==
  /\ todo[p] # << >> /\ Head(todo[p]).kind = "save"
  /\ LET s == Head(todo[p])
         lost == \/ s.read # None /\ (rows[s.id] = None \/ rows[s.id].column # s.read.standing)
                 \/ s.record.standing.by # None /\ ~Stands(s.record.standing.by)
         marks == s.record.supersedes # None /\ s.record.standing.status = "ACTIVE"
     IN /\ rows' = [rows EXCEPT ![s.id] = Row(s.record)]
        /\ raced' = IF lost THEN raced \cup {s.id} ELSE raced
        /\ todo' = [todo EXCEPT ![p] =
                      (IF marks THEN <<MarkStmt(s.record.supersedes, s.id)>> ELSE << >>) \o Tail(@)]
  /\ UNCHANGED <<fresh, begun, interrupted>>

\* _mark_superseded reads the old record and then updates it.
MarkSuperseded(p) ==
  /\ todo[p] # << >> /\ Head(todo[p]).kind = "mark"
  /\ LET s == Head(todo[p])
     IN todo' = [todo EXCEPT ![p] =
                   (IF rows[s.id] = None THEN << >> ELSE <<UpdateStmt(s.id, s.new)>>)
                     \o Tail(@)]
  /\ UNCHANGED <<rows, fresh, begun, interrupted, raced>>

SupersededBy(new) == [status |-> "SUPERSEDED", by |-> new]

\* Mutant: the columns keep the standing the old record had.
RetirePayload(row, new) == [row EXCEPT !.payload = SupersededBy(new)]

Retire(row, new) == [row EXCEPT !.column = SupersededBy(new), !.payload = SupersededBy(new)]

UpdateOld(p) ==
  /\ todo[p] # << >> /\ Head(todo[p]).kind = "update"
  /\ LET s == Head(todo[p])
     IN /\ rows' = IF rows[s.id] = None THEN rows
                   ELSE [rows EXCEPT ![s.id] = Retire(@, s.new)]
        /\ raced' = IF Stands(s.new) THEN raced ELSE raced \cup {s.id}
        /\ interrupted' = interrupted \ {s.id}
        /\ todo' = [todo EXCEPT ![p] = Tail(@)]
  /\ UNCHANGED <<fresh, begun>>

\* record_access writes the whole payload back, and leaves the status column.
RecordAccess(p) ==
  /\ todo[p] # << >> /\ Head(todo[p]).kind = "access"
  /\ LET s == Head(todo[p])
     IN /\ rows' = IF rows[s.id] = None THEN rows
                   ELSE [rows EXCEPT ![s.id].payload = s.record.standing]
        /\ todo' = [todo EXCEPT ![p] = Tail(@)]
  /\ UNCHANGED <<fresh, begun, interrupted, raced>>

\* The process is killed, or a statement raises: the rest is never made.
Drop(p) ==
  /\ todo[p] # << >>
  /\ LET s == Head(todo[p])
     IN interrupted' = IF s.kind \in {"mark", "update"} THEN interrupted \cup {s.id} ELSE interrupted
  /\ todo' = [todo EXCEPT ![p] = << >>]
  /\ UNCHANGED <<rows, fresh, begun, raced>>

MSNext ==
  \E p \in Procs :
    \/ Propose(p) \/ Archive(p) \/ BumpRecurrence(p) \/ Retrieve(p) \/ Consolidate(p)
    \/ Delete(p) \/ PurgeProject(p)
    \/ Save(p) \/ MarkSuperseded(p) \/ UpdateOld(p) \/ RecordAccess(p)
    \/ Drop(p)

MSSpec == MSInit /\ [][MSNext]_msVars

-------------------------------------------------------------------------------
(* Properties *)

\* What an operation may still have to do.
Statements ==
  [kind : {"save"}, id : Ids, record : Record, read : Record \cup {None}]
  \cup [kind : {"mark", "update"}, id : Ids, new : Ids]
  \cup [kind : {"access"}, id : Ids, record : Record]

TypeOK ==
  /\ rows \in [Ids -> {None} \cup [owner : Owners, supersedes : Ids \cup {None},
                                   column : Standing, payload : Standing]]
  /\ fresh \in 0..MaxRecords /\ begun \in 0..MaxOps
  /\ todo \in [Procs -> Seq(Statements)]
  /\ interrupted \subseteq Ids /\ raced \subseteq Ids

Pending(old, new) ==
  \E p \in Procs : \E i \in DOMAIN todo[p] :
    /\ todo[p][i].kind \in {"mark", "update"}
    /\ todo[p][i].id = old /\ todo[p][i].new = new

\* A memory and the one it replaced are not both offered to agents: whatever
\* retrievals write back meanwhile, the old one is out of visible_to once the
\* new one has been saved, unless the retirement is under way, was cut off
\* between the two commits, or a save wrote over it from a stale read
\* (MemoryStore.save, record_access).
ReplacedIsNotOffered ==
  \A new \in Stored :
    LET old == rows[new].supersedes
    IN /\ old # None /\ rows[new].column.status = "ACTIVE"
       /\ old \in Stored /\ rows[old].column.status = "ACTIVE"
       => Pending(old, new) \/ old \in interrupted \cup raced

\* A superseded memory leads to one that still stands, or to one that was
\* deleted: no set of superseded memories leads only back into itself, so
\* supersession, also by consolidation, never retires every member of a chain,
\* as long as no statement acted on a standing already changed
\* (MemoryStore.current_belief, consolidate_group).
BeliefSurvives ==
  \A chain \in (SUBSET (Stored \ raced)) \ {{}} :
    (\A id \in chain : rows[id].column.status = "SUPERSEDED")
      => \E id \in chain : rows[id].column.by \notin chain
===============================================================================
