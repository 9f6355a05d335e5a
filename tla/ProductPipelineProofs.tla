------------------------- MODULE ProductPipelineProofs ------------------------
(***************************************************************************)
(* The artifact store, proved for any number of processes, any drafts and  *)
(* sketches, and any number of calls, rows and kills.                      *)
(***************************************************************************)
EXTENDS ProductPipeline, FiniteSetTheorems, WellFoundedInduction, TLAPS

-----------------------------------------------------------------------------
(* The inductive invariant *)

Kind == {"PRD", "UX_SPEC", "SYSTEM_ARCHITECTURE", "IMPLEMENTATION_PLAN"}

\* A row's body and a job's plans are documents of any shape.
IsRow(row) ==
    row \in [artifact : Nat, version : Nat, kind : Kind,
             status : {"DRAFT", "APPROVED", "SUPERSEDED"},
             validation : {"VALID", "INVALID", "UNVALIDATED"}, body : {row.body},
             prd : Nat, base : Nat, superseded_by : Nat,
             gated : BOOLEAN, complete : {row.complete}, own : Nat]

IsJob(j) == j \in [own : Nat, prd : Nat, base : Nat, plans : {j.plans}, retire : SUBSET Nat]

\* The place of a row among its kind.
Places == created \in [1..Len(rows) -> 1..Len(rows)]

TypeInv ==
    /\ \E S : rows \in Seq(S)
    /\ Places
    /\ \A i \in 1..Len(rows) : IsRow(rows[i])
    /\ DOMAIN todo = Clients /\ DOMAIN at = Clients /\ DOMAIN job = Clients
    /\ \A c \in Clients : IsJob(job[c])

Calls == {<<"prd">>, <<"prd", "ux", "arch">>, <<"ux">>, <<"arch">>, <<"revise">>, <<"approve">>}

\* Where a call can be.
ControlOf(c) ==
    /\ todo[c] \in Calls \cup {<<>>, <<"ux", "arch">>}
    /\ Stage(c) \in {"idle", "prd", "revise"} => at[c] = "start"
    /\ Stage(c) = "ux" => at[c] \in {"start", "read"}
    /\ Stage(c) = "arch" => at[c] \in {"start", "read", "generate", "plan"}
    /\ Stage(c) = "approve" => at[c] \in {"start", "scan", "retire"}

ControlInv == \A c \in Clients : ControlOf(c)

\* The UX specification b is none created before one that call `own' wrote.
AfterOwnUx(own, b) ==
    /\ b \in OfKind("UX_SPEC")
    /\ \E u \in OfKind("UX_SPEC") : rows[u].own = own /\ created[u] <= created[b]

\* What a row was derived from, and how its outcome came about.
RowInv(i) ==
    /\ rows[i].own \in 0..i
    /\ rows[i].status = "APPROVED" => rows[i].validation = "VALID"
    /\ rows[i].kind = "PRD" => rows[i].body \in PRDs /\ ~rows[i].gated
    /\ rows[i].kind # "PRD" =>
          /\ rows[i].prd \in 1..(i - 1) /\ rows[rows[i].prd].kind = "PRD"
          /\ rows[rows[i].prd].validation # "INVALID"
    /\ rows[i].kind = "IMPLEMENTATION_PLAN" =>
          /\ ~rows[i].gated
          /\ rows[i].base \in 1..(i - 1) /\ rows[rows[i].base].kind = "SYSTEM_ARCHITECTURE"
          /\ rows[rows[i].base].prd = rows[i].prd
    /\ rows[i].gated =>
          rows[i].validation = GatedValidation(rows[i].kind, rows[i].body,
                                               rows[rows[i].prd].body, rows[i].complete)
    /\ rows[i].kind # "PRD" /\ rows[i].own # 0 =>
          rows[rows[i].own].kind = "PRD" /\ created[rows[i].own] <= created[rows[i].prd]
    /\ rows[i].kind = "SYSTEM_ARCHITECTURE" /\ rows[i].own # 0 =>
          AfterOwnUx(rows[i].own, rows[i].base)

\* What a call holds in memory is still what the table says, and none of it was
\* created before what the call itself wrote.
JobInv(c) ==
    /\ Stage(c) \in {"ux", "arch"} /\ at[c] # "start" =>
          /\ job[c].prd \in OfKind("PRD") /\ rows[job[c].prd].validation # "INVALID"
          /\ job[c].own # 0 => created[job[c].own] <= created[job[c].prd]
    /\ job[c].own # 0 => job[c].own \in OfKind("PRD")
    /\ Stage(c) \in {"idle", "prd"} => job[c].own = 0
    /\ Stage(c) = "arch" /\ job[c].own # 0 =>
          \E u \in OfKind("UX_SPEC") : rows[u].own = job[c].own
    /\ Stage(c) = "arch" /\ at[c] = "generate" /\ job[c].own # 0 =>
          AfterOwnUx(job[c].own, job[c].base)
    /\ Stage(c) = "arch" /\ at[c] = "plan" =>
          /\ job[c].base \in OfKind("SYSTEM_ARCHITECTURE")
          /\ rows[job[c].base].prd = job[c].prd
    /\ Stage(c) = "revise" => job[c].base \in OfKind("PRD")
    /\ Stage(c) = "approve" =>
          /\ job[c].base \in 1..Len(rows) /\ rows[job[c].base].validation = "VALID"
          /\ at[c] = "retire" =>
                /\ job[c].retire # {} /\ job[c].base \notin job[c].retire
                /\ job[c].retire \subseteq VersionsOf(rows[job[c].base].artifact)

\* Two approved versions of one artifact: an approval is under way that has yet
\* to list the versions, or has listed one of the two, or one was killed.
OneApprovedInv ==
    \A i, k \in 1..Len(rows) :
       /\ i # k /\ rows[i].artifact = rows[k].artifact /\ rows[i].artifact \notin torn
       /\ rows[i].status = "APPROVED" /\ rows[k].status = "APPROVED"
       => \E c \in Approving(rows[i].artifact) :
             at[c] = "scan" \/ (at[c] = "retire" /\ {i, k} \cap job[c].retire # {})

\* Call c has approved its version and may still retire others.
Active(c) == Stage(c) = "approve" /\ at[c] # "start"

\* Unless approvals overlapped, the one under way keeps the version it approved.
ApprovalKeptInv ==
    /\ \A c, d \in Clients :
          /\ Active(c) /\ Active(d)
          /\ rows[job[c].base].artifact = rows[job[d].base].artifact
          /\ rows[job[c].base].artifact \notin overlapped
          => c = d
    /\ \A c \in Clients :
          Active(c) /\ rows[job[c].base].artifact \notin overlapped
          => rows[job[c].base].status = "APPROVED"
    /\ ApprovalKept

IInv ==
    /\ TypeInv /\ ControlInv
    /\ \A i \in 1..Len(rows) : RowInv(i)
    /\ \A c \in Clients : JobInv(c)
    /\ OneApprovedInv /\ ApprovalKeptInv

-----------------------------------------------------------------------------
(* The newest row, and the first of the rows to retire *)

LEMMA LeastElement ==
    ASSUME NEW S \in SUBSET Nat, S # {}
    PROVE  Min(S) \in S
<1>1. PICK x \in S : \A y \in S : ~(<<y, x>> \in OpToRel(<, Nat))
  BY NatLessThanWellFounded, WFMin
<1>2. \A y \in S : ~(y < x)
  BY <1>1 DEF OpToRel
<1>3. \A y \in S : x <= y
  BY <1>2
<1>4. QED
  BY <1>3 DEF Min

LEMMA GreatestElement ==
    ASSUME NEW n \in Nat, NEW S \in SUBSET (1..n), S # {}
    PROVE  Max(S) \in S /\ \A y \in S : y <= Max(S)
<1> DEFINE T == {k \in Nat : n - k \in S}
<1>1. PICK s \in S : TRUE
  OBVIOUS
<1>2. n - s \in T
  BY <1>1
<1>3. PICK m \in T : \A y \in T : ~(<<y, m>> \in OpToRel(<, Nat))
  BY <1>2, NatLessThanWellFounded, WFMin
<1>4. \A y \in T : ~(y < m)
  BY <1>3 DEF OpToRel
<1>5. ASSUME NEW y \in S PROVE n - m >= y
  <2>1. n - y \in T
    OBVIOUS
  <2>2. QED
    BY <1>4, <2>1
<1>6. n - m \in S /\ \A y \in S : n - m >= y
  BY <1>5
<1>7. Max(S) \in S /\ \A y \in S : Max(S) >= y
  BY <1>6 DEF Max
<1>8. QED
  BY <1>7

LEMMA LatestRow ==
    ASSUME TypeInv, NEW kind
    PROVE  /\ Len(rows) \in Nat
           /\ OfKind(kind) = {} => Latest(kind) = 0
           /\ OfKind(kind) # {} => /\ Latest(kind) \in OfKind(kind)
                                   /\ \A i \in OfKind(kind) :
                                         created[i] <= created[Latest(kind)]
           /\ Latest(kind) # 0 => OfKind(kind) # {}
<1>1. Len(rows) \in Nat
  BY DEF TypeInv
<1>2. OfKind(kind) \in SUBSET (1..Len(rows))
  BY DEF OfKind
<1>3. ASSUME OfKind(kind) # {}
      PROVE  \E i \in OfKind(kind) : \A k \in OfKind(kind) : created[k] <= created[i]
  <2> DEFINE places == {created[i] : i \in OfKind(kind)}
  <2>1. places \in SUBSET (1..Len(rows)) /\ places # {}
    BY <1>2, <1>3 DEF TypeInv, Places
  <2> HIDE DEF places
  <2>2. Max(places) \in places /\ \A y \in places : y <= Max(places)
    BY <1>1, <2>1, GreatestElement
  <2>3. QED
    BY <2>2 DEF places
<1>4. OfKind(kind) # {} => /\ Latest(kind) \in OfKind(kind)
                           /\ \A i \in OfKind(kind) : created[i] <= created[Latest(kind)]
  BY <1>3 DEF Latest
<1>5. QED
  BY <1>1, <1>4 DEF Latest

-----------------------------------------------------------------------------
(* The control of a call *)

LEMMA Stages ==
    ASSUME ControlInv, NEW c \in Clients
    PROVE  /\ Stage(c) \in {"idle", "prd", "ux", "arch", "revise", "approve"}
           /\ Stage(c) = "idle" <=> todo[c] = <<>>
           /\ Stage(c) = "prd" => todo[c] \in {<<"prd">>, <<"prd", "ux", "arch">>}
           /\ Stage(c) = "ux" => todo[c] \in {<<"ux">>, <<"ux", "arch">>}
           /\ Stage(c) = "arch" => todo[c] = <<"arch">>
           /\ Stage(c) = "revise" => todo[c] = <<"revise">>
           /\ Stage(c) = "approve" => todo[c] = <<"approve">>
BY DEF ControlInv, ControlOf, Calls, Stage

\* Only call c moves.
Others(c) ==
    /\ DOMAIN todo' = Clients /\ DOMAIN at' = Clients /\ DOMAIN job' = Clients
    /\ \A d \in Clients \ {c} : todo'[d] = todo[d] /\ at'[d] = at[d] /\ job'[d] = job[d]

\* A call that has nothing to do.
AtRest(c) ==
    todo[c] = <<>> /\ at[c] = "start" /\ job[c] = NoJob

LEMMA ReturnFacts ==
    ASSUME TypeInv, NEW c \in Clients, Return(c)
    PROVE  Others(c) /\ AtRest(c)'
BY DEF TypeInv, Return, Others, AtRest

LEMMA EndStageFacts ==
    ASSUME TypeInv, ControlInv, NEW c \in Clients, NEW own,
           Stage(c) \in {"prd", "ux"}, EndStage(c, own)
    PROVE  /\ Others(c)
           /\ \/ AtRest(c)'
              \/ /\ Stage(c) = "prd" => todo'[c] = <<"ux", "arch">>
                 /\ Stage(c) = "ux" => todo'[c] = <<"arch">>
                 /\ at'[c] = "start" /\ job'[c] = [NoJob EXCEPT !.own = own]
<1>1. CASE Len(todo[c]) = 1
  BY <1>1, ReturnFacts DEF EndStage
<1>2. CASE Len(todo[c]) # 1
  <2>1. /\ Stage(c) = "prd" => todo[c] = <<"prd", "ux", "arch">>
        /\ Stage(c) = "ux" => todo[c] = <<"ux", "arch">>
    BY <1>2, Stages
  <2>2. /\ Tail(<<"prd", "ux", "arch">>) = <<"ux", "arch">>
        /\ Tail(<<"ux", "arch">>) = <<"arch">>
    OBVIOUS
  <2>3. /\ todo' = [todo EXCEPT ![c] = Tail(@)] /\ at' = [at EXCEPT ![c] = "start"]
        /\ job' = [job EXCEPT ![c] = [NoJob EXCEPT !.own = own]]
    BY <1>2 DEF EndStage
  <2>4. Others(c) /\ todo'[c] = Tail(todo[c]) /\ at'[c] = "start"
        /\ job'[c] = [NoJob EXCEPT !.own = own]
    BY <2>3 DEF TypeInv, Others
  <2>5. QED
    BY <2>1, <2>2, <2>4
<1>3. QED
  BY <1>1, <1>2

-----------------------------------------------------------------------------
(* What a step leaves alone *)

\* A row added among the rows of its kind leaves the others in their order.
OrderKept ==
    /\ Places'
    /\ \A i, k \in 1..Len(rows) :
          rows[i].kind = rows[k].kind /\ created[i] <= created[k] => created'[i] <= created'[k]

\* Rows are only added, and only their status and superseded_by change.
RowsKept ==
    /\ Len(rows) \in Nat /\ Len(rows') \in Nat /\ Len(rows) <= Len(rows')
    /\ \A i \in 1..Len(rows) :
          /\ rows'[i].kind = rows[i].kind /\ rows'[i].artifact = rows[i].artifact
          /\ rows'[i].validation = rows[i].validation /\ rows'[i].body = rows[i].body
          /\ rows'[i].prd = rows[i].prd /\ rows'[i].base = rows[i].base
          /\ rows'[i].own = rows[i].own /\ rows'[i].gated = rows[i].gated
          /\ rows'[i].complete = rows[i].complete
    /\ OrderKept

\* Rows are only added, as drafts.
DraftsAdded ==
    /\ \A i \in 1..Len(rows) : rows'[i].status = rows[i].status
    /\ \A i \in 1..Len(rows') : i > Len(rows) => rows'[i].status = "DRAFT"

LEMMA PlaceFacts ==
    ASSUME TypeInv, NEW row, Save(row), Len(rows') = Len(rows) + 1
    PROVE  OrderKept
<1> DEFINE n == Cardinality(OfKind(row.kind))
<1>1. Len(rows) \in Nat
  BY DEF TypeInv
<1>2. IsFiniteSet(1..Len(rows)) /\ Cardinality(1..Len(rows)) = Len(rows)
  <2>1. ASSUME NEW m \in Nat PROVE IsFiniteSet(1..m) /\ Cardinality(1..m) = m
    BY FS_Interval
  <2>2. QED
    BY <1>1, <2>1
<1>3. n \in Nat /\ n <= Len(rows)
  <2>1. OfKind(row.kind) \in SUBSET (1..Len(rows))
    BY DEF OfKind
  <2>2. QED
    BY <1>2, <2>1, FS_Subset, FS_CardinalityType
<1> HIDE DEF n
<1>4. PICK place \in 1..(n + 1) :
         created' = [i \in 1..(Len(rows) + 1) |->
                       IF i > Len(rows) THEN place
                       ELSE IF rows[i].kind = row.kind /\ created[i] >= place
                       THEN created[i] + 1 ELSE created[i]]
  BY DEF Save, n
<1>5. place \in 1..(Len(rows) + 1) /\ place \in Nat
  BY <1>1, <1>3
<1>6. \A i \in 1..Len(rows) : created[i] \in 1..Len(rows)
  BY DEF TypeInv, Places
<1>7. Places'
  BY <1>1, <1>4, <1>5, <1>6 DEF Places
<1>8. \A i \in 1..Len(rows) :
         created'[i] = IF rows[i].kind = row.kind /\ created[i] >= place
                       THEN created[i] + 1 ELSE created[i]
  BY <1>1, <1>4
<1>9. QED
  BY <1>1, <1>5, <1>6, <1>7, <1>8 DEF OrderKept

LEMMA SaveFacts ==
    ASSUME TypeInv, NEW row, IsRow(row), row.status = "DRAFT", Save(row)
    PROVE  /\ \E S : rows' \in Seq(S)
           /\ Len(rows') = Len(rows) + 1 /\ rows'[Len(rows')] = row
           /\ \A i \in 1..Len(rows) : rows'[i] = rows[i]
           /\ \A i \in 1..Len(rows') : IsRow(rows'[i])
           /\ RowsKept /\ DraftsAdded
<1>1. PICK S : rows \in Seq(S)
  BY DEF TypeInv
<1>2. rows' = Append(rows, row) /\ rows \in Seq(S \cup {row})
  <2>1. S \subseteq S \cup {row}
    OBVIOUS
  <2>2. QED
    BY <1>1, <2>1 DEF Save
<1>3. rows' \in Seq(S \cup {row})
  BY <1>2
<1>4. Len(rows') = Len(rows) + 1 /\ rows'[Len(rows) + 1] = row
  BY <1>2
<1>5. \A i \in 1..Len(rows) : rows'[i] = rows[i]
  BY <1>2
<1>6. \A i \in 1..Len(rows') : IsRow(rows'[i])
  <2>1. \A i \in 1..Len(rows') : i \in 1..Len(rows) \/ i = Len(rows) + 1
    BY <1>1, <1>4
  <2>2. QED
    BY <1>4, <1>5, <2>1 DEF TypeInv
<1>7. RowsKept /\ DraftsAdded
  <2>1. Len(rows) \in Nat
    BY <1>1
  <2>2. RowsKept
    BY <1>4, <1>5, <2>1, PlaceFacts DEF RowsKept
  <2>3. \A i \in 1..Len(rows') : i > Len(rows) => i = Len(rows) + 1
    BY <1>4, <2>1
  <2>4. QED
    BY <1>4, <1>5, <2>2, <2>3 DEF DraftsAdded
<1>8. QED
  BY <1>3, <1>4, <1>5, <1>6, <1>7

LEMMA StatusFacts ==
    ASSUME TypeInv, NEW i \in 1..Len(rows), NEW s \in {"APPROVED", "SUPERSEDED"}, NEW b \in Nat,
           rows' = [rows EXCEPT ![i].status = s, ![i].superseded_by = b], UNCHANGED created
    PROVE  /\ \E S : rows' \in Seq(S)
           /\ Len(rows') = Len(rows)
           /\ \A k \in 1..Len(rows) : rows'[k].status = IF k = i THEN s ELSE rows[k].status
           /\ \A k \in 1..Len(rows') : IsRow(rows'[k])
           /\ RowsKept
<1> DEFINE row == [[rows[i] EXCEPT !.status = s] EXCEPT !.superseded_by = b]
<1>1. PICK S : rows \in Seq(S)
  BY DEF TypeInv
<1>2. rows' = [rows EXCEPT ![i] = row]
  BY <1>1
<1>3. rows' \in Seq(S \cup {row}) /\ Len(rows') = Len(rows) /\ Len(rows) \in Nat
  <2>1. rows \in Seq(S \cup {row})
    BY <1>1
  <2>2. QED
    BY <1>2, <2>1
<1>4. \A k \in 1..Len(rows) : rows'[k] = IF k = i THEN row ELSE rows[k]
  BY <1>1, <1>2
<1>5. /\ row.status = s /\ IsRow(row)
      /\ row.kind = rows[i].kind /\ row.artifact = rows[i].artifact
      /\ row.validation = rows[i].validation /\ row.body = rows[i].body
      /\ row.prd = rows[i].prd /\ row.base = rows[i].base
      /\ row.own = rows[i].own /\ row.gated = rows[i].gated /\ row.complete = rows[i].complete
  <2>1. IsRow(rows[i])
    BY DEF TypeInv
  <2>2. QED
    BY <2>1 DEF IsRow
<1>6. \A k \in 1..Len(rows) : IsRow(rows'[k])
  BY <1>4, <1>5 DEF TypeInv
<1>7. \A k \in 1..Len(rows) : rows'[k].status = IF k = i THEN s ELSE rows[k].status
  BY <1>4, <1>5
<1>8. RowsKept
  <2>1. OrderKept
    BY <1>3 DEF TypeInv, Places, OrderKept
  <2>2. QED
    BY <1>3, <1>4, <1>5, <2>1 DEF RowsKept
<1>9. QED
  BY <1>3, <1>6, <1>7, <1>8

LEMMA SameRows ==
    ASSUME TypeInv, UNCHANGED <<rows, created>>
    PROVE  RowsKept /\ DraftsAdded
<1>1. Len(rows) \in Nat /\ rows' = rows
  BY DEF TypeInv
<1>2. \A i \in 1..Len(rows) : ~(i > Len(rows))
  BY <1>1
<1>3. OrderKept
  BY DEF TypeInv, Places, OrderKept
<1>4. QED
  BY <1>1, <1>2, <1>3 DEF RowsKept, DraftsAdded

\* One UX specification stays behind another.
LEMMA OwnUxKept ==
    ASSUME RowsKept, NEW own, NEW b, AfterOwnUx(own, b)
    PROVE  AfterOwnUx(own, b)'
<1>1. PICK u \in OfKind("UX_SPEC") : rows[u].own = own /\ created[u] <= created[b]
  BY DEF AfterOwnUx
<1>2. u \in OfKind("UX_SPEC")' /\ b \in OfKind("UX_SPEC")' /\ rows'[u].own = own
  BY <1>1 DEF AfterOwnUx, OfKind, RowsKept
<1>3. created'[u] <= created'[b]
  BY <1>1 DEF AfterOwnUx, OfKind, RowsKept, OrderKept
<1>4. QED
  BY <1>2, <1>3 DEF AfterOwnUx

\* What a row was derived from does not change.
LEMMA RowFrame ==
    ASSUME RowsKept, NEW i \in 1..Len(rows), RowInv(i),
           rows'[i].status = "APPROVED" => rows'[i].validation = "VALID"
    PROVE  RowInv(i)'
<1>1. /\ i \in Nat /\ Len(rows) \in Nat /\ rows[i].own \in 0..i
      /\ \A k \in 1..i : k \in 1..Len(rows)
  BY DEF RowsKept, RowInv
<1>2. CASE rows[i].kind = "PRD"
  BY <1>1, <1>2 DEF RowsKept, RowInv
<1>3. CASE rows[i].kind # "PRD"
  <2>1. /\ rows[i].prd \in 1..Len(rows) /\ rows[i].prd \in 1..(i - 1)
        /\ rows'[rows[i].prd].kind = "PRD" /\ rows'[rows[i].prd].validation # "INVALID"
        /\ rows'[rows[i].prd].body = rows[rows[i].prd].body
    BY <1>1, <1>3 DEF RowsKept, RowInv
  <2>2. rows[i].kind = "IMPLEMENTATION_PLAN" =>
          /\ ~rows'[i].gated
          /\ rows[i].base \in 1..(i - 1) /\ rows'[rows[i].base].kind = "SYSTEM_ARCHITECTURE"
          /\ rows'[rows[i].base].prd = rows[i].prd
    BY <1>1 DEF RowsKept, RowInv
  <2>3. rows[i].own # 0 =>
          /\ rows'[rows[i].own].kind = "PRD"
          /\ created'[rows[i].own] <= created'[rows[i].prd]
    BY <1>1, <1>3, <2>1 DEF RowsKept, OrderKept, RowInv
  <2>4. PICK own, base : own = rows[i].own /\ base = rows[i].base
    OBVIOUS
  <2>5. rows[i].kind = "SYSTEM_ARCHITECTURE" /\ own # 0 => AfterOwnUx(own, base)'
    BY <2>4, OwnUxKept DEF RowInv
  <2>6. rows'[i].kind = "SYSTEM_ARCHITECTURE" /\ rows'[i].own # 0 =>
          AfterOwnUx(rows[i].own, rows[i].base)'
    BY <2>4, <2>5 DEF RowsKept, AfterOwnUx
  <2>7. QED
    BY <1>1, <1>3, <2>1, <2>2, <2>3, <2>6 DEF RowsKept, RowInv
<1>4. QED
  BY <1>2, <1>3

\* Nor does what another call holds in memory.
LEMMA JobFrame ==
    ASSUME TypeInv, RowsKept, NEW d \in Clients, JobInv(d),
           todo'[d] = todo[d], at'[d] = at[d], job'[d] = job[d]
    PROVE  JobInv(d)'
<1>1. Stage(d)' = Stage(d)
  BY DEF Stage
<1>2. \A kind : OfKind(kind) \subseteq OfKind(kind)'
  BY DEF RowsKept, OfKind
<1>4. IsJob(job[d])
  BY DEF TypeInv
<1>5. job[d].own \in Nat /\ job[d].prd \in Nat /\ job[d].base \in Nat
  BY <1>4 DEF IsJob
<1>6. \A i \in 1..Len(rows) :
         /\ i \in 1..Len(rows') /\ rows'[i].validation = rows[i].validation
         /\ rows'[i].prd = rows[i].prd /\ rows'[i].own = rows[i].own
         /\ rows'[i].artifact = rows[i].artifact
  BY DEF RowsKept
<1>7. \A kind : \A i \in OfKind(kind) : i \in 1..Len(rows)
  BY DEF OfKind
<1>8. Stage(d) \in {"ux", "arch"} /\ at[d] # "start" =>
          /\ job[d].prd \in OfKind("PRD")' /\ rows'[job[d].prd].validation # "INVALID"
          /\ job[d].own # 0 => created'[job[d].own] <= created'[job[d].prd]
  <2>1. Stage(d) \in {"ux", "arch"} /\ at[d] # "start" /\ job[d].own # 0 =>
          created'[job[d].own] <= created'[job[d].prd]
    BY DEF JobInv, OfKind, RowsKept, OrderKept
  <2>2. QED
    BY <1>2, <1>6, <1>7, <2>1 DEF JobInv
<1>9. /\ job[d].own # 0 => job[d].own \in OfKind("PRD")'
      /\ Stage(d) \in {"idle", "prd"} => job[d].own = 0
      /\ Stage(d) = "arch" /\ job[d].own # 0 =>
            \E u \in OfKind("UX_SPEC")' : rows'[u].own = job[d].own
  BY <1>2, <1>6, <1>7 DEF JobInv
<1>10. Stage(d) = "arch" /\ at[d] = "generate" /\ job[d].own # 0 =>
          AfterOwnUx(job[d].own, job[d].base)'
  BY OwnUxKept DEF JobInv
<1>11. /\ Stage(d) = "arch" /\ at[d] = "plan" =>
            /\ job[d].base \in OfKind("SYSTEM_ARCHITECTURE")'
            /\ rows'[job[d].base].prd = job[d].prd
       /\ Stage(d) = "revise" => job[d].base \in OfKind("PRD")'
  BY <1>2, <1>6, <1>7 DEF JobInv
<1>12. Stage(d) = "approve" =>
          /\ job[d].base \in 1..Len(rows') /\ rows'[job[d].base].validation = "VALID"
          /\ at[d] = "retire" =>
                /\ job[d].retire # {} /\ job[d].base \notin job[d].retire
                /\ \A v \in job[d].retire :
                     v \in 1..Len(rows') /\ rows'[v].artifact = rows'[job[d].base].artifact
  BY <1>6 DEF JobInv, VersionsOf
<1>13. QED
  BY <1>1, <1>8, <1>9, <1>10, <1>11, <1>12 DEF JobInv, VersionsOf

\* A step outside an approval leaves every approval as it is.
LEMMA ApprovalFrame ==
    ASSUME IInv, NEW c \in Clients, Others(c), RowsKept, DraftsAdded,
           UNCHANGED <<overlapped, torn>>, ~Active(c), ~Active(c)'
    PROVE  OneApprovedInv' /\ ApprovalKeptInv'
<1>1. \A d \in Clients : Active(d)' <=> Active(d)
  BY DEF Others, Active, Stage
<1>2. \A d \in Clients : Active(d) =>
         /\ job'[d] = job[d] /\ at'[d] = at[d] /\ job[d].base \in 1..Len(rows)
         /\ rows'[job[d].base].artifact = rows[job[d].base].artifact
         /\ rows'[job[d].base].status = rows[job[d].base].status
  BY DEF IInv, Others, JobInv, Active, RowsKept, DraftsAdded
<1>3. \A i \in 1..Len(rows') : rows'[i].status # "DRAFT" =>
         /\ i \in 1..Len(rows) /\ rows'[i].status = rows[i].status
         /\ rows'[i].artifact = rows[i].artifact
  BY DEF RowsKept, DraftsAdded
<1>4. OneApprovedInv'
  <2>1. SUFFICES ASSUME NEW i \in 1..Len(rows'), NEW k \in 1..Len(rows'),
                        i # k, rows'[i].artifact = rows'[k].artifact,
                        rows'[i].artifact \notin torn',
                        rows'[i].status = "APPROVED", rows'[k].status = "APPROVED"
                 PROVE  \E d \in Clients :
                           /\ Active(d)' /\ rows'[job'[d].base].artifact = rows'[i].artifact
                           /\ \/ at'[d] = "scan"
                              \/ at'[d] = "retire" /\ {i, k} \cap job'[d].retire # {}
    BY DEF OneApprovedInv, Approving, Active
  <2>2. PICK d \in Clients :
                /\ Active(d) /\ rows[job[d].base].artifact = rows[i].artifact
                /\ \/ at[d] = "scan"
                   \/ at[d] = "retire" /\ {i, k} \cap job[d].retire # {}
    BY <1>3, <2>1 DEF IInv, OneApprovedInv, Approving, Active
  <2>3. QED
    BY <1>1, <1>2, <1>3, <2>1, <2>2
<1>5. ApprovalKept'
  <2>1. SUFFICES ASSUME NEW i \in 1..Len(rows'),
                        rows'[i].status = "SUPERSEDED", rows'[i].artifact \notin overlapped'
                 PROVE  \E k \in 1..Len(rows') : /\ rows'[k].artifact = rows'[i].artifact
                                                 /\ rows'[k].status = "APPROVED"
    BY DEF ApprovalKept, VersionsOf
  <2>2. PICK k \in 1..Len(rows) : rows[k].artifact = rows[i].artifact /\ rows[k].status = "APPROVED"
    BY <1>3, <2>1 DEF IInv, ApprovalKeptInv, ApprovalKept, VersionsOf
  <2>3. k \in 1..Len(rows') /\ rows'[k].artifact = rows[k].artifact /\ rows'[k].status = rows[k].status
    BY DEF RowsKept, DraftsAdded
  <2>4. QED
    BY <1>3, <2>1, <2>2, <2>3
<1>6. ApprovalKeptInv'
  BY <1>1, <1>2, <1>5 DEF IInv, ApprovalKeptInv
<1>7. QED
  BY <1>4, <1>6

\* What a step of one call has to establish, the approvals aside.
LEMMA CoreStep ==
    ASSUME IInv, NEW c \in Clients, Others(c),
           RowsKept, \E S : rows' \in Seq(S), \A i \in 1..Len(rows') : IsRow(rows'[i]),
           \A i \in 1..Len(rows) : rows'[i].status = "APPROVED" => rows[i].validation = "VALID",
           \A i \in 1..Len(rows') : i > Len(rows) => RowInv(i)',
           ControlOf(c)', IsJob(job'[c]), JobInv(c)'
    PROVE  /\ TypeInv' /\ ControlInv'
           /\ \A i \in 1..Len(rows') : RowInv(i)'
           /\ \A d \in Clients : JobInv(d)'
<1>1. ASSUME NEW i \in 1..Len(rows') PROVE RowInv(i)'
  <2>1. CASE i > Len(rows)
    BY <2>1
  <2>2. CASE i <= Len(rows)
    <3>1. i \in 1..Len(rows)
      BY <2>2 DEF RowsKept
    <3>2. RowInv(i) /\ (rows'[i].status = "APPROVED" => rows'[i].validation = "VALID")
      BY <3>1 DEF IInv, RowsKept
    <3>3. QED
      BY <3>1, <3>2, RowFrame
  <2>3. QED
    BY <2>1, <2>2 DEF RowsKept
<1>2. ASSUME NEW d \in Clients PROVE JobInv(d)'
  <2>1. CASE d = c
    BY <2>1
  <2>2. CASE d # c
    BY <2>2, JobFrame DEF IInv, Others
  <2>3. QED
    BY <2>1, <2>2
<1>3. TypeInv' /\ ControlInv'
  <2>1. \A d \in Clients : IsJob(job'[d])
    BY DEF IInv, TypeInv, Others
  <2>2. TypeInv'
    BY <2>1 DEF TypeInv, Others, RowsKept, OrderKept
  <2>3. ASSUME NEW d \in Clients \ {c} PROVE ControlOf(d)'
    BY DEF IInv, ControlInv, ControlOf, Others, Stage
  <2>4. QED
    BY <2>2, <2>3 DEF ControlInv
<1>4. QED
  BY <1>1, <1>2, <1>3

\* What it has to establish outside an approval.
LEMMA PassiveStep ==
    ASSUME IInv, NEW c \in Clients, Others(c), UNCHANGED <<overlapped, torn>>,
           RowsKept, DraftsAdded, \E S : rows' \in Seq(S), \A i \in 1..Len(rows') : IsRow(rows'[i]),
           ~Active(c), ~Active(c)',
           \A i \in 1..Len(rows') : i > Len(rows) => RowInv(i)',
           ControlOf(c)', IsJob(job'[c]), JobInv(c)'
    PROVE  IInv'
<1>1. \A i \in 1..Len(rows) : rows'[i].status = "APPROVED" => rows[i].validation = "VALID"
  BY DEF IInv, RowInv, DraftsAdded
<1>2. /\ TypeInv' /\ ControlInv'
      /\ \A i \in 1..Len(rows') : RowInv(i)'
      /\ \A d \in Clients : JobInv(d)'
  BY <1>1, CoreStep
<1>3. OneApprovedInv' /\ ApprovalKeptInv'
  BY ApprovalFrame
<1>4. QED
  BY <1>2, <1>3 DEF IInv

LEMMA RestFacts ==
    ASSUME NEW c \in Clients, AtRest(c)'
    PROVE  ~Active(c)' /\ ControlOf(c)' /\ IsJob(job'[c]) /\ JobInv(c)'
<1>1. Stage(c)' = "idle" /\ job'[c] = NoJob /\ at'[c] = "start"
  BY DEF AtRest, Stage
<1>2. ControlOf(c)'
  BY <1>1 DEF AtRest, ControlOf
<1>3. IsJob(job'[c]) /\ job'[c].own = 0
  BY <1>1 DEF IsJob, NoJob
<1>4. QED
  BY <1>1, <1>2, <1>3 DEF Active, JobInv

\* A call that moves on without having saved anything.
LEMMA MoveStep ==
    ASSUME IInv, NEW c \in Clients, Others(c), ~Active(c), ~Active(c)',
           UNCHANGED <<rows, created, overlapped, torn>>,
           ControlOf(c)', IsJob(job'[c]), JobInv(c)'
    PROVE  IInv'
<1>1. RowsKept /\ DraftsAdded
  BY SameRows DEF IInv
<1>2. /\ \E S : rows' \in Seq(S)
      /\ \A i \in 1..Len(rows') : IsRow(rows'[i])
      /\ \A i \in 1..Len(rows') : ~(i > Len(rows))
  BY DEF IInv, TypeInv
<1>3. QED
  BY <1>1, <1>2, PassiveStep

\* A call that returns without having saved anything.
LEMMA ReturnStep ==
    ASSUME IInv, NEW c \in Clients, Return(c), ~Active(c),
           UNCHANGED <<rows, created, overlapped, torn>>
    PROVE  IInv'
<1>1. Others(c) /\ AtRest(c)'
  BY ReturnFacts DEF IInv
<1>2. QED
  BY <1>1, RestFacts, MoveStep

\* A call that has saved one row.
LEMMA SaveStep ==
    ASSUME IInv, NEW c \in Clients, Others(c), ~Active(c), ~Active(c)', UNCHANGED <<overlapped, torn>>,
           NEW row, IsRow(row), row.status = "DRAFT", Save(row),
           NEW n, n = Len(rows) + 1, RowInv(n)',
           ControlOf(c)', IsJob(job'[c]), JobInv(c)'
    PROVE  IInv'
<1>1. /\ \E S : rows' \in Seq(S)
      /\ \A i \in 1..Len(rows') : IsRow(rows'[i])
      /\ RowsKept /\ DraftsAdded /\ Len(rows') = Len(rows) + 1 /\ Len(rows) \in Nat
  BY SaveFacts DEF IInv, RowsKept
<1>2. \A i \in 1..Len(rows') : i > Len(rows) => i = n
  BY <1>1
<1>3. \A i \in 1..Len(rows') : i > Len(rows) => RowInv(i)'
  BY <1>2
<1>4. QED
  BY <1>1, <1>3, PassiveStep

-----------------------------------------------------------------------------
(* Each action outside an approval preserves the invariant *)

LEMMA InitIInv == Init => IInv
<1> SUFFICES ASSUME Init PROVE IInv
  OBVIOUS
<1> USE DEF Init
<1>1. Len(rows) = 0 /\ rows \in Seq({})
  OBVIOUS
<1>2. \A c \in Clients : /\ todo[c] = <<>> /\ at[c] = "start" /\ job[c] = NoJob
                         /\ Stage(c) = "idle"
  BY DEF Stage
<1>3. IsJob(NoJob) /\ NoJob.own = 0
  BY DEF IsJob, NoJob
<1>4. TypeInv /\ ControlInv
  BY <1>1, <1>2, <1>3 DEF TypeInv, Places, ControlInv, ControlOf
<1>5. \A c \in Clients : JobInv(c)
  BY <1>2, <1>3 DEF JobInv
<1>6. OneApprovedInv /\ ApprovalKeptInv
  BY <1>1, <1>2 DEF OneApprovedInv, ApprovalKeptInv, Active, ApprovalKept
<1>7. QED
  BY <1>1, <1>4, <1>5, <1>6 DEF IInv

LEMMA CallStep ==
    ASSUME IInv, NEW c \in Clients, Call(c)
    PROVE  IInv'
<1> USE DEF Call, Begin
<1>1. PICK stages \in {<<"prd">>, <<"prd", "ux", "arch">>, <<"ux">>, <<"arch">>} :
         todo' = [todo EXCEPT ![c] = stages]
  OBVIOUS
<1>2. Others(c) /\ todo'[c] = stages /\ at'[c] = at[c] /\ job'[c] = job[c]
  BY <1>1 DEF IInv, TypeInv, Others
<1>3. Stage(c) = "idle" /\ at[c] = "start" /\ job[c].own = 0 /\ IsJob(job[c])
  BY DEF IInv, TypeInv, ControlInv, ControlOf, JobInv
<1>4. Stage(c)' \in {"prd", "ux", "arch"} /\ ControlOf(c)'
  BY <1>2, <1>3 DEF Stage, ControlOf, Calls
<1>5. JobInv(c)' /\ ~Active(c) /\ ~Active(c)'
  BY <1>2, <1>3, <1>4 DEF JobInv, Active
<1>6. QED
  BY <1>2, <1>3, <1>4, <1>5, MoveStep

LEMMA StageFailsStep ==
    ASSUME IInv, NEW c \in Clients, StageFails(c)
    PROVE  IInv'
BY ReturnStep DEF StageFails, Active

LEMMA RequireStep ==
    ASSUME IInv, NEW c \in Clients, Require(c)
    PROVE  IInv'
<1> DEFINE p == Latest("PRD")
<1> USE DEF Require
<1>1. Stage(c) \in {"ux", "arch"} /\ at[c] = "start" /\ ~Active(c)
  BY DEF Active
<1>2. CASE p # 0 /\ rows[p].validation # "INVALID"
  <2>1. /\ Others(c) /\ todo'[c] = todo[c] /\ at'[c] = "read"
        /\ job'[c] = [job[c] EXCEPT !.prd = p] /\ rows' = rows /\ created' = created
    BY <1>2 DEF GoTo, IInv, TypeInv, Others
  <2>2. /\ p \in OfKind("PRD") /\ p \in Nat /\ Len(rows) \in Nat
        /\ \A i \in OfKind("PRD") : created[i] <= created[p]
    BY <1>2, LatestRow DEF IInv, OfKind
  <2>3. IsJob(job[c])
    BY DEF IInv, TypeInv
  <2>4. IsJob(job'[c]) /\ job'[c].prd = p /\ job'[c].own = job[c].own /\ job'[c].own \in Nat
    BY <2>1, <2>2, <2>3 DEF IsJob
  <2>5. Stage(c)' = Stage(c) /\ ControlOf(c)' /\ ~Active(c)'
    BY <1>1, <2>1 DEF IInv, ControlInv, ControlOf, Stage, Active
  <2>6. job[c].own # 0 => created[job[c].own] <= created[p]
    BY <2>2 DEF IInv, JobInv
  <2>7. JobInv(c)'
    BY <1>1, <1>2, <2>1, <2>2, <2>4, <2>5, <2>6 DEF IInv, JobInv, OfKind
  <2>8. QED
    BY <1>1, <2>1, <2>4, <2>5, <2>7, MoveStep
<1>3. CASE ~(p # 0 /\ rows[p].validation # "INVALID")
  BY <1>1, <1>3, ReturnStep
<1>4. QED
  BY <1>2, <1>3

\* A new row of a kind and outcome, derived from what the call has read.
LEMMA ArtifactFacts ==
    ASSUME NEW kind \in Kind, NEW body, NEW prd \in Nat, NEW base \in Nat, Len(rows) \in Nat,
           NEW validation \in {"VALID", "INVALID", "UNVALIDATED"},
           NEW row, row = Artifact(kind, body, prd, base, validation)
    PROVE  /\ IsRow(row) /\ row.status = "DRAFT" /\ row.kind = kind /\ row.body = body
           /\ row.prd = prd /\ row.base = base /\ row.validation = validation
           /\ ~row.gated /\ row.own = 0
BY DEF Artifact, IsRow

LEMMA OwnedFacts ==
    ASSUME NEW row, IsRow(row), NEW own \in Nat, NEW new, new = [row EXCEPT !.own = own]
    PROVE  /\ IsRow(new) /\ new.own = own
           /\ new.status = row.status /\ new.kind = row.kind /\ new.body = row.body
           /\ new.prd = row.prd /\ new.base = row.base /\ new.validation = row.validation
           /\ new.gated = row.gated
BY DEF IsRow

LEMMA ValidationType ==
    ASSUME NEW kind, NEW doc, NEW prd, NEW complete
    PROVE  /\ Validate(kind, doc, prd) \in {"VALID", "INVALID", "UNVALIDATED"}
           /\ GatedValidation(kind, doc, prd, complete) \in {"VALID", "INVALID", "UNVALIDATED"}
BY DEF Validate, GatedValidation

\* What a stage produces either went through the coverage gate or did not.
LEMMA OutcomeFacts ==
    ASSUME NEW kind, NEW runs, NEW whole, NEW prd, NEW out \in Outcomes(kind, runs, whole, prd)
    PROVE  /\ out.gated \in BOOLEAN /\ out.validation \in {"VALID", "INVALID", "UNVALIDATED"}
           /\ out.gated => out.validation = GatedValidation(kind, out.doc, prd, out.complete)
<1>1. ASSUME NEW o \in runs, out \in Staged(kind, o, prd)
      PROVE  /\ out.gated \in BOOLEAN /\ out.validation \in {"VALID", "INVALID", "UNVALIDATED"}
             /\ out.gated => out.validation = GatedValidation(kind, out.doc, prd, out.complete)
  <2>1. PICK d : out = [doc |-> d, complete |-> o.complete, gated |-> TRUE, plans |-> o.plans,
                        validation |-> GatedValidation(kind, d, prd, o.complete)]
    BY <1>1 DEF Staged
  <2>2. GatedValidation(kind, d, prd, o.complete) \in {"VALID", "INVALID", "UNVALIDATED"}
    BY ValidationType
  <2>3. QED
    BY <2>1, <2>2
<1>2. ASSUME NEW o \in whole, out = Monolithic(kind, o, prd)
      PROVE  /\ out.gated \in BOOLEAN /\ out.validation \in {"VALID", "INVALID", "UNVALIDATED"}
             /\ out.gated => out.validation = GatedValidation(kind, out.doc, prd, out.complete)
  <2>1. Validate(kind, o.doc, prd) \in {"VALID", "INVALID", "UNVALIDATED"}
    BY ValidationType
  <2>2. QED
    BY <1>2, <2>1 DEF Monolithic
<1>3. (\E o \in runs : out \in Staged(kind, o, prd)) \/ (\E o \in whole : out = Monolithic(kind, o, prd))
  <2> DEFINE parts == {Staged(kind, o, prd) : o \in {o \in runs : o.doc # NoDoc}}
  <2>1. out \in UNION parts \/ out \in {Monolithic(kind, o, prd) : o \in whole}
    BY DEF Outcomes
  <2>2. CASE out \in UNION parts
    <3>1. PICK part \in parts : out \in part
      BY <2>2
    <3>2. \E o \in runs : part = Staged(kind, o, prd)
      BY <3>1
    <3>3. QED
      BY <3>1, <3>2
  <2>3. QED
    BY <2>1, <2>2
<1>4. QED
  BY <1>1, <1>2, <1>3

LEMMA CreatePrdStep ==
    ASSUME IInv, NEW c \in Clients, CreatePrd(c)
    PROVE  IInv'
<1> USE DEF CreatePrd
<1>0. PICK n \in Nat : n = Len(rows) + 1
  BY DEF IInv, TypeInv
<1>1. Stage(c) = "prd" /\ at[c] = "start" /\ ~Active(c) /\ n = Len(rows) + 1 /\ Len(rows) \in Nat
  BY <1>0 DEF Running, Active, IInv, TypeInv
<1>2. PICK prd \in PRDs :
        Save([Artifact("PRD", prd, 0, 0, Validate("PRD", prd, prd)) EXCEPT !.own = n])
  BY <1>0
<1> DEFINE row == [Artifact("PRD", prd, 0, 0, Validate("PRD", prd, prd)) EXCEPT !.own = n]
<1>3. /\ IsRow(row) /\ row.status = "DRAFT" /\ row.kind = "PRD" /\ row.body = prd
      /\ ~row.gated /\ row.own = n /\ row.validation # "UNVALIDATED"
  <2>1. Validate("PRD", prd, prd) \in {"VALID", "INVALID"}
    BY DEF Validate
  <2> DEFINE plain == Artifact("PRD", prd, 0, 0, Validate("PRD", prd, prd))
  <2>2. /\ IsRow(plain) /\ plain.status = "DRAFT" /\ plain.kind = "PRD" /\ plain.body = prd
        /\ ~plain.gated /\ plain.validation # "UNVALIDATED"
    BY <1>1, <2>1, ArtifactFacts DEF Kind
  <2>3. QED
    BY <1>1, <2>2, OwnedFacts
<1>4. /\ Len(rows') = n /\ rows'[n] = row
      /\ \A i \in 1..Len(rows) : rows'[i] = rows[i]
  BY <1>1, <1>2, <1>3, SaveFacts DEF IInv
<1> HIDE DEF row
<1>5. RowInv(n)'
  BY <1>1, <1>3, <1>4 DEF RowInv
<1>6. /\ Others(c)
      /\ \/ AtRest(c)'
         \/ todo'[c] = <<"ux", "arch">> /\ at'[c] = "start" /\ job'[c] = [NoJob EXCEPT !.own = n]
  BY <1>1, EndStageFacts DEF IInv
<1>7. ~Active(c)' /\ ControlOf(c)' /\ IsJob(job'[c]) /\ JobInv(c)'
  <2>1. CASE AtRest(c)'
    BY <2>1, RestFacts
  <2>2. CASE todo'[c] = <<"ux", "arch">> /\ at'[c] = "start" /\ job'[c] = [NoJob EXCEPT !.own = n]
    <3>1. Stage(c)' = "ux" /\ job'[c].own = n /\ IsJob(job'[c])
      BY <1>1, <2>2 DEF Stage, IsJob, NoJob
    <3>2. n \in OfKind("PRD")'
      BY <1>0, <1>1, <1>3, <1>4 DEF OfKind
    <3>3. QED
      BY <2>2, <3>1, <3>2 DEF Active, ControlOf, JobInv
  <2>3. QED
    BY <1>6, <2>1, <2>2
<1>8. QED
  BY <1>1, <1>2, <1>3, <1>5, <1>6, <1>7, SaveStep DEF row

LEMMA StageOutcomes ==
    ASSUME NEW prd \in PRDs, NEW out
    PROVE  /\ out \in UXOutcomes[prd] =>
                /\ out.gated \in BOOLEAN /\ out.validation \in {"VALID", "INVALID", "UNVALIDATED"}
                /\ out.gated => out.validation = GatedValidation("UX_SPEC", out.doc, prd, out.complete)
           /\ out \in ArchOutcomes[prd] =>
                /\ out.gated \in BOOLEAN /\ out.validation \in {"VALID", "INVALID", "UNVALIDATED"}
                /\ out.gated => out.validation =
                                  GatedValidation("SYSTEM_ARCHITECTURE", out.doc, prd, out.complete)
<1>1. ASSUME out \in UXOutcomes[prd]
      PROVE  \E runs, whole : out \in Outcomes("UX_SPEC", runs, whole, prd)
  BY <1>1 DEF UXOutcomes
<1>2. ASSUME out \in ArchOutcomes[prd]
      PROVE  \E runs, whole : out \in Outcomes("SYSTEM_ARCHITECTURE", runs, whole, prd)
  BY <1>2 DEF ArchOutcomes
<1>3. QED
  BY <1>1, <1>2, OutcomeFacts

LEMMA GeneratedRow ==
    ASSUME Len(rows) \in Nat, NEW kind \in Kind, NEW j, IsJob(j), NEW out, out.gated \in BOOLEAN,
           out.validation \in {"VALID", "INVALID", "UNVALIDATED"},
           NEW row, row = Generated(kind, out, j)
    PROVE  /\ IsRow(row) /\ row.status = "DRAFT" /\ row.kind = kind /\ row.body = out.doc
           /\ row.prd = j.prd /\ row.base = j.base /\ row.own = j.own
           /\ row.validation = out.validation /\ row.gated = out.gated
           /\ row.complete = out.complete
<1>1. j.prd \in Nat /\ j.base \in Nat /\ j.own \in Nat
  BY DEF IsJob
<1> DEFINE plain == Artifact(kind, out.doc, j.prd, j.base, out.validation)
<1>2. /\ IsRow(plain) /\ plain.status = "DRAFT" /\ plain.kind = kind /\ plain.body = out.doc
      /\ plain.prd = j.prd /\ plain.base = j.base /\ plain.validation = out.validation
  BY <1>1, ArtifactFacts
<1>3. row = [plain EXCEPT !.gated = out.gated, !.complete = out.complete, !.own = j.own]
  BY DEF Generated
<1> HIDE DEF plain
<1>4. QED
  BY <1>1, <1>2, <1>3 DEF IsRow

\* What the stages past _require hold.
LEMMA StageJob ==
    ASSUME IInv, NEW c \in Clients, Stage(c) \in {"ux", "arch"}, at[c] # "start"
    PROVE  /\ IsJob(job[c]) /\ job[c].prd \in 1..Len(rows) /\ job[c].own \in 0..Len(rows)
           /\ Len(rows) \in Nat /\ job[c].prd \in Nat /\ job[c].own \in Nat /\ job[c].base \in Nat
           /\ rows[job[c].prd].kind = "PRD" /\ rows[job[c].prd].body \in PRDs
           /\ rows[job[c].prd].validation # "INVALID"
           /\ job[c].own # 0 => /\ rows[job[c].own].kind = "PRD"
                                /\ created[job[c].own] <= created[job[c].prd]
<1>1. IsJob(job[c]) /\ Len(rows) \in Nat
  BY DEF IInv, TypeInv
<1>2. job[c].prd \in Nat /\ job[c].own \in Nat /\ job[c].base \in Nat
  BY <1>1 DEF IsJob
<1>3. QED
  BY <1>1, <1>2 DEF IInv, JobInv, OfKind, RowInv

\* The row a stage saves from the PRD it holds.
LEMMA DerivedRow ==
    ASSUME IInv, NEW c \in Clients, Stage(c) \in {"ux", "arch"}, at[c] # "start",
           NEW n, n = Len(rows) + 1, NEW row, IsRow(row), Len(rows') = n, rows'[n] = row,
           \A i \in 1..Len(rows) : rows'[i] = rows[i], RowsKept,
           row.status = "DRAFT", row.kind \in {"UX_SPEC", "SYSTEM_ARCHITECTURE"},
           row.prd = job[c].prd, row.base = job[c].base, row.own = job[c].own,
           row.gated => row.validation = GatedValidation(row.kind, row.body,
                                                         rows[job[c].prd].body, row.complete),
           row.kind = "SYSTEM_ARCHITECTURE" /\ job[c].own # 0 => AfterOwnUx(job[c].own, job[c].base)
    PROVE  RowInv(n)'
<1>1. /\ job[c].prd \in 1..Len(rows) /\ job[c].own \in 0..Len(rows) /\ Len(rows) \in Nat
      /\ rows[job[c].prd].kind = "PRD" /\ rows[job[c].prd].validation # "INVALID"
      /\ job[c].own # 0 => /\ rows[job[c].own].kind = "PRD"
                           /\ created[job[c].own] <= created[job[c].prd]
  BY StageJob
<1>2. /\ rows'[n].own \in 0..n /\ rows'[n].prd \in 1..(n - 1) /\ n - 1 = Len(rows)
      /\ rows'[rows'[n].prd].kind = "PRD" /\ rows'[rows'[n].prd].validation # "INVALID"
      /\ rows'[rows'[n].prd].body = rows[job[c].prd].body
  BY <1>1
<1>3. job[c].own # 0 => /\ rows'[job[c].own].kind = "PRD"
                        /\ created'[job[c].own] <= created'[job[c].prd]
  BY <1>1 DEF RowsKept, OrderKept
<1>4. PICK own, base : own = job[c].own /\ base = job[c].base
  OBVIOUS
<1>5. row.kind = "SYSTEM_ARCHITECTURE" /\ own # 0 => AfterOwnUx(own, base)'
  BY <1>4, OwnUxKept
<1>6. rows'[n].kind = "SYSTEM_ARCHITECTURE" /\ rows'[n].own # 0 =>
        AfterOwnUx(rows[n].own, rows[n].base)'
  BY <1>4, <1>5 DEF AfterOwnUx
<1>7. QED
  BY <1>1, <1>2, <1>3, <1>6 DEF RowInv

LEMMA CreateUxStep ==
    ASSUME IInv, NEW c \in Clients, CreateUx(c)
    PROVE  IInv'
<1> USE DEF CreateUx
<1>1. Stage(c) = "ux" /\ at[c] = "read" /\ ~Active(c)
  BY DEF Running, Active
<1>2. /\ IsJob(job[c]) /\ job[c].prd \in 1..Len(rows) /\ job[c].own \in 0..Len(rows)
      /\ Len(rows) \in Nat /\ rows[job[c].prd].body \in PRDs
      /\ job[c].own # 0 => rows[job[c].own].kind = "PRD"
  BY <1>1, StageJob
<1>3. PICK out \in UXOutcomes[rows[job[c].prd].body] :
         /\ Save(Generated("UX_SPEC", out, job[c]))
         /\ Return(c) \/ EndStage(c, job[c].own)
  OBVIOUS
<1>4. PICK n, row : n \in Nat /\ n = Len(rows) + 1 /\ row = Generated("UX_SPEC", out, job[c])
  BY <1>2
<1>5. /\ out.gated \in BOOLEAN /\ out.validation \in {"VALID", "INVALID", "UNVALIDATED"}
      /\ out.gated => out.validation = GatedValidation("UX_SPEC", out.doc, rows[job[c].prd].body,
                                                       out.complete)
  BY <1>2, <1>3, StageOutcomes
<1>6. /\ IsRow(row) /\ row.status = "DRAFT" /\ row.kind = "UX_SPEC" /\ row.body = out.doc
      /\ row.prd = job[c].prd /\ row.base = job[c].base /\ row.own = job[c].own
      /\ row.validation = out.validation /\ row.gated = out.gated /\ row.complete = out.complete
  BY <1>2, <1>4, <1>5, GeneratedRow DEF Kind
<1>7. Save(row)
  BY <1>3, <1>4
<1>8. /\ Len(rows') = n /\ rows'[n] = row /\ RowsKept
      /\ \A i \in 1..Len(rows) : rows'[i] = rows[i]
  BY <1>4, <1>6, <1>7, SaveFacts DEF IInv
<1>9. RowInv(n)'
  BY <1>1, <1>4, <1>5, <1>6, <1>8, DerivedRow
<1>10. /\ Others(c)
       /\ \/ AtRest(c)'
          \/ todo'[c] = <<"arch">> /\ at'[c] = "start" /\ job'[c] = [NoJob EXCEPT !.own = job[c].own]
  BY <1>1, <1>3, ReturnFacts, EndStageFacts DEF IInv
<1>11. ~Active(c)' /\ ControlOf(c)' /\ IsJob(job'[c]) /\ JobInv(c)'
  <2>1. CASE AtRest(c)'
    BY <2>1, RestFacts
  <2>2. CASE todo'[c] = <<"arch">> /\ at'[c] = "start" /\ job'[c] = [NoJob EXCEPT !.own = job[c].own]
    <3>1. Stage(c)' = "arch" /\ job'[c].own = job[c].own /\ IsJob(job'[c])
      BY <1>2, <2>2 DEF Stage, IsJob, NoJob
    <3>2. n \in OfKind("UX_SPEC")' /\ rows'[n].own = job[c].own
      BY <1>2, <1>4, <1>6, <1>8 DEF OfKind
    <3>3. job[c].own # 0 => job[c].own \in OfKind("PRD")'
      BY <1>2, <1>4, <1>8 DEF OfKind
    <3>4. QED
      BY <2>2, <3>1, <3>2, <3>3 DEF Active, ControlOf, Calls, JobInv
  <2>3. QED
    BY <1>10, <2>1, <2>2
<1>12. QED
  BY <1>1, <1>4, <1>6, <1>7, <1>9, <1>10, <1>11, SaveStep

LEMMA ReadUxStep ==
    ASSUME IInv, NEW c \in Clients, ReadUx(c)
    PROVE  IInv'
<1> DEFINE u == Latest("UX_SPEC")
<1> USE DEF ReadUx
<1>1. /\ Stage(c) = "arch" /\ at[c] = "read" /\ ~Active(c)
      /\ Others(c) /\ todo'[c] = todo[c] /\ at'[c] = "generate"
      /\ job'[c] = [job[c] EXCEPT !.base = u] /\ rows' = rows /\ created' = created
  BY DEF Running, Active, GoTo, IInv, TypeInv, Others
<1>2. /\ IsJob(job[c]) /\ job[c].prd \in 1..Len(rows) /\ job[c].own \in 0..Len(rows)
      /\ Len(rows) \in Nat /\ job[c].own \in Nat
  BY <1>1, StageJob
<1>3. /\ u \in Nat /\ Stage(c)' = Stage(c)
      /\ OfKind("UX_SPEC") # {} => /\ u \in OfKind("UX_SPEC")
                                   /\ \A i \in OfKind("UX_SPEC") : created[i] <= created[u]
  BY <1>1, LatestRow DEF IInv, OfKind, Stage
<1>4. /\ IsJob(job'[c]) /\ job'[c].base = u /\ job'[c].prd = job[c].prd
      /\ job'[c].own = job[c].own
  BY <1>1, <1>2, <1>3 DEF IsJob
<1>5. job[c].own # 0 => AfterOwnUx(job[c].own, u)
  <2>1. ASSUME job[c].own # 0
        PROVE  \E v \in OfKind("UX_SPEC") : rows[v].own = job[c].own
    BY <1>1, <2>1 DEF IInv, JobInv
  <2>2. QED
    BY <1>3, <2>1 DEF AfterOwnUx
<1>6. JobInv(c)'
  BY <1>1, <1>3, <1>4, <1>5 DEF IInv, JobInv, OfKind, AfterOwnUx
<1>7. ControlOf(c)' /\ ~Active(c)'
  BY <1>1, <1>3 DEF IInv, ControlInv, ControlOf, Active
<1>8. QED
  BY <1>1, <1>4, <1>6, <1>7, MoveStep

LEMMA CreateArchitectureStep ==
    ASSUME IInv, NEW c \in Clients, CreateArchitecture(c)
    PROVE  IInv'
<1> USE DEF CreateArchitecture
<1>1. Stage(c) = "arch" /\ at[c] = "generate" /\ ~Active(c)
  BY DEF Running, Active
<1>2. /\ IsJob(job[c]) /\ job[c].prd \in 1..Len(rows) /\ job[c].own \in 0..Len(rows)
      /\ Len(rows) \in Nat /\ rows[job[c].prd].body \in PRDs
      /\ rows[job[c].prd].kind = "PRD" /\ rows[job[c].prd].validation # "INVALID"
      /\ job[c].own # 0 => /\ rows[job[c].own].kind = "PRD"
                           /\ created[job[c].own] <= created[job[c].prd]
  BY <1>1, StageJob
<1>3. PICK out \in ArchOutcomes[rows[job[c].prd].body] :
         /\ Save(Generated("SYSTEM_ARCHITECTURE", out, job[c]))
         /\ IF out.plans = {} THEN Return(c)
            ELSE /\ GoTo(c, "plan")
                 /\ job' = [job EXCEPT ![c].plans = out.plans, ![c].base = Len(rows) + 1]
  OBVIOUS
<1>4. PICK n, row : n \in Nat /\ n = Len(rows) + 1 /\ row = Generated("SYSTEM_ARCHITECTURE", out, job[c])
  BY <1>2
<1>5. /\ out.gated \in BOOLEAN /\ out.validation \in {"VALID", "INVALID", "UNVALIDATED"}
      /\ out.gated => out.validation = GatedValidation("SYSTEM_ARCHITECTURE", out.doc,
                                                       rows[job[c].prd].body, out.complete)
  BY <1>2, <1>3, StageOutcomes
<1>6. /\ IsRow(row) /\ row.status = "DRAFT" /\ row.kind = "SYSTEM_ARCHITECTURE"
      /\ row.body = out.doc /\ row.prd = job[c].prd /\ row.base = job[c].base
      /\ row.own = job[c].own /\ row.validation = out.validation
      /\ row.gated = out.gated /\ row.complete = out.complete
  BY <1>2, <1>4, <1>5, GeneratedRow DEF Kind
<1>7. Save(row)
  BY <1>3, <1>4
<1>8. /\ Len(rows') = n /\ rows'[n] = row /\ RowsKept
      /\ \A i \in 1..Len(rows) : rows'[i] = rows[i]
  BY <1>4, <1>6, <1>7, SaveFacts DEF IInv
<1>9. RowInv(n)'
  <2>1. job[c].own # 0 => AfterOwnUx(job[c].own, job[c].base)
    BY <1>1 DEF IInv, JobInv
  <2>2. QED
    BY <1>1, <1>4, <1>5, <1>6, <1>8, <2>1, DerivedRow
<1>10. CASE out.plans = {}
  <2>1. Others(c) /\ AtRest(c)'
    BY <1>3, <1>10, ReturnFacts DEF IInv
  <2>2. QED
    BY <1>1, <1>4, <1>6, <1>7, <1>9, <2>1, RestFacts, SaveStep
<1>11. CASE out.plans # {}
  <2>1. /\ Others(c) /\ todo'[c] = todo[c] /\ at'[c] = "plan"
        /\ job'[c] = [[job[c] EXCEPT !.plans = out.plans] EXCEPT !.base = n]
    <3>1. job' = [job EXCEPT ![c].plans = out.plans, ![c].base = n] /\ GoTo(c, "plan")
      BY <1>3, <1>4, <1>11
    <3>2. QED
      BY <3>1 DEF GoTo, IInv, TypeInv, Others
  <2>2. /\ IsJob(job'[c]) /\ job'[c].base = n /\ job'[c].prd = job[c].prd
        /\ job'[c].own = job[c].own
    BY <1>2, <1>4, <2>1 DEF IsJob
  <2>3. Stage(c)' = "arch" /\ ControlOf(c)' /\ ~Active(c)'
    BY <1>1, <2>1 DEF IInv, ControlInv, ControlOf, Stage, Active
  <2>4. /\ job[c].prd \in OfKind("PRD")' /\ rows'[job[c].prd].validation # "INVALID"
        /\ n \in OfKind("SYSTEM_ARCHITECTURE")' /\ rows'[n].prd = job[c].prd
        /\ job[c].own # 0 => job[c].own \in OfKind("PRD")'
    BY <1>2, <1>4, <1>6, <1>8 DEF OfKind
  <2>5. job[c].own # 0 => created'[job[c].own] <= created'[job[c].prd]
    BY <1>2, <1>8 DEF RowsKept, OrderKept
  <2>6. job[c].own # 0 => \E v \in OfKind("UX_SPEC")' : rows'[v].own = job[c].own
    BY <1>1, <1>4, <1>8 DEF IInv, JobInv, OfKind
  <2>7. JobInv(c)'
    BY <2>1, <2>2, <2>3, <2>4, <2>5, <2>6 DEF JobInv
  <2>8. QED
    BY <1>1, <1>4, <1>6, <1>7, <1>9, <2>1, <2>2, <2>3, <2>7, SaveStep
<1>12. QED
  BY <1>10, <1>11

LEMMA SavePlanStep ==
    ASSUME IInv, NEW c \in Clients, SavePlan(c)
    PROVE  IInv'
<1> USE DEF SavePlan
<1>1. Stage(c) = "arch" /\ at[c] = "plan" /\ ~Active(c)
  BY DEF Running, Active
<1>2. /\ IsJob(job[c]) /\ job[c].prd \in 1..Len(rows) /\ job[c].own \in 0..Len(rows)
      /\ Len(rows) \in Nat /\ job[c].prd \in Nat /\ job[c].own \in Nat /\ job[c].base \in Nat
      /\ rows[job[c].prd].kind = "PRD" /\ rows[job[c].prd].validation # "INVALID"
      /\ job[c].own # 0 => /\ rows[job[c].own].kind = "PRD"
                           /\ created[job[c].own] <= created[job[c].prd]
  BY <1>1, StageJob
<1>3. /\ job[c].base \in 1..Len(rows) /\ rows[job[c].base].kind = "SYSTEM_ARCHITECTURE"
      /\ rows[job[c].base].prd = job[c].prd
  BY <1>1 DEF IInv, JobInv, OfKind
<1>4. PICK n, plan :
        /\ n \in Nat /\ n = Len(rows) + 1
        /\ Save([Artifact("IMPLEMENTATION_PLAN", plan, job[c].prd, job[c].base,
                   Validate("IMPLEMENTATION_PLAN", plan, rows[job[c].prd].body))
                 EXCEPT !.own = job[c].own])
  <2>1. Len(rows) + 1 \in Nat
    BY <1>2
  <2>2. PICK plan \in job[c].plans :
           Save([Artifact("IMPLEMENTATION_PLAN", plan, job[c].prd, job[c].base,
                   Validate("IMPLEMENTATION_PLAN", plan, rows[job[c].prd].body))
                 EXCEPT !.own = job[c].own])
    OBVIOUS
  <2>3. QED
    BY <2>1, <2>2
<1> DEFINE plain == Artifact("IMPLEMENTATION_PLAN", plan, job[c].prd, job[c].base,
                      Validate("IMPLEMENTATION_PLAN", plan, rows[job[c].prd].body))
           row == [plain EXCEPT !.own = job[c].own]
<1>5. /\ IsRow(plain) /\ plain.status = "DRAFT" /\ plain.kind = "IMPLEMENTATION_PLAN"
      /\ plain.prd = job[c].prd /\ plain.base = job[c].base /\ ~plain.gated
  <2>1. Validate("IMPLEMENTATION_PLAN", plan, rows[job[c].prd].body)
          \in {"VALID", "INVALID", "UNVALIDATED"}
    BY ValidationType
  <2>2. QED
    BY <1>2, <2>1, ArtifactFacts DEF Kind
<1>6. /\ IsRow(row) /\ row.status = "DRAFT" /\ row.kind = "IMPLEMENTATION_PLAN"
      /\ row.prd = job[c].prd /\ row.base = job[c].base /\ ~row.gated /\ row.own = job[c].own
  BY <1>2, <1>5, OwnedFacts
<1>7. /\ Len(rows') = n /\ rows'[n] = row /\ RowsKept
      /\ \A i \in 1..Len(rows) : rows'[i] = rows[i]
  BY <1>4, <1>6, SaveFacts DEF IInv
<1> HIDE DEF row
<1>8. RowInv(n)'
  <2>1. /\ rows'[n].kind = "IMPLEMENTATION_PLAN" /\ rows'[n].status = "DRAFT" /\ ~rows'[n].gated
        /\ rows'[n].own \in 0..n /\ rows'[n].prd \in 1..(n - 1) /\ rows'[n].base \in 1..(n - 1)
    BY <1>2, <1>3, <1>4, <1>6, <1>7
  <2>2. /\ rows'[rows'[n].prd].kind = "PRD" /\ rows'[rows'[n].prd].validation # "INVALID"
        /\ rows'[rows'[n].base].kind = "SYSTEM_ARCHITECTURE"
        /\ rows'[rows'[n].base].prd = rows'[n].prd
    BY <1>2, <1>3, <1>6, <1>7
  <2>3. rows'[n].own # 0 => /\ rows'[rows'[n].own].kind = "PRD"
                            /\ created'[rows'[n].own] <= created'[rows'[n].prd]
    BY <1>2, <1>6, <1>7 DEF RowsKept, OrderKept
  <2>4. QED
    BY <2>1, <2>2, <2>3 DEF RowInv
<1>9. Others(c) /\ AtRest(c)'
  BY ReturnFacts DEF IInv
<1>10. QED
  BY <1>1, <1>4, <1>6, <1>8, <1>9, RestFacts, SaveStep DEF row

LEMMA ReadForRevisionStep ==
    ASSUME IInv, NEW c \in Clients, NEW i \in 1..Len(rows), ReadForRevision(c, i)
    PROVE  IInv'
<1> USE DEF ReadForRevision, Begin
<1>1. Stage(c) = "idle" /\ at[c] = "start" /\ job[c].own = 0 /\ IsJob(job[c]) /\ Len(rows) \in Nat
  BY DEF IInv, TypeInv, ControlInv, ControlOf, JobInv
<1>2. /\ Others(c) /\ todo'[c] = <<"revise">> /\ at'[c] = "start" /\ UNCHANGED <<rows, created>>
      /\ job'[c] = [job[c] EXCEPT !.base = i]
  BY <1>1 DEF IInv, TypeInv, Others
<1>3. Stage(c)' = "revise" /\ IsJob(job'[c]) /\ job'[c].own = 0 /\ job'[c].base = i
  BY <1>1, <1>2 DEF Stage, IsJob
<1>4. JobInv(c)' /\ ControlOf(c)' /\ ~Active(c) /\ ~Active(c)'
  BY <1>1, <1>2, <1>3 DEF JobInv, OfKind, ControlOf, Calls, Active
<1>5. QED
  BY <1>2, <1>3, <1>4, MoveStep

LEMMA SaveRevisionStep ==
    ASSUME IInv, NEW c \in Clients, SaveRevision(c)
    PROVE  IInv'
<1> DEFINE old == rows[job[c].base]
<1>1. Stage(c) = "revise" /\ ~Active(c) /\ Len(rows) \in Nat
      /\ job[c].base \in 1..Len(rows) /\ old.kind = "PRD" /\ IsRow(old) /\ ~old.gated
  <2>1. Stage(c) = "revise" /\ ~Active(c) /\ Len(rows) \in Nat
    <3>1. Stage(c) = "revise"
      BY DEF SaveRevision
    <3>2. QED
      BY <3>1 DEF Active, IInv, TypeInv
  <2>2. job[c].base \in 1..Len(rows) /\ old.kind = "PRD"
    BY <2>1 DEF IInv, JobInv, OfKind
  <2>3. IsRow(old) /\ ~old.gated
    BY <2>2 DEF IInv, TypeInv, RowInv
  <2>4. QED
    BY <2>1, <2>2, <2>3
<1>2. CASE UNCHANGED <<rows, created>>
  BY <1>1, <1>2, ReturnStep DEF SaveRevision
<1>3. CASE ~UNCHANGED <<rows, created>>
  <2>1. PICK prd \in PRDs, checked \in {"VALID", "UNVALIDATED"} :
          Save([old EXCEPT !.version = @ + 1, !.status = "DRAFT", !.body = prd,
                  !.validation = checked, !.superseded_by = 0, !.own = 0])
    BY <1>3 DEF SaveRevision
  <2>2. PICK n \in Nat : n = Len(rows) + 1
    BY <1>1
  <2> DEFINE row == [old EXCEPT !.version = @ + 1, !.status = "DRAFT", !.body = prd,
                       !.validation = checked, !.superseded_by = 0, !.own = 0]
  <2> HIDE DEF old
  <2>3. /\ IsRow(row) /\ row.status = "DRAFT" /\ row.kind = "PRD" /\ row.body \in PRDs
        /\ ~row.gated /\ row.own = 0
    <3>1. old.version + 1 \in Nat /\ old \in
             [artifact : Nat, version : Nat, kind : Kind,
              status : {"DRAFT", "APPROVED", "SUPERSEDED"},
              validation : {"VALID", "INVALID", "UNVALIDATED"}, body : {old.body},
              prd : Nat, base : Nat, superseded_by : Nat,
              gated : BOOLEAN, complete : {old.complete}, own : Nat]
      BY <1>1 DEF IsRow
    <3>2. row \in
             [artifact : Nat, version : Nat, kind : Kind,
              status : {"DRAFT", "APPROVED", "SUPERSEDED"},
              validation : {"VALID", "INVALID", "UNVALIDATED"}, body : {prd},
              prd : Nat, base : Nat, superseded_by : Nat,
              gated : BOOLEAN, complete : {old.complete}, own : Nat]
      BY <3>1, <2>1
    <3>3. /\ row.body = prd /\ row.complete = old.complete /\ row.status = "DRAFT"
          /\ row.kind = old.kind /\ row.gated = old.gated /\ row.own = 0
      BY <3>1
    <3>4. QED
      BY <1>1, <2>1, <3>2, <3>3 DEF IsRow
  <2>4. Save(row)
    BY <2>1
  <2> HIDE DEF row
  <2>5. Len(rows') = n /\ rows'[n] = row
    BY <2>2, <2>3, <2>4, SaveFacts DEF IInv
  <2>6. RowInv(n)'
    BY <2>2, <2>3, <2>5 DEF RowInv
  <2>7. Others(c) /\ AtRest(c)'
    BY ReturnFacts DEF SaveRevision, IInv
  <2>8. QED
    BY <1>1, <2>2, <2>3, <2>4, <2>6, <2>7, RestFacts, SaveStep DEF SaveRevision
<1>4. QED
  BY <1>2, <1>3

LEMMA GetForApprovalStep ==
    ASSUME IInv, NEW c \in Clients, NEW i \in 1..Len(rows), GetForApproval(c, i)
    PROVE  IInv'
<1> USE DEF GetForApproval, Begin
<1>1. Stage(c) = "idle" /\ at[c] = "start" /\ job[c].own = 0 /\ IsJob(job[c]) /\ Len(rows) \in Nat
  BY DEF IInv, TypeInv, ControlInv, ControlOf, JobInv
<1>2. /\ Others(c) /\ todo'[c] = <<"approve">> /\ at'[c] = "start" /\ UNCHANGED <<rows, created>>
      /\ job'[c] = [job[c] EXCEPT !.base = i]
  BY <1>1 DEF IInv, TypeInv, Others
<1>3. Stage(c)' = "approve" /\ IsJob(job'[c]) /\ job'[c].own = 0 /\ job'[c].base = i
  BY <1>1, <1>2 DEF Stage, IsJob
<1>4. JobInv(c)' /\ ControlOf(c)' /\ ~Active(c) /\ ~Active(c)'
  BY <1>1, <1>2, <1>3 DEF JobInv, ControlOf, Calls, Active
<1>5. QED
  BY <1>2, <1>3, <1>4, MoveStep

-----------------------------------------------------------------------------
(* Approval *)

\* What a call holds once it has read the row it approves.
LEMMA ApprovalJob ==
    ASSUME IInv, NEW c \in Clients, Stage(c) = "approve"
    PROVE  /\ IsJob(job[c]) /\ Len(rows) \in Nat
           /\ job[c].base \in 1..Len(rows) /\ rows[job[c].base].validation = "VALID"
           /\ todo[c] = <<"approve">> /\ at[c] \in {"start", "scan", "retire"}
BY Stages DEF IInv, TypeInv, ControlInv, ControlOf, JobInv

\* A step of call c neither begins nor ends another's approval.
LEMMA OtherApprovals ==
    ASSUME IInv, NEW c \in Clients, Others(c), RowsKept, NEW d \in Clients \ {c}
    PROVE  /\ Active(d)' <=> Active(d)
           /\ Active(d) => /\ job'[d] = job[d] /\ at'[d] = at[d] /\ job[d].base \in 1..Len(rows)
                           /\ rows'[job[d].base].artifact = rows[job[d].base].artifact
BY DEF IInv, Others, JobInv, Active, Stage, RowsKept

\* An approved pair is explained by an approval under way.
Explains(d, i, k) ==
    /\ Active(d) /\ rows[job[d].base].artifact = rows[i].artifact
    /\ at[d] = "scan" \/ (at[d] = "retire" /\ {i, k} \cap job[d].retire # {})

LEMMA WriteApprovedStep ==
    ASSUME IInv, NEW c \in Clients, WriteApproved(c)
    PROVE  IInv'
<1> DEFINE i == job[c].base
           a == rows[i].artifact
<1>1. /\ Stage(c) = "approve" /\ at[c] = "start" /\ UNCHANGED <<created, job, torn, todo>>
      /\ rows' = [rows EXCEPT ![i].status = "APPROVED", ![i].superseded_by = 0]
      /\ overlapped' = IF Approving(a) # {} THEN overlapped \cup {a} ELSE overlapped
      /\ at' = [at EXCEPT ![c] = "scan"]
  BY DEF WriteApproved, Running, GoTo
<1>2. /\ IsJob(job[c]) /\ Len(rows) \in Nat /\ i \in 1..Len(rows)
      /\ rows[i].validation = "VALID" /\ todo[c] = <<"approve">>
  BY <1>1, ApprovalJob
<1>3. /\ \E S : rows' \in Seq(S)
      /\ Len(rows') = Len(rows)
      /\ \A k \in 1..Len(rows) : rows'[k].status = IF k = i THEN "APPROVED" ELSE rows[k].status
      /\ \A k \in 1..Len(rows') : IsRow(rows'[k])
      /\ RowsKept
  BY <1>1, <1>2, StatusFacts DEF IInv
<1>4. Others(c) /\ at'[c] = "scan" /\ todo'[c] = todo[c] /\ job'[c] = job[c]
  BY <1>1 DEF IInv, TypeInv, Others
<1>5. Stage(c)' = "approve" /\ ControlOf(c)' /\ ~Active(c) /\ Active(c)'
  BY <1>1, <1>2, <1>4 DEF Stage, ControlOf, Calls, Active
<1>6. JobInv(c)'
  <2>1. /\ rows'[i].validation = "VALID" /\ i \in 1..Len(rows')
        /\ job[c].own # 0 => job[c].own \in 1..Len(rows) /\ rows'[job[c].own].kind = "PRD"
    BY <1>2, <1>3 DEF IInv, JobInv, OfKind, RowsKept
  <2>2. QED
    BY <1>3, <1>4, <1>5, <2>1 DEF JobInv, OfKind
<1>7. /\ TypeInv' /\ ControlInv'
      /\ \A k \in 1..Len(rows') : RowInv(k)'
      /\ \A d \in Clients : JobInv(d)'
  <2>1. \A k \in 1..Len(rows) : rows'[k].status = "APPROVED" => rows[k].validation = "VALID"
    BY <1>2, <1>3 DEF IInv, RowInv
  <2>2. \A k \in 1..Len(rows') : ~(k > Len(rows))
    BY <1>2, <1>3
  <2>3. QED
    BY <1>2, <1>3, <1>4, <1>5, <1>6, <2>1, <2>2, CoreStep
<1>8. \A k \in 1..Len(rows') :
         /\ k \in 1..Len(rows) /\ rows'[k].artifact = rows[k].artifact
         /\ k # i => rows'[k].status = rows[k].status
  BY <1>3 DEF RowsKept
<1>9. OneApprovedInv'
  <2>1. SUFFICES ASSUME NEW x \in 1..Len(rows'), NEW y \in 1..Len(rows'),
                        x # y, rows'[x].artifact = rows'[y].artifact,
                        rows'[x].artifact \notin torn',
                        rows'[x].status = "APPROVED", rows'[y].status = "APPROVED"
                 PROVE  \E d \in Clients : Explains(d, x, y)'
    BY DEF OneApprovedInv, Approving, Active, Explains
  <2>2. CASE rows[x].artifact = a
    <3>1. rows'[job'[c].base].artifact = rows'[x].artifact
      <4>1. rows'[i].artifact = a /\ rows'[x].artifact = a
        BY <1>2, <1>3, <1>8, <2>2
      <4>2. QED
        BY <1>4, <4>1
    <3>2. QED
      BY <1>4, <1>5, <3>1 DEF Explains
  <2>3. CASE rows[x].artifact # a
    <3>1. x # i /\ y # i /\ rows[x].artifact = rows[y].artifact /\ rows[x].artifact \notin torn
      BY <1>1, <1>8, <2>1, <2>3
    <3>2. PICK d \in Clients : Explains(d, x, y)
      BY <1>8, <2>1, <3>1 DEF IInv, OneApprovedInv, Approving, Active, Explains
    <3>3. d # c
      BY <1>5, <3>2 DEF Explains
    <3>4. QED
      BY <1>3, <1>4, <1>8, <3>2, <3>3, OtherApprovals DEF Explains
  <2>4. QED
    BY <2>2, <2>3
<1>10. ApprovalKeptInv'
  <2>1. \A b : b \notin overlapped' => b \notin overlapped
    BY <1>1
  <2>2. a \notin overlapped' => \A d \in Clients : Active(d) => rows[job[d].base].artifact # a
    BY <1>1 DEF Approving, Active
  <2>3. rows'[job'[c].base].artifact = a /\ rows'[job'[c].base].status = "APPROVED"
    BY <1>2, <1>3, <1>4, <1>8
  <2>4. ASSUME NEW d \in Clients, Active(d)', rows'[job'[d].base].artifact \notin overlapped', d # c
        PROVE  /\ Active(d) /\ job'[d] = job[d]
               /\ rows'[job'[d].base].artifact = rows[job[d].base].artifact
               /\ rows[job[d].base].artifact # a /\ rows[job[d].base].artifact \notin overlapped
               /\ rows'[job'[d].base].status = "APPROVED"
    <3>1. /\ Active(d) /\ job'[d] = job[d] /\ job[d].base \in 1..Len(rows)
          /\ rows'[job'[d].base].artifact = rows[job[d].base].artifact
      BY <1>3, <1>4, <2>4, OtherApprovals
    <3>2. rows[job[d].base].artifact \notin overlapped /\ rows[job[d].base].artifact # a
      BY <2>1, <2>2, <2>4, <3>1
    <3>3. rows[job[d].base].status = "APPROVED"
      BY <3>1, <3>2 DEF IInv, ApprovalKeptInv
    <3>4. QED
      BY <1>3, <3>1, <3>2, <3>3
  <2>5. ApprovalKept'
    <3>1. SUFFICES ASSUME NEW x \in 1..Len(rows'),
                          rows'[x].status = "SUPERSEDED", rows'[x].artifact \notin overlapped'
                   PROVE  \E k \in 1..Len(rows') : /\ rows'[k].artifact = rows'[x].artifact
                                                   /\ rows'[k].status = "APPROVED"
      BY DEF ApprovalKept, VersionsOf
    <3>2. PICK k \in 1..Len(rows) : rows[k].artifact = rows[x].artifact /\ rows[k].status = "APPROVED"
      BY <1>3, <1>8, <2>1, <3>1 DEF IInv, ApprovalKeptInv, ApprovalKept, VersionsOf
    <3>3. QED
      BY <1>3, <1>8, <3>2
  <2>6. QED
    BY <2>3, <2>4, <2>5 DEF IInv, ApprovalKeptInv
<1>11. QED
  BY <1>7, <1>9, <1>10 DEF IInv

\* A step that leaves the rows alone keeps the approvals that go on.
LEMMA SameRowsKept ==
    ASSUME IInv, NEW c \in Clients, Others(c), UNCHANGED <<rows, created, overlapped>>,
           Active(c)' => Active(c) /\ job'[c].base = job[c].base
    PROVE  ApprovalKeptInv'
<1>1. RowsKept
  BY SameRows DEF IInv
<1>2. \A d \in Clients : Active(d)' => Active(d) /\ job'[d].base = job[d].base
  BY <1>1, OtherApprovals
<1>3. ApprovalKept'
  BY DEF IInv, ApprovalKeptInv, ApprovalKept, VersionsOf
<1>4. QED
  BY <1>2, <1>3 DEF IInv, ApprovalKeptInv

LEMMA ScanVersionsStep ==
    ASSUME IInv, NEW c \in Clients, ScanVersions(c)
    PROVE  IInv'
<1> DEFINE i == job[c].base
           a == rows[i].artifact
           found == ToRetire(i)
<1>1. /\ Stage(c) = "approve" /\ at[c] = "scan" /\ UNCHANGED <<rows, created, overlapped>>
      /\ torn' = torn \ {a}
      /\ IF found = {} THEN Return(c)
         ELSE GoTo(c, "retire") /\ job' = [job EXCEPT ![c].retire = found]
  BY DEF ScanVersions, Running
<1>2. /\ IsJob(job[c]) /\ Len(rows) \in Nat /\ i \in 1..Len(rows)
      /\ rows[i].validation = "VALID" /\ todo[c] = <<"approve">> /\ Active(c)
  BY <1>1, ApprovalJob DEF Active
<1>3. /\ RowsKept /\ \E S : rows' \in Seq(S)
      /\ \A k \in 1..Len(rows') : IsRow(rows'[k])
      /\ \A k \in 1..Len(rows') : ~(k > Len(rows))
      /\ \A k \in 1..Len(rows) : rows'[k].status = "APPROVED" => rows[k].validation = "VALID"
  BY <1>1, SameRows DEF IInv, TypeInv, RowInv
<1>4. \A k \in 1..Len(rows) :
         rows[k].artifact = a /\ k # i /\ rows[k].status = "APPROVED" => k \in found
  BY DEF ToRetire, VersionsOf
<1>5. ASSUME NEW x \in 1..Len(rows), NEW y \in 1..Len(rows), rows[x].artifact # a,
             x # y, rows[x].artifact = rows[y].artifact, rows[x].artifact \notin torn',
             rows[x].status = "APPROVED", rows[y].status = "APPROVED", Others(c)
      PROVE  \E d \in Clients : Explains(d, x, y)'
  <2>1. PICK d \in Clients : Explains(d, x, y)
    BY <1>1, <1>5 DEF IInv, OneApprovedInv, Approving, Active, Explains
  <2>2. d # c
    BY <1>5, <2>1 DEF Explains
  <2>3. QED
    BY <1>1, <1>3, <1>5, <2>1, <2>2, OtherApprovals DEF Explains
<1>6. CASE found = {}
  <2>1. Others(c) /\ AtRest(c)'
    BY <1>1, <1>6, ReturnFacts DEF IInv
  <2>2. ~Active(c)' /\ ControlOf(c)' /\ IsJob(job'[c]) /\ JobInv(c)'
    BY <2>1, RestFacts
  <2>3. /\ TypeInv' /\ ControlInv'
        /\ \A k \in 1..Len(rows') : RowInv(k)'
        /\ \A d \in Clients : JobInv(d)'
    BY <1>3, <2>1, <2>2, CoreStep
  <2>4. ApprovalKeptInv'
    BY <1>1, <2>1, <2>2, SameRowsKept
  <2>5. OneApprovedInv'
    <3>1. SUFFICES ASSUME NEW x \in 1..Len(rows), NEW y \in 1..Len(rows),
                          x # y, rows[x].artifact = rows[y].artifact, rows[x].artifact \notin torn',
                          rows[x].status = "APPROVED", rows[y].status = "APPROVED"
                   PROVE  \E d \in Clients : Explains(d, x, y)'
      BY <1>1 DEF OneApprovedInv, Approving, Active, Explains
    <3>2. rows[x].artifact # a
      BY <1>4, <1>6, <3>1
    <3>3. QED
      BY <1>5, <2>1, <3>1, <3>2
  <2>6. QED
    BY <2>3, <2>4, <2>5 DEF IInv
<1>7. CASE found # {}
  <2>1. /\ Others(c) /\ todo'[c] = todo[c] /\ at'[c] = "retire"
        /\ job'[c] = [job[c] EXCEPT !.retire = found]
    BY <1>1, <1>7 DEF GoTo, IInv, TypeInv, Others
  <2>2. /\ found \subseteq VersionsOf(a) /\ i \notin found /\ found \in SUBSET Nat
    BY DEF ToRetire, VersionsOf
  <2>3. /\ IsJob(job'[c]) /\ job'[c].retire = found /\ job'[c].base = i /\ job'[c].own = job[c].own
    BY <1>2, <2>1, <2>2 DEF IsJob
  <2>4. Stage(c)' = "approve" /\ ControlOf(c)' /\ Active(c)'
    BY <1>2, <2>1 DEF Stage, ControlOf, Calls, Active
  <2>5. JobInv(c)'
    BY <1>1, <1>2, <1>7, <2>1, <2>2, <2>3, <2>4 DEF IInv, JobInv, OfKind, VersionsOf
  <2>6. /\ TypeInv' /\ ControlInv'
        /\ \A k \in 1..Len(rows') : RowInv(k)'
        /\ \A d \in Clients : JobInv(d)'
    BY <1>3, <2>1, <2>3, <2>4, <2>5, CoreStep
  <2>7. ApprovalKeptInv'
    BY <1>1, <1>2, <2>1, <2>3, <2>4, SameRowsKept
  <2>8. OneApprovedInv'
    <3>1. SUFFICES ASSUME NEW x \in 1..Len(rows), NEW y \in 1..Len(rows),
                          x # y, rows[x].artifact = rows[y].artifact, rows[x].artifact \notin torn',
                          rows[x].status = "APPROVED", rows[y].status = "APPROVED"
                   PROVE  \E d \in Clients : Explains(d, x, y)'
      BY <1>1 DEF OneApprovedInv, Approving, Active, Explains
    <3>2. CASE rows[x].artifact # a
      BY <1>5, <2>1, <3>1, <3>2
    <3>3. CASE rows[x].artifact = a
      <4>1. {x, y} \cap found # {}
        BY <1>4, <3>1, <3>3
      <4>2. QED
        BY <1>1, <2>1, <2>3, <2>4, <3>3, <4>1 DEF Explains
    <3>4. QED
      BY <3>2, <3>3
  <2>9. QED
    BY <2>6, <2>7, <2>8 DEF IInv
<1>8. QED
  BY <1>6, <1>7

LEMMA RetireStep ==
    ASSUME IInv, NEW c \in Clients, Retire(c)
    PROVE  IInv'
<1> DEFINE i == job[c].base
           a == rows[i].artifact
           left == job[c].retire \ {Min(job[c].retire)}
<1>1. /\ Stage(c) = "approve" /\ at[c] = "retire"
  BY DEF Retire, Running
<1>2. /\ IsJob(job[c]) /\ Len(rows) \in Nat /\ i \in 1..Len(rows)
      /\ rows[i].validation = "VALID" /\ todo[c] = <<"approve">> /\ Active(c)
  BY <1>1, ApprovalJob DEF Active
<1>3. /\ job[c].retire # {} /\ i \notin job[c].retire /\ job[c].retire \subseteq VersionsOf(a)
      /\ job[c].retire \in SUBSET Nat
  BY <1>1, <1>2 DEF IInv, JobInv, IsJob
<1>4. PICK k \in job[c].retire : k = Min(job[c].retire)
  BY <1>3, LeastElement
<1>5. /\ rows' = [rows EXCEPT ![k].status = "SUPERSEDED", ![k].superseded_by = i]
      /\ IF left = {} THEN Return(c)
         ELSE UNCHANGED <<todo, at>> /\ job' = [job EXCEPT ![c].retire = left]
      /\ UNCHANGED <<created, overlapped, torn>> /\ left = job[c].retire \ {k}
  BY <1>4 DEF Retire
<1>6. k \in 1..Len(rows) /\ rows[k].artifact = a /\ k # i
  BY <1>3, <1>4 DEF VersionsOf
<1> HIDE DEF left
<1>7. /\ \E S : rows' \in Seq(S)
      /\ Len(rows') = Len(rows)
      /\ \A x \in 1..Len(rows) : rows'[x].status = IF x = k THEN "SUPERSEDED" ELSE rows[x].status
      /\ \A x \in 1..Len(rows') : IsRow(rows'[x])
      /\ RowsKept
  <2>1. i \in Nat /\ "SUPERSEDED" \in {"APPROVED", "SUPERSEDED"} /\ TypeInv
    BY <1>2 DEF IInv
  <2>2. rows' = [rows EXCEPT ![k].status = "SUPERSEDED", ![k].superseded_by = i]
    BY <1>5
  <2> HIDE DEF i, a
  <2>3. QED
    BY <1>5, <1>6, <2>1, <2>2, StatusFacts
<1>8. /\ Others(c) /\ ControlOf(c)' /\ IsJob(job'[c]) /\ JobInv(c)'
      /\ Active(c)' => /\ at'[c] = "retire" /\ job'[c].retire = left /\ job'[c].base = i
      /\ left # {} => Active(c)'
  <2>1. CASE left = {}
    <3>1. Others(c) /\ AtRest(c)'
      BY <1>5, <2>1, ReturnFacts DEF IInv
    <3>2. QED
      BY <2>1, <3>1, RestFacts
  <2>2. CASE left # {}
    <3>1. /\ Others(c) /\ todo'[c] = todo[c] /\ at'[c] = at[c]
          /\ job'[c] = [job[c] EXCEPT !.retire = left]
      BY <1>5, <2>2 DEF IInv, TypeInv, Others
    <3>2. IsJob(job'[c]) /\ job'[c].retire = left /\ job'[c].base = i /\ job'[c].own = job[c].own
      BY <1>2, <1>3, <1>5, <3>1 DEF IsJob
    <3>3. Stage(c)' = "approve" /\ ControlOf(c)' /\ Active(c)'
      BY <1>1, <1>2, <3>1 DEF Stage, ControlOf, Calls, Active
    <3>4. /\ rows'[i].validation = "VALID" /\ i \in 1..Len(rows')
          /\ \A v \in left : v \in 1..Len(rows') /\ rows'[v].artifact = rows'[i].artifact
          /\ job[c].own # 0 => job[c].own \in 1..Len(rows') /\ rows'[job[c].own].kind = "PRD"
      BY <1>2, <1>3, <1>5, <1>7 DEF IInv, JobInv, OfKind, RowsKept, VersionsOf
    <3>5. JobInv(c)'
      BY <1>3, <1>5, <2>2, <3>1, <3>2, <3>3, <3>4 DEF JobInv, OfKind, VersionsOf
    <3>6. QED
      BY <1>1, <3>1, <3>2, <3>3, <3>5
  <2>3. QED
    BY <2>1, <2>2
<1>9. /\ TypeInv' /\ ControlInv'
      /\ \A x \in 1..Len(rows') : RowInv(x)'
      /\ \A d \in Clients : JobInv(d)'
  <2>1. \A x \in 1..Len(rows) : rows'[x].status = "APPROVED" => rows[x].validation = "VALID"
    BY <1>7 DEF IInv, RowInv
  <2>2. \A x \in 1..Len(rows') : ~(x > Len(rows))
    BY <1>2, <1>7
  <2>3. QED
    BY <1>7, <1>8, <2>1, <2>2, CoreStep
<1>10. \A x \in 1..Len(rows') :
          /\ x \in 1..Len(rows) /\ rows'[x].artifact = rows[x].artifact
          /\ x # k => rows'[x].status = rows[x].status
          /\ rows'[x].status = "APPROVED" => x # k
  BY <1>7 DEF RowsKept
<1>11. OneApprovedInv'
  <2>1. SUFFICES ASSUME NEW x \in 1..Len(rows'), NEW y \in 1..Len(rows'),
                        x # y, rows'[x].artifact = rows'[y].artifact,
                        rows'[x].artifact \notin torn',
                        rows'[x].status = "APPROVED", rows'[y].status = "APPROVED"
                 PROVE  \E d \in Clients : Explains(d, x, y)'
    BY DEF OneApprovedInv, Approving, Active, Explains
  <2>2. PICK d \in Clients : Explains(d, x, y)
    BY <1>5, <1>10, <2>1 DEF IInv, OneApprovedInv, Approving, Active, Explains
  <2>3. CASE d # c
    BY <1>7, <1>8, <1>10, <2>2, <2>3, OtherApprovals DEF Explains
  <2>4. CASE d = c
    <3>1. {x, y} \cap left # {}
      BY <1>1, <1>5, <1>10, <2>1, <2>2, <2>4 DEF Explains
    <3>2. rows'[i].artifact = rows'[x].artifact
      BY <1>2, <1>7, <1>10, <2>2, <2>4 DEF Explains
    <3>3. QED
      BY <1>8, <3>1, <3>2 DEF Explains
  <2>5. QED
    BY <2>3, <2>4
<1>12. ApprovalKeptInv'
  <2>1. a \notin overlapped => rows[i].status = "APPROVED" /\ rows'[i].status = "APPROVED"
    BY <1>2, <1>6, <1>7 DEF IInv, ApprovalKeptInv
  <2>2. ASSUME NEW d \in Clients, Active(d)', rows'[job'[d].base].artifact \notin overlapped'
        PROVE  /\ Active(d) /\ rows'[job'[d].base].artifact = rows[job[d].base].artifact
               /\ rows'[job'[d].base].status = "APPROVED"
    <3>1. /\ Active(d) /\ job'[d].base = job[d].base /\ job[d].base \in 1..Len(rows)
          /\ rows'[job'[d].base].artifact = rows[job[d].base].artifact
      <4>1. CASE d = c
        BY <1>2, <1>7, <1>8, <1>10, <2>2, <4>1
      <4>2. CASE d # c
        BY <1>7, <1>8, <2>2, <4>2, OtherApprovals
      <4>3. QED
        BY <4>1, <4>2
    <3>2. rows[job[d].base].status = "APPROVED" /\ rows[job[d].base].artifact \notin overlapped
      BY <1>5, <2>2, <3>1 DEF IInv, ApprovalKeptInv
    <3>3. job[d].base # k
      <4>1. CASE rows[job[d].base].artifact = a
        BY <1>2, <1>6, <3>1, <3>2, <4>1 DEF IInv, ApprovalKeptInv
      <4>2. CASE rows[job[d].base].artifact # a
        BY <1>6, <4>2
      <4>3. QED
        BY <4>1, <4>2
    <3>4. QED
      BY <1>7, <3>1, <3>2, <3>3
  <2>3. ApprovalKept'
    <3>1. SUFFICES ASSUME NEW x \in 1..Len(rows'),
                          rows'[x].status = "SUPERSEDED", rows'[x].artifact \notin overlapped'
                   PROVE  \E y \in 1..Len(rows') : /\ rows'[y].artifact = rows'[x].artifact
                                                   /\ rows'[y].status = "APPROVED"
      BY DEF ApprovalKept, VersionsOf
    <3>2. CASE rows[x].artifact = a
      BY <1>2, <1>5, <1>7, <1>10, <2>1, <3>1, <3>2
    <3>3. CASE rows[x].artifact # a
      <4>1. x # k /\ rows[x].status = "SUPERSEDED" /\ rows[x].artifact \notin overlapped
        BY <1>5, <1>6, <1>10, <3>1, <3>3
      <4>2. PICK y \in 1..Len(rows) : rows[y].artifact = rows[x].artifact /\ rows[y].status = "APPROVED"
        BY <1>10, <4>1 DEF IInv, ApprovalKeptInv, ApprovalKept, VersionsOf
      <4>3. QED
        BY <1>6, <1>7, <1>10, <3>3, <4>2
    <3>4. QED
      BY <3>2, <3>3
  <2>4. \A d, e \in Clients :
          /\ Active(d)' /\ Active(e)'
          /\ rows'[job'[d].base].artifact = rows'[job'[e].base].artifact
          /\ rows'[job'[d].base].artifact \notin overlapped'
          => d = e
    <3>1. \A d, e \in Clients :
            /\ Active(d) /\ Active(e) /\ rows[job[d].base].artifact = rows[job[e].base].artifact
            /\ rows[job[d].base].artifact \notin overlapped
            => d = e
      BY DEF IInv, ApprovalKeptInv
    <3>2. overlapped' = overlapped
      BY <1>5
    <3>3. QED
      BY <2>2, <3>1, <3>2
  <2>5. QED
    BY <2>2, <2>3, <2>4 DEF ApprovalKeptInv
<1>13. QED
  BY <1>9, <1>11, <1>12 DEF IInv

LEMMA KillStep ==
    ASSUME IInv, NEW c \in Clients, Kill(c)
    PROVE  IInv'
<1>1. /\ Return(c) /\ UNCHANGED <<rows, created, overlapped>>
      /\ torn' = IF Active(c) THEN torn \cup {rows[job[c].base].artifact} ELSE torn
  BY DEF Kill, Active
<1>2. CASE ~Active(c)
  BY <1>1, <1>2, ReturnStep
<1>3. CASE Active(c)
  <2>1. Others(c) /\ AtRest(c)'
    BY <1>1, ReturnFacts DEF IInv
  <2>2. ~Active(c)' /\ ControlOf(c)' /\ IsJob(job'[c]) /\ JobInv(c)'
    BY <2>1, RestFacts
  <2>3. /\ RowsKept /\ \E S : rows' \in Seq(S)
        /\ \A k \in 1..Len(rows') : IsRow(rows'[k])
        /\ \A k \in 1..Len(rows') : ~(k > Len(rows))
        /\ \A k \in 1..Len(rows) : rows'[k].status = "APPROVED" => rows[k].validation = "VALID"
    BY <1>1, SameRows DEF IInv, TypeInv, RowInv
  <2>4. /\ TypeInv' /\ ControlInv'
        /\ \A k \in 1..Len(rows') : RowInv(k)'
        /\ \A d \in Clients : JobInv(d)'
    BY <2>1, <2>2, <2>3, CoreStep
  <2>5. ApprovalKeptInv'
    <3>1. UNCHANGED <<rows, created, overlapped>> /\ ~Active(c)'
      BY <1>1, <2>2
    <3>2. QED
      BY <2>1, <3>1, SameRowsKept
  <2>6. OneApprovedInv'
    <3>1. SUFFICES ASSUME NEW x \in 1..Len(rows), NEW y \in 1..Len(rows),
                          x # y, rows[x].artifact = rows[y].artifact, rows[x].artifact \notin torn',
                          rows[x].status = "APPROVED", rows[y].status = "APPROVED"
                   PROVE  \E d \in Clients : Explains(d, x, y)'
      BY <1>1 DEF OneApprovedInv, Approving, Active, Explains
    <3>2. PICK d \in Clients : Explains(d, x, y)
      BY <1>1, <1>3, <3>1 DEF IInv, OneApprovedInv, Approving, Active, Explains
    <3>3. d # c
      BY <1>1, <1>3, <3>1, <3>2 DEF Explains
    <3>4. QED
      BY <1>1, <2>1, <2>3, <3>2, <3>3, OtherApprovals DEF Explains
  <2>7. QED
    BY <2>4, <2>5, <2>6 DEF IInv
<1>4. QED
  BY <1>2, <1>3

LEMMA NextIInv == IInv /\ [Next]_vars => IInv'
<1> SUFFICES ASSUME IInv, [Next]_vars PROVE IInv'
  OBVIOUS
<1>1. ASSUME NEW c \in Clients,
             \/ Call(c) \/ StageFails(c) \/ CreatePrd(c) \/ Require(c) \/ CreateUx(c)
             \/ ReadUx(c) \/ CreateArchitecture(c) \/ SavePlan(c)
      PROVE  IInv'
  BY <1>1, CallStep, StageFailsStep, CreatePrdStep, RequireStep, CreateUxStep, ReadUxStep,
     CreateArchitectureStep, SavePlanStep
<1>2. ASSUME NEW c \in Clients, NEW i \in 1..Len(rows), ReadForRevision(c, i) \/ GetForApproval(c, i)
      PROVE  IInv'
  BY <1>2, ReadForRevisionStep, GetForApprovalStep
<1>3. ASSUME NEW c \in Clients,
             SaveRevision(c) \/ WriteApproved(c) \/ ScanVersions(c) \/ Retire(c) \/ Kill(c)
      PROVE  IInv'
  BY <1>3, SaveRevisionStep, WriteApprovedStep, ScanVersionsStep, RetireStep, KillStep
<1>4. CASE UNCHANGED vars
  <2> USE <1>4 DEF vars
  <2>1. TypeInv' /\ ControlInv'
    BY DEF IInv, TypeInv, Places, ControlInv, ControlOf, Stage
  <2>2. \A i \in 1..Len(rows') : RowInv(i)'
    BY DEF IInv, RowInv, AfterOwnUx, OfKind
  <2>3. \A c \in Clients : JobInv(c)'
    BY DEF IInv, JobInv, OfKind, VersionsOf, AfterOwnUx, Stage
  <2>4. OneApprovedInv' /\ ApprovalKeptInv'
    BY DEF IInv, OneApprovedInv, ApprovalKeptInv, ApprovalKept, Approving, Active, VersionsOf, Stage
  <2>5. QED
    BY <2>1, <2>2, <2>3, <2>4 DEF IInv
<1>5. QED
  BY <1>1, <1>2, <1>3, <1>4 DEF Next

LEMMA Invariant == Spec => []IInv
<1>1. Init => IInv
  BY InitIInv
<1>2. IInv /\ [Next]_vars => IInv'
  BY NextIInv
<1>3. QED
  BY <1>1, <1>2, PTL DEF Spec

-----------------------------------------------------------------------------
(* What the coverage gate decides *)

LEMMA NoGapIsCoverage ==
    ASSUME NEW r, NEW kind, NEW doc, AppliesTo(r, kind),
           CoverageState(r, kind, doc) \notin {"MISSING", "PARTIALLY_COVERED", "CONTRADICTED"}
    PROVE  r.id \in StrongEvidence(kind, doc) /\ ~FindConflicts(r.properties, doc.properties)
<1> DEFINE strong == r.id \in StrongEvidence(kind, doc)
           named == strong \/ r.id \in WeakEvidence(kind, doc)
           clash == FindConflicts(r.properties, doc.properties)
<1>1. CASE ~named
  BY <1>1 DEF CoverageState
<1>2. CASE named /\ clash
  BY <1>2 DEF CoverageState
<1>3. CASE named /\ ~strong /\ ~clash
  BY <1>3 DEF CoverageState
<1>4. CASE strong /\ ~clash
  BY <1>4
<1>5. QED
  BY <1>1, <1>2, <1>3, <1>4

LEMMA GateFacts ==
    ASSUME NEW kind, NEW doc, NEW prd, NEW complete,
           GatedValidation(kind, doc, prd, complete) = "VALID"
    PROVE  /\ complete /\ Parses(kind, doc)
           /\ \A r \in prd : AppliesTo(r, kind) /\ r.priority = "MUST" =>
                 /\ r.id \in StrongEvidence(kind, doc)
                 /\ ~FindConflicts(r.properties, doc.properties)
<1>1. complete /\ \A r \in Gaps(prd, kind, doc) : ~GapBlocks(r, kind, doc)
  BY DEF GatedValidation
<1>2. Validate(kind, doc, prd) = "VALID"
  BY <1>1 DEF GatedValidation
<1>3. Parses(kind, doc)
  BY <1>2 DEF Validate
<1>4. ASSUME NEW r \in prd, AppliesTo(r, kind), r.priority = "MUST"
      PROVE  r \notin Gaps(prd, kind, doc)
  BY <1>1, <1>4 DEF GapBlocks, Criticality
<1>5. QED
  BY <1>1, <1>3, <1>4, NoGapIsCoverage DEF Gaps

-----------------------------------------------------------------------------
(* The theorems *)

\* ArtifactService._apply_coverage and the STAGE_INCOMPLETE issues decide what
\* ArtifactStore.approve may accept: an approved UX specification or
\* architecture of the decomposed path parses, misses no stage, and names every
\* critical requirement of the PRD it was derived from, whatever was drafted
\* and however the calls interleave.
THEOREM ApprovalCoversCritical == Spec => []ApprovedCoversCritical
<1>1. IInv => ApprovedCoversCritical
  <2>1. SUFFICES ASSUME IInv, NEW i \in 1..Len(rows),
                        rows[i].status = "APPROVED", rows[i].gated
                 PROVE  /\ rows[i].complete
                        /\ Parses(rows[i].kind, rows[i].body)
                        /\ \A r \in rows[rows[i].prd].body :
                             AppliesTo(r, rows[i].kind) /\ r.priority = "MUST" =>
                               /\ r.id \in StrongEvidence(rows[i].kind, rows[i].body)
                               /\ ~FindConflicts(r.properties, rows[i].body.properties)
    BY DEF ApprovedCoversCritical
  <2>2. GatedValidation(rows[i].kind, rows[i].body, rows[rows[i].prd].body,
                        rows[i].complete) = "VALID"
    BY <2>1 DEF IInv, RowInv
  <2>3. QED
    BY <2>2, GateFacts
<1>2. QED
  BY <1>1, Invariant, PTL

\* ProductService._require and run_pipeline read the latest artifact: nothing
\* is derived from an INVALID PRD, a plan and its architecture rest on one PRD,
\* and a run never goes on from a PRD or a UX specification created before its
\* own, whatever the clocks stamped and however the processes interleave.
THEOREM LineageIsSound == Spec => []LineageSound
<1>1. IInv => LineageSound
  <2>1. SUFFICES ASSUME IInv, NEW i \in 1..Len(rows)
                 PROVE  /\ rows[i].kind # "PRD" =>
                             /\ rows[rows[i].prd].kind = "PRD"
                             /\ rows[rows[i].prd].validation # "INVALID"
                        /\ rows[i].kind = "IMPLEMENTATION_PLAN" =>
                             /\ rows[rows[i].base].kind = "SYSTEM_ARCHITECTURE"
                             /\ rows[rows[i].base].prd = rows[i].prd
                        /\ rows[i].kind # "PRD" /\ rows[i].own # 0 =>
                             created[rows[i].own] <= created[rows[i].prd]
                        /\ rows[i].kind = "SYSTEM_ARCHITECTURE" /\ rows[i].own # 0 =>
                             /\ rows[i].base # 0 /\ rows[rows[i].base].kind = "UX_SPEC"
                             /\ \E u \in OfKind("UX_SPEC") :
                                  /\ rows[u].own = rows[i].own
                                  /\ created[u] <= created[rows[i].base]
    BY DEF LineageSound
  <2>2. RowInv(i)
    BY <2>1 DEF IInv
  <2>3. rows[i].kind = "SYSTEM_ARCHITECTURE" /\ rows[i].own # 0 =>
          /\ rows[i].base # 0 /\ rows[rows[i].base].kind = "UX_SPEC"
          /\ \E u \in OfKind("UX_SPEC") :
               rows[u].own = rows[i].own /\ created[u] <= created[rows[i].base]
    BY <2>2 DEF RowInv, AfterOwnUx, OfKind
  <2>4. QED
    BY <2>2, <2>3 DEF RowInv
<1>2. QED
  BY <1>1, Invariant, PTL

\* ArtifactStore.set_status retires every other approved version, one row at a
\* time: once the approvals of an artifact have ended, none of them killed, at
\* most one version is approved, however they interleaved.
THEOREM OneVersionApproved == Spec => []OneApproved
<1>1. IInv => OneApproved
  BY DEF IInv, OneApprovedInv, OneApproved
<1>2. QED
  BY <1>1, Invariant, PTL

\* ArtifactStore.set_status approves the new version before it retires the old:
\* at every moment, kills included, an artifact that was ever approved has an
\* approved version, unless two approvals of it overlapped.
THEOREM ApprovalIsKept == Spec => []ApprovalKept
<1>1. IInv => ApprovalKept
  BY DEF IInv, ApprovalKeptInv
<1>2. QED
  BY <1>1, Invariant, PTL
=============================================================================
