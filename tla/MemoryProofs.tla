----------------------------- MODULE MemoryProofs ----------------------------
(***************************************************************************)
(* Memory: the allowance of an execution, for every set of memories, every *)
(* limit and any number of kills, and the durable store, for any number of *)
(* processes, records and operations.                                      *)
(***************************************************************************)
EXTENDS MemoryGovernor, MemoryStore, FiniteSetTheorems, SequenceTheorems, TLAPS

-----------------------------------------------------------------------------
(* The allowance of an execution: the inductive invariant *)

TypeInv ==
    /\ pc \in {"idle", "choose", "refer", "granted", "recorded"}
    /\ consumed \in Nat /\ retrievals \in Nat /\ injected \in SUBSET Memories
    /\ ledger \in [chars : Nat, retrievals : Nat, injected : SUBSET Memories]
    /\ candidates \in Seq(Memories) /\ suppressed \in Seq(Memories)
    /\ selected \in SUBSET Memories /\ referred \in Seq(Memories)
    /\ spent \in Nat /\ length \in Nat
    /\ shown \in Nat /\ sent \in SUBSET Memories /\ repeated \in BOOLEAN
    /\ restarts \in Nat

\* The budget in memory is the ledger's, except between charging and recording.
LedgerInv ==
    /\ pc # "granted" => /\ consumed = ledger.chars
                         /\ retrievals = ledger.retrievals
                         /\ injected = ledger.injected
    /\ pc = "granted" => /\ consumed = ledger.chars + length
                         /\ retrievals = ledger.retrievals + 1
                         /\ injected = ledger.injected \cup selected

\* What reached prompts is recorded; what is about to was recorded first.
PromptInv ==
    /\ shown + (IF pc = "recorded" THEN length ELSE 0) <= ledger.chars
    /\ sent \subseteq ledger.injected
    /\ pc = "recorded" => selected \subseteq ledger.injected
    /\ pc # "idle" => selected \cap sent = {}
    /\ pc \in {"choose", "refer"} => selected \cap injected = {}
    /\ ~repeated

LimitInv ==
    /\ consumed <= MaxTotalChars + Shortfall
    /\ retrievals <= MaxRetrievals
    /\ Cardinality(injected) <= MaxTotalMemories

\* The candidates of _admit, and how the estimate relates to the text.
AdmissionInv ==
    /\ pc = "idle" => /\ candidates = <<>> /\ suppressed = <<>> /\ referred = <<>>
                      /\ selected = {} /\ spent = 0 /\ length = 0
    /\ pc \in {"choose", "refer"} =>
          /\ ~Exhausted
          /\ Cardinality(selected) <= MemoriesAllowedNow
          /\ Len(candidates) + Len(suppressed) + Len(referred) <= MaxMemoriesPerRetrieval + 1
          /\ spent <= CharsAllowedNow
          /\ length = 0 => spent = 0 /\ selected = {} /\ referred = <<>>
          /\ length > 0 => length + 1 = spent + Len(referred)
    /\ pc = "choose" => referred = <<>>
    /\ pc \in {"granted", "recorded"} =>
          /\ length <= MaxCharsPerRetrieval + Shortfall
          /\ Len(referred) <= 1 => length <= MaxCharsPerRetrieval

IInv == TypeInv /\ LedgerInv /\ PromptInv /\ LimitInv /\ AdmissionInv

-----------------------------------------------------------------------------

LEMMA Finite ==
    ASSUME NEW S \in SUBSET Memories
    PROVE  IsFiniteSet(S) /\ Cardinality(S) \in Nat
BY SizesAssumption, FS_Subset, FS_CardinalityType

LEMMA InitIInv == Init => IInv
<1> SUFFICES ASSUME Init PROVE IInv
  OBVIOUS
<1> USE DEF Init
<1>1. TypeInv
  <2>1. ledger \in [chars : Nat, retrievals : Nat, injected : SUBSET Memories]
    OBVIOUS
  <2>2. <<>> \in Seq(Memories)
    OBVIOUS
  <2>3. QED
    BY <2>1, <2>2 DEF TypeInv
<1>2. LedgerInv /\ PromptInv
  BY DEF LedgerInv, PromptInv
<1>3. LimitInv
  BY FS_EmptySet, BudgetAssumption DEF LimitInv, Shortfall
<1>4. AdmissionInv
  BY DEF AdmissionInv
<1>5. QED
  BY <1>1, <1>2, <1>3, <1>4 DEF IInv

\* The arithmetic of the ceilings while the budget is not exhausted.
LEMMA Ceilings ==
    ASSUME TypeInv, ~Exhausted
    PROVE  /\ CharsAllowedNow \in Nat /\ CharsAllowedNow <= MaxCharsPerRetrieval
           /\ CharsAllowedNow + consumed <= MaxTotalChars
           /\ MemoriesAllowedNow \in Nat /\ MemoriesAllowedNow <= MaxMemoriesPerRetrieval
           /\ MemoriesAllowedNow + Cardinality(injected) <= MaxTotalMemories
           /\ retrievals + 1 <= MaxRetrievals
<1>1. Cardinality(injected) \in Nat
  BY Finite DEF TypeInv
<1>2. QED
  BY <1>1, BudgetAssumption
  DEF TypeInv, Exhausted, CharsAllowedNow, MemoriesAllowedNow, Lesser

LEMMA RequestStep ==
    ASSUME IInv, NEW c \in Retrievable, Request(c)
    PROVE  IInv'
<1> USE DEF Request, budget, prompts
<1>1. c \in Seq(Memories) /\ Len(c) \in Nat /\ Len(c) <= MaxMemoriesPerRetrieval + 1
  <2>1. MemoriesAllowedNow \in Nat /\ MemoriesAllowedNow <= MaxMemoriesPerRetrieval
    BY Ceilings DEF IInv
  <2>2. PICK n \in 0 .. (MemoriesAllowedNow + 1) : c \in [1 .. n -> Memories]
    BY DEF Retrievable, SeqOf
  <2>3. c \in Seq(Memories) /\ Len(c) = n
    BY <2>1, <2>2
  <2>4. QED
    BY <2>1, <2>2, <2>3, BudgetAssumption
<1>2. TypeInv'
  BY <1>1 DEF IInv, TypeInv
<1>3. LedgerInv' /\ LimitInv'
  BY DEF IInv, LedgerInv, LimitInv
<1>4. PromptInv'
  BY DEF IInv, PromptInv, AdmissionInv
<1>5. AdmissionInv'
  <2>1. ~Exhausted' /\ MemoriesAllowedNow' = MemoriesAllowedNow
        /\ CharsAllowedNow' = CharsAllowedNow
    BY DEF Exhausted, MemoriesAllowedNow, CharsAllowedNow
  <2>2. CharsAllowedNow \in Nat /\ MemoriesAllowedNow \in Nat
    BY Ceilings DEF IInv
  <2>3. Cardinality({}) = 0
    BY FS_EmptySet
  <2>4. pc = "idle" /\ suppressed' = <<>> /\ referred' = <<>> /\ selected' = {}
        /\ spent' = 0 /\ length' = 0 /\ pc' = "choose" /\ candidates' = c
    BY DEF IInv, AdmissionInv
  <2>5. Len(candidates') + Len(suppressed') + Len(referred') <= MaxMemoriesPerRetrieval + 1
    BY <1>1, <2>4, BudgetAssumption
  <2>6. QED
    BY <2>1, <2>2, <2>3, <2>4, <2>5 DEF AdmissionInv
<1>6. QED
  BY <1>2, <1>3, <1>4, <1>5 DEF IInv

\* The ceilings do not move while _admit runs.
LEMMA CeilingsStay ==
    ASSUME UNCHANGED budget
    PROVE  /\ Exhausted' <=> Exhausted
           /\ CharsAllowedNow' = CharsAllowedNow
           /\ MemoriesAllowedNow' = MemoriesAllowedNow
BY DEF budget, Exhausted, CharsAllowedNow, MemoriesAllowedNow

LEMMA ChooseStep ==
    ASSUME IInv, Choose
    PROVE  IInv'
<1> DEFINE m == Head(candidates)
<1> USE DEF Choose, prompts
<1>1. /\ pc = "choose" /\ pc' = "choose" /\ UNCHANGED budget
      /\ candidates \in Seq(Memories) /\ m \in Memories
      /\ candidates' \in Seq(Memories) /\ Len(candidates') + 1 = Len(candidates)
      /\ Len(candidates) \in Nat /\ Len(candidates') \in Nat
  BY DEF IInv, TypeInv
<1>2. /\ ~Exhausted /\ ~Exhausted'
      /\ CharsAllowedNow' = CharsAllowedNow /\ MemoriesAllowedNow' = MemoriesAllowedNow
      /\ CharsAllowedNow \in Nat /\ MemoriesAllowedNow \in Nat
  BY <1>1, CeilingsStay, Ceilings DEF IInv, AdmissionInv
<1>3. /\ Size[m] \in Nat /\ Size[m] > 0
  BY <1>1, SizesAssumption
<1>4. LimitInv' /\ LedgerInv'
  BY <1>1 DEF IInv, LimitInv, LedgerInv, budget
<1>5. CASE Suppress(m)
  <2>1. suppressed' \in Seq(Memories) /\ Len(suppressed') = Len(suppressed) + 1
        /\ Len(suppressed) \in Nat
    BY <1>1, <1>5 DEF IInv, TypeInv, Suppress
  <2>2. TypeInv'
    BY <1>1, <1>5, <2>1 DEF IInv, TypeInv, Suppress, budget
  <2>3. PromptInv'
    BY <1>1, <1>5 DEF IInv, PromptInv, Suppress, budget
  <2>4. AdmissionInv'
    BY <1>1, <1>2, <1>5, <2>1, BudgetAssumption DEF IInv, TypeInv, AdmissionInv, Suppress
  <2>5. QED
    BY <1>4, <2>2, <2>3, <2>4 DEF IInv
<1>6. CASE Select(m)
  <2>1. /\ m \notin injected /\ selected' = selected \cup {m}
        /\ spent' = spent + Size[m] + 1 /\ spent' <= CharsAllowedNow
        /\ spent \in Nat /\ spent' \in Nat /\ length \in Nat
    BY <1>3, <1>6 DEF IInv, TypeInv, Select, Fits, RenderCost, Known
  <2>2. length' = (IF length = 0 THEN Size[m] ELSE length + 1 + Size[m])
        /\ length' \in Nat /\ length' > 0
    BY <1>3, <1>6, <2>1 DEF Select, Joined
  <2>3. Cardinality(selected') <= MemoriesAllowedNow
    <3>1. IsFiniteSet(selected) /\ Cardinality(selected) \in Nat
      BY Finite DEF IInv, TypeInv
    <3>2. Cardinality(selected) < MemoriesAllowedNow
      BY <1>6 DEF Select
    <3>3. Cardinality(selected') \in {Cardinality(selected), Cardinality(selected) + 1}
      BY <2>1, <3>1, FS_AddElement
    <3>4. QED
      BY <1>2, <3>1, <3>2, <3>3
  <2>4. TypeInv'
    BY <1>1, <1>6, <2>1, <2>2 DEF IInv, TypeInv, Select, budget
  <2>5. PromptInv'
    BY <1>1, <1>6, <2>1 DEF IInv, PromptInv, LedgerInv, Select, budget
  <2>6. length' + 1 = spent' + Len(referred')
    BY <1>1, <1>3, <1>6, <2>1, <2>2 DEF IInv, AdmissionInv
  <2>7. AdmissionInv'
    BY <1>1, <1>2, <1>6, <2>1, <2>2, <2>3, <2>6, BudgetAssumption
    DEF IInv, TypeInv, AdmissionInv, Select
  <2>8. QED
    BY <1>4, <2>4, <2>5, <2>7 DEF IInv
<1>7. CASE Skip(m)
  <2>1. TypeInv'
    BY <1>1, <1>7 DEF IInv, TypeInv, Skip, budget
  <2>2. PromptInv'
    BY <1>1, <1>7 DEF IInv, PromptInv, Skip, budget
  <2>3. AdmissionInv'
    BY <1>1, <1>2, <1>7, BudgetAssumption DEF IInv, TypeInv, AdmissionInv, Skip
  <2>4. QED
    BY <1>4, <2>1, <2>2, <2>3 DEF IInv
<1>8. QED
  BY <1>5, <1>6, <1>7

LEMMA ReferStep ==
    ASSUME IInv, Refer
    PROVE  IInv'
<1> DEFINE m == Head(suppressed)
<1> USE DEF Refer, prompts
<1>1. /\ pc = "refer" /\ pc' = "refer" /\ UNCHANGED budget
      /\ suppressed \in Seq(Memories) /\ m \in Memories
      /\ suppressed' \in Seq(Memories) /\ Len(suppressed') + 1 = Len(suppressed)
      /\ referred' \in Seq(Memories) /\ Len(referred') = Len(referred) + 1
      /\ Len(suppressed) \in Nat /\ Len(suppressed') \in Nat /\ Len(referred) \in Nat
  BY DEF IInv, TypeInv
<1>2. /\ ~Exhausted /\ ~Exhausted'
      /\ CharsAllowedNow' = CharsAllowedNow /\ MemoriesAllowedNow' = MemoriesAllowedNow
      /\ CharsAllowedNow \in Nat /\ MemoriesAllowedNow \in Nat
  BY <1>1, CeilingsStay, Ceilings DEF IInv, AdmissionInv
<1>3. /\ RefSize[m] \in Nat /\ RefSize[m] > 0
  BY <1>1, SizesAssumption
<1>4. LimitInv' /\ LedgerInv'
  BY <1>1 DEF IInv, LimitInv, LedgerInv, budget
<1>5. /\ spent' = spent + RefSize[m] /\ spent' <= CharsAllowedNow
      /\ spent \in Nat /\ spent' \in Nat /\ length \in Nat
      /\ length' \in Nat /\ length' > 0
      /\ length = 0 => length' = RefSize[m]
      /\ length # 0 => length' = length + 1 + RefSize[m]
  <2>1. spent \in Nat /\ length \in Nat
    BY DEF IInv, TypeInv
  <2>2. Fits(ReferenceCost(m)) /\ spent' = spent + ReferenceCost(m) /\ length' = Joined(RefSize[m])
    OBVIOUS
  <2>3. spent' = spent + RefSize[m] /\ spent' <= CharsAllowedNow
    BY <2>2 DEF Fits, ReferenceCost
  <2>4. length' = IF length = 0 THEN RefSize[m] ELSE length + 1 + RefSize[m]
    BY <2>2 DEF Joined
  <2> HIDE DEF m, Refer
  <2>5. QED
    BY <1>3, <2>1, <2>3, <2>4
<1>6. TypeInv'
  BY <1>1, <1>5 DEF IInv, TypeInv, budget
<1>7. PromptInv'
  BY <1>1 DEF IInv, PromptInv, budget
<1>8. /\ candidates' = candidates /\ selected' = selected /\ Len(candidates) \in Nat
      /\ Cardinality(selected) <= MemoriesAllowedNow
      /\ Len(candidates) + Len(suppressed) + Len(referred) <= MaxMemoriesPerRetrieval + 1
      /\ length = 0 => spent = 0 /\ referred = <<>>
      /\ length > 0 => length + 1 = spent + Len(referred)
  BY <1>1 DEF IInv, TypeInv, AdmissionInv
<1> HIDE DEF m, Refer
<1>9. length' + 1 = spent' + Len(referred')
  <2>1. length = 0 => Len(referred) = 0
    BY <1>8
  <2>2. PICK r \in Nat : r = RefSize[m]
    BY <1>3
  <2>3. PICK k \in Nat : k = Len(referred) /\ Len(referred') = k + 1
    BY <1>1
  <2>4. CASE length = 0
    <3>1. k = 0 /\ spent = 0 /\ length' = r /\ spent' = r
      BY <1>5, <1>8, <2>1, <2>2, <2>3, <2>4
    <3>2. QED
      BY <2>3, <3>1
  <2>5. CASE length # 0
    <3>1. length > 0
      BY <1>5, <2>5
    <3>2. length + 1 = spent + k
      BY <1>8, <2>3, <3>1
    <3>3. length' = length + 1 + r /\ spent' = spent + r
      BY <1>5, <2>2, <2>5
    <3>4. length \in Nat /\ spent \in Nat
      BY <1>5
    <3>5. QED
      BY <2>3, <3>2, <3>3, <3>4
  <2>6. QED
    BY <2>4, <2>5
<1>10. AdmissionInv'
  <2>1. Len(candidates') + Len(suppressed') + Len(referred') <= MaxMemoriesPerRetrieval + 1
    BY <1>1, <1>8, BudgetAssumption
  <2>2. QED
    BY <1>1, <1>2, <1>5, <1>8, <1>9, <2>1 DEF AdmissionInv
<1>11. QED
  BY <1>4, <1>6, <1>7, <1>10 DEF IInv

\* The text that is charged fits the ceiling up to the references' newlines.
LEMMA GrantStep ==
    ASSUME IInv, Grant
    PROVE  IInv'
<1> USE DEF Grant, prompts, admission
<1>1. /\ pc = "refer" /\ pc' = "granted" /\ UNCHANGED <<ledger, admission, prompts>>
      /\ length \in Nat /\ spent \in Nat /\ consumed \in Nat /\ retrievals \in Nat
      /\ Len(referred) \in Nat /\ Len(suppressed) \in Nat /\ Len(candidates) \in Nat
  BY DEF IInv, TypeInv
<1>2. /\ ~Exhausted /\ CharsAllowedNow \in Nat /\ CharsAllowedNow <= MaxCharsPerRetrieval
      /\ CharsAllowedNow + consumed <= MaxTotalChars
      /\ MemoriesAllowedNow \in Nat
      /\ MemoriesAllowedNow + Cardinality(injected) <= MaxTotalMemories
      /\ retrievals + 1 <= MaxRetrievals
  BY <1>1, Ceilings DEF IInv, AdmissionInv
<1>3. length > 0 /\ length + 1 = spent + Len(referred) /\ spent <= CharsAllowedNow
      /\ Len(referred) <= MaxMemoriesPerRetrieval + 1
  BY <1>1, BudgetAssumption DEF IInv, AdmissionInv
<1>4. length <= CharsAllowedNow + MaxMemoriesPerRetrieval
      /\ (Len(referred) <= 1 => length <= CharsAllowedNow)
  BY <1>1, <1>2, <1>3, BudgetAssumption
<1>5. TypeInv'
  BY <1>1 DEF IInv, TypeInv
<1>6. LedgerInv'
  BY <1>1 DEF IInv, LedgerInv
<1>7. PromptInv'
  BY <1>1 DEF IInv, PromptInv
<1>8. LimitInv'
  <2>1. Cardinality(injected') <= MaxTotalMemories
    <3>1. IsFiniteSet(injected) /\ Cardinality(injected) \in Nat
          /\ IsFiniteSet(selected) /\ Cardinality(selected) \in Nat
          /\ Cardinality(injected \cap selected) \in Nat
      BY Finite DEF IInv, TypeInv
    <3>2. Cardinality(injected \cup selected)
            = Cardinality(injected) + Cardinality(selected) - Cardinality(injected \cap selected)
      BY <3>1, FS_Union
    <3>3. Cardinality(selected) <= MemoriesAllowedNow
      BY <1>1 DEF IInv, AdmissionInv
    <3>4. QED
      BY <1>2, <3>1, <3>2, <3>3, BudgetAssumption
  <2>2. consumed' <= MaxTotalChars + MaxMemoriesPerRetrieval
    BY <1>1, <1>2, <1>4, BudgetAssumption
  <2>3. QED
    BY <1>2, <2>1, <2>2 DEF LimitInv, Shortfall
<1>9. AdmissionInv'
  BY <1>1, <1>2, <1>4, BudgetAssumption DEF AdmissionInv, Shortfall
<1>10. QED
  BY <1>5, <1>6, <1>7, <1>8, <1>9 DEF IInv

\* An admission that is over leaves nothing behind.
LEMMA Cleared ==
    ASSUME NoAdmission, pc' = "idle"
    PROVE  /\ AdmissionInv'
           /\ candidates' \in Seq(Memories) /\ suppressed' \in Seq(Memories)
           /\ referred' \in Seq(Memories) /\ selected' \in SUBSET Memories
           /\ spent' \in Nat /\ length' \in Nat
BY DEF NoAdmission, AdmissionInv

LEMMA OtherSteps ==
    ASSUME IInv, EndChoose \/ Refuse \/ RecordGrant \/ Send
    PROVE  IInv'
<1> USE DEF budget, prompts, admission
<1>1. CASE EndChoose
  <2>1. TypeInv' /\ LedgerInv' /\ PromptInv' /\ LimitInv'
    BY <1>1 DEF EndChoose, IInv, TypeInv, LedgerInv, PromptInv, LimitInv
  <2>2. AdmissionInv'
    BY <1>1, CeilingsStay DEF EndChoose, IInv, AdmissionInv
  <2>3. QED
    BY <2>1, <2>2 DEF IInv
<1>2. CASE Refuse
  <2>1. AdmissionInv' /\ TypeInv'
    BY <1>2, Cleared DEF Refuse, IInv, TypeInv
  <2>2. LedgerInv' /\ PromptInv' /\ LimitInv'
    BY <1>2 DEF Refuse, IInv, LedgerInv, PromptInv, LimitInv
  <2>3. QED
    BY <2>1, <2>2 DEF IInv
<1>3. CASE RecordGrant
  <2>1. /\ ledger'.chars = ledger.chars + length
        /\ ledger'.retrievals = ledger.retrievals + 1
        /\ ledger'.injected = ledger.injected \cup selected
        /\ ledger' \in [chars : Nat, retrievals : Nat, injected : SUBSET Memories]
    BY <1>3 DEF RecordGrant, IInv, TypeInv
  <2>2. TypeInv' /\ LedgerInv' /\ LimitInv'
    BY <1>3, <2>1 DEF RecordGrant, IInv, TypeInv, LedgerInv, LimitInv
  <2>3. PromptInv'
    BY <1>3, <2>1 DEF RecordGrant, IInv, TypeInv, LedgerInv, PromptInv
  <2>4. AdmissionInv'
    BY <1>3 DEF RecordGrant, IInv, AdmissionInv
  <2>5. QED
    BY <2>2, <2>3, <2>4 DEF IInv
<1>4. CASE Send
  <2>1. AdmissionInv' /\ TypeInv'
    BY <1>4, Cleared DEF Send, IInv, TypeInv
  <2>2. LedgerInv' /\ LimitInv'
    BY <1>4 DEF Send, IInv, LedgerInv, LimitInv
  <2>3. PromptInv'
    BY <1>4 DEF Send, IInv, TypeInv, PromptInv, NoAdmission
  <2>4. QED
    BY <2>1, <2>2, <2>3 DEF IInv
<1>5. QED
  BY <1>1, <1>2, <1>3, <1>4

\* The ledger never claims more than the budget in memory, so resuming from
\* it keeps the limits.
LEMMA RestartStep ==
    ASSUME IInv, Restart
    PROVE  IInv'
<1> USE DEF Restart, Resumed, prompts
<1>1. AdmissionInv' /\ TypeInv'
  BY Cleared DEF IInv, TypeInv
<1>2. LedgerInv'
  BY DEF LedgerInv
<1>3. PromptInv'
  BY DEF IInv, TypeInv, PromptInv
<1>4. LimitInv'
  <2>1. ledger.chars <= consumed /\ ledger.retrievals <= retrievals
        /\ ledger.injected \subseteq injected
    BY DEF IInv, TypeInv, LedgerInv
  <2>2. Cardinality(ledger.injected) <= Cardinality(injected)
        /\ Cardinality(ledger.injected) \in Nat /\ Cardinality(injected) \in Nat
    BY <2>1, Finite, FS_Subset DEF IInv, TypeInv
  <2>3. QED
    BY <2>1, <2>2, BudgetAssumption DEF IInv, TypeInv, LimitInv, Shortfall
<1>5. QED
  BY <1>1, <1>2, <1>3, <1>4 DEF IInv

LEMMA NextIInv == IInv /\ [Next]_vars => IInv'
<1> SUFFICES ASSUME IInv, [Next]_vars PROVE IInv'
  OBVIOUS
<1>1. CASE UNCHANGED vars
  <2>1. UNCHANGED budget
    BY <1>1 DEF vars
  <2>2. TypeInv' /\ LedgerInv' /\ PromptInv' /\ LimitInv'
    BY <1>1 DEF vars, budget, admission, prompts, IInv, TypeInv, LedgerInv, PromptInv, LimitInv
  <2>3. AdmissionInv'
    BY <1>1, <2>1, CeilingsStay DEF vars, admission, IInv, AdmissionInv
  <2>4. QED
    BY <2>2, <2>3 DEF IInv
<1>2. CASE \E c \in Retrievable : Request(c)
  BY <1>2, RequestStep
<1>3. CASE Choose
  BY <1>3, ChooseStep
<1>4. CASE Refer
  BY <1>4, ReferStep
<1>5. CASE Grant
  BY <1>5, GrantStep
<1>6. CASE EndChoose \/ Refuse \/ RecordGrant \/ Send
  BY <1>6, OtherSteps
<1>7. CASE Restart
  BY <1>7, RestartStep
<1>8. QED
  BY <1>1, <1>2, <1>3, <1>4, <1>5, <1>6, <1>7 DEF Next

\* The budget, the ledger and the grant in progress agree at every step.
THEOREM GovernorInvariant == Spec => []IInv
<1>1. QED
  BY InitIInv, NextIInv, PTL DEF Spec

-----------------------------------------------------------------------------

\* However often a process is killed and restarted, one execution shows its
\* models no more memory than its limits, up to the references' newlines.
THEOREM BudgetSurvivesKills == Spec => []ShownWithinBudget
<1>1. IInv => ShownWithinBudget
  <2> SUFFICES ASSUME IInv PROVE ShownWithinBudget
    OBVIOUS
  <2>1. shown <= consumed /\ sent \subseteq injected
    BY DEF IInv, TypeInv, LedgerInv, PromptInv
  <2>2. shown <= MaxTotalChars + Shortfall
    BY <2>1, BudgetAssumption DEF IInv, TypeInv, LimitInv, Shortfall
  <2>3. Cardinality(sent) <= Cardinality(injected)
        /\ Cardinality(sent) \in Nat /\ Cardinality(injected) \in Nat
    BY <2>1, Finite, FS_Subset DEF IInv, TypeInv
  <2>4. QED
    BY <2>2, <2>3, BudgetAssumption DEF IInv, LimitInv, ShownWithinBudget
<1>2. QED
  BY <1>1, GovernorInvariant, PTL

\* One prompt stays within the ceiling of a retrieval, exactly when it refers
\* to at most one earlier memory.
THEOREM PromptsStayWithinCeiling == Spec => []PromptWithinCeiling
<1>1. IInv => PromptWithinCeiling
  BY DEF IInv, AdmissionInv, PromptWithinCeiling
<1>2. QED
  BY <1>1, GovernorInvariant, PTL

\* No memory's text reaches the models of one execution twice.
THEOREM NeverSentTwice == Spec => []NothingSentTwice
<1>1. IInv => NothingSentTwice
  BY DEF IInv, PromptInv, NothingSentTwice
<1>2. QED
  BY <1>1, GovernorInvariant, PTL

\* What reached a prompt was recorded before it did.
THEOREM LedgerIsAhead == Spec => []LedgerCoversPrompts
<1>1. IInv => LedgerCoversPrompts
  BY BudgetAssumption DEF IInv, TypeInv, LedgerInv, PromptInv, LimitInv, LedgerCoversPrompts
<1>2. QED
  BY <1>1, GovernorInvariant, PTL

-----------------------------------------------------------------------------
(* The store: the inductive invariant *)

\* The statement that stores a proposal for the first time comes first in its
\* operation, and nobody else stores the same id.
Proposing(p, id) ==
    /\ todo[p] # << >>
    /\ todo[p][1].kind = "save" /\ todo[p][1].read = None /\ todo[p][1].id = id

\* The ids that nobody can have seen yet: not given out, or not stored yet.
Awaited == {id \in Ids : id > fresh \/ \E p \in Procs : Proposing(p, id)}

\* A record is saved again with the standing that was read, unless it is retired
\* for another record; a retirement is the next statement of its operation.
Sound(s, i) ==
    /\ s.kind = "save" =>
          /\ s.record.supersedes \notin Awaited \cup {s.id}
          /\ s.read = None => i = 1 /\ s.record.standing.status # "SUPERSEDED"
          /\ s.read # None =>
                /\ s.id \notin Awaited
                /\ s.record.standing.status = "ACTIVE" => s.record.standing = s.read.standing
                /\ s.record.standing.status = "SUPERSEDED" =>
                      s.record.standing = s.read.standing \/ s.record.standing.by # s.id
    /\ s.kind \in {"mark", "update"} => i = 1 /\ s.id # s.new

StatementInv ==
    /\ \A p \in Procs, id \in Ids :
          Proposing(p, id) => id <= fresh /\ \A q \in Procs : Proposing(q, id) => q = p
    /\ \A p \in Procs : \A i \in DOMAIN todo[p] : Sound(todo[p][i], i)

\* What is stored, and what it replaces, was seen before.
SeenInv == \A id \in Stored : id \notin Awaited /\ rows[id].supersedes \notin Awaited \cup {id}

StoreInv == TypeOK /\ StatementInv /\ SeenInv /\ ReplacedIsNotOffered /\ BeliefSurvives

-----------------------------------------------------------------------------
(* Sequences made from sets and from sequences *)

LEMMA SetToSeqElements ==
    ASSUME NEW S, IsFiniteSet(S)
    PROVE  SetToSeq(S) \in Seq(S)
<1>1. Cardinality(S) \in Nat /\ ExistsBijection(1 .. Cardinality(S), S)
  BY FS_CardinalityType
<1>2. \E f \in [1 .. Cardinality(S) -> S] : IsInjective(f)
  BY <1>1 DEF ExistsBijection, Bijection, Injection, IsInjective
<1>3. SetToSeq(S) \in [1 .. Cardinality(S) -> S]
  BY <1>2 DEF SetToSeq
<1>4. QED
  BY <1>1, <1>3, SeqDef

\* A nonempty set of naturals has a least element.
LEMMA LeastElement ==
    ASSUME NEW S \in SUBSET Nat, S # {}
    PROVE  \E x \in S : \A y \in S : x <= y
<1>1. PICK x \in S : \A y \in S : ~(<<y, x>> \in OpToRel(<, Nat))
  BY NatLessThanWellFounded, WFMin
<1>2. \A y \in S : ~(y < x)
  BY <1>1 DEF OpToRel
<1>3. QED
  BY <1>2

\* What flattening has collected after the first m sequences.
Collects(g, seqs, m) ==
    \A n \in 1 .. m : g[n] = IF n = 1 THEN seqs[n] ELSE g[n - 1] \o seqs[n]

LEMMA CollectionsExist ==
    ASSUME NEW seqs
    PROVE  \A m \in Nat : \E g : Collects(g, seqs, m)
<1> DEFINE S == {m \in Nat : ~\E g : Collects(g, seqs, m)}
<1> SUFFICES ASSUME S # {} PROVE FALSE
  OBVIOUS
<1>1. PICK m \in S : \A j \in S : m <= j
  BY LeastElement
<1>2. m # 0
  BY <1>1 DEF Collects
<1>3. m - 1 \in Nat /\ m - 1 \notin S
  BY <1>1, <1>2
<1>4. PICK g : Collects(g, seqs, m - 1)
  BY <1>3
<1> DEFINE h == [n \in 1 .. m |-> IF n < m THEN g[n]
                                  ELSE IF n = 1 THEN seqs[n] ELSE g[n - 1] \o seqs[n]]
<1>5. ASSUME NEW n \in 1 .. m
      PROVE  h[n] = IF n = 1 THEN seqs[n] ELSE h[n - 1] \o seqs[n]
  <2>1. n # 1 => n - 1 \in 1 .. m /\ n - 1 < m /\ h[n - 1] = g[n - 1]
    BY <1>3
  <2>2. CASE n < m
    <3>1. n \in 1 .. m - 1
      BY <1>3, <2>2
    <3>2. g[n] = IF n = 1 THEN seqs[n] ELSE g[n - 1] \o seqs[n]
      BY <1>4, <3>1 DEF Collects
    <3>3. QED
      BY <2>1, <2>2, <3>2
  <2>3. CASE n = m
    BY <2>1, <2>3
  <2>4. QED
    BY <2>2, <2>3
<1> HIDE DEF h
<1>6. Collects(h, seqs, m)
  BY <1>5 DEF Collects
<1>7. QED
  BY <1>1, <1>6

LEMMA FlattenSeqElements ==
    ASSUME NEW T, NEW seqs \in Seq(Seq(T))
    PROVE  FlattenSeq(seqs) \in Seq(T)
<1>1. CASE Len(seqs) = 0
  BY <1>1 DEF FlattenSeq
<1>2. CASE Len(seqs) # 0
  <2> DEFINE m == Len(seqs)
             F == CHOOSE f : f = [i \in 1 .. m |-> IF i = 1 THEN seqs[i] ELSE f[i - 1] \o seqs[i]]
  <2>1. m \in Nat /\ m # 0 /\ \A i \in 1 .. m : seqs[i] \in Seq(T)
    BY <1>2
  <2>2. FlattenSeq(seqs) = F[m]
    BY <1>2 DEF FlattenSeq
  <2> HIDE DEF m
  <2>3. PICK g : Collects(g, seqs, m)
    BY <2>1, CollectionsExist
  <2> DEFINE f == [i \in 1 .. m |-> g[i]]
  <2>4. ASSUME NEW i \in 1 .. m
        PROVE  f[i] = IF i = 1 THEN seqs[i] ELSE f[i - 1] \o seqs[i]
    <3>1. i # 1 => i - 1 \in 1 .. m
      BY <2>1
    <3>2. QED
      BY <2>3, <3>1 DEF Collects
  <2>5. f = [i \in 1 .. m |-> IF i = 1 THEN seqs[i] ELSE f[i - 1] \o seqs[i]]
    BY <2>4
  <2> HIDE DEF f
  <2>6. F = [i \in 1 .. m |-> IF i = 1 THEN seqs[i] ELSE F[i - 1] \o seqs[i]]
    BY <2>5
  <2> HIDE DEF F
  <2> DEFINE S == {i \in 1 .. m : F[i] \notin Seq(T)}
  <2>7. S = {}
    <3> SUFFICES ASSUME S # {} PROVE FALSE
      OBVIOUS
    <3>1. S \in SUBSET Nat
      BY <2>1
    <3>2. PICK i \in S : \A j \in S : i <= j
      BY <3>1, LeastElement
    <3>3. i # 1
      BY <2>1, <2>6, <3>2
    <3>4. i - 1 \in 1 .. m /\ i - 1 \notin S
      BY <2>1, <3>2, <3>3
    <3>5. F[i - 1] \in Seq(T) /\ seqs[i] \in Seq(T) /\ F[i] = F[i - 1] \o seqs[i]
      BY <2>1, <2>6, <3>2, <3>3, <3>4
    <3>6. QED
      BY <3>2, <3>5, ConcatProperties
  <2>8. QED
    BY <2>1, <2>2, <2>7
<1>3. QED
  BY <1>1, <1>2

-----------------------------------------------------------------------------
(* What a statement may change *)

\* What is stored is known to readers; what they get is a record.
LEMMA StoredRecords ==
    ASSUME StoreInv, NEW id \in Stored
    PROVE  /\ id \in Ids /\ rows[id] # None
           /\ rows[id] \in [owner : Owners, supersedes : Ids \cup {None},
                            column : Standing, payload : Standing]
           /\ Get(id) \in Record /\ Get(id).supersedes \notin Awaited \cup {id}
           /\ id \notin Awaited
BY DEF StoreInv, TypeOK, SeenInv, Stored, Get, Record

LEMMA StoredFinite == IsFiniteSet(Stored)
<1>1. IsFiniteSet(Ids)
  BY MemoryBounds, FS_Interval DEF Ids
<1>2. QED
  BY <1>1, FS_Subset DEF Stored

\* The first statement of p is made: what is left is what came after it, or a
\* retirement in its place.
Consumes(p) ==
    /\ todo' \in [Procs -> Seq(Statements)]
    /\ \A q \in Procs : q # p => todo'[q] = todo[q]
    /\ \A i \in DOMAIN todo'[p] :
          \/ \E j \in DOMAIN todo[p] \ {1} : todo'[p][i] = todo[p][j]
          \/ i = 1 /\ todo'[p][i].kind \in {"mark", "update"} /\ todo'[p][i].id # todo'[p][i].new

LEMMA SequenceDomain ==
    ASSUME NEW S, NEW s \in Seq(S), s # << >>
    PROVE  1 \in DOMAIN s /\ Head(s) = s[1] /\ Head(s) \in S /\ Tail(s) \in Seq(S)
           /\ \A i \in DOMAIN Tail(s) : i + 1 \in DOMAIN s /\ i + 1 # 1 /\ Tail(s)[i] = s[i + 1]
OBVIOUS

\* The rest of an operation.
LEMMA DropsHead ==
    ASSUME TypeOK, NEW p \in Procs, todo[p] # << >>,
           \/ todo' = [todo EXCEPT ![p] = << >>]
           \/ todo' = [todo EXCEPT ![p] = Tail(@)]
           \/ todo' = [todo EXCEPT ![p] = << >> \o Tail(@)]
    PROVE  Consumes(p)
<1>1. todo[p] \in Seq(Statements)
  BY DEF TypeOK
<1>2. << >> \in Seq(Statements) /\ Tail(todo[p]) \in Seq(Statements)
      /\ << >> \o Tail(todo[p]) = Tail(todo[p])
  BY <1>1
<1>3. todo' = [todo EXCEPT ![p] = << >>] \/ todo' = [todo EXCEPT ![p] = Tail(todo[p])]
  BY <1>2
<1>4. todo' \in [Procs -> Seq(Statements)] /\ \A q \in Procs : q # p => todo'[q] = todo[q]
  BY <1>2, <1>3 DEF TypeOK
<1>5. todo'[p] = << >> \/ todo'[p] = Tail(todo[p])
  BY <1>3 DEF TypeOK
<1>6. \A i \in DOMAIN Tail(todo[p]) :
         i + 1 \in DOMAIN todo[p] \ {1} /\ Tail(todo[p])[i] = todo[p][i + 1]
  BY <1>1, SequenceDomain
<1>7. ASSUME NEW i \in DOMAIN todo'[p]
      PROVE  \E j \in DOMAIN todo[p] \ {1} : todo'[p][i] = todo[p][j]
  <2>1. todo'[p] # << >>
    BY <1>7
  <2>2. todo'[p] = Tail(todo[p])
    BY <1>5, <2>1
  <2>3. i \in DOMAIN Tail(todo[p])
    BY <1>7, <2>2
  <2>4. QED
    BY <1>6, <2>2, <2>3
<1>8. QED
  BY <1>4, <1>7 DEF Consumes

LEMMA ReplacesHead ==
    ASSUME TypeOK, NEW p \in Procs, todo[p] # << >>,
           NEW s \in Statements, s.kind \in {"mark", "update"}, s.id # s.new,
           todo' = [todo EXCEPT ![p] = <<s>> \o Tail(@)]
    PROVE  Consumes(p) /\ 1 \in DOMAIN todo'[p] /\ todo'[p][1] = s
<1>1. todo[p] \in Seq(Statements)
  BY DEF TypeOK
<1>2. <<s>> \in Seq(Statements) /\ Len(<<s>>) = 1 /\ <<s>>[1] = s
      /\ Tail(todo[p]) \in Seq(Statements)
  BY <1>1, SequenceDomain
<1> DEFINE r == <<s>> \o Tail(todo[p])
<1>3. /\ r \in Seq(Statements) /\ Len(r) = 1 + Len(Tail(todo[p])) /\ r[1] = s
      /\ \A i \in 1 .. Len(r) : i # 1 => r[i] = Tail(todo[p])[i - 1]
  BY <1>2, ConcatProperties
<1>4. todo' \in [Procs -> Seq(Statements)] /\ todo'[p] = r
      /\ \A q \in Procs : q # p => todo'[q] = todo[q]
  BY <1>3 DEF TypeOK
<1> HIDE DEF r
<1>5. DOMAIN r = 1 .. Len(r) /\ Len(Tail(todo[p])) \in Nat
      /\ DOMAIN Tail(todo[p]) = 1 .. Len(Tail(todo[p]))
  BY <1>2, <1>3
<1>6. \A i \in DOMAIN Tail(todo[p]) :
         i + 1 \in DOMAIN todo[p] \ {1} /\ Tail(todo[p])[i] = todo[p][i + 1]
  BY <1>1, SequenceDomain
<1>7. ASSUME NEW i \in DOMAIN r
      PROVE  \/ i = 1 /\ r[i] = s
             \/ \E j \in DOMAIN todo[p] \ {1} : r[i] = todo[p][j]
  <2>1. i # 1 => /\ i - 1 \in DOMAIN Tail(todo[p])
                 /\ r[i] = Tail(todo[p])[i - 1] /\ (i - 1) + 1 = i
    BY <1>3, <1>5, <1>7
  <2>2. QED
    BY <1>3, <1>6, <2>1
<1>8. Consumes(p)
  BY <1>4, <1>7 DEF Consumes
<1>9. QED
  BY <1>3, <1>4, <1>5, <1>8

\* No id becomes awaited again, and a proposal that was stored no longer is.
LEMMA ConsumesAwaited ==
    ASSUME StoreInv, NEW p \in Procs, Consumes(p), fresh' = fresh
    PROVE  /\ \A q \in Procs, id \in Ids : Proposing(q, id)' => q # p /\ Proposing(q, id)
           /\ Awaited' \subseteq Awaited
           /\ \A id \in Ids : Proposing(p, id) => id \notin Awaited'
<1>1. ASSUME NEW q \in Procs, NEW id \in Ids, Proposing(q, id)'
      PROVE  q # p /\ Proposing(q, id)
  <2>1. CASE q # p
    BY <1>1, <2>1 DEF Consumes, Proposing
  <2>2. CASE q = p
    <3>1. 1 \in DOMAIN todo'[p] /\ todo'[p][1].kind = "save" /\ todo'[p][1].read = None
      BY <1>1, <2>2, SequenceDomain DEF Consumes, Proposing
    <3>2. PICK j \in DOMAIN todo[p] \ {1} : todo'[p][1] = todo[p][j]
      BY <3>1 DEF Consumes
    <3>3. Sound(todo[p][j], j)
      BY DEF StoreInv, StatementInv
    <3>4. QED
      BY <3>1, <3>2, <3>3 DEF Sound
  <2>3. QED
    BY <2>1, <2>2
<1>2. Awaited' \subseteq Awaited
  BY <1>1 DEF Awaited
<1>3. ASSUME NEW id \in Ids, Proposing(p, id), id \in Awaited' PROVE FALSE
  <2>1. id > fresh \/ \E q \in Procs : Proposing(q, id)'
    BY <1>3 DEF Awaited
  <2>2. \A q \in Procs : ~(Proposing(q, id)')
    BY <1>1, <1>3 DEF StoreInv, StatementInv
  <2>3. id <= fresh /\ id \in Nat /\ fresh \in Nat
    BY <1>3, MemoryBounds DEF StoreInv, StatementInv, TypeOK, Ids
  <2>4. QED
    BY <2>1, <2>2, <2>3
<1>4. QED
  BY <1>1, <1>2, <1>3

LEMMA ConsumesStatements ==
    ASSUME StoreInv, NEW p \in Procs, Consumes(p), fresh' = fresh
    PROVE  StatementInv'
<1>1. /\ \A q \in Procs, id \in Ids : Proposing(q, id)' => q # p /\ Proposing(q, id)
      /\ Awaited' \subseteq Awaited
  BY ConsumesAwaited
<1>2. ASSUME NEW s, NEW j, NEW i, Sound(s, j), i = j \/ j # 1 PROVE Sound(s, i)'
  BY <1>1, <1>2 DEF Sound
<1>3. ASSUME NEW q \in Procs, NEW i \in DOMAIN todo'[q], NEW s, s = todo'[q][i]
      PROVE  Sound(s, i)'
  <2>1. CASE q # p
    <3>1. todo'[q] = todo[q]
      BY <2>1 DEF Consumes
    <3>2. Sound(todo[q][i], i)
      BY <3>1 DEF StoreInv, StatementInv
    <3>3. QED
      BY <1>2, <1>3, <3>1, <3>2
  <2>2. CASE q = p
    <3>1. CASE \E j \in DOMAIN todo[p] \ {1} : todo'[p][i] = todo[p][j]
      <4>1. PICK j \in DOMAIN todo[p] \ {1} : todo'[p][i] = todo[p][j]
        BY <3>1
      <4>2. Sound(todo[p][j], j)
        BY DEF StoreInv, StatementInv
      <4>3. QED
        BY <1>2, <1>3, <2>2, <4>1, <4>2
    <3>2. CASE i = 1 /\ todo'[p][i].kind \in {"mark", "update"}
                     /\ todo'[p][i].id # todo'[p][i].new
      BY <1>3, <2>2, <3>2 DEF Sound
    <3>3. QED
      BY <2>2, <3>1, <3>2 DEF Consumes
  <2>3. QED
    BY <2>1, <2>2
<1>4. \A q \in Procs, id \in Ids :
         Proposing(q, id)' => id <= fresh' /\ \A r \in Procs : Proposing(r, id)' => r = q
  BY <1>1 DEF StoreInv, StatementInv
<1>5. QED
  BY <1>3, <1>4 DEF StatementInv, Sound

-----------------------------------------------------------------------------
(* Steps of the store *)

\* A step after which no record stands that did not, and none is newly retired.
LEMMA KeepsStandings ==
    ASSUME StoreInv, Awaited' \subseteq Awaited,
           rows' \in [Ids -> {None} \cup [owner : Owners, supersedes : Ids \cup {None},
                                          column : Standing, payload : Standing]],
           \A id \in Ids :
              \/ rows'[id] = None
              \/ /\ rows[id] # None
                 /\ rows'[id].column = rows[id].column
                 /\ rows'[id].supersedes = rows[id].supersedes,
           raced' = raced, interrupted \subseteq interrupted',
           \A old, new \in Ids :
              Pending(old, new) /\ old \in Stored' => Pending(old, new)' \/ old \in interrupted'
    PROVE  SeenInv' /\ ReplacedIsNotOffered' /\ BeliefSurvives'
<1>1. \A id \in Stored' : /\ id \in Stored /\ id \in Ids
                          /\ rows'[id].column = rows[id].column
                          /\ rows'[id].supersedes = rows[id].supersedes
  BY DEF Stored
<1>2. SeenInv'
  BY <1>1 DEF StoreInv, SeenInv
<1>3. ReplacedIsNotOffered'
  <2> SUFFICES ASSUME NEW new \in Stored', NEW old, old = rows'[new].supersedes,
                      rows'[new].column.status = "ACTIVE", old \in Stored',
                      rows'[old].column.status = "ACTIVE"
               PROVE  Pending(old, new)' \/ old \in interrupted' \cup raced'
    BY DEF ReplacedIsNotOffered
  <2>1. old # None
    BY <1>1, NoneAssumption
  <2>2. Pending(old, new) \/ old \in interrupted \cup raced
    BY <1>1, <2>1 DEF StoreInv, ReplacedIsNotOffered
  <2>3. QED
    BY <1>1, <2>2
<1>4. BeliefSurvives'
  <2> SUFFICES ASSUME NEW chain \in (SUBSET (Stored' \ raced')) \ {{}},
                      \A id \in chain : rows'[id].column.status = "SUPERSEDED"
               PROVE  \E id \in chain : rows'[id].column.by \notin chain
    BY DEF BeliefSurvives
  <2>1. chain \in (SUBSET (Stored \ raced)) \ {{}}
    BY <1>1
  <2>2. \A id \in chain : rows'[id].column = rows[id].column
    BY <1>1
  <2>3. QED
    BY <2>1, <2>2 DEF StoreInv, BeliefSurvives
<1>5. QED
  BY <1>2, <1>3, <1>4

\* A process between operations begins one.
LEMMA BeginsSoundly ==
    ASSUME StoreInv, NEW p \in Procs, MayBegin(p),
           NEW stmts \in Seq(Statements), Begin(p, stmts),
           fresh' \in {fresh, fresh + 1}, fresh' <= MaxRecords,
           \A i \in DOMAIN stmts :
              /\ Sound(stmts[i], i)
              /\ stmts[i].kind = "save" /\ stmts[i].read = None =>
                    fresh' = fresh + 1 /\ stmts[i].id = fresh + 1
    PROVE  StoreInv'
<1>1. /\ todo[p] = << >> /\ todo'[p] = stmts /\ todo' \in [Procs -> Seq(Statements)]
      /\ \A q \in Procs : q # p => todo'[q] = todo[q]
      /\ UNCHANGED <<rows, interrupted, raced>> /\ begun' \in 0 .. MaxOps
  BY MemoryBounds DEF MayBegin, Begin, StoreInv, TypeOK
<1>2. fresh \in Nat /\ fresh' \in 0 .. MaxRecords /\ Ids \subseteq Nat
  BY MemoryBounds DEF StoreInv, TypeOK, Ids
<1>3. ASSUME NEW id \in Ids, Proposing(p, id)' PROVE fresh' = fresh + 1 /\ id = fresh + 1
  BY <1>1, <1>3, SequenceDomain DEF Proposing
<1>4. \A q \in Procs, id \in Ids : q # p => (Proposing(q, id)' <=> Proposing(q, id))
  BY <1>1 DEF Proposing
<1>5. Awaited' \subseteq Awaited
  <2> SUFFICES ASSUME NEW id \in Ids, id > fresh' \/ \E q \in Procs : Proposing(q, id)'
               PROVE  id > fresh \/ \E q \in Procs : Proposing(q, id)
    BY DEF Awaited
  <2>1. CASE id > fresh'
    BY <1>2, <2>1
  <2>2. CASE \E q \in Procs : Proposing(q, id)'
    BY <1>2, <1>3, <1>4, <2>2
  <2>3. QED
    BY <2>1, <2>2
<1>6. TypeOK'
  BY <1>1, <1>2 DEF StoreInv, TypeOK
<1>7. StatementInv'
  <2>1. ASSUME NEW q \in Procs, NEW id \in Ids, Proposing(q, id)'
        PROVE  id <= fresh' /\ \A r \in Procs : Proposing(r, id)' => r = q
    <3>1. id \in Nat /\ ~(fresh + 1 <= fresh)
      BY <1>2
    <3>2. CASE q = p
      <4>1. fresh' = fresh + 1 /\ id = fresh + 1
        BY <1>3, <2>1, <3>2
      <4>2. \A r \in Procs : ~Proposing(r, id)
        BY <3>1, <4>1 DEF StoreInv, StatementInv
      <4>3. QED
        BY <1>2, <1>4, <3>2, <4>1, <4>2
    <3>3. CASE q # p
      <4>1. id <= fresh /\ \A r \in Procs : Proposing(r, id) => r = q
        BY <1>4, <2>1, <3>3 DEF StoreInv, StatementInv
      <4>2. ~(Proposing(p, id)')
        BY <1>3, <3>1, <4>1
      <4>3. QED
        BY <1>2, <1>4, <3>1, <4>1, <4>2
    <3>4. QED
      BY <3>2, <3>3
  <2>2. ASSUME NEW s, NEW i, Sound(s, i) PROVE Sound(s, i)'
    BY <1>5, <2>2 DEF Sound
  <2>3. ASSUME NEW q \in Procs, NEW i \in DOMAIN todo'[q], NEW s, s = todo'[q][i]
        PROVE  Sound(s, i)'
    <3>1. Sound(s, i)
      BY <1>1, <2>3 DEF StoreInv, StatementInv
    <3>2. QED
      BY <2>2, <3>1
  <2>4. QED
    BY <2>1, <2>3 DEF StatementInv, Sound
<1>8. \A old, new \in Ids : Pending(old, new) => Pending(old, new)'
  BY <1>1 DEF Pending
<1>9. SeenInv' /\ ReplacedIsNotOffered' /\ BeliefSurvives'
  BY <1>1, <1>5, <1>8, KeepsStandings DEF StoreInv, TypeOK
<1>10. QED
  BY <1>6, <1>7, <1>9 DEF StoreInv

-----------------------------------------------------------------------------
(* The operations *)

\* Saves of records that were read before.
Resaves == {s \in Statements : s.kind = "save" /\ s.read # None /\ \A i : Sound(s, i)}

LEMMA ResavesAreSound ==
    ASSUME StoreInv, NEW id \in Stored, NEW record \in Record,
           record.supersedes = Get(id).supersedes,
           record.standing.status = "ACTIVE" => record.standing = Get(id).standing,
           record.standing.status = "SUPERSEDED" =>
               record.standing = Get(id).standing \/ record.standing.by # id
    PROVE  SaveStmt(id, record, Get(id)) \in Resaves
<1>1. /\ id \in Ids /\ Get(id) \in Record /\ Get(id) # None
      /\ Get(id).supersedes \notin Awaited \cup {id} /\ id \notin Awaited
  BY StoredRecords, NoneAssumption
<1>2. SaveStmt(id, record, Get(id)) \in Statements
  BY <1>1 DEF SaveStmt, Statements
<1>3. \A i : Sound(SaveStmt(id, record, Get(id)), i)
  BY <1>1 DEF SaveStmt, Sound
<1>4. QED
  BY <1>1, <1>2, <1>3 DEF Resaves, SaveStmt

LEMMA BeginsResaves ==
    ASSUME StoreInv, NEW p \in Procs, MayBegin(p), NEW stmts \in Seq(Resaves),
           Begin(p, stmts), fresh' = fresh
    PROVE  StoreInv'
<1>1. \A i \in DOMAIN stmts : stmts[i] \in Resaves
  OBVIOUS
<1>2. stmts \in Seq(Statements)
  BY SeqMonotonic DEF Resaves
<1>3. \A i \in DOMAIN stmts : Sound(stmts[i], i) /\ stmts[i].read # None
  BY <1>1 DEF Resaves
<1>4. fresh' <= MaxRecords
  BY MemoryBounds DEF StoreInv, TypeOK
<1>5. QED
  BY <1>2, <1>3, <1>4, BeginsSoundly

LEMMA ProposeStep ==
    ASSUME StoreInv, NEW p \in Procs, Propose(p)
    PROVE  StoreInv'
<1>1. PICK q \in Proposal, approved \in BOOLEAN :
        /\ q.supersedes \in Stored \cup {None}
        /\ fresh' = fresh + 1
        /\ Begin(p, <<SaveStmt(fresh + 1, ToRecord(q, approved), None)>>)
  BY DEF Propose
<1> DEFINE s == SaveStmt(fresh + 1, ToRecord(q, approved), None)
<1>2. /\ fresh \in Nat /\ MaxRecords \in Nat /\ fresh < MaxRecords /\ fresh + 1 \in Ids
      /\ fresh + 1 \in Awaited /\ None \notin Ids /\ MayBegin(p)
  BY MemoryBounds, NoneAssumption DEF Propose, StoreInv, TypeOK, Ids, Awaited
<1>3. q.supersedes \notin Awaited \cup {fresh + 1}
  BY <1>1, <1>2, StoredRecords DEF Awaited
<1>4. ToRecord(q, approved) \in Record /\ ToRecord(q, approved).supersedes = q.supersedes
      /\ ToRecord(q, approved).standing.status # "SUPERSEDED"
  BY DEF ToRecord, Record, Proposal, Standing, Active, MemoryStatus
<1>5. s \in Statements
  BY <1>2, <1>4 DEF SaveStmt, Statements
<1>6. Sound(s, 1) /\ s.id = fresh + 1
  BY <1>2, <1>3, <1>4 DEF SaveStmt, Sound
<1> HIDE DEF s
<1>7. <<s>> \in Seq(Statements) /\ DOMAIN <<s>> = {1} /\ <<s>>[1] = s
  BY <1>5
<1>8. fresh' <= MaxRecords /\ Begin(p, <<s>>)
  BY <1>1, <1>2 DEF s
<1>9. QED
  BY <1>1, <1>2, <1>6, <1>7, <1>8, BeginsSoundly

LEMMA ResaveSteps ==
    ASSUME StoreInv, NEW p \in Procs, Archive(p) \/ BumpRecurrence(p)
    PROVE  StoreInv'
<1>1. PICK id \in Stored, record \in Record :
        /\ record.supersedes = Get(id).supersedes
        /\ record.standing.status = "ARCHIVED" \/ record.standing = Get(id).standing
        /\ Begin(p, <<SaveStmt(id, record, Get(id))>>)
  <2>1. CASE Archive(p)
    <3>1. PICK id \in Stored :
            Begin(p, <<SaveStmt(id, [Get(id) EXCEPT !.standing.status = "ARCHIVED"], Get(id))>>)
      BY <2>1 DEF Archive
    <3>2. Get(id) \in Record
      BY StoredRecords
    <3>3. /\ [Get(id) EXCEPT !.standing.status = "ARCHIVED"] \in Record
          /\ [Get(id) EXCEPT !.standing.status = "ARCHIVED"].supersedes = Get(id).supersedes
          /\ [Get(id) EXCEPT !.standing.status = "ARCHIVED"].standing.status = "ARCHIVED"
      BY <3>2 DEF Record, Standing, MemoryStatus
    <3>4. QED
      BY <3>1, <3>3
  <2>2. CASE BumpRecurrence(p)
    BY <2>2, StoredRecords DEF BumpRecurrence
  <2>3. QED
    BY <2>1, <2>2
<1>2. SaveStmt(id, record, Get(id)) \in Resaves
  BY <1>1, ResavesAreSound
<1>3. MayBegin(p) /\ fresh' = fresh
  BY DEF Archive, BumpRecurrence
<1>4. <<SaveStmt(id, record, Get(id))>> \in Seq(Resaves)
  BY <1>2
<1>5. QED
  BY <1>1, <1>3, <1>4, BeginsResaves

LEMMA RetrieveStep ==
    ASSUME StoreInv, NEW p \in Procs, Retrieve(p)
    PROVE  StoreInv'
<1>1. PICK chosen \in SUBSET Stored :
        LET order == SetToSeq(chosen)
        IN  Begin(p, [i \in DOMAIN order |-> AccessStmt(order[i])])
  BY DEF Retrieve, Selections, VisibleTo
<1>2. SetToSeq(chosen) \in Seq(chosen)
  BY StoredFinite, FS_Subset, SetToSeqElements
<1> DEFINE order == SetToSeq(chosen)
           stmts == [i \in DOMAIN order |-> AccessStmt(order[i])]
<1>3. \A id \in Stored : AccessStmt(id) \in Statements /\ AccessStmt(id).kind = "access"
  BY StoredRecords DEF AccessStmt, Statements
<1>4. Len(order) \in Nat /\ DOMAIN order = 1 .. Len(order)
      /\ \A i \in DOMAIN order : order[i] \in Stored
  BY <1>2
<1> HIDE DEF order
<1>5. stmts \in Seq(Statements) /\ \A i \in DOMAIN stmts : stmts[i].kind = "access"
  BY <1>3, <1>4
<1>6. \A i \in DOMAIN stmts : Sound(stmts[i], i)
  BY <1>5 DEF Sound
<1>7. MayBegin(p) /\ fresh' = fresh /\ fresh' <= MaxRecords
  BY MemoryBounds DEF Retrieve, StoreInv, TypeOK
<1>8. Begin(p, stmts)
  BY <1>1 DEF order
<1> HIDE DEF stmts
<1>9. QED
  BY <1>5, <1>6, <1>7, <1>8, BeginsSoundly

LEMMA ConsolidateGroupStatements ==
    ASSUME StoreInv, NEW group \in SUBSET Stored, NEW primary \in group
    PROVE  ConsolidateGroup(group, primary) \in Seq(Resaves)
<1> DEFINE rest == Duplicates(group, primary)
           first == SaveStmt(primary, Get(primary), Get(primary))
           others == [i \in DOMAIN rest |-> Retired(rest[i], primary)]
<1>1. primary \in Stored /\ primary \in Ids /\ Get(primary) \in Record
  BY StoredRecords
<1>2. first \in Resaves
  BY <1>1, ResavesAreSound
<1>3. ASSUME NEW id \in group \ {primary} PROVE Retired(id, primary) \in Resaves
  <2> DEFINE record == [Get(id) EXCEPT !.standing = [status |-> "SUPERSEDED", by |-> primary]]
  <2>1. Get(id) \in Record /\ id \in Stored
    BY StoredRecords
  <2>2. /\ record \in Record /\ record.supersedes = Get(id).supersedes
        /\ record.standing.status = "SUPERSEDED" /\ record.standing.by # id
    BY <1>1, <2>1 DEF Record, Standing, MemoryStatus
  <2> HIDE DEF record
  <2>3. SaveStmt(id, record, Get(id)) \in Resaves
    BY <2>1, <2>2, ResavesAreSound
  <2>4. QED
    BY <2>3 DEF record, Retired
<1>4. rest \in Seq(group \ {primary})
  BY StoredFinite, FS_Subset, SetToSeqElements DEF Duplicates
<1> HIDE DEF rest
<1>5. Len(rest) \in Nat /\ DOMAIN rest = 1 .. Len(rest)
      /\ \A i \in DOMAIN rest : rest[i] \in group \ {primary}
  BY <1>4
<1>6. others \in Seq(Resaves)
  BY <1>3, <1>5
<1> HIDE DEF first, others
<1>7. <<first>> \in Seq(Resaves)
  BY <1>2
<1>8. <<first>> \o others \in Seq(Resaves)
  BY <1>6, <1>7, ConcatProperties
<1>9. QED
  BY <1>8 DEF ConsolidateGroup, rest, first, others

LEMMA ConsolidateStep ==
    ASSUME StoreInv, NEW p \in Procs, Consolidate(p)
    PROVE  StoreInv'
<1>0. PICK groups \in SUBSET SUBSET Stored :
        \E primary \in [groups -> Ids] :
          /\ \A g \in groups : primary[g] \in g
          /\ LET order == SetToSeq(groups)
             IN  Begin(p, FlattenSeq([i \in DOMAIN order |->
                                        ConsolidateGroup(order[i], primary[order[i]])]))
  <2>1. PICK project \in Owners :
          \E groups \in DuplicateGroups(VisibleTo(project, FALSE)) \ {{}} :
            \E primary \in [groups -> Ids] :
              /\ \A g \in groups : primary[g] \in g
              /\ LET order == SetToSeq(groups)
                 IN  Begin(p, FlattenSeq([i \in DOMAIN order |->
                                            ConsolidateGroup(order[i], primary[order[i]])]))
    BY DEF Consolidate
  <2>2. DuplicateGroups(VisibleTo(project, FALSE)) \subseteq SUBSET SUBSET Stored
    BY DEF DuplicateGroups, VisibleTo
  <2>3. QED
    BY <2>1, <2>2
<1>1. PICK primary \in [groups -> Ids] :
        /\ \A g \in groups : primary[g] \in g
        /\ LET order == SetToSeq(groups)
           IN  Begin(p, FlattenSeq([i \in DOMAIN order |->
                                      ConsolidateGroup(order[i], primary[order[i]])]))
  BY <1>0
<1> DEFINE order == SetToSeq(groups)
           parts == [i \in DOMAIN order |-> ConsolidateGroup(order[i], primary[order[i]])]
<1>2. IsFiniteSet(groups)
  BY StoredFinite, FS_SUBSET, FS_Subset
<1>3. order \in Seq(groups)
  BY <1>2, SetToSeqElements
<1>4. Begin(p, FlattenSeq(parts))
  BY <1>1
<1> HIDE DEF order
<1>5. Len(order) \in Nat /\ DOMAIN order = 1 .. Len(order)
      /\ \A i \in DOMAIN order : order[i] \in groups
  BY <1>3
<1>6. \A g \in groups : ConsolidateGroup(g, primary[g]) \in Seq(Resaves)
  BY <1>1, ConsolidateGroupStatements
<1>7. parts \in Seq(Seq(Resaves))
  BY <1>5, <1>6
<1> HIDE DEF parts
<1>8. FlattenSeq(parts) \in Seq(Resaves)
  BY <1>7, FlattenSeqElements
<1>9. MayBegin(p) /\ fresh' = fresh
  BY DEF Consolidate
<1>10. QED
  BY <1>4, <1>8, <1>9, BeginsResaves

LEMMA DeleteSteps ==
    ASSUME StoreInv, NEW p \in Procs, Delete(p) \/ PurgeProject(p)
    PROVE  StoreInv'
<1>1. /\ UNCHANGED <<fresh, todo, interrupted, raced>> /\ begun' \in 0 .. MaxOps
      /\ rows' \in [Ids -> {None} \cup [owner : Owners, supersedes : Ids \cup {None},
                                        column : Standing, payload : Standing]]
      /\ \A id \in Ids : rows'[id] = None \/ rows'[id] = rows[id]
  BY MemoryBounds DEF Delete, PurgeProject, MayBegin, StoreInv, TypeOK, Stored
<1>2. Awaited' = Awaited
  BY <1>1 DEF Awaited, Proposing
<1>3. TypeOK' /\ StatementInv'
  BY <1>1, <1>2 DEF StoreInv, TypeOK, StatementInv, Sound, Proposing
<1>4. \A old, new \in Ids : Pending(old, new) => Pending(old, new)'
  BY <1>1 DEF Pending
<1>5. SeenInv' /\ ReplacedIsNotOffered' /\ BeliefSurvives'
  BY <1>1, <1>2, <1>4, KeepsStandings
<1>6. QED
  BY <1>3, <1>5 DEF StoreInv

-----------------------------------------------------------------------------
(* The statements *)

\* The statement that an operation makes next.
LEMMA HeadIsSound ==
    ASSUME StoreInv, NEW p \in Procs, todo[p] # << >>
    PROVE  LET s == Head(todo[p])
           IN  s \in Statements /\ s = todo[p][1] /\ Sound(s, 1) /\ 1 \in DOMAIN todo[p]
<1>1. todo[p] \in Seq(Statements)
  BY DEF StoreInv, TypeOK
<1>2. Head(todo[p]) \in Statements /\ Head(todo[p]) = todo[p][1] /\ 1 \in DOMAIN todo[p]
  BY <1>1, SequenceDomain
<1>3. QED
  BY <1>2 DEF StoreInv, StatementInv

\* Retirements that are under way wait in front of the rest of their operation.
LEMMA PendingAtHead ==
    ASSUME StoreInv, NEW p \in Procs, Consumes(p), NEW old, NEW new, Pending(old, new)
    PROVE  \/ Pending(old, new)'
           \/ /\ todo[p] # << >> /\ todo[p][1].kind \in {"mark", "update"}
              /\ todo[p][1].id = old /\ todo[p][1].new = new
<1>0. PICK q \in Procs : \E i \in DOMAIN todo[q] :
        /\ todo[q][i].kind \in {"mark", "update"}
        /\ todo[q][i].id = old /\ todo[q][i].new = new
  BY DEF Pending
<1>1. PICK i \in DOMAIN todo[q] :
        /\ todo[q][i].kind \in {"mark", "update"}
        /\ todo[q][i].id = old /\ todo[q][i].new = new
  BY <1>0
<1>2. i = 1
  BY <1>1 DEF StoreInv, StatementInv, Sound
<1>3. CASE q # p
  BY <1>1, <1>3 DEF Consumes, Pending
<1>4. CASE q = p
  <2>1. todo[p] # << >>
    BY <1>1, <1>4
  <2>2. QED
    BY <1>1, <1>2, <1>4, <2>1
<1>5. QED
  BY <1>3, <1>4

LEMMA MarkStep ==
    ASSUME StoreInv, NEW p \in Procs, MarkSuperseded(p)
    PROVE  StoreInv'
<1>0. PICK s : s = Head(todo[p])
  OBVIOUS
<1>1. /\ todo[p] # << >> /\ s.kind = "mark" /\ UNCHANGED <<rows, fresh, begun, interrupted, raced>>
      /\ todo' = [todo EXCEPT ![p] =
                    (IF rows[s.id] = None THEN << >> ELSE <<UpdateStmt(s.id, s.new)>>) \o Tail(@)]
  BY <1>0 DEF MarkSuperseded
<1>2. s \in Statements /\ s = todo[p][1] /\ Sound(s, 1)
  BY <1>0, <1>1, HeadIsSound
<1>3. s.id \in Ids /\ s.new \in Ids /\ s.id # s.new
  BY <1>1, <1>2 DEF Statements, Sound
<1>4. /\ UpdateStmt(s.id, s.new) \in Statements
      /\ UpdateStmt(s.id, s.new).kind = "update"
      /\ UpdateStmt(s.id, s.new).id = s.id /\ UpdateStmt(s.id, s.new).new = s.new
  BY <1>3 DEF UpdateStmt, Statements
<1>5. Consumes(p) /\ (rows[s.id] = None \/ Pending(s.id, s.new)')
  <2>1. CASE rows[s.id] = None
    <3>1. todo' = [todo EXCEPT ![p] = << >> \o Tail(@)]
      BY <1>1, <2>1
    <3>2. QED
      BY <1>1, <2>1, <3>1, DropsHead DEF StoreInv
  <2>2. CASE rows[s.id] # None
    <3>1. todo' = [todo EXCEPT ![p] = <<UpdateStmt(s.id, s.new)>> \o Tail(@)]
      BY <1>1, <2>2
    <3>2. /\ Consumes(p) /\ 1 \in DOMAIN todo'[p]
          /\ todo'[p][1] = UpdateStmt(s.id, s.new)
      BY <1>1, <1>3, <1>4, <3>1, ReplacesHead DEF StoreInv
    <3>3. QED
      BY <1>4, <3>2 DEF Pending
  <2>3. QED
    BY <2>1, <2>2
<1>6. Awaited' \subseteq Awaited /\ StatementInv'
  BY <1>1, <1>5, ConsumesAwaited, ConsumesStatements
<1>7. TypeOK'
  BY <1>1, <1>5 DEF StoreInv, TypeOK, Consumes
<1>8. ASSUME NEW old \in Ids, NEW new \in Ids, Pending(old, new), old \in Stored'
      PROVE  Pending(old, new)'
  <2>1. rows[old] # None
    BY <1>1, <1>8 DEF Stored
  <2>2. QED
    BY <1>2, <1>5, <1>8, <2>1, PendingAtHead
<1>9. SeenInv' /\ ReplacedIsNotOffered' /\ BeliefSurvives'
  BY <1>1, <1>6, <1>7, <1>8, KeepsStandings DEF TypeOK
<1>10. QED
  BY <1>6, <1>7, <1>9 DEF StoreInv

LEMMA AccessStep ==
    ASSUME StoreInv, NEW p \in Procs, RecordAccess(p)
    PROVE  StoreInv'
<1>0. PICK s : s = Head(todo[p])
  OBVIOUS
<1>1. /\ todo[p] # << >> /\ s.kind = "access" /\ UNCHANGED <<fresh, begun, interrupted, raced>>
      /\ rows' = IF rows[s.id] = None THEN rows
                 ELSE [rows EXCEPT ![s.id].payload = s.record.standing]
      /\ todo' = [todo EXCEPT ![p] = Tail(@)]
  BY <1>0 DEF RecordAccess
<1>2. s \in Statements /\ s = todo[p][1]
  BY <1>0, <1>1, HeadIsSound
<1>3. s.id \in Ids /\ s.record \in Record
  BY <1>1, <1>2 DEF Statements
<1>4. Consumes(p)
  BY <1>1, DropsHead DEF StoreInv
<1>5. Awaited' \subseteq Awaited /\ StatementInv'
  BY <1>1, <1>4, ConsumesAwaited, ConsumesStatements
<1>6. rows' \in [Ids -> {None} \cup [owner : Owners, supersedes : Ids \cup {None},
                                     column : Standing, payload : Standing]]
      /\ \A id \in Ids : \/ rows'[id] = None
                         \/ /\ rows[id] # None
                            /\ rows'[id].column = rows[id].column
                            /\ rows'[id].supersedes = rows[id].supersedes
  <2>1. CASE rows[s.id] = None
    BY <1>1, <2>1 DEF StoreInv, TypeOK
  <2>2. CASE rows[s.id] # None
    BY <1>1, <1>3, <2>2 DEF StoreInv, TypeOK, Record
  <2>3. QED
    BY <2>1, <2>2
<1>7. TypeOK'
  BY <1>1, <1>3, <1>4, <1>6 DEF StoreInv, TypeOK, Consumes
<1>8. \A old, new \in Ids : Pending(old, new) => Pending(old, new)'
  BY <1>1, <1>2, <1>4, PendingAtHead
<1>9. SeenInv' /\ ReplacedIsNotOffered' /\ BeliefSurvives'
  BY <1>1, <1>5, <1>6, <1>8, KeepsStandings
<1>10. QED
  BY <1>5, <1>7, <1>9 DEF StoreInv

\* A kill between the two commits leaves the old record interrupted.
LEMMA DropStep ==
    ASSUME StoreInv, NEW p \in Procs, Drop(p)
    PROVE  StoreInv'
<1>0. PICK s : s = Head(todo[p])
  OBVIOUS
<1>1. /\ todo[p] # << >> /\ UNCHANGED <<rows, fresh, begun, raced>>
      /\ interrupted' = IF s.kind \in {"mark", "update"} THEN interrupted \cup {s.id}
                        ELSE interrupted
      /\ todo' = [todo EXCEPT ![p] = << >>]
  BY <1>0 DEF Drop
<1>2. s = todo[p][1] /\ s \in Statements
  BY <1>0, <1>1, HeadIsSound
<1>3. Consumes(p)
  BY <1>1, DropsHead DEF StoreInv
<1>4. Awaited' \subseteq Awaited /\ StatementInv'
  BY <1>1, <1>3, ConsumesAwaited, ConsumesStatements
<1>5. TypeOK'
  BY <1>1, <1>2, <1>3 DEF StoreInv, TypeOK, Consumes, Statements
<1>6. \A old, new \in Ids : Pending(old, new) => Pending(old, new)' \/ old \in interrupted'
  BY <1>1, <1>2, <1>3, PendingAtHead
<1>7. SeenInv' /\ ReplacedIsNotOffered' /\ BeliefSurvives'
  BY <1>1, <1>4, <1>5, <1>6, KeepsStandings DEF TypeOK
<1>8. QED
  BY <1>4, <1>5, <1>7 DEF StoreInv

\* save() makes a record stand again only from a stale read, which is a race, and
\* goes on to retire what the record replaces.
LEMMA SaveStep ==
    ASSUME StoreInv, NEW p \in Procs, Save(p)
    PROVE  StoreInv'
<1>0. PICK s : s = Head(todo[p])
  OBVIOUS
<1> DEFINE lost == \/ s.read # None /\ (rows[s.id] = None \/ rows[s.id].column # s.read.standing)
                   \/ s.record.standing.by # None /\ ~Stands(s.record.standing.by)
           marks == s.record.supersedes # None /\ s.record.standing.status = "ACTIVE"
           mark == MarkStmt(s.record.supersedes, s.id)
<1>1. /\ todo[p] # << >> /\ s.kind = "save" /\ UNCHANGED <<fresh, begun, interrupted>>
      /\ rows' = [rows EXCEPT ![s.id] = Row(s.record)]
      /\ raced' = IF lost THEN raced \cup {s.id} ELSE raced
      /\ todo' = [todo EXCEPT ![p] = (IF marks THEN <<mark>> ELSE << >>) \o Tail(@)]
  BY <1>0 DEF Save
<1>2. s \in Statements /\ s = todo[p][1] /\ Sound(s, 1)
  BY <1>0, <1>1, HeadIsSound
<1>3. s.id \in Ids /\ s.record \in Record /\ s.read \in Record \cup {None}
  BY <1>1, <1>2 DEF Statements
<1>4. Row(s.record) \in [owner : Owners, supersedes : Ids \cup {None},
                         column : Standing, payload : Standing]
      /\ Row(s.record).column = s.record.standing
      /\ Row(s.record).supersedes = s.record.supersedes
  BY <1>3 DEF Row, Record
<1>5. /\ rows' \in [Ids -> {None} \cup [owner : Owners, supersedes : Ids \cup {None},
                                        column : Standing, payload : Standing]]
      /\ rows'[s.id] = Row(s.record)
      /\ \A id \in Ids : id # s.id => rows'[id] = rows[id]
  BY <1>1, <1>3, <1>4 DEF StoreInv, TypeOK
\* What the record replaces is retired next.
<1>6. Consumes(p) /\ (marks => Pending(s.record.supersedes, s.id)')
  <2>1. CASE ~marks
    <3>1. todo' = [todo EXCEPT ![p] = << >> \o Tail(@)]
      BY <1>1, <2>1
    <3>2. QED
      BY <1>1, <2>1, <3>1, DropsHead DEF StoreInv
  <2>2. CASE marks
    <3>1. todo' = [todo EXCEPT ![p] = <<mark>> \o Tail(@)]
      BY <1>1, <2>2
    <3>2. s.record.supersedes \in Ids /\ s.record.supersedes # s.id
      BY <1>1, <1>2, <1>3, <2>2 DEF Record, Sound
    <3>3. /\ mark \in Statements /\ mark.kind = "mark"
          /\ mark.id = s.record.supersedes /\ mark.new = s.id
      BY <1>3, <3>2 DEF MarkStmt, Statements
    <3> HIDE DEF mark
    <3>4. Consumes(p) /\ 1 \in DOMAIN todo'[p] /\ todo'[p][1] = mark
      BY <1>1, <3>1, <3>2, <3>3, ReplacesHead DEF StoreInv
    <3>5. QED
      BY <3>3, <3>4 DEF Pending
  <2>3. QED
    BY <2>1, <2>2
<1>7. Awaited' \subseteq Awaited /\ StatementInv'
  BY <1>1, <1>6, ConsumesAwaited, ConsumesStatements
<1>8. TypeOK'
  BY <1>1, <1>3, <1>5, <1>6 DEF StoreInv, TypeOK, Consumes
<1>9. s.id \notin Awaited' /\ (s.read = None => s.id \in Awaited)
  <2>1. CASE s.read = None
    <3>1. Proposing(p, s.id)
      BY <1>1, <1>2, <2>1 DEF Proposing
    <3>2. QED
      BY <1>1, <1>3, <1>6, <3>1, ConsumesAwaited DEF Awaited
  <2>2. CASE s.read # None
    BY <1>1, <1>2, <1>7, <2>2 DEF Sound
  <2>3. QED
    BY <2>1, <2>2
<1>10. \A old, new \in Ids : Pending(old, new) => Pending(old, new)'
  BY <1>1, <1>2, <1>6, PendingAtHead
<1>11. SeenInv'
  <2> SUFFICES ASSUME NEW id \in Stored'
               PROVE  id \notin Awaited' /\ rows'[id].supersedes \notin Awaited' \cup {id}
    BY DEF SeenInv
  <2>1. CASE id = s.id
    BY <1>1, <1>2, <1>4, <1>5, <1>7, <1>9, <2>1 DEF Sound
  <2>2. CASE id # s.id
    BY <1>5, <1>7, <2>2 DEF StoreInv, SeenInv, Stored
  <2>3. QED
    BY <2>1, <2>2
\* A save that is not a race changes the standing of no stored record to ACTIVE,
\* and of none but a duplicate to SUPERSEDED.
<1>12. ASSUME ~lost, s.read # None
       PROVE  /\ s.id \in Stored /\ rows[s.id].column = s.read.standing
              /\ s.record.standing.status = "ACTIVE" => rows[s.id].column = s.record.standing
              /\ s.record.standing.status = "SUPERSEDED" =>
                    \/ rows[s.id].column = s.record.standing
                    \/ s.record.standing.by # s.id
  BY <1>1, <1>2, <1>3, <1>12 DEF Sound, Stored
<1>13. raced \subseteq raced' /\ (lost => s.id \in raced')
  BY <1>1
<1> HIDE DEF lost, mark
<1>14. ReplacedIsNotOffered'
  <2> SUFFICES ASSUME NEW new \in Stored', NEW old, old = rows'[new].supersedes, old # None,
                      rows'[new].column.status = "ACTIVE", old \in Stored',
                      rows'[old].column.status = "ACTIVE"
               PROVE  Pending(old, new)' \/ old \in interrupted' \cup raced'
    BY DEF ReplacedIsNotOffered
  <2>1. new \in Ids /\ old \in Ids
    BY DEF Stored
  <2>2. CASE new = s.id
    BY <1>4, <1>5, <1>6, <2>2
  <2>3. CASE new # s.id
    <3>1. new \in Stored /\ rows'[new] = rows[new]
      BY <1>5, <2>1, <2>3 DEF Stored
    <3>2. old \notin Awaited
      BY <3>1 DEF StoreInv, SeenInv
    <3>3. CASE old = s.id /\ lost
      BY <1>13, <3>3
    <3>4. CASE ~(old = s.id /\ lost)
      <4>1. old \in Stored /\ rows[old].column.status = "ACTIVE"
        BY <1>4, <1>5, <1>9, <1>12, <2>1, <3>2, <3>4 DEF Stored
      <4>2. Pending(old, new) \/ old \in interrupted \cup raced
        BY <3>1, <4>1 DEF StoreInv, ReplacedIsNotOffered
      <4>3. QED
        BY <1>1, <1>10, <1>13, <2>1, <4>2
    <3>5. QED
      BY <3>3, <3>4
  <2>4. QED
    BY <2>2, <2>3
<1>15. BeliefSurvives'
  <2> SUFFICES ASSUME NEW chain \in (SUBSET (Stored' \ raced')) \ {{}},
                      \A id \in chain : rows'[id].column.status = "SUPERSEDED",
                      \A id \in chain : rows'[id].column.by \in chain
               PROVE  FALSE
    BY DEF BeliefSurvives
  <2>1. chain \subseteq Ids /\ chain \cap raced = {}
    BY <1>13 DEF Stored
  <2>2. ASSUME \A id \in chain : id \in Stored /\ rows'[id].column = rows[id].column
        PROVE  FALSE
    <3>1. chain \in (SUBSET (Stored \ raced)) \ {{}}
      BY <2>1, <2>2
    <3>2. QED
      BY <2>2, <3>1 DEF StoreInv, BeliefSurvives
  <2>3. CASE s.id \notin chain
    BY <1>5, <2>1, <2>2, <2>3 DEF Stored
  <2>4. CASE s.id \in chain
    <3>1. ~lost /\ s.record.standing.status = "SUPERSEDED" /\ s.record.standing.by \in chain
      BY <1>4, <1>5, <1>13, <2>4
    <3>2. s.read # None
      BY <1>1, <1>2, <3>1 DEF Sound
    <3>3. CASE rows[s.id].column = s.record.standing
      BY <1>4, <1>5, <1>12, <2>1, <2>2, <3>1, <3>2, <3>3 DEF Stored
    <3>4. CASE s.record.standing.by # s.id
      <4>1. s.record.standing.by \in Ids /\ s.record.standing.by # None
        BY <2>1, <3>1, NoneAssumption
      <4>2. Stands(s.record.standing.by)
        BY <3>1, <4>1 DEF lost
      <4>3. rows'[s.record.standing.by].column.status = "ACTIVE"
        BY <1>5, <3>4, <4>1, <4>2 DEF Stands
      <4>4. QED
        BY <3>1, <4>3
    <3>5. QED
      BY <1>12, <3>1, <3>2, <3>3, <3>4
  <2>5. QED
    BY <2>3, <2>4
<1>16. QED
  BY <1>7, <1>8, <1>11, <1>14, <1>15 DEF StoreInv

\* A record is retired in favour of one that stands, which is then not part of a
\* chain of retired records; otherwise the step is a race.
LEMMA UpdateStep ==
    ASSUME StoreInv, NEW p \in Procs, UpdateOld(p)
    PROVE  StoreInv'
<1>0. PICK s : s = Head(todo[p])
  OBVIOUS
<1>1. /\ todo[p] # << >> /\ s.kind = "update" /\ UNCHANGED <<fresh, begun>>
      /\ rows' = IF rows[s.id] = None THEN rows
                 ELSE [rows EXCEPT ![s.id] = Retire(@, s.new)]
      /\ raced' = IF Stands(s.new) THEN raced ELSE raced \cup {s.id}
      /\ interrupted' = interrupted \ {s.id}
      /\ todo' = [todo EXCEPT ![p] = Tail(@)]
  BY <1>0 DEF UpdateOld
<1>2. s \in Statements /\ s = todo[p][1] /\ Sound(s, 1)
  BY <1>0, <1>1, HeadIsSound
<1>3. s.id \in Ids /\ s.new \in Ids /\ s.id # s.new
  BY <1>1, <1>2 DEF Statements, Sound
<1>4. Consumes(p)
  BY <1>1, DropsHead DEF StoreInv
<1>5. Awaited' \subseteq Awaited /\ StatementInv'
  BY <1>1, <1>4, ConsumesAwaited, ConsumesStatements
<1>6. /\ rows' \in [Ids -> {None} \cup [owner : Owners, supersedes : Ids \cup {None},
                                        column : Standing, payload : Standing]]
      /\ \A id \in Ids : id # s.id => rows'[id] = rows[id]
      /\ rows[s.id] = None => rows'[s.id] = None
      /\ rows[s.id] # None => /\ rows'[s.id].supersedes = rows[s.id].supersedes
                              /\ rows'[s.id].column = SupersededBy(s.new)
  <2>1. CASE rows[s.id] = None
    BY <1>1, <1>3, <2>1 DEF StoreInv, TypeOK
  <2>2. CASE rows[s.id] # None
    <3>1. rows[s.id] \in [owner : Owners, supersedes : Ids \cup {None},
                          column : Standing, payload : Standing]
      BY <1>3, <2>2 DEF StoreInv, TypeOK
    <3>2. SupersededBy(s.new) \in Standing
      BY <1>3 DEF SupersededBy, Standing, MemoryStatus
    <3>3. /\ Retire(rows[s.id], s.new) \in [owner : Owners, supersedes : Ids \cup {None},
                                            column : Standing, payload : Standing]
          /\ Retire(rows[s.id], s.new).supersedes = rows[s.id].supersedes
          /\ Retire(rows[s.id], s.new).column = SupersededBy(s.new)
      BY <3>1, <3>2 DEF Retire
    <3>4. rows' = [rows EXCEPT ![s.id] = Retire(rows[s.id], s.new)]
      BY <1>1, <2>2
    <3>5. QED
      BY <1>3, <2>2, <3>3, <3>4 DEF StoreInv, TypeOK
  <2>3. QED
    BY <2>1, <2>2
<1>7. TypeOK'
  BY <1>1, <1>3, <1>4, <1>6 DEF StoreInv, TypeOK, Consumes
<1>8. \A id \in Stored' : /\ id \in Ids /\ id \in Stored
                          /\ rows'[id].supersedes = rows[id].supersedes
                          /\ id = s.id => rows'[id].column = SupersededBy(s.new)
  BY <1>6 DEF Stored
<1>9. SeenInv'
  BY <1>5, <1>8 DEF StoreInv, SeenInv
<1>10. ReplacedIsNotOffered'
  <2> SUFFICES ASSUME NEW new \in Stored', NEW old, old = rows'[new].supersedes, old # None,
                      rows'[new].column.status = "ACTIVE", old \in Stored',
                      rows'[old].column.status = "ACTIVE"
               PROVE  Pending(old, new)' \/ old \in interrupted' \cup raced'
    BY DEF ReplacedIsNotOffered
  <2>1. new # s.id /\ old # s.id /\ new \in Ids /\ old \in Ids
    BY <1>8 DEF SupersededBy
  <2>2. Pending(old, new) \/ old \in interrupted \cup raced
    BY <1>6, <1>8, <2>1 DEF StoreInv, ReplacedIsNotOffered
  <2>3. Pending(old, new) => Pending(old, new)'
    BY <1>2, <1>4, <2>1, PendingAtHead
  <2>4. QED
    BY <1>1, <2>1, <2>2, <2>3
<1>11. BeliefSurvives'
  <2> SUFFICES ASSUME NEW chain \in (SUBSET (Stored' \ raced')) \ {{}},
                      \A id \in chain : rows'[id].column.status = "SUPERSEDED",
                      \A id \in chain : rows'[id].column.by \in chain
               PROVE  FALSE
    BY DEF BeliefSurvives
  <2>1. chain \in (SUBSET (Stored \ raced)) \ {{}} /\ chain \subseteq Ids
    BY <1>1, <1>8
  <2>2. CASE s.id \notin chain
    <3>1. \A id \in chain : rows'[id] = rows[id]
      BY <1>6, <2>1, <2>2
    <3>2. QED
      BY <2>1, <3>1 DEF StoreInv, BeliefSurvives
  <2>3. CASE s.id \in chain
    <3>1. Stands(s.new) /\ s.new \in chain
      BY <1>1, <1>8, <2>3 DEF SupersededBy
    <3>2. rows'[s.new] = rows[s.new]
      BY <1>3, <1>6
    <3>3. QED
      BY <3>1, <3>2 DEF Stands
  <2>4. QED
    BY <2>2, <2>3
<1>12. QED
  BY <1>5, <1>7, <1>9, <1>10, <1>11 DEF StoreInv

-----------------------------------------------------------------------------
(* The theorems about the store *)

LEMMA InitStoreInv == MSInit => StoreInv
<1> SUFFICES ASSUME MSInit PROVE StoreInv
  OBVIOUS
<1>1. Stored = {} /\ (\A p \in Procs : todo[p] = << >>)
  BY DEF MSInit, Stored
<1>2. TypeOK
  BY MemoryBounds DEF MSInit, TypeOK
<1>3. StatementInv
  BY <1>1 DEF StatementInv, Proposing
<1>4. SeenInv /\ ReplacedIsNotOffered
  BY <1>1 DEF SeenInv, ReplacedIsNotOffered
<1>5. BeliefSurvives
  <2>1. ASSUME NEW chain \in (SUBSET (Stored \ raced)) \ {{}} PROVE FALSE
    BY <1>1, <2>1
  <2>2. QED
    BY <2>1 DEF BeliefSurvives
<1>6. QED
  BY <1>2, <1>3, <1>4, <1>5 DEF StoreInv

LEMMA NextStoreInv == StoreInv /\ [MSNext]_msVars => StoreInv'
<1> SUFFICES ASSUME StoreInv, [MSNext]_msVars PROVE StoreInv'
  OBVIOUS
<1>1. ASSUME NEW p \in Procs,
             Propose(p) \/ Archive(p) \/ BumpRecurrence(p) \/ Retrieve(p) \/ Consolidate(p)
      PROVE  StoreInv'
  BY <1>1, ProposeStep, ResaveSteps, RetrieveStep, ConsolidateStep
<1>2. ASSUME NEW p \in Procs, Delete(p) \/ PurgeProject(p)
      PROVE  StoreInv'
  BY <1>2, DeleteSteps
<1>3. ASSUME NEW p \in Procs,
             Save(p) \/ MarkSuperseded(p) \/ UpdateOld(p) \/ RecordAccess(p) \/ Drop(p)
      PROVE  StoreInv'
  BY <1>3, SaveStep, MarkStep, UpdateStep, AccessStep, DropStep
<1>4. CASE UNCHANGED msVars
  <2>1. Stored' = Stored /\ Awaited' = Awaited
    BY <1>4 DEF msVars, Stored, Awaited, Proposing
  <2>2. TypeOK' /\ StatementInv' /\ SeenInv'
    BY <1>4, <2>1 DEF msVars, StoreInv, TypeOK, StatementInv, Sound, Proposing, SeenInv
  <2>3. \A old, new : Pending(old, new)' <=> Pending(old, new)
    BY <1>4 DEF msVars, Pending
  <2>4. ReplacedIsNotOffered'
    BY <1>4, <2>1, <2>3 DEF msVars, StoreInv, ReplacedIsNotOffered
  <2>5. BeliefSurvives'
    BY <1>4, <2>1 DEF msVars, StoreInv, BeliefSurvives
  <2>6. QED
    BY <2>2, <2>4, <2>5 DEF StoreInv
<1>5. QED
  BY <1>1, <1>2, <1>3, <1>4 DEF MSNext

LEMMA StoreInvariant == MSSpec => []StoreInv
BY InitStoreInv, NextStoreInv, PTL DEF MSSpec

\* Every row, and every statement an operation still has to make, is of a kind
\* that the store knows, whatever statements of several processes interleave.
THEOREM StoreTypesAreCorrect == MSSpec => []TypeOK
BY StoreInvariant, PTL DEF StoreInv

\* A memory and the one it replaced are never offered to agents together, for any
\* number of processes, records and kills, except while save() is between its two
\* commits, was cut off there, or a stale read wrote over the retirement.
THEOREM ReplacedStaysHidden == MSSpec => []ReplacedIsNotOffered
BY StoreInvariant, PTL DEF StoreInv

\* No set of retired memories leads only back into itself: current_belief ends at
\* a memory that stands or was deleted, unless a statement acted on a standing
\* that had already changed.
THEOREM BeliefIsNotLost == MSSpec => []BeliefSurvives
BY StoreInvariant, PTL DEF StoreInv
=============================================================================
