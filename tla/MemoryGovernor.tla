---------------------------- MODULE MemoryGovernor ---------------------------
(***************************************************************************)
(* memory/governor.py and its use by orchestrator.py: the allowance of     *)
(* memory one execution may put into prompts, across kills and restarts of *)
(* the process that runs it.                                               *)
(*                                                                         *)
(* The loops of _admit are steps of their own, one candidate at a time, so *)
(* that the running estimate (spent) can be compared with the characters   *)
(* that are really rendered (length).  The estimate of a memory counts the *)
(* newline that joins it to the next entry; that of a reference line does  *)
(* not: its template lacks a space and makes up for it with that newline.  *)
(***************************************************************************)
EXTENDS Integers, FiniteSets, SequencesExt

CONSTANTS
    Memories,                \* the memories of the store
    Size,                    \* characters of a memory, rendered
    RefSize,                 \* characters of the line that refers to it
    RetrieverCost,           \* the retriever's own estimate of a memory
    MaxTotalChars, MaxRetrievals, MaxTotalMemories,
    MaxCharsPerRetrieval, MaxMemoriesPerRetrieval,
    MaxRestarts              \* bound on the kills of one execution

ASSUME SizesAssumption ==
    /\ IsFiniteSet(Memories)
    /\ Size \in [Memories -> Nat \ {0}]
    /\ RefSize \in [Memories -> Nat \ {0}]
    /\ RetrieverCost \in [Memories -> Nat]

ASSUME BudgetAssumption ==
    /\ MaxTotalChars \in Nat \ {0} /\ MaxRetrievals \in Nat \ {0}
    /\ MaxTotalMemories \in Nat \ {0} /\ MaxCharsPerRetrieval \in Nat \ {0}
    /\ MaxMemoriesPerRetrieval \in Nat \ {0} /\ MaxRestarts \in Nat

VARIABLES
    pc,         \* "idle", "choose", "refer", "granted" or "recorded"
    consumed, retrievals, injected,  \* ExecutionMemoryBudget
    ledger,     \* what memory_consumption() reads from memory_injections
    candidates, \* _admit: the ordered candidates not yet looked at
    suppressed, \* _admit: the candidates already injected, not yet referred to
    selected,   \* _admit: the memories to send
    referred,   \* _admit: reference_ids
    spent,      \* _admit: the estimate
    length,     \* len(text) of what is selected and referred to
    shown,      \* ghost: characters that reached prompts, over all restarts
    sent,       \* ghost: the memories whose text reached a prompt
    repeated,   \* ghost: some memory's text reached a second prompt
    restarts

budget == <<consumed, retrievals, injected>>
admission == <<candidates, suppressed, selected, referred, spent, length>>
prompts == <<shown, sent, repeated>>
vars == <<pc, budget, ledger, admission, prompts, restarts>>

-----------------------------------------------------------------------------
(* ExecutionMemoryBudget *)

Lesser(a, b) == IF a <= b THEN a ELSE b

\* exhausted: any dimension, not all
Exhausted ==
    \/ consumed >= MaxTotalChars
    \/ retrievals >= MaxRetrievals
    \/ Cardinality(injected) >= MaxTotalMemories

CharsAllowedNow == Lesser(MaxCharsPerRetrieval, MaxTotalChars - consumed)
MemoriesAllowedNow ==
    Lesser(MaxMemoriesPerRetrieval, MaxTotalMemories - Cardinality(injected))

NoAdmission ==
    /\ candidates' = <<>> /\ suppressed' = <<>> /\ selected' = {} /\ referred' = <<>>
    /\ spent' = 0 /\ length' = 0

Init ==
    /\ pc = "idle"
    /\ consumed = 0 /\ retrievals = 0 /\ injected = {}
    /\ ledger = [chars |-> 0, retrievals |-> 0, injected |-> {}]
    /\ candidates = <<>> /\ suppressed = <<>> /\ selected = {} /\ referred = <<>>
    /\ spent = 0 /\ length = 0
    /\ shown = 0 /\ sent = {} /\ repeated = FALSE
    /\ restarts = 0

-----------------------------------------------------------------------------
(* MemoryGovernor.request *)

\* What MemoryRetriever.retrieve can return: relevance is the ranker's, the
\* limits are the request's (one memory more than may be sent).
Retrievable ==
    {c \in SeqOf(Memories, MemoriesAllowedNow + 1) :
        /\ c # <<>> /\ IsInjective(c)
        /\ FoldSeq(LAMBDA m, sum : RetrieverCost[m] + sum, 0, c) <= CharsAllowedNow}

\* The strategy applies here, the budget is not spent and something is relevant;
\* every other request is refused and changes nothing.
Request(c) ==
    /\ pc = "idle" /\ ~Exhausted
    /\ candidates' = c
    /\ pc' = "choose"
    /\ UNCHANGED <<budget, ledger, suppressed, selected, referred, spent, length, prompts,
                   restarts>>

-----------------------------------------------------------------------------
(* _admit *)

\* _render_cost and _reference_cost
RenderCost(m) == Size[m] + 1
ReferenceCost(m) == RefSize[m]

\* "\n".join of the lines so far and one of n characters
Joined(n) == IF length = 0 THEN n ELSE length + 1 + n

\* Mutant: a memory is charged when it does not fit.
FitsMutStrict(cost) == spent < CharsAllowedNow

Fits(cost) == spent + cost <= CharsAllowedNow

\* Mutant: what was sent before is sent again.
KnownMutNever(m) == FALSE

\* already_injected
Known(m) == m \in injected

Suppress(m) ==
    /\ Known(m)
    /\ suppressed' = Append(suppressed, m)
    /\ UNCHANGED <<selected, spent, length>>

Select(m) ==
    /\ ~Known(m)
    /\ Cardinality(selected) < MemoriesAllowedNow /\ Fits(RenderCost(m))
    /\ selected' = selected \cup {m}
    /\ spent' = spent + RenderCost(m)
    /\ length' = Joined(Size[m])
    /\ UNCHANGED suppressed

Skip(m) ==
    /\ ~Known(m)
    /\ Cardinality(selected) >= MemoriesAllowedNow \/ ~Fits(RenderCost(m))
    /\ UNCHANGED <<suppressed, selected, spent, length>>

Choose ==
    /\ pc = "choose" /\ candidates # <<>>
    /\ candidates' = Tail(candidates)
    /\ Suppress(Head(candidates)) \/ Select(Head(candidates)) \/ Skip(Head(candidates))
    /\ UNCHANGED <<pc, budget, ledger, referred, prompts, restarts>>

EndChoose ==
    /\ pc = "choose" /\ candidates = <<>>
    /\ pc' = "refer"
    /\ UNCHANGED <<budget, ledger, admission, prompts, restarts>>

Refer ==
    LET m == Head(suppressed)
    IN  /\ pc = "refer" /\ suppressed # <<>> /\ Fits(ReferenceCost(m))
        /\ suppressed' = Tail(suppressed)
        /\ referred' = Append(referred, m)
        /\ spent' = spent + ReferenceCost(m)
        /\ length' = Joined(RefSize[m])
        /\ UNCHANGED <<pc, budget, ledger, candidates, selected, prompts, restarts>>

\* No reference is left, or the next one does not fit.
ReferencesEnd == suppressed # <<>> => ~Fits(ReferenceCost(Head(suppressed)))

\* DUPLICATE_SUPPRESSED or NOTHING_RELEVANT: nothing is charged.
Refuse ==
    /\ pc = "refer" /\ ReferencesEnd
    /\ selected = {} /\ referred = <<>>
    /\ pc' = "idle"
    /\ NoAdmission
    /\ UNCHANGED <<budget, ledger, prompts, restarts>>

\* The text is rendered, then charged for what it is: record_injection.
Grant ==
    /\ pc = "refer" /\ ReferencesEnd
    /\ selected # {} \/ referred # <<>>
    /\ consumed' = consumed + length
    /\ retrievals' = retrievals + 1
    /\ injected' = injected \cup selected
    /\ pc' = "granted"
    /\ UNCHANGED <<ledger, admission, prompts, restarts>>

-----------------------------------------------------------------------------
(* The orchestrator's side *)

\* Mutant: only new memories are recorded, not the lines that refer to others.
RecordMutSelectedOnly ==
    /\ pc = "granted"
    /\ ledger' = IF selected = {} THEN ledger
                 ELSE [chars |-> ledger.chars + length,
                       retrievals |-> ledger.retrievals + 1,
                       injected |-> ledger.injected \cup selected]
    /\ pc' = "recorded"
    /\ UNCHANGED <<budget, admission, prompts, restarts>>

\* _record_grant: one row of memory_injections, before the text is returned.
RecordGrant ==
    /\ pc = "granted"
    /\ ledger' = [chars |-> ledger.chars + length,
                  retrievals |-> ledger.retrievals + 1,
                  injected |-> ledger.injected \cup selected]
    /\ pc' = "recorded"
    /\ UNCHANGED <<budget, admission, prompts, restarts>>

\* The prompt with the granted text reaches a model.
Send ==
    /\ pc = "recorded"
    /\ shown' = shown + length
    /\ repeated' = (repeated \/ selected \cap sent # {})
    /\ sent' = sent \cup selected
    /\ pc' = "idle"
    /\ NoAdmission
    /\ UNCHANGED <<budget, ledger, restarts>>

\* Mutant: the restarted run begins with a full allowance.
ResumedMutFresh == [chars |-> 0, retrievals |-> 0, injected |-> ledger.injected]

Resumed == ledger

\* The process is killed at any point; _build_governor resumes the budget.
Restart ==
    /\ restarts < MaxRestarts
    /\ restarts' = restarts + 1
    /\ consumed' = Resumed.chars
    /\ retrievals' = Resumed.retrievals
    /\ injected' = Resumed.injected
    /\ pc' = "idle"
    /\ NoAdmission
    /\ UNCHANGED <<ledger, prompts>>

Next ==
    \/ pc = "idle" /\ \E c \in Retrievable : Request(c)
    \/ Choose \/ EndChoose \/ Refer \/ Refuse \/ Grant
    \/ RecordGrant \/ Send
    \/ Restart

Spec == Init /\ [][Next]_vars

-----------------------------------------------------------------------------
(* Properties *)

\* By how much the estimate falls short: a newline for each reference but one.
Shortfall == MaxMemoriesPerRetrieval

\* However often the process is killed, an execution shows its models no more
\* than its limits, but for the newlines the last estimate leaves out.
ShownWithinBudget ==
    /\ shown <= MaxTotalChars + Shortfall
    /\ Cardinality(sent) <= MaxTotalMemories

\* One prompt gets no more than one retrieval may spend, and exactly so when
\* it refers to at most one earlier memory.
PromptWithinCeiling ==
    pc \in {"granted", "recorded"} =>
        /\ length <= MaxCharsPerRetrieval + Shortfall
        /\ Len(referred) <= 1 => length <= MaxCharsPerRetrieval

\* The text of a memory reaches the models of an execution at most once.
NothingSentTwice == ~repeated

\* What reached a prompt is on disk already: a kill at any point can neither
\* refill the allowance nor have a memory sent again.
LedgerCoversPrompts ==
    /\ shown <= ledger.chars /\ ledger.chars <= consumed
    /\ sent \subseteq ledger.injected
    /\ ledger.retrievals <= retrievals /\ retrievals <= MaxRetrievals
=============================================================================
