-------------------------- MODULE RunDecisionsProofs --------------------------
(***************************************************************************)
(* What the decisions of RunDecisions cannot break: an approve or a hard    *)
(* stop overwrites the status of a run, never with a finalized one, and     *)
(* nothing else.  What is proved here of the queue survives it; what the    *)
(* theorems of WorkItemQueueProofs say beyond that does not.                *)
(***************************************************************************)
EXTENDS RunDecisions, WorkItemLeaseProofs

\* A decision is saved.
Overwrite == \E r \in Runs, s \in {"Running", "Cancelled"} : SetRunStatus(r, s)

\* To the queue, a step of a decision is a step of the queue, an overwrite or
\* nothing.
LEMMA QueueOrOverwrite ==
  ASSUME [DecisionsNext]_allVars PROVE [Next]_vars \/ Overwrite
  BY DEF DecisionsNext, allVars, ApproveRead, ApproveSave, ApproveLost, StopRead, StopSave,
         StopJournal, StopLost, Overwrite

LEMMA OverwriteRows ==
  ASSUME TypeOK, Overwrite
  PROVE  /\ \A r \in Runs : runStatus'[r] \in {runStatus[r], "Running", "Cancelled"}
         /\ UNCHANGED <<runGen, outbox, itemVars, callVars, cancel>>
  BY DEF Overwrite, SetRunStatus, TypeOK

-----------------------------------------------------------------------------
(* Types *)

\* A stop in flight has not been journalled yet, so there are never more
\* journal rows than stops begun.
JournalBehind ==
    \A r \in Runs : exceeded[r] + (IF stopping[r] = "idle" THEN 0 ELSE 1) <= stops[r]

LEMMA OverwriteTypes == ASSUME TypeOK, NEW r \in Runs, NEW s \in RunStatuses, SetRunStatus(r, s)
                        PROVE  TypeOK'
  BY DEF SetRunStatus, TypeOK, itemVars, leaseVars, callVars

LEMMA DecisionsTypeStep ==
  ASSUME DecisionsTypeOK, JournalBehind, [DecisionsNext]_allVars
  PROVE  DecisionsTypeOK' /\ JournalBehind'
<1>. USE MaxStopsAssumption
<1>. /\ TypeOK
     /\ approving \in [Runs -> RunStatuses \cup {None}]
     /\ stopping \in [Runs -> {"idle", "save", "journal"}]
     /\ stops \in [Runs -> 0 .. MaxStops]
     /\ exceeded \in [Runs -> 0 .. MaxStops]
  BY DEF DecisionsTypeOK
<1>1. CASE [Next]_vars /\ UNCHANGED decisionVars
  BY <1>1, TypeStep DEF DecisionsTypeOK, JournalBehind, decisionVars
<1>2. ASSUME NEW r \in Runs, ApproveRead(r) \/ ApproveLost(r)
      PROVE  DecisionsTypeOK' /\ JournalBehind'
  <2>1. TypeOK'
    BY <1>2, TypeStep DEF ApproveRead, ApproveLost
  <2>2. approving' \in [Runs -> RunStatuses \cup {None}]
    BY <1>2 DEF ApproveRead, ApproveLost, TypeOK
  <2>. QED
    BY <1>2, <2>1, <2>2 DEF ApproveRead, ApproveLost, DecisionsTypeOK, JournalBehind
<1>3. ASSUME NEW r \in Runs, ApproveSave(r) PROVE DecisionsTypeOK' /\ JournalBehind'
  <2>1. TypeOK'
    BY <1>3, OverwriteTypes DEF ApproveSave, RunStatuses
  <2>. QED
    BY <1>3, <2>1 DEF ApproveSave, DecisionsTypeOK, JournalBehind
<1>4. ASSUME NEW r \in Runs, StopRead(r) \/ StopLost(r)
      PROVE  DecisionsTypeOK' /\ JournalBehind'
  <2>1. TypeOK'
    BY <1>4, TypeStep DEF StopRead, StopLost
  <2>. QED
    BY <1>4, <2>1 DEF StopRead, StopLost, DecisionsTypeOK, JournalBehind
<1>5. ASSUME NEW r \in Runs, StopSave(r) PROVE DecisionsTypeOK' /\ JournalBehind'
  <2>1. TypeOK'
    BY <1>5, OverwriteTypes DEF StopSave, RunStatuses
  <2>. QED
    BY <1>5, <2>1 DEF StopSave, DecisionsTypeOK, JournalBehind
<1>6. ASSUME NEW r \in Runs, StopJournal(r) PROVE DecisionsTypeOK' /\ JournalBehind'
  <2>1. TypeOK'
    BY <1>6, TypeStep DEF StopJournal
  <2>. QED
    BY <1>6, <2>1 DEF StopJournal, DecisionsTypeOK, JournalBehind
<1>. QED
  BY <1>1, <1>2, <1>3, <1>4, <1>5, <1>6 DEF DecisionsNext, allVars

\* Every variable of the queue and of the decisions keeps its type, and the
\* journal has no more exceeded rows than stops began (OrchestrationBudgetGate).
THEOREM DecisionsTypeCorrect == DecisionsSpec => []DecisionsTypeOK
<1>1. DecisionsInit => DecisionsTypeOK /\ JournalBehind
  BY TypeInit, MaxStopsAssumption DEF DecisionsInit, DecisionsTypeOK, JournalBehind
<1>2. DecisionsTypeOK /\ JournalBehind /\ [DecisionsNext]_allVars
        => DecisionsTypeOK' /\ JournalBehind'
  BY DecisionsTypeStep
<1>. QED
  BY <1>1, <1>2, PTL DEF DecisionsSpec

-----------------------------------------------------------------------------
(* The items of the plan *)

\* A dependent never runs before its prerequisites succeeded, whatever is
\* decided about its run (UnblockDependentsSql).
THEOREM DecisionsKeepOrder == DecisionsSpec => []PrerequisitesFirst
<1>1. DecisionsInit => PrerequisitesFirst
  BY DEF DecisionsInit, Init, PrerequisitesFirst
<1>2. TypeOK /\ PrerequisitesFirst /\ [DecisionsNext]_allVars => PrerequisitesFirst'
  <2>1. TypeOK /\ PrerequisitesFirst /\ Overwrite => PrerequisitesFirst'
    BY OverwriteRows DEF PrerequisitesFirst, itemVars
  <2>. QED
    BY <2>1, QueueOrOverwrite, PrerequisitesStep
<1>3. DecisionsTypeOK => TypeOK
  BY DEF DecisionsTypeOK
<1>. QED
  BY <1>1, <1>2, <1>3, DecisionsTypeCorrect, PTL DEF DecisionsSpec

\* The completion of the last prerequisite lets a dependent go, also in a run
\* that was stopped or approved in between (UnblockDependentsSql).
THEOREM DecisionsKeepReleased == DecisionsSpec => []DependentsReleased
<1>1. DecisionsInit => DependentsReleased
  BY DEF DecisionsInit, Init, DependentsReleased
<1>2. TypeOK /\ DependentsReleased /\ [DecisionsNext]_allVars => DependentsReleased'
  <2>1. TypeOK /\ DependentsReleased /\ Overwrite => DependentsReleased'
    BY OverwriteRows DEF DependentsReleased, itemVars
  <2>. QED
    BY <2>1, QueueOrOverwrite, ReleasedStep
<1>3. DecisionsTypeOK => TypeOK
  BY DEF DecisionsTypeOK
<1>. QED
  BY <1>1, <1>2, <1>3, DecisionsTypeCorrect, PTL DEF DecisionsSpec

\* Items exist from the launch of their run on, and a decision takes no run
\* back to where it was not launched.
LEMMA BeforeLaunchStep ==
  ASSUME TypeOK, NothingBeforeLaunch, [Next]_vars \/ Overwrite PROVE NothingBeforeLaunch'
<1>0. \A i \in Items : RunOf[i] \in Runs
  BY RunOfAssumption
<1>1. CASE Overwrite
  BY <1>0, <1>1, OverwriteRows DEF NothingBeforeLaunch, itemVars
<1>2. CASE [Next]_vars
  <2>1. \A r \in Runs : runStatus[r] # "Absent" => runStatus'[r] # "Absent"
    BY <1>2, OpensAtLaunchStep DEF OpensAtLaunch
  <2>. SUFFICES ASSUME NEW i \in Items, itemStatus[i] = "Absent", itemStatus'[i] # "Absent"
                PROVE  runStatus'[RunOf[i]] # "Absent"
    BY <1>0, <2>1 DEF NothingBeforeLaunch
  <2>2. CASE \E r \in Runs : Launch(r)
    BY <2>2, <1>0 DEF Launch, InitialStatus, Planned, ItemsOf, TypeOK
  <2>3. CASE \E j \in Items : Steer(j)
    BY <2>3, <1>0 DEF Steer, Steerable, runVars, TypeOK
  <2>4. CASE \E c \in claims : Complete(c) \/ Fail(c)
    BY <2>4, FinishItems DEF Owns
  <2>5. CASE Reap
    BY <2>5 DEF Reap, ReapedRuns, Finalize, Announced, Expired, Exhausted
  <2>6. CASE \E w \in Workers, j \in Items : Claim(w, j)
    BY <2>6 DEF Claim, Claimable, TypeOK
  <2>7. CASE \E o \in Operators : CancelCommit(o)
    BY <2>7 DEF CancelCommit, FoundAsRead, CancelledItems, FencedItems
  <2>8. CASE itemStatus' = itemStatus
    BY <2>8
  <2>. QED
    BY <1>2, <2>2, <2>3, <2>4, <2>5, <2>6, <2>7, <2>8
       DEF Next, CancelStep, vars, itemVars, Heartbeat, Renewed, Tick, CancelRead, CancelItems,
           CancelMiss, FoundAsRead, CancelRetry, CancelAbort
<1>. QED
  BY <1>1, <1>2

\* What a cancel request knows of its run and its locks is about the items, and
\* about the run only that it was launched.
LEMMA CancelInvOverwrite ==
  ASSUME TypeOK, CancelInv, Overwrite PROVE CancelInv'
<1>1. \A o \in Operators : cancel[o].pc # "idle" => runStatus'[cancel[o].run] # "Absent"
  BY OverwriteRows DEF CancelInv
<1>. QED
  BY <1>1, OverwriteRows DEF CancelInv, Covers, itemVars

LEMMA LeaseOverwrite ==
  ASSUME TypeOK, LeaseInv, Overwrite PROVE LeaseInv'
  BY OverwriteRows DEF LeaseInv, LeaseConsistent, IsLatest, itemVars, leaseVars, callVars

LEMMA GenerationOverwrite ==
  ASSUME TypeOK, GenerationInv, Overwrite PROVE GenerationInv'
<1>1. \A r \in Runs : runStatus'[r] = "Absent" => runStatus[r] = "Absent"
  BY OverwriteRows
<1>2. UNCHANGED <<runGen, itemGen, claims>>
  BY OverwriteRows DEF itemVars, leaseVars, callVars
<1>. QED
  BY <1>1, <1>2, GenerationKept

LEMMA ResultOverwrite ==
  ASSUME TypeOK, ResultInv, Overwrite PROVE ResultInv'
  BY OverwriteRows DEF ResultInv, ResultFromHolder, IsLatest, itemVars, leaseVars, callVars

\* The strengthening that survives the decisions: that of the queue without
\* what it knows of the status of a run beyond the launch.
DecidedInv ==
    /\ TypeOK
    /\ NothingBeforeLaunch
    /\ CancelInv
    /\ LeaseInv
    /\ GenerationInv
    /\ ResultInv

LEMMA DecidedStep == ASSUME DecidedInv, [DecisionsNext]_allVars PROVE DecidedInv'
<1>1. CASE [Next]_vars
  BY <1>1, TypeStep, BeforeLaunchStep, CancelInvStep, LeaseStep, GenerationStep, ResultStep
     DEF DecidedInv
<1>2. CASE Overwrite
  <2>1. TypeOK'
    BY <1>2, OverwriteTypes DEF Overwrite, DecidedInv, RunStatuses
  <2>. QED
    BY <1>2, <2>1, BeforeLaunchStep, CancelInvOverwrite, LeaseOverwrite, GenerationOverwrite,
       ResultOverwrite DEF DecidedInv
<1>. QED
  BY <1>1, <1>2, QueueOrOverwrite

LEMMA Decided == DecisionsSpec => []DecidedInv
<1>1. DecisionsInit => DecidedInv
  BY TypeInit, LeaseAssumption, RunOfAssumption
     DEF DecisionsInit, DecidedInv, Init, NothingBeforeLaunch, CancelInv, Covers, Idle,
         LeaseInv, LeaseConsistent, GenerationInv, ResultInv, ResultFromHolder
<1>. QED
  BY <1>1, DecidedStep, PTL DEF DecisionsSpec

\* One lessee per Running item, its latest claimant, and no more attempts than
\* allowed, also on a run a decision took elsewhere (ClaimSql, ReapRequeueSql).
THEOREM DecisionsKeepLeases == DecisionsSpec => []LeaseConsistent
  BY Decided, PTL DEF DecidedInv, LeaseInv

\* The journalled result is that of the worker and generation of the latest
\* claim: a decision moves no generation (CompleteSql, FailSql).
THEOREM DecisionsKeepResults == DecisionsSpec => []ResultFromHolder
  BY Decided, PTL DEF DecidedInv, ResultInv

-----------------------------------------------------------------------------
(* Finalized runs and finished items *)

\* A decision writes Running or Cancelled, so a run that is finalized after a
\* step was finalized before it or by it.
LEMMA ClosedStep ==
  ASSUME DecidedInv, TerminalRunClosed, [DecisionsNext]_allVars PROVE TerminalRunClosed'
<1>. TypeOK /\ CancelInv /\ NothingBeforeLaunch
  BY DEF DecidedInv
<1>0. \A i \in Items : RunOf[i] \in Runs
  BY RunOfAssumption
<1>1. CASE Overwrite
  BY <1>1, OverwriteRows DEF TerminalRunClosed, Open, ItemsOf, itemVars
<1>2. ASSUME NEW r \in Runs, Launch(r) PROVE TerminalRunClosed'
  <2>1. \A q \in Runs : runStatus'[q] = IF q = r THEN "Queued" ELSE runStatus[q]
    BY <1>2 DEF Launch, TypeOK
  <2>2. \A i \in Items : RunOf[i] # r => itemStatus'[i] = itemStatus[i]
    BY <1>2 DEF Launch, Planned, ItemsOf
  <2>. QED
    BY <2>1, <2>2 DEF TerminalRunClosed, Open, ItemsOf
<1>3. ASSUME NEW i \in Items, Steer(i) PROVE TerminalRunClosed'
  <2>1. \A j \in Items : itemStatus'[j] = IF j = i THEN "Queued" ELSE itemStatus[j]
    BY <1>3 DEF Steer, TypeOK
  <2>2. runStatus' = runStatus /\ runStatus[RunOf[i]] \notin {"Succeeded", "Failed"}
    BY <1>3 DEF Steer, Steerable, TerminalRun, runVars
  <2>. QED
    BY <2>1, <2>2 DEF TerminalRunClosed, Open, ItemsOf
<1>4. ASSUME NEW w \in Workers, NEW i \in Items, Claim(w, i) PROVE TerminalRunClosed'
  <2>1. \A j \in Items : itemStatus'[j] = IF j = i THEN "Running" ELSE itemStatus[j]
    BY <1>4 DEF Claim, TypeOK
  <2>2. /\ runStatus[RunOf[i]] \notin {"Succeeded", "Failed"}
        /\ \A q \in Runs : runStatus'[q] = runStatus[q]
                             \/ (q = RunOf[i] /\ runStatus'[q] = "Running")
    BY <1>4 DEF Claim, Claimable, TerminalRun, TypeOK
  <2>. QED
    BY <2>1, <2>2 DEF TerminalRunClosed, Open, ItemsOf
<1>5. CASE (\E c \in claims : Complete(c) \/ Fail(c)) \/ Reap
  BY <1>5, CompleteCloses, FailCloses, ReapCloses, ClosedFinalize
<1>6. ASSUME NEW o \in Operators, CancelCommit(o) PROVE TerminalRunClosed'
  <2>1. /\ \A q \in Runs : runStatus'[q] = IF q = cancel[o].run THEN "Cancelled" ELSE runStatus[q]
        /\ \A i \in Items : RunOf[i] # cancel[o].run => itemStatus'[i] = itemStatus[i]
    BY <1>6, CancelCommitRows DEF ItemsOf
  <2>. QED
    BY <2>1 DEF TerminalRunClosed, Open, ItemsOf
<1>7. CASE UNCHANGED <<runStatus, itemStatus>>
  BY <1>7 DEF TerminalRunClosed, Open
<1>8. CASE [Next]_vars
  BY <1>2, <1>3, <1>4, <1>5, <1>6, <1>7, <1>8
     DEF Next, CancelStep, vars, runVars, itemVars, Heartbeat, Renewed, Tick, CancelRead,
         CancelItems, CancelMiss, FoundAsRead, CancelRetry, CancelAbort
<1>. QED
  BY <1>1, <1>8, QueueOrOverwrite

\* However a decision overwrote it on the way, a run that is Succeeded or Failed
\* has no open item and the outcome its items call for (RunFinalizationSql).
THEOREM DecisionsKeepClosed == DecisionsSpec => []TerminalRunClosed
<1>1. DecisionsInit => TerminalRunClosed
  BY DEF DecisionsInit, Init, TerminalRunClosed
<1>2. DecidedInv /\ TerminalRunClosed /\ [DecisionsNext]_allVars => TerminalRunClosed'
  BY ClosedStep
<1>. QED
  BY <1>1, <1>2, Decided, PTL DEF DecisionsSpec

FinishedKept ==
    \A i \in Items : itemStatus[i] \in {"Succeeded", "Failed", "Cancelled"} =>
        itemStatus'[i] = itemStatus[i] /\ result'[i] = result[i]

LEMMA FinishedStep == ASSUME DecidedInv, [DecisionsNext]_allVars PROVE FinishedKept
<1>. TypeOK /\ NothingBeforeLaunch
  BY DEF DecidedInv
<1>1. CASE Overwrite
  BY <1>1, OverwriteRows DEF FinishedKept, itemVars, callVars
<1>2. ASSUME NEW r \in Runs, Launch(r) PROVE FinishedKept
  BY <1>2 DEF FinishedKept, NothingBeforeLaunch, Launch, Planned, ItemsOf, callVars
<1>3. ASSUME NEW i \in Items, Steer(i) PROVE FinishedKept
  BY <1>3 DEF FinishedKept, Steer, callVars, TypeOK
<1>4. ASSUME NEW w \in Workers, NEW i \in Items, Claim(w, i) PROVE FinishedKept
  BY <1>4 DEF FinishedKept, Claim, Claimable, TypeOK
<1>5. ASSUME NEW c \in claims, Complete(c) \/ Fail(c) PROVE FinishedKept
  <2>1. \A i \in Items : i # c.item => result'[i] = result[i]
    BY <1>5, FinishItems DEF Complete, Fail, TypeOK
  <2>. QED
    BY <1>5, <2>1, FinishItems DEF FinishedKept, Owns
<1>6. CASE Reap
  BY <1>6 DEF FinishedKept, Reap, ReapedRuns, Finalize, Announced, Expired, Exhausted, callVars
<1>7. ASSUME NEW o \in Operators, CancelCommit(o) PROVE FinishedKept
  BY <1>7 DEF FinishedKept, CancelCommit, FoundAsRead, CancelledItems, FencedItems, callVars
<1>8. CASE UNCHANGED <<itemStatus, result>>
  BY <1>8 DEF FinishedKept
<1>9. CASE [Next]_vars
  BY <1>2, <1>3, <1>4, <1>5, <1>6, <1>7, <1>8, <1>9
     DEF Next, CancelStep, vars, itemVars, callVars, Heartbeat, Renewed, Tick, CancelRead,
         CancelItems, CancelMiss, FoundAsRead, CancelRetry, CancelAbort
<1>. QED
  BY <1>1, <1>9, QueueOrOverwrite

\* A finished item keeps its status and its result, whatever is decided about
\* its run afterwards (the Running guard of CompleteSql and FailSql).
THEOREM FinishedFrozen == DecisionsSpec => FinishedItemsFrozen
<1>1. DecidedInv /\ [DecisionsNext]_allVars
        => [\A i \in Items : itemStatus[i] \in {"Succeeded", "Failed", "Cancelled"} =>
                itemStatus'[i] = itemStatus[i] /\ result'[i] = result[i]]_allVars
  BY FinishedStep DEF FinishedKept
<1>. QED
  BY <1>1, Decided, PTL DEF DecisionsSpec, FinishedItemsFrozen

=============================================================================
