----------------------------- MODULE RunDecisions -----------------------------
(***************************************************************************)
(* The work-item queue together with the two decisions the host writes     *)
(* through the ORM: the operator's approve and the budget hard stop.  Both  *)
(* read the run into memory, check the status they read and write the row  *)
(* back by id; the runs table has no concurrency token, so the write       *)
(* overwrites whatever was committed in between.                           *)
(***************************************************************************)
EXTENDS WorkItemQueue

CONSTANT MaxStops      \* bound: hard stops a run sees

ASSUME MaxStopsAssumption == MaxStops \in Nat

VARIABLES
    approving,  \* the status an approve in flight has read, or None
    stopping,   \* how far a hard stop of the run has come
    stops,      \* hard stops begun per run, for the bound
    exceeded    \* budget.exceeded rows of the run journal

decisionVars == <<approving, stopping, stops, exceeded>>
allVars      == <<vars, decisionVars>>

DecisionsInit ==
    /\ Init
    /\ approving = [r \in Runs |-> None]
    /\ stopping  = [r \in Runs |-> "idle"]
    /\ stops     = [r \in Runs |-> 0]
    /\ exceeded  = [r \in Runs |-> 0]

SetRunStatus(r, s) ==
    /\ runStatus' = [runStatus EXCEPT ![r] = s]
    /\ UNCHANGED <<runGen, outbox, itemVars, callVars, cancel>>

-----------------------------------------------------------------------------
\* Approve refuses a status the transition table has no edge to Running from.
ApproveRead(r) ==
    /\ approving[r] = None
    /\ "Running" \in RunTargets(runStatus[r])
    /\ approving' = [approving EXCEPT ![r] = runStatus[r]]
    /\ UNCHANGED <<vars, stopping, stops, exceeded>>

ApproveSave(r) ==
    /\ approving[r] # None
    /\ SetRunStatus(r, "Running")
    /\ approving' = [approving EXCEPT ![r] = None]
    /\ UNCHANGED <<stopping, stops, exceeded>>

\* A worker's metered model call takes the project over its hard cap.  A run
\* that is already Succeeded or Cancelled is left alone; from Failed the
\* transition throws.
StopRead(r) ==
    /\ stopping[r] = "idle"
    /\ stops[r] < MaxStops
    /\ \E c \in claims : RunOf[c.item] = r
    /\ "Cancelled" \in RunTargets(runStatus[r])
    /\ stopping' = [stopping EXCEPT ![r] = "save"]
    /\ stops' = [stops EXCEPT ![r] = @ + 1]
    /\ UNCHANGED <<vars, approving, exceeded>>

StopSave(r) ==
    /\ stopping[r] = "save"
    /\ SetRunStatus(r, "Cancelled")
    /\ stopping' = [stopping EXCEPT ![r] = "journal"]
    /\ UNCHANGED <<approving, stops, exceeded>>

\* Mutant: the stop is journalled again and again.
StopJournalRepeated(r) ==
    /\ stopping[r] = "journal"
    /\ exceeded' = [exceeded EXCEPT ![r] = @ + 1]
    /\ UNCHANGED <<vars, approving, stopping, stops>>

\* The journal row is a transaction of its own.
StopJournal(r) ==
    /\ stopping[r] = "journal"
    /\ exceeded' = [exceeded EXCEPT ![r] = @ + 1]
    /\ stopping' = [stopping EXCEPT ![r] = "idle"]
    /\ UNCHANGED <<vars, approving, stops>>

\* The host or the request dies between two of the steps.
ApproveLost(r) ==
    /\ approving[r] # None
    /\ approving' = [approving EXCEPT ![r] = None]
    /\ UNCHANGED <<vars, stopping, stops, exceeded>>

StopLost(r) ==
    /\ stopping[r] # "idle"
    /\ stopping' = [stopping EXCEPT ![r] = "idle"]
    /\ UNCHANGED <<vars, approving, stops, exceeded>>

DecisionsNext ==
    \/ Next /\ UNCHANGED decisionVars
    \/ \E r \in Runs :
        \/ ApproveRead(r) \/ ApproveSave(r) \/ ApproveLost(r)
        \/ StopRead(r) \/ StopSave(r) \/ StopJournal(r) \/ StopLost(r)

DecisionsSpec == DecisionsInit /\ [][DecisionsNext]_allVars

-----------------------------------------------------------------------------
(* What survives the overwrites *)

DecisionsTypeOK ==
    /\ TypeOK
    /\ approving \in [Runs -> RunStatuses \cup {None}]
    /\ stopping \in [Runs -> {"idle", "save", "journal"}]
    /\ stops \in [Runs -> 0 .. MaxStops]
    /\ exceeded \in [Runs -> 0 .. MaxStops]

\* However decisions overwrite the status of a run, an item that reached a
\* terminal status keeps it and its result.
FinishedItemsFrozen ==
    [][\A i \in Items : itemStatus[i] \in {"Succeeded", "Failed", "Cancelled"} =>
            itemStatus'[i] = itemStatus[i] /\ result'[i] = result[i]]_allVars

-----------------------------------------------------------------------------
(* What the repository's texts say and the code does not do *)

\* openspec/specs/runs/spec.md: a terminal run asked to transition stays as it
\* is.
TerminalStatusKept ==
    [][\A r \in Runs : runStatus[r] \in TerminalRun => runStatus'[r] = runStatus[r]]_allVars

\* openspec/specs/runs/spec.md: a cancelled run's live items are fenced by the
\* transaction that cancels it.
CancelledRunFenced == PlanItemsFenced

=============================================================================
