---------------------------- MODULE WorkItemQueue ----------------------------
(***************************************************************************)
(* The work-item queue of the orchestration engine: runs, the items of     *)
(* their plans, the leases workers hold on items, the lease reaper, the    *)
(* operator's cancel and the operator's steer.                             *)
(*                                                                         *)
(* Every store transaction of the code is one action, with one exception:  *)
(* the cancel locks and rewrites the run's items first and compares and    *)
(* swaps the run row last, and what other transactions commit in between   *)
(* matters, so a cancel takes several steps and carries the row locks it   *)
(* holds.  Workers are what they are to the queue: the claims they were    *)
(* ever given.  A call may quote any of those claims at any time, which is *)
(* a slow worker, a duplicated request, a late one, and a worker that died *)
(* when no call comes.                                                     *)
(***************************************************************************)
EXTENDS Integers

CONSTANTS
    Runs,               \* runs that may be launched
    Items,              \* work items: planned ones and follow-ups
    Workers,            \* worker ids
    Operators,          \* concurrent cancel requests
    None,               \* SQL NULL
    RunOf,              \* the run an item belongs to
    Prereqs,            \* the items an item depends on (work_item_dependencies)
    FollowUps,          \* items a steer may stage; the others are planned
    Serves,             \* the items whose labels match the labels of a worker
    LeaseTtl,           \* lease duration, in ticks
    ReapGrace,          \* ticks an expired lease is left alone
    MaxAttempts,        \* claims an item gets before the reaper fails it
    MaxCancelAttempts   \* compare-and-swap budget of one cancel request

ASSUME RunOfAssumption == RunOf \in [Items -> Runs]

ASSUME FollowUpsAssumption == FollowUps \subseteq Items

\* Plan edges join planned items of one run; PlanValidator rejects cycles, so
\* every set of items has one none of whose prerequisites is in the set.
ASSUME PrereqsAssumption ==
    /\ Prereqs \in [Items -> SUBSET (Items \ FollowUps)]
    /\ \A i \in FollowUps : Prereqs[i] = {}
    /\ \A i \in Items : \A j \in Prereqs[i] : RunOf[j] = RunOf[i]

ASSUME AcyclicAssumption ==
    \A S \in SUBSET Items : S # {} => \E i \in S : Prereqs[i] \cap S = {}

\* A plan has at least one item.
ASSUME PlansAssumption == \A r \in Runs : \E i \in Items \ FollowUps : RunOf[i] = r

ASSUME ServesAssumption == Serves \in [Workers -> SUBSET Items]

ASSUME NoneAssumption == None \notin Workers /\ None \notin Runs

ASSUME LeaseAssumption == /\ LeaseTtl \in Nat \ {0}
                          /\ ReapGrace \in Nat
                          /\ MaxAttempts \in Nat \ {0}
                          /\ MaxCancelAttempts \in Nat \ {0}

VARIABLES
    runStatus,   \* runs.status; "Absent" before the run is launched
    runGen,      \* runs.generation
    outbox,      \* rows of type orchestration.run.terminated.v1 per run
    itemStatus,  \* work_items.status; "Absent" before the row exists
    itemGen,     \* work_items.generation
    leasedBy,    \* work_items.leased_by
    lease,       \* lease_until - now, not followed below -ReapGrace
    attempt,     \* work_items.attempt
    createdAt,   \* work_items.created_at, as a logical stamp
    stamp,       \* the next stamp
    claims,      \* every claim reply ever sent to a worker
    result,      \* the claim whose call wrote the journalled result
    cancel       \* what each cancel request is doing

runVars   == <<runStatus, runGen, outbox>>
leaseVars == <<leasedBy, lease, attempt, itemGen>>
itemVars  == <<itemStatus, leaseVars, createdAt, stamp>>
callVars  == <<claims, result>>
vars      == <<runVars, itemVars, callVars, cancel>>

RunStatuses  == {"Absent", "Queued", "Waiting", "Running", "Escalated",
                 "Succeeded", "Failed", "Cancelled"}
ItemStatuses == {"Absent", "Blocked", "Queued", "Running",
                 "Succeeded", "Failed", "Cancelled"}
TerminalRun  == {"Succeeded", "Failed", "Cancelled"}
OpenItem     == {"Blocked", "Queued", "Running"}

\* RunTransitions.table: the statuses a run may move to.
RunTargets(s) ==
    CASE s = "Queued"    -> {"Waiting", "Running", "Failed", "Cancelled", "Escalated"}
      [] s = "Waiting"   -> {"Running", "Failed", "Cancelled", "Escalated"}
      [] s = "Running"   -> {"Succeeded", "Failed", "Cancelled", "Escalated"}
      [] s = "Escalated" -> {"Running", "Failed", "Cancelled"}
      [] OTHER           -> {}

ItemsOf(r) == {i \in Items : RunOf[i] = r}
Planned(r) == ItemsOf(r) \ FollowUps
Open(r)    == {i \in ItemsOf(r) : itemStatus[i] \in OpenItem}

Claims == [item : Items, worker : Workers, generation : Nat, attempt : Nat]

Idle == [pc |-> "idle", run |-> None, from |-> "Absent", tries |-> 0, locked |-> {}]

\* The work_items rows locked by cancels in flight.
Locked == UNION {cancel[o].locked : o \in Operators}

-----------------------------------------------------------------------------
Init ==
    /\ runStatus  = [r \in Runs |-> "Absent"]
    /\ runGen     = [r \in Runs |-> 0]
    /\ outbox     = [r \in Runs |-> 0]
    /\ itemStatus = [i \in Items |-> "Absent"]
    /\ itemGen    = [i \in Items |-> 0]
    /\ leasedBy   = [i \in Items |-> None]
    /\ lease      = [i \in Items |-> 0]
    /\ attempt    = [i \in Items |-> 0]
    /\ createdAt  = [i \in Items |-> 0]
    /\ stamp      = 0
    /\ claims     = {}
    /\ result     = [i \in Items |-> None]
    /\ cancel     = [o \in Operators |-> Idle]

-----------------------------------------------------------------------------
(* Launching and steering *)

\* Mutant: the plan is inserted without looking at its edges.
StatusAllQueued(i) == "Queued"

\* An item with a prerequisite starts Blocked, any other one Queued.
InitialStatus(i) == IF Prereqs[i] = {} THEN "Queued" ELSE "Blocked"

\* A launcher inserts the run and its whole plan in one transaction.
Launch(r) ==
    /\ runStatus[r] = "Absent"
    /\ runStatus' = [runStatus EXCEPT ![r] = "Queued"]
    /\ runGen' = [runGen EXCEPT ![r] = 1]
    /\ itemStatus' = [i \in Items |->
                        IF i \in Planned(r) THEN InitialStatus(i) ELSE itemStatus[i]]
    /\ createdAt' = [i \in Items |-> IF i \in Planned(r) THEN stamp ELSE createdAt[i]]
    /\ stamp' = stamp + 1
    /\ UNCHANGED <<outbox, leaseVars, callVars, cancel>>

\* Mutant: the re-check under the lock forgets the finalized runs.
SteerableUnlessCancelled(r) == runStatus[r] \notin {"Absent", "Cancelled"}

Steerable(r) == runStatus[r] \notin TerminalRun \cup {"Absent"}

\* The operator's steer stages a follow-up item.  It locks and re-checks the
\* run row only, so it commits while a cancel holds the rows of the items.
Steer(i) ==
    /\ i \in FollowUps
    /\ itemStatus[i] = "Absent"
    /\ Steerable(RunOf[i])
    /\ itemStatus' = [itemStatus EXCEPT ![i] = "Queued"]
    /\ createdAt' = [createdAt EXCEPT ![i] = stamp]
    /\ stamp' = stamp + 1
    /\ UNCHANGED <<runVars, leaseVars, callVars, cancel>>

-----------------------------------------------------------------------------
(* The worker's calls *)

\* Mutant: the claim takes over expired leases by itself.
ClaimableStealing(w) ==
    {i \in Serves[w] \ Locked :
        /\ itemStatus[i] = "Queued" \/ (itemStatus[i] = "Running" /\ lease[i] <= 0)
        /\ runStatus[RunOf[i]] \notin TerminalRun}

\* The rows the claim's subselect can return for w: SKIP LOCKED passes over a
\* row a cancel holds.
Claimable(w) == {i \in Serves[w] \ Locked :
                    /\ itemStatus[i] = "Queued"
                    /\ runStatus[RunOf[i]] \notin TerminalRun}

\* The claim takes an oldest claimable item, stamps it with the generation of
\* its run and moves a Queued run to Running.
Claim(w, i) ==
    LET r == RunOf[i] IN
    /\ i \in Claimable(w)
    /\ \A j \in Claimable(w) : createdAt[i] <= createdAt[j]
    /\ itemStatus' = [itemStatus EXCEPT ![i] = "Running"]
    /\ leasedBy' = [leasedBy EXCEPT ![i] = w]
    /\ lease' = [lease EXCEPT ![i] = LeaseTtl]
    /\ attempt' = [attempt EXCEPT ![i] = @ + 1]
    /\ itemGen' = [itemGen EXCEPT ![i] = runGen[r]]
    /\ claims' = claims \cup {[item |-> i, worker |-> w,
                               generation |-> runGen[r], attempt |-> attempt[i] + 1]}
    /\ runStatus' = [runStatus EXCEPT ![r] = IF @ = "Queued" THEN "Running" ELSE @]
    /\ UNCHANGED <<runGen, outbox, createdAt, stamp, result, cancel>>

\* Mutants: the guard without the lessee, the guard without the generation.
OwnsByGeneration(c) ==
    /\ c.item \notin Locked
    /\ itemStatus[c.item] = "Running"
    /\ itemGen[c.item] = c.generation

OwnsByLease(c) ==
    /\ c.item \notin Locked
    /\ itemStatus[c.item] = "Running"
    /\ leasedBy[c.item] = c.worker

\* The ownership guard of heartbeat, complete and fail.  A row a cancel holds
\* makes the call wait for the cancel to end.
Owns(c) ==
    /\ c.item \notin Locked
    /\ itemStatus[c.item] = "Running"
    /\ leasedBy[c.item] = c.worker
    /\ itemGen[c.item] = c.generation

\* Mutant: the heartbeat adds to the lease instead of restarting it.
RenewedOnTop(c) == [lease EXCEPT ![c.item] = @ + LeaseTtl]

Renewed(c) == [lease EXCEPT ![c.item] = LeaseTtl]

Heartbeat(c) ==
    /\ Owns(c)
    /\ lease[c.item] > 0
    /\ lease' = Renewed(c)
    /\ UNCHANGED <<runVars, itemStatus, leasedBy, attempt, itemGen, createdAt,
                   stamp, callVars, cancel>>

\* Mutant: one succeeded prerequisite is enough.
UnblockedByAny(st, i) ==
    [j \in Items |-> IF st[j] = "Blocked" /\ i \in Prereqs[j] THEN "Queued" ELSE st[j]]

\* Mutant: the prerequisites are looked at before the completion is written.
UnblockedTooEarly(st, i) ==
    [j \in Items |->
        IF /\ st[j] = "Blocked"
           /\ i \in Prereqs[j]
           /\ \A k \in Prereqs[j] : itemStatus[k] = "Succeeded"
        THEN "Queued" ELSE st[j]]

\* UnblockDependentsSql: the Blocked dependents of i whose prerequisites have
\* all succeeded become Queued.
Unblocked(st, i) ==
    [j \in Items |->
        IF /\ st[j] = "Blocked"
           /\ i \in Prereqs[j]
           /\ \A k \in Prereqs[j] : st[k] = "Succeeded"
        THEN "Queued" ELSE st[j]]

\* Mutants: Blocked items do not hold the run open; only a fully succeeded plan
\* concludes.
ConcludesOverBlocked(r, st) ==
    runStatus[r] = "Running" /\ \A i \in ItemsOf(r) : st[i] \notin {"Queued", "Running"}

ConcludesOnSuccess(r, st) ==
    runStatus[r] = "Running" /\ \A i \in ItemsOf(r) : st[i] \in {"Absent", "Succeeded"}

\* The guard and the outcome of RunFinalizationSql, with the items in st.
Concludes(r, st) ==
    /\ runStatus[r] = "Running"
    /\ \A i \in ItemsOf(r) : st[i] \notin OpenItem

Outcome(r, st) ==
    IF \E i \in ItemsOf(r) : st[i] = "Failed" THEN "Failed" ELSE "Succeeded"

\* Mutant: the first failure of an item announces the failure of its run.
AnnouncedOnFailure(R, st) == {r \in R : Concludes(r, st) \/ Outcome(r, st) = "Failed"}

Announced(R, st) == {r \in R : Concludes(r, st)}

\* Finalization of the runs in R: the status and the outbox row are written in
\* the same transaction as the item transitions that led to st.
Finalize(R, st) ==
    /\ itemStatus' = st
    /\ runStatus' = [r \in Runs |->
                        IF r \in R /\ Concludes(r, st) THEN Outcome(r, st) ELSE runStatus[r]]
    /\ outbox' = [r \in Runs |->
                    IF r \in Announced(R, st) THEN outbox[r] + 1 ELSE outbox[r]]

Release(S) ==
    /\ leasedBy' = [i \in Items |-> IF i \in S THEN None ELSE leasedBy[i]]
    /\ lease' = [i \in Items |-> IF i \in S THEN 0 ELSE lease[i]]

Complete(c) ==
    /\ Owns(c)
    /\ Finalize({RunOf[c.item]},
                Unblocked([itemStatus EXCEPT ![c.item] = "Succeeded"], c.item))
    /\ Release({c.item})
    /\ result' = [result EXCEPT ![c.item] = c]
    /\ UNCHANGED <<runGen, attempt, itemGen, createdAt, stamp, claims, cancel>>

Fail(c) ==
    /\ Owns(c)
    /\ Finalize({RunOf[c.item]}, [itemStatus EXCEPT ![c.item] = "Failed"])
    /\ Release({c.item})
    /\ result' = [result EXCEPT ![c.item] = c]
    /\ UNCHANGED <<runGen, attempt, itemGen, createdAt, stamp, claims, cancel>>

-----------------------------------------------------------------------------
(* Time and the lease reaper *)

\* Time moves one tick for every lease; past -ReapGrace nothing depends on it.
Tick ==
    /\ \E i \in Items : itemStatus[i] = "Running" /\ lease[i] > -ReapGrace
    /\ lease' = [i \in Items |->
                    IF itemStatus[i] = "Running" /\ lease[i] > -ReapGrace
                    THEN lease[i] - 1 ELSE lease[i]]
    /\ UNCHANGED <<runVars, itemStatus, leasedBy, attempt, itemGen, createdAt,
                   stamp, callVars, cancel>>

\* Mutant: the reaper leaves the items of finished runs alone.
ExpiredOfLiveRuns == {i \in Items : /\ itemStatus[i] = "Running"
                                    /\ lease[i] <= -ReapGrace
                                    /\ runStatus[RunOf[i]] \notin TerminalRun}

Expired == {i \in Items : itemStatus[i] = "Running" /\ lease[i] <= -ReapGrace}

\* Mutant: off by one.
ExhaustedLate == {i \in Expired : attempt[i] > MaxAttempts}

Exhausted == {i \in Expired : attempt[i] >= MaxAttempts}

\* Mutant: the reaper forgets that failing an item may finish its run.
ReapedRunsNone == {}

\* The runs the sweep tries to finalize.
ReapedRuns == {RunOf[i] : i \in Exhausted}

\* One sweep requeues or fails every expired item, then finalizes the runs of
\* the failed ones.
Reap ==
    /\ Expired # {}
    /\ Expired \cap Locked = {}
    /\ Finalize(ReapedRuns,
                [i \in Items |-> IF i \in Exhausted THEN "Failed"
                                 ELSE IF i \in Expired THEN "Queued"
                                 ELSE itemStatus[i]])
    /\ Release(Expired)
    /\ UNCHANGED <<runGen, attempt, itemGen, createdAt, stamp, callVars, cancel>>

-----------------------------------------------------------------------------
(* The operator's cancel *)

\* The request reads the status and refuses a run that cannot be cancelled.
CancelRead(o, r) ==
    /\ cancel[o].pc = "idle"
    /\ "Cancelled" \in RunTargets(runStatus[r])
    /\ cancel' = [cancel EXCEPT ![o] = [pc |-> "begin", run |-> r, from |-> runStatus[r],
                                        tries |-> 1, locked |-> {}]]
    /\ UNCHANGED <<runVars, itemVars, callVars>>

\* Its transaction locks every open item of the run; the item updates follow
\* at once and are not visible before the commit.
CancelItems(o) ==
    /\ cancel[o].pc = "begin"
    /\ Open(cancel[o].run) \cap Locked = {}
    /\ cancel' = [cancel EXCEPT ![o].pc = "locked",
                                ![o].locked = Open(cancel[o].run)]
    /\ UNCHANGED <<runVars, itemVars, callVars>>

\* Mutant: the run row is updated by id.
FoundAnyway(o) == TRUE

\* The compare-and-swap of the run row finds the status the request had read.
FoundAsRead(o) == runStatus[cancel[o].run] = cancel[o].from

\* Mutants: items waiting for a prerequisite are forgotten; the update is not
\* limited to the locked rows.
CancelledQueued(rows) ==
    [i \in Items |-> IF i \in rows /\ itemStatus[i] = "Queued"
                     THEN "Cancelled" ELSE itemStatus[i]]

CancelledAll(rows) ==
    [i \in Items |-> IF (\E j \in rows : RunOf[j] = RunOf[i]) /\ itemStatus[i] # "Running"
                     THEN "Cancelled" ELSE itemStatus[i]]

\* CancelNotStartedItemsSql.
CancelledItems(rows) ==
    [i \in Items |-> IF i \in rows /\ itemStatus[i] \in {"Blocked", "Queued"}
                     THEN "Cancelled" ELSE itemStatus[i]]

\* Mutant: the running items keep their generation.
FencedNone(rows) == itemGen

\* FenceLiveItemsSql.
FencedItems(rows) ==
    [i \in Items |-> IF i \in rows /\ itemStatus[i] = "Running"
                     THEN itemGen[i] + 1 ELSE itemGen[i]]

\* The item updates and the run transition commit together.
CancelCommit(o) ==
    LET r == cancel[o].run  rows == cancel[o].locked IN
    /\ cancel[o].pc = "locked"
    /\ FoundAsRead(o)
    /\ itemStatus' = CancelledItems(rows)
    /\ itemGen' = FencedItems(rows)
    /\ runStatus' = [runStatus EXCEPT ![r] = "Cancelled"]
    /\ runGen' = [runGen EXCEPT ![r] = @ + 1]
    /\ cancel' = [cancel EXCEPT ![o] = Idle]
    /\ UNCHANGED <<outbox, leasedBy, lease, attempt, createdAt, stamp, callVars>>

\* It found another status: the transaction rolls back.
CancelMiss(o) ==
    /\ cancel[o].pc = "locked"
    /\ ~FoundAsRead(o)
    /\ cancel' = [cancel EXCEPT ![o].pc = "missed", ![o].locked = {}]
    /\ UNCHANGED <<runVars, itemVars, callVars>>

\* The status is read again: another attempt while one is legal and left,
\* otherwise a conflict for the caller.
CancelRetry(o) ==
    LET c == cancel[o]  s == runStatus[c.run] IN
    /\ c.pc = "missed"
    /\ cancel' = [cancel EXCEPT ![o] =
                    IF "Cancelled" \in RunTargets(s) /\ c.tries < MaxCancelAttempts
                    THEN [c EXCEPT !.pc = "begin", !.from = s, !.tries = c.tries + 1]
                    ELSE Idle]
    /\ UNCHANGED <<runVars, itemVars, callVars>>

\* The host or the request dies; the store rolls the transaction back.
CancelAbort(o) ==
    /\ cancel[o].pc # "idle"
    /\ cancel' = [cancel EXCEPT ![o] = Idle]
    /\ UNCHANGED <<runVars, itemVars, callVars>>

-----------------------------------------------------------------------------
CancelStep(o) == CancelItems(o) \/ CancelCommit(o) \/ CancelMiss(o) \/ CancelRetry(o)

Next ==
    \/ \E r \in Runs : Launch(r)
    \/ \E i \in Items : Steer(i)
    \/ \E w \in Workers, i \in Items : Claim(w, i)
    \/ \E c \in claims : Heartbeat(c) \/ Complete(c) \/ Fail(c)
    \/ Tick
    \/ Reap
    \/ \E o \in Operators, r \in Runs : CancelRead(o, r)
    \/ \E o \in Operators : CancelStep(o) \/ CancelAbort(o)

Spec == Init /\ [][Next]_vars

-----------------------------------------------------------------------------
(* Safety *)

\* Every variable holds a value of its column's type.
TypeOK ==
    /\ runStatus \in [Runs -> RunStatuses]
    /\ runGen \in [Runs -> Nat]
    /\ outbox \in [Runs -> Nat]
    /\ itemStatus \in [Items -> ItemStatuses]
    /\ itemGen \in [Items -> Nat]
    /\ leasedBy \in [Items -> Workers \cup {None}]
    /\ lease \in [Items -> -ReapGrace .. LeaseTtl]
    /\ attempt \in [Items -> Nat]
    /\ createdAt \in [Items -> Nat]
    /\ stamp \in Nat
    /\ claims \subseteq Claims
    /\ result \in [Items -> Claims \cup {None}]
    /\ cancel \in [Operators -> [pc : {"idle", "begin", "locked", "missed"},
                                 run : Runs \cup {None}, from : RunStatuses,
                                 tries : Nat, locked : SUBSET Items]]

\* The claim whose attempt is the current one of i.
IsLatest(c, i) == c.item = i /\ c.attempt = attempt[i]

\* An item is Running exactly while a worker leases it; the lessee is the
\* worker that made the latest claim, no attempt was handed out twice and no
\* item is claimed more than MaxAttempts times: SKIP LOCKED, the attempt
\* counter and the reaper's split on it work together.
LeaseConsistent ==
    /\ \A i \in Items : /\ (itemStatus[i] = "Running") <=> (leasedBy[i] # None)
                        /\ itemStatus[i] = "Queued" => attempt[i] < MaxAttempts
                        /\ attempt[i] <= MaxAttempts
                        /\ itemStatus[i] = "Running" =>
                             \E c \in claims : IsLatest(c, i) /\ c.worker = leasedBy[i]
    /\ \A c, d \in claims : c.item = d.item /\ c.attempt = d.attempt => c = d

\* No item is claimable, running or finished before every prerequisite of it
\* succeeded, whatever failed, was reaped or was cancelled on the way: only
\* the unblock of the last prerequisite's completion lets a dependent go.
PrerequisitesFirst ==
    \A i \in Items : itemStatus[i] \in {"Queued", "Running", "Succeeded", "Failed"}
                        => \A j \in Prereqs[i] : itemStatus[j] = "Succeeded"

\* A finalized run has no open item and the status its items call for: no
\* steer, requeue or late call reopens its work.
TerminalRunClosed ==
    \A r \in Runs : runStatus[r] \in {"Succeeded", "Failed"} =>
        /\ Open(r) = {}
        /\ runStatus[r] = "Failed" <=> \E i \in ItemsOf(r) : itemStatus[i] = "Failed"

\* A Blocked item still waits for a prerequisite: no completion is the last one
\* and leaves a dependent behind, and no cancel or decision gets in between.
DependentsReleased ==
    \A i \in Items : itemStatus[i] = "Blocked" =>
        \E j \in Prereqs[i] : itemStatus[j] # "Succeeded"

\* A failed item of r stopped its plan: what is still open waits for it.
Stalled(r) ==
    /\ \E i \in ItemsOf(r) : itemStatus[i] = "Failed"
    /\ Open(r) # {}
    /\ \A i \in Open(r) : itemStatus[i] = "Blocked"

\* No active run waits for nothing: one of its items can be claimed or is being
\* worked on, unless a failed item stopped its plan.  The last item to finish
\* finalizes the run, the last prerequisite to succeed lets its dependents go,
\* and no unblock, requeue or rollback loses one on the way.
NoRunLeftOpen ==
    \A r \in Runs : runStatus[r] \in {"Queued", "Running"} =>
        Stalled(r) \/ \E i \in ItemsOf(r) : itemStatus[i] \in {"Queued", "Running"}

\* A run that its items end is announced in the outbox exactly once, however
\* many of them finish in how many transactions; nothing is announced before
\* the end, and no end twice.  Nothing is asked here of a cancelled run: what
\* the documents say of it is TerminalRunsAnnounced.
OutboxExactlyOnce ==
    \A r \in Runs :
        /\ runStatus[r] \in {"Succeeded", "Failed"} => outbox[r] = 1
        /\ runStatus[r] \notin TerminalRun => outbox[r] = 0
        /\ outbox[r] <= 1

\* The cancel leaves no planned item of its run waiting, and holds no claim on
\* a running one good: every worker on the plan was fenced.
PlanItemsFenced ==
    \A r \in Runs : runStatus[r] = "Cancelled" =>
        \A i \in Planned(r) :
            /\ itemStatus[i] # "Blocked"
            /\ itemStatus[i] = "Queued" => attempt[i] > 0
            /\ itemStatus[i] = "Running" =>
                 \A c \in claims : c.item = i => c.generation < itemGen[i]

\* A journalled result came from the worker of the item's latest claim, under
\* that claim's generation, whatever older claims of the item are still around.
ResultFromHolder ==
    \A i \in Items : result[i] # None =>
        \E c \in claims : /\ IsLatest(c, i)
                          /\ c.worker = result[i].worker
                          /\ c.generation = result[i].generation

-----------------------------------------------------------------------------
(* Action properties *)

\* A terminal run keeps its status and its generation: RunTransitions has no
\* edge out of a terminal status, and the guards of claim, finalization and
\* cancel are what holds the store to it.
TerminalRunFrozen ==
    [][\A r \in Runs : runStatus[r] \in TerminalRun =>
            runStatus'[r] = runStatus[r] /\ runGen'[r] = runGen[r]]_vars

\* A worker whose item was fenced by a cancel cannot write a result or keep
\* its lease alive.
FencedWorkerPowerless ==
    [][\A i \in Items \ FollowUps : runStatus[RunOf[i]] = "Cancelled" =>
            /\ result'[i] = result[i]
            /\ lease'[i] > lease[i] => itemStatus'[i] # "Running"]_vars

-----------------------------------------------------------------------------
(* Liveness *)

\* What the deployment keeps doing.  The reaper and the dispatch of cancel
\* requests are loops of the host; row locks come and go, so what waits for one
\* gets strong fairness.  Workers of every label poll for work (the scale
\* supervisor starts them), and the wall-clock deadline of an agent session
\* ends the heartbeats on its item.  No worker has to finish anything.
Fairness ==
    /\ WF_vars(Tick)
    /\ SF_vars(Reap)
    /\ SF_vars(\E w \in Workers, i \in Items : Claim(w, i))
    /\ \A o \in Operators : SF_vars(CancelStep(o))
    /\ \A i \in Items : <>[][\A c \in claims : c.item = i => ~Heartbeat(c)]_vars

FairSpec == Spec /\ Fairness

\* Every launched run reaches a terminal status, or stops with dependents
\* Blocked behind a failed item: no dead worker, lost lease, interrupted cancel
\* or missed finalization leaves one hanging for another reason.
RunsSettle ==
    \A r \in Runs : runStatus[r] # "Absent" ~> runStatus[r] \in TerminalRun \/ Stalled(r)

\* The lease of a fenced item is left to the reaper, which does take it back.
FencedItemReclaimed ==
    \A i \in Items : runStatus[RunOf[i]] = "Cancelled" /\ itemStatus[i] = "Running"
                        ~> itemStatus[i] # "Running"

-----------------------------------------------------------------------------
(* What the repository's texts say and the code does not do *)

\* openspec/specs/runs/spec.md: every live item under a cancelled run is fenced
\* by the cancel.
CancelFencesEveryItem ==
    \A i \in Items : runStatus[RunOf[i]] = "Cancelled" /\ itemStatus[i] = "Running" =>
        \A c \in claims : c.item = i => c.generation < itemGen[i]

\* openspec/specs/runs/spec.md:198: a run that reaches a terminal status enqueues
\* a message in the same transaction.  The cancel enqueues none.
TerminalRunsAnnounced == \A r \in Runs : runStatus[r] \in TerminalRun => outbox[r] >= 1

\* openspec/specs/work-queue/spec.md: a slow worker whose item was reaped and
\* requeued cannot complete it: the result comes from the latest claim itself.
ResultFromLatestClaim ==
    \A i \in Items : result[i] # None => IsLatest(result[i], i)

\* openspec/specs/runs/spec.md: the failure policy of the plan decides the fate
\* of what a failed prerequisite blocks, and the run ends.
RunsTerminate ==
    \A r \in Runs : runStatus[r] # "Absent" ~> runStatus[r] \in TerminalRun

=============================================================================
