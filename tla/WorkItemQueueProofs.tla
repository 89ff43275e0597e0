------------------------- MODULE WorkItemQueueProofs -------------------------
(***************************************************************************)
(* Theorems about WorkItemQueue, for every set of runs, items, workers and *)
(* cancel requests, every plan and every value of the bounds.              *)
(***************************************************************************)
EXTENDS WorkItemQueue, TLAPS

-----------------------------------------------------------------------------
(* Type correctness *)

\* The initial state is well typed.
LEMMA TypeInit == Init => TypeOK
  BY RunOfAssumption, LeaseAssumption
  DEF Init, TypeOK, Claims, Idle, RunStatuses, ItemStatuses

\* Launching and steering write statuses, generations and stamps.
LEMMA TypeLaunch == ASSUME TypeOK, NEW r \in Runs, Launch(r) PROVE TypeOK'
  BY DEF TypeOK, Launch, InitialStatus, leaseVars, callVars, RunStatuses, ItemStatuses,
       Planned, ItemsOf

LEMMA TypeSteer == ASSUME TypeOK, NEW i \in Items, Steer(i) PROVE TypeOK'
  BY DEF TypeOK, Steer, Steerable, runVars, leaseVars, callVars, ItemStatuses

\* A claim writes a lease of LeaseTtl and a reply with the run's generation.
LEMMA TypeClaim == ASSUME TypeOK, NEW w \in Workers, NEW i \in Items, Claim(w, i)
                   PROVE  TypeOK'
<1>1. RunOf[i] \in Runs
  BY RunOfAssumption
<1>2. [item |-> i, worker |-> w, generation |-> runGen[RunOf[i]],
       attempt |-> attempt[i] + 1] \in Claims
  BY <1>1 DEF TypeOK, Claims
<1>3. claims' \subseteq Claims
  BY <1>2 DEF TypeOK, Claim
<1>4. lease' \in [Items -> -ReapGrace .. LeaseTtl]
  BY LeaseAssumption DEF TypeOK, Claim
<1>. QED
  BY <1>1, <1>3, <1>4 DEF TypeOK, Claim, RunStatuses, ItemStatuses

LEMMA TypeHeartbeat == ASSUME TypeOK, NEW c \in claims, Heartbeat(c) PROVE TypeOK'
<1>. LeaseTtl \in -ReapGrace .. LeaseTtl
  BY LeaseAssumption
<1>1. lease' \in [Items -> -ReapGrace .. LeaseTtl]
  BY DEF TypeOK, Heartbeat, Renewed
<1>. QED
  BY <1>1 DEF TypeOK, Heartbeat, Renewed, runVars, callVars

\* Finalization writes an outcome and counts the outbox rows.
LEMMA TypeFinalize ==
  ASSUME TypeOK, NEW R \in SUBSET Runs, NEW st \in [Items -> ItemStatuses], Finalize(R, st)
  PROVE  /\ itemStatus' \in [Items -> ItemStatuses]
         /\ runStatus' \in [Runs -> RunStatuses]
         /\ outbox' \in [Runs -> Nat]
  BY DEF TypeOK, Finalize, Announced, Outcome, RunStatuses

LEMMA TypeRelease ==
  ASSUME TypeOK, NEW S, Release(S)
  PROVE  /\ leasedBy' \in [Items -> Workers \cup {None}]
         /\ lease' \in [Items -> -ReapGrace .. LeaseTtl]
  BY LeaseAssumption DEF TypeOK, Release

LEMMA TypeUnblocked ==
  ASSUME NEW st \in [Items -> ItemStatuses], NEW i
  PROVE  Unblocked(st, i) \in [Items -> ItemStatuses]
  BY DEF Unblocked, ItemStatuses

LEMMA TypeComplete == ASSUME TypeOK, NEW c \in claims, Complete(c) PROVE TypeOK'
<1>1. c \in Claims /\ c.item \in Items /\ {RunOf[c.item]} \in SUBSET Runs
  BY RunOfAssumption DEF TypeOK, Claims
<1>2. [itemStatus EXCEPT ![c.item] = "Succeeded"] \in [Items -> ItemStatuses]
  BY DEF TypeOK, ItemStatuses
<1>3. Unblocked([itemStatus EXCEPT ![c.item] = "Succeeded"], c.item) \in [Items -> ItemStatuses]
  BY <1>2, TypeUnblocked
<1>4. /\ itemStatus' \in [Items -> ItemStatuses]
      /\ runStatus' \in [Runs -> RunStatuses]
      /\ outbox' \in [Runs -> Nat]
  BY <1>1, <1>3, TypeFinalize DEF Complete
<1>5. /\ leasedBy' \in [Items -> Workers \cup {None}]
      /\ lease' \in [Items -> -ReapGrace .. LeaseTtl]
  BY TypeRelease DEF Complete
<1>. QED
  BY <1>1, <1>4, <1>5 DEF TypeOK, Complete

LEMMA TypeFail == ASSUME TypeOK, NEW c \in claims, Fail(c) PROVE TypeOK'
<1>1. c \in Claims /\ c.item \in Items /\ {RunOf[c.item]} \in SUBSET Runs
  BY RunOfAssumption DEF TypeOK, Claims
<1>2. [itemStatus EXCEPT ![c.item] = "Failed"] \in [Items -> ItemStatuses]
  BY DEF TypeOK, ItemStatuses
<1>4. /\ itemStatus' \in [Items -> ItemStatuses]
      /\ runStatus' \in [Runs -> RunStatuses]
      /\ outbox' \in [Runs -> Nat]
  BY <1>1, <1>2, TypeFinalize DEF Fail
<1>5. /\ leasedBy' \in [Items -> Workers \cup {None}]
      /\ lease' \in [Items -> -ReapGrace .. LeaseTtl]
  BY TypeRelease DEF Fail
<1>. QED
  BY <1>1, <1>4, <1>5 DEF TypeOK, Fail

\* The guard of the tick keeps a lease from falling below -ReapGrace.
LEMMA TypeTick == ASSUME TypeOK, Tick PROVE TypeOK'
<1>1. lease' \in [Items -> -ReapGrace .. LeaseTtl]
  BY LeaseAssumption DEF TypeOK, Tick
<1>. QED
  BY <1>1 DEF TypeOK, Tick, runVars, callVars

LEMMA TypeReap == ASSUME TypeOK, Reap PROVE TypeOK'
<1> DEFINE st == [i \in Items |-> IF i \in Exhausted THEN "Failed"
                                  ELSE IF i \in Expired THEN "Queued"
                                  ELSE itemStatus[i]]
           R  == {RunOf[i] : i \in Exhausted}
<1>1. st \in [Items -> ItemStatuses]
  BY DEF TypeOK, ItemStatuses
<1>2. R \in SUBSET Runs
  BY RunOfAssumption DEF Exhausted, Expired
<1>3. Finalize(R, st)
  BY DEF Reap, ReapedRuns
<1>. HIDE DEF st, R
<1>4. /\ itemStatus' \in [Items -> ItemStatuses]
      /\ runStatus' \in [Runs -> RunStatuses]
      /\ outbox' \in [Runs -> Nat]
  BY <1>1, <1>2, <1>3, TypeFinalize
<1>5. /\ leasedBy' \in [Items -> Workers \cup {None}]
      /\ lease' \in [Items -> -ReapGrace .. LeaseTtl]
  BY TypeRelease DEF Reap, ReapedRuns
<1>. QED
  BY <1>4, <1>5 DEF TypeOK, Reap, ReapedRuns, callVars

\* The steps of a cancel move its request record through its pcs.
CancelRecord == [pc : {"idle", "begin", "locked", "missed"}, run : Runs \cup {None},
                 from : RunStatuses, tries : Nat, locked : SUBSET Items]

LEMMA TypeCancelRead ==
  ASSUME TypeOK, NEW o \in Operators, NEW r \in Runs, CancelRead(o, r) PROVE TypeOK'
<1>1. [pc |-> "begin", run |-> r, from |-> runStatus[r], tries |-> 1, locked |-> {}]
        \in CancelRecord
  BY DEF TypeOK, CancelRecord
<1>. QED
  BY <1>1 DEF TypeOK, CancelRead, CancelRecord, runVars, itemVars, leaseVars, callVars

LEMMA TypeCancelStep ==
  ASSUME TypeOK, NEW o \in Operators, CancelStep(o) \/ CancelAbort(o) PROVE TypeOK'
<1>1. Idle \in CancelRecord /\ cancel \in [Operators -> CancelRecord]
  BY DEF TypeOK, Idle, CancelRecord, RunStatuses
<1>2. CASE CancelItems(o)
  BY <1>1, <1>2 DEF TypeOK, CancelItems, CancelRecord, Open, ItemsOf, runVars, itemVars,
                    leaseVars, callVars
<1>3. CASE CancelCommit(o)
  <2>1. itemStatus' \in [Items -> ItemStatuses] /\ itemGen' \in [Items -> Nat]
    BY <1>3 DEF TypeOK, CancelCommit, FoundAsRead, CancelledItems, FencedItems, ItemStatuses
  <2>2. runStatus' \in [Runs -> RunStatuses]
    BY <1>3 DEF TypeOK, CancelCommit, FoundAsRead, CancelledItems, FencedItems, RunStatuses
  <2>4. runGen' \in [Runs -> Nat]
    <3>1. runGen' = [r \in Runs |-> IF r = cancel[o].run THEN runGen[r] + 1 ELSE runGen[r]]
      BY <1>3 DEF TypeOK, CancelCommit, FoundAsRead, CancelledItems, FencedItems
    <3>. QED
      BY <3>1 DEF TypeOK
  <2>3. cancel' \in [Operators -> CancelRecord]
    BY <1>1, <1>3 DEF CancelCommit, FoundAsRead, CancelledItems, FencedItems
  <2>. QED
    BY <1>3, <2>1, <2>2, <2>3, <2>4 DEF TypeOK, CancelCommit, FoundAsRead, CancelledItems,
         FencedItems, CancelRecord, callVars
<1>4. CASE CancelMiss(o)
  BY <1>1, <1>4 DEF TypeOK, CancelMiss, FoundAsRead, CancelRecord, runVars, itemVars,
       leaseVars, callVars
<1>5. CASE CancelRetry(o)
  <2>1. cancel[o].tries + 1 \in Nat
    BY <1>1 DEF CancelRecord
  <2>2. "Cancelled" \in RunTargets(runStatus[cancel[o].run])
          => runStatus[cancel[o].run] \in RunStatuses
    BY DEF RunTargets, RunStatuses
  <2>. QED
    BY <1>1, <1>5, <2>1, <2>2 DEF TypeOK, CancelRetry, CancelRecord, runVars, itemVars,
                                  leaseVars, callVars
<1>6. CASE CancelAbort(o)
  BY <1>1, <1>6 DEF TypeOK, CancelAbort, CancelRecord, runVars, itemVars, leaseVars, callVars
<1>. QED
  BY <1>2, <1>3, <1>4, <1>5, <1>6 DEF CancelStep

LEMMA TypeStep == ASSUME TypeOK, [Next]_vars PROVE TypeOK'
<1>1. CASE UNCHANGED vars
  BY <1>1 DEF TypeOK, vars, runVars, itemVars, leaseVars, callVars
<1>2. CASE Next
  BY <1>2, TypeLaunch, TypeSteer, TypeClaim, TypeHeartbeat, TypeComplete, TypeFail,
     TypeTick, TypeReap, TypeCancelRead, TypeCancelStep DEF Next
<1>. QED
  BY <1>1, <1>2

\* Every variable keeps a value of its type in every reachable state.
THEOREM TypeCorrect == Spec => []TypeOK
  BY TypeInit, TypeStep, PTL DEF Spec

-----------------------------------------------------------------------------
(* Prerequisites: the property is inductive as it stands *)

\* A step that leaves the plan order alone: nothing that succeeded changes, and
\* what becomes Queued, Running or finished was past its prerequisites already
\* or has them all succeeded now.
LEMMA PrerequisitesKept ==
  ASSUME PrerequisitesFirst,
         \A i \in Items : itemStatus[i] = "Succeeded" => itemStatus'[i] = "Succeeded",
         \A i \in Items : itemStatus'[i] \in {"Queued", "Running", "Succeeded", "Failed"} =>
            \/ itemStatus[i] \in {"Queued", "Running", "Succeeded", "Failed"}
            \/ \A j \in Prereqs[i] : itemStatus'[j] = "Succeeded"
  PROVE  PrerequisitesFirst'
  BY PrereqsAssumption DEF PrerequisitesFirst

\* The launch of r touches the planned items of r only, and the prerequisites
\* of an item are in its own run.
LEMMA PrerequisitesLaunch ==
  ASSUME TypeOK, PrerequisitesFirst, NEW r \in Runs, Launch(r)
  PROVE  PrerequisitesFirst'
<1>. SUFFICES ASSUME NEW i \in Items, NEW j \in Prereqs[i],
                     itemStatus'[i] \in {"Queued", "Running", "Succeeded", "Failed"}
              PROVE  itemStatus'[j] = "Succeeded"
  BY DEF PrerequisitesFirst
<1>1. j \in Items /\ RunOf[j] = RunOf[i] /\ i \notin FollowUps /\ j \notin FollowUps
  BY PrereqsAssumption
<1>2. i \notin Planned(r)
  BY DEF Launch, InitialStatus
<1>3. j \notin Planned(r)
  BY <1>1, <1>2 DEF Planned, ItemsOf
<1>. QED
  BY <1>1, <1>2, <1>3 DEF Launch, InitialStatus, PrerequisitesFirst

\* Completing an item queues a dependent only when its last prerequisite is
\* the completed one.
LEMMA PrerequisitesComplete ==
  ASSUME TypeOK, PrerequisitesFirst, NEW c \in claims, Complete(c)
  PROVE  PrerequisitesFirst'
<1> DEFINE i  == c.item
           st == [itemStatus EXCEPT ![i] = "Succeeded"]
<1>1. i \in Items /\ itemStatus[i] = "Running"
  BY DEF TypeOK, Claims, Complete, Owns
<1>2. itemStatus' = Unblocked(st, i)
  BY DEF Complete, Finalize, Announced
<1>3. \A j \in Items : st[j] = IF j = i THEN "Succeeded" ELSE itemStatus[j]
  BY DEF TypeOK
<1>. HIDE DEF i, st
<1>4. \A j \in Items : st[j] = "Succeeded" => itemStatus'[j] = "Succeeded"
  BY <1>2 DEF Unblocked
<1>5. \A j \in Items : itemStatus'[j] = st[j] \/ \A k \in Prereqs[j] : itemStatus'[k] = "Succeeded"
  BY <1>2, <1>4, PrereqsAssumption DEF Unblocked
<1>. QED
  BY <1>1, <1>3, <1>4, <1>5, PrerequisitesKept

\* Every step keeps the order of the plan.
LEMMA PrerequisitesStep ==
  ASSUME TypeOK, PrerequisitesFirst, [Next]_vars
  PROVE  PrerequisitesFirst'
<1>1. CASE UNCHANGED vars
  BY <1>1 DEF PrerequisitesFirst, vars, itemVars
<1>2. ASSUME NEW r \in Runs, Launch(r) PROVE PrerequisitesFirst'
  BY <1>2, PrerequisitesLaunch
<1>3. ASSUME NEW i \in Items, Steer(i) PROVE PrerequisitesFirst'
  BY <1>3, PrerequisitesKept, PrereqsAssumption DEF Steer, Steerable, TypeOK
<1>4. ASSUME NEW w \in Workers, NEW i \in Items, Claim(w, i) PROVE PrerequisitesFirst'
  BY <1>4, PrerequisitesKept DEF Claim, Claimable, TypeOK
<1>5. ASSUME NEW c \in claims, Heartbeat(c) PROVE PrerequisitesFirst'
  BY <1>5 DEF Heartbeat, Renewed, PrerequisitesFirst
<1>6. ASSUME NEW c \in claims, Complete(c) PROVE PrerequisitesFirst'
  BY <1>6, PrerequisitesComplete
<1>7. ASSUME NEW c \in claims, Fail(c) PROVE PrerequisitesFirst'
  BY <1>7, PrerequisitesKept DEF Fail, Owns, Finalize, Announced, TypeOK
<1>8. CASE Tick
  BY <1>8 DEF Tick, PrerequisitesFirst
<1>9. CASE Reap
  BY <1>9, PrerequisitesKept DEF Reap, ReapedRuns, Finalize, Announced, Expired, Exhausted
<1>10. ASSUME NEW o \in Operators, NEW r \in Runs, CancelRead(o, r) PROVE PrerequisitesFirst'
  BY <1>10 DEF CancelRead, itemVars, PrerequisitesFirst
<1>11. ASSUME NEW o \in Operators, CancelCommit(o) PROVE PrerequisitesFirst'
  BY <1>11, PrerequisitesKept DEF CancelCommit, FoundAsRead, CancelledItems, FencedItems
<1>12. ASSUME NEW o \in Operators,
              CancelItems(o) \/ CancelMiss(o) \/ CancelRetry(o) \/ CancelAbort(o)
       PROVE  PrerequisitesFirst'
  BY <1>12 DEF CancelItems, CancelMiss, FoundAsRead, CancelRetry, CancelAbort, itemVars,
       PrerequisitesFirst
<1>. QED
  BY <1>1, <1>2, <1>3, <1>4, <1>5, <1>6, <1>7, <1>8, <1>9, <1>10, <1>11, <1>12
     DEF Next, CancelStep

\* No item is queued, claimed or finished before its prerequisites succeeded
\* (UnblockDependentsSql, RunProgression.UnblockDependentsAsync).
THEOREM PrerequisitesHold == Spec => []PrerequisitesFirst
<1>1. Init => PrerequisitesFirst
  BY DEF Init, PrerequisitesFirst
<1>. QED
  BY <1>1, PrerequisitesStep, TypeCorrect, PTL DEF Spec

-----------------------------------------------------------------------------
(* Runs: finalized exactly once, closed once finalized, never left open *)

\* A run has no item before its launch.
NothingBeforeLaunch ==
    \A i \in Items : runStatus[RunOf[i]] = "Absent" => itemStatus[i] = "Absent"

\* An active run has an open item.
ActiveRunsOpen ==
    \A r \in Runs : runStatus[r] \in {"Queued", "Running"} => Open(r) # {}

\* What the transactions of the model do, a cancelled run included: only a
\* finalization writes a row.
OutboxCount ==
    \A r \in Runs :
        outbox[r] = IF runStatus[r] \in {"Succeeded", "Failed"} THEN 1 ELSE 0

\* What the run properties rest on: a claim made its run Running before any of
\* its items ran.
RunInv ==
    /\ TerminalRunClosed
    /\ ActiveRunsOpen
    /\ OutboxCount
    /\ NothingBeforeLaunch
    /\ \A i \in Items : itemStatus[i] = "Running" => runStatus[RunOf[i]] # "Queued"

\* What a cancel request knows: the status it read can be cancelled, its run was
\* launched, and its locks are the open rows of that run, every planned one
\* among them.
Covers(S, r, st) ==
    \A i \in Items \ FollowUps : RunOf[i] = r /\ st[i] \in OpenItem => i \in S

CancelInv ==
    \A o \in Operators :
        LET c == cancel[o] IN
        /\ c.pc # "idle" => /\ c.run \in Runs
                            /\ "Cancelled" \in RunTargets(c.from)
                            /\ runStatus[c.run] # "Absent"
        /\ c.pc # "locked" => c.locked = {}
        /\ c.pc = "locked" => /\ c.locked \subseteq ItemsOf(c.run)
                              /\ Covers(c.locked, c.run, itemStatus)

\* The transition table lets a run be cancelled from these statuses only.
LEMMA Cancellable ==
  ASSUME NEW s, "Cancelled" \in RunTargets(s)
  PROVE  s \in {"Queued", "Waiting", "Running", "Escalated"}
  BY DEF RunTargets

\* A completion, a failure or a sweep finalizes some runs: only open items move,
\* each one it closes is an item of those runs, and each of them had an item
\* running.
ClosingStep(R, st) ==
    /\ Finalize(R, st)
    /\ \A i \in Items : st[i] # itemStatus[i] =>
          /\ itemStatus[i] \in OpenItem
          /\ st[i] # "Absent" /\ st[i] # "Running"
          /\ st[i] \notin OpenItem => RunOf[i] \in R
    /\ \A r \in R : \E i \in ItemsOf(r) : itemStatus[i] = "Running"

Closing == \E R \in SUBSET Runs, st \in [Items -> ItemStatuses] : ClosingStep(R, st)

\* What a closed run keeps: a finalization moves no item of it, and the runs it
\* closes get the outcome of their items.
LEMMA ClosedFinalize ==
  ASSUME TypeOK, TerminalRunClosed, Closing PROVE TerminalRunClosed'
<1>. PICK R \in SUBSET Runs, st \in [Items -> ItemStatuses] : ClosingStep(R, st)
  BY DEF Closing
<1>1. itemStatus' = st
  BY DEF ClosingStep, Finalize, Announced
<1>2. \A r \in Runs : runStatus'[r] = IF r \in R /\ Concludes(r, st) THEN Outcome(r, st)
                                      ELSE runStatus[r]
  BY DEF ClosingStep, Finalize, Announced
<1>. SUFFICES ASSUME NEW r \in Runs, runStatus'[r] \in {"Succeeded", "Failed"}
              PROVE  /\ \A i \in ItemsOf(r) : st[i] \notin OpenItem
                     /\ runStatus'[r] = "Failed" <=> \E i \in ItemsOf(r) : st[i] = "Failed"
  BY <1>1 DEF TerminalRunClosed, Open, ItemsOf
<1>3. CASE r \in R /\ Concludes(r, st)
  BY <1>2, <1>3 DEF Concludes, Outcome
<1>4. CASE ~(r \in R /\ Concludes(r, st))
  <2>1. runStatus'[r] = runStatus[r]
    BY <1>2, <1>4
  <2>2. \A i \in ItemsOf(r) : itemStatus[i] \notin OpenItem
    BY <2>1 DEF TerminalRunClosed, Open
  <2>3. \A i \in ItemsOf(r) : st[i] = itemStatus[i]
    BY <2>2 DEF ItemsOf, ClosingStep
  <2>. QED
    BY <2>1, <2>2, <2>3 DEF TerminalRunClosed
<1>. QED
  BY <1>3, <1>4

\* The other run properties.
LEMMA RunInvFinalize == ASSUME TypeOK, RunInv, Closing PROVE RunInv'
<1>. PICK R \in SUBSET Runs, st \in [Items -> ItemStatuses] : ClosingStep(R, st)
  BY DEF Closing
<1>. USE DEF ClosingStep
<1>1. itemStatus' = st
  BY DEF Finalize, Announced
<1>2. \A r \in Runs : runStatus'[r] = IF r \in R /\ Concludes(r, st) THEN Outcome(r, st)
                                      ELSE runStatus[r]
  BY DEF Finalize, Announced
<1>3. \A r \in Runs : outbox'[r] = IF r \in R /\ Concludes(r, st) THEN outbox[r] + 1
                                   ELSE outbox[r]
  BY DEF Finalize, Announced
<1>4. TerminalRunClosed'
  BY ClosedFinalize DEF RunInv
<1>5. ActiveRunsOpen'
  <2>. SUFFICES ASSUME NEW r \in Runs, runStatus'[r] \in {"Queued", "Running"}
                PROVE  \E i \in ItemsOf(r) : st[i] \in OpenItem
    BY <1>1 DEF ActiveRunsOpen, Open, ItemsOf
  <2>1. ~(r \in R /\ Concludes(r, st))
    BY <1>2 DEF Outcome
  <2>2. runStatus[r] \in {"Queued", "Running"}
    BY <1>2, <2>1
  <2>3. CASE r \in R
    <3>1. runStatus[r] = "Running"
      BY <2>2, <2>3 DEF RunInv, ItemsOf
    <3>. QED
      BY <2>1, <2>3, <3>1 DEF Concludes
  <2>4. CASE r \notin R
    <3>1. PICK i \in ItemsOf(r) : itemStatus[i] \in OpenItem
      BY <2>2 DEF RunInv, ActiveRunsOpen, Open
    <3>2. i \in Items /\ RunOf[i] = r
      BY <3>1 DEF ItemsOf
    <3>. QED
      BY <2>4, <3>1, <3>2
  <2>. QED
    BY <2>3, <2>4
<1>6. OutboxCount'
  BY <1>2, <1>3 DEF RunInv, OutboxCount, Concludes, Outcome
<1>7. \A i \in Items : RunOf[i] \in Runs
  BY RunOfAssumption
<1>8. \A i \in Items : runStatus'[RunOf[i]] = "Absent" => itemStatus'[i] = "Absent"
  BY <1>1, <1>2, <1>7 DEF RunInv, NothingBeforeLaunch, Outcome, OpenItem
<1>9. \A i \in Items : itemStatus'[i] = "Running" => runStatus'[RunOf[i]] # "Queued"
  BY <1>1, <1>2, <1>7 DEF RunInv, Outcome
<1>. QED
  BY <1>4, <1>5, <1>6, <1>8, <1>9 DEF RunInv, NothingBeforeLaunch

LEMMA CompleteCloses == ASSUME TypeOK, NEW c \in claims, Complete(c) PROVE Closing
<1> DEFINE i  == c.item
           s1 == [itemStatus EXCEPT ![i] = "Succeeded"]
           st == Unblocked(s1, i)
<1>0. c \in Claims
  BY DEF TypeOK
<1>1. i \in Items /\ itemStatus[i] = "Running" /\ {RunOf[i]} \in SUBSET Runs
  BY <1>0, RunOfAssumption DEF Claims, Complete, Owns
<1>2. s1 \in [Items -> ItemStatuses]
  BY DEF TypeOK, ItemStatuses
<1>3. st \in [Items -> ItemStatuses]
  BY <1>2, TypeUnblocked
<1>4. Finalize({RunOf[i]}, st)
  BY DEF Complete
<1>5. \A j \in Items : s1[j] = IF j = i THEN "Succeeded" ELSE itemStatus[j]
  BY DEF TypeOK
<1>. HIDE DEF s1
<1>6. \A j \in Items : st[j] # s1[j] => s1[j] = "Blocked" /\ st[j] = "Queued"
  BY DEF Unblocked
<1>. HIDE DEF st, i
<1>7. \A j \in Items : st[j] # itemStatus[j] =>
            /\ itemStatus[j] \in OpenItem
            /\ st[j] # "Absent" /\ st[j] # "Running"
            /\ st[j] \notin OpenItem => RunOf[j] \in {RunOf[i]}
  BY <1>1, <1>5, <1>6 DEF OpenItem
<1>8. \A r \in {RunOf[i]} : \E j \in ItemsOf(r) : itemStatus[j] = "Running"
  BY <1>1 DEF ItemsOf
<1>. QED
  BY <1>1, <1>3, <1>4, <1>7, <1>8 DEF Closing, ClosingStep

LEMMA FailCloses == ASSUME TypeOK, NEW c \in claims, Fail(c) PROVE Closing
<1> DEFINE i  == c.item
           st == [itemStatus EXCEPT ![i] = "Failed"]
<1>0. c \in Claims
  BY DEF TypeOK
<1>1. i \in Items /\ itemStatus[i] = "Running" /\ {RunOf[i]} \in SUBSET Runs
  BY <1>0, RunOfAssumption DEF Claims, Fail, Owns
<1>2. st \in [Items -> ItemStatuses]
  BY DEF TypeOK, ItemStatuses
<1>3. Finalize({RunOf[i]}, st)
  BY DEF Fail
<1>4. \A j \in Items : st[j] = IF j = i THEN "Failed" ELSE itemStatus[j]
  BY DEF TypeOK
<1>. HIDE DEF st, i
<1>5. \A j \in Items : st[j] # itemStatus[j] =>
            /\ itemStatus[j] \in OpenItem
            /\ st[j] # "Absent" /\ st[j] # "Running"
            /\ st[j] \notin OpenItem => RunOf[j] \in {RunOf[i]}
  BY <1>1, <1>4 DEF OpenItem
<1>6. \A r \in {RunOf[i]} : \E j \in ItemsOf(r) : itemStatus[j] = "Running"
  BY <1>1 DEF ItemsOf
<1>. QED
  BY <1>1, <1>2, <1>3, <1>5, <1>6 DEF Closing, ClosingStep

\* A sweep closes the exhausted items only, and finalizes exactly their runs.
LEMMA ReapCloses == ASSUME TypeOK, Reap PROVE Closing
<1> DEFINE st == [i \in Items |-> IF i \in Exhausted THEN "Failed"
                                  ELSE IF i \in Expired THEN "Queued"
                                  ELSE itemStatus[i]]
           R  == {RunOf[i] : i \in Exhausted}
<1>1. st \in [Items -> ItemStatuses]
  BY DEF TypeOK, ItemStatuses
<1>2. R \in SUBSET Runs
  BY RunOfAssumption DEF Exhausted, Expired
<1>3. Finalize(R, st)
  BY DEF Reap, ReapedRuns
<1>4. \A j \in Items : st[j] # itemStatus[j] =>
            /\ itemStatus[j] \in OpenItem
            /\ st[j] # "Absent" /\ st[j] # "Running"
            /\ st[j] \notin OpenItem => RunOf[j] \in R
  BY DEF OpenItem, Exhausted, Expired
<1>5. \A r \in R : \E j \in ItemsOf(r) : itemStatus[j] = "Running"
  BY DEF ItemsOf, Exhausted, Expired
<1>. HIDE DEF st, R
<1>. QED
  BY <1>1, <1>2, <1>3, <1>4, <1>5 DEF Closing, ClosingStep

\* The launch of r gives it a plan and touches no other run.
LEMMA RunInvLaunch ==
  ASSUME TypeOK, RunInv, NEW r \in Runs, Launch(r) PROVE RunInv'
<1>1. \A q \in Runs : runStatus'[q] = IF q = r THEN "Queued" ELSE runStatus[q]
  BY DEF Launch, InitialStatus, TypeOK
<1>2. \A i \in Items : RunOf[i] # r => itemStatus'[i] = itemStatus[i]
  BY DEF Launch, InitialStatus, Planned, ItemsOf
<1>3. \A i \in Items : RunOf[i] = r => itemStatus'[i] \in {"Absent", "Queued", "Blocked"}
  BY DEF Launch, InitialStatus, RunInv, NothingBeforeLaunch
<1>4. PICK i \in Items \ FollowUps : RunOf[i] = r
  BY PlansAssumption
<1>5. itemStatus'[i] \in OpenItem
  BY <1>4 DEF Launch, InitialStatus, Planned, ItemsOf, OpenItem
<1>6. \A j \in Items : RunOf[j] \in Runs
  BY RunOfAssumption
<1>7. TerminalRunClosed'
  BY <1>1, <1>2 DEF RunInv, TerminalRunClosed, Open, ItemsOf
<1>8. ActiveRunsOpen'
  BY <1>1, <1>2, <1>4, <1>5 DEF RunInv, ActiveRunsOpen, Open, ItemsOf
<1>9. OutboxCount'
  BY <1>1 DEF RunInv, OutboxCount, Launch, InitialStatus
<1>. QED
  BY <1>1, <1>2, <1>3, <1>6, <1>7, <1>8, <1>9 DEF RunInv, NothingBeforeLaunch

LEMMA RunInvSteer ==
  ASSUME TypeOK, RunInv, NEW i \in Items, Steer(i) PROVE RunInv'
<1>1. runStatus' = runStatus /\ outbox' = outbox
  BY DEF Steer, Steerable, runVars
<1>2. \A j \in Items : itemStatus'[j] = IF j = i THEN "Queued" ELSE itemStatus[j]
  BY DEF Steer, Steerable, TypeOK
<1>3. /\ RunOf[i] \in Runs
      /\ runStatus[RunOf[i]] \notin {"Absent", "Succeeded", "Failed"}
  BY RunOfAssumption DEF Steer, Steerable, TerminalRun
<1>4. TerminalRunClosed'
  BY <1>1, <1>2, <1>3 DEF RunInv, TerminalRunClosed, Open, ItemsOf
<1>5. ActiveRunsOpen'
  BY <1>1, <1>2 DEF RunInv, ActiveRunsOpen, Open, ItemsOf, OpenItem
<1>6. OutboxCount'
  BY <1>1 DEF RunInv, OutboxCount
<1>. QED
  BY <1>1, <1>2, <1>3, <1>4, <1>5, <1>6 DEF RunInv, NothingBeforeLaunch

LEMMA RunInvClaim ==
  ASSUME TypeOK, RunInv, NEW w \in Workers, NEW i \in Items, Claim(w, i) PROVE RunInv'
<1>1. \A j \in Items : itemStatus'[j] = IF j = i THEN "Running" ELSE itemStatus[j]
  BY DEF Claim, TypeOK
<1>2. /\ RunOf[i] \in Runs
      /\ itemStatus[i] = "Queued"
      /\ runStatus[RunOf[i]] \notin {"Absent", "Succeeded", "Failed"}
  BY RunOfAssumption DEF Claim, Claimable, TerminalRun, RunInv, NothingBeforeLaunch
<1>3. \A r \in Runs : runStatus'[r] = IF r = RunOf[i] /\ runStatus[r] = "Queued"
                                      THEN "Running" ELSE runStatus[r]
  BY DEF Claim, TypeOK
<1>4. \A j \in Items : RunOf[j] \in Runs
  BY RunOfAssumption
<1>5. TerminalRunClosed'
  BY <1>1, <1>2, <1>3 DEF RunInv, TerminalRunClosed, Open, ItemsOf
<1>6. ActiveRunsOpen'
  BY <1>1, <1>2, <1>3 DEF RunInv, ActiveRunsOpen, Open, ItemsOf, OpenItem
<1>7. OutboxCount'
  BY <1>3 DEF RunInv, OutboxCount, Claim
<1>. QED
  BY <1>1, <1>2, <1>3, <1>4, <1>5, <1>6, <1>7 DEF RunInv, NothingBeforeLaunch

\* The compare-and-swap found the cancellable status the request had read, so
\* the run was not finalized; only rows of that run change.
LEMMA RunInvCancelCommit ==
  ASSUME TypeOK, RunInv, CancelInv, NEW o \in Operators, CancelCommit(o) PROVE RunInv'
<1> DEFINE r == cancel[o].run
<1>1. /\ r \in Runs
      /\ runStatus[r] \notin {"Absent", "Succeeded", "Failed"}
      /\ cancel[o].locked \subseteq ItemsOf(r)
  BY DEF CancelInv, CancelCommit, FoundAsRead, CancelledItems, FencedItems, RunTargets
<1>2. \A q \in Runs : runStatus'[q] = IF q = r THEN "Cancelled" ELSE runStatus[q]
  BY DEF CancelCommit, FoundAsRead, CancelledItems, FencedItems, TypeOK
<1>3. \A j \in Items : RunOf[j] # r => itemStatus'[j] = itemStatus[j]
  BY <1>1 DEF CancelCommit, FoundAsRead, CancelledItems, FencedItems, ItemsOf
<1>4. \A j \in Items : itemStatus'[j] = itemStatus[j] \/ itemStatus'[j] = "Cancelled"
  BY DEF CancelCommit, FoundAsRead, CancelledItems, FencedItems
<1>5. outbox' = outbox
  BY DEF CancelCommit, FoundAsRead, CancelledItems, FencedItems
<1>6. \A j \in Items : RunOf[j] \in Runs
  BY RunOfAssumption
<1>. HIDE DEF r
<1>7. TerminalRunClosed'
  BY <1>2, <1>3 DEF RunInv, TerminalRunClosed, Open, ItemsOf
<1>8. ActiveRunsOpen'
  BY <1>2, <1>3 DEF RunInv, ActiveRunsOpen, Open, ItemsOf
<1>9. OutboxCount'
  BY <1>1, <1>2, <1>5 DEF RunInv, OutboxCount
<1>. QED
  BY <1>1, <1>2, <1>3, <1>4, <1>6, <1>7, <1>8, <1>9 DEF RunInv, NothingBeforeLaunch

\* A step that changes no status and no outbox row.
LEMMA RunInvUnchanged ==
  ASSUME RunInv, UNCHANGED <<runStatus, itemStatus, outbox>> PROVE RunInv'
  BY DEF RunInv, NothingBeforeLaunch, TerminalRunClosed, ActiveRunsOpen, OutboxCount, Open

LEMMA RunInvStep == ASSUME TypeOK, RunInv, CancelInv, [Next]_vars PROVE RunInv'
<1>1. CASE UNCHANGED vars
  BY <1>1, RunInvUnchanged DEF vars, itemVars, runVars
<1>2. ASSUME NEW c \in claims, Heartbeat(c) PROVE RunInv'
  BY <1>2, RunInvUnchanged DEF Heartbeat, Renewed, runVars
<1>3. CASE Tick
  BY <1>3, RunInvUnchanged DEF Tick, runVars
<1>4. ASSUME NEW o \in Operators, NEW r \in Runs, CancelRead(o, r) PROVE RunInv'
  BY <1>4, RunInvUnchanged DEF CancelRead, runVars, itemVars
<1>5. ASSUME NEW o \in Operators,
             CancelItems(o) \/ CancelMiss(o) \/ CancelRetry(o) \/ CancelAbort(o)
      PROVE  RunInv'
  BY <1>5, RunInvUnchanged
     DEF CancelItems, CancelMiss, FoundAsRead, CancelRetry, CancelAbort, runVars, itemVars
<1>. QED
  BY <1>1, <1>2, <1>3, <1>4, <1>5, RunInvLaunch, RunInvSteer, RunInvClaim, CompleteCloses,
     FailCloses, ReapCloses, RunInvFinalize, RunInvCancelCommit
     DEF Next, CancelStep

-----------------------------------------------------------------------------
(* What a cancel request knows *)

\* Planned items open at the launch of their run and never again, and no run
\* goes back to Absent: Finalize writes outcomes and moves open items only.
OpensAtLaunch ==
    /\ \A r \in Runs : runStatus[r] # "Absent" => runStatus'[r] # "Absent"
    /\ \A i \in Items \ FollowUps :
         itemStatus'[i] \in OpenItem /\ itemStatus[i] \notin OpenItem
            => runStatus[RunOf[i]] = "Absent"

LEMMA OpensAtLaunchStep ==
  ASSUME TypeOK, [Next]_vars PROVE OpensAtLaunch
<1>1. CASE UNCHANGED vars
  BY <1>1 DEF OpensAtLaunch, vars, runVars, itemVars
<1>2. ASSUME NEW r \in Runs, Launch(r) PROVE OpensAtLaunch
  BY <1>2 DEF Launch, InitialStatus, OpensAtLaunch, Planned, ItemsOf, TypeOK
<1>3. ASSUME NEW i \in Items, Steer(i) PROVE OpensAtLaunch
  BY <1>3 DEF Steer, Steerable, OpensAtLaunch, runVars, TypeOK
<1>4. ASSUME NEW w \in Workers, NEW i \in Items, Claim(w, i) PROVE OpensAtLaunch
  BY <1>4 DEF Claim, Claimable, OpensAtLaunch, OpenItem, TypeOK
<1>5. ASSUME NEW c \in claims, Heartbeat(c) PROVE OpensAtLaunch
  BY <1>5 DEF Heartbeat, Renewed, OpensAtLaunch, runVars
<1>6. ASSUME NEW c \in claims, Complete(c) PROVE OpensAtLaunch
  <2>1. \A r \in Runs : runStatus[r] # "Absent" => runStatus'[r] # "Absent"
    BY <1>6 DEF Complete, Finalize, Announced, Outcome
  <2>2. \A j \in Items : itemStatus'[j] \in OpenItem => itemStatus[j] \in OpenItem
    BY <1>6 DEF Complete, Finalize, Announced, Unblocked, OpenItem, TypeOK
  <2>. QED
    BY <2>1, <2>2 DEF OpensAtLaunch
<1>7. ASSUME NEW c \in claims, Fail(c) PROVE OpensAtLaunch
  BY <1>7 DEF Fail, Finalize, Announced, Outcome, OpensAtLaunch, OpenItem, TypeOK
<1>8. CASE Tick
  BY <1>8 DEF Tick, OpensAtLaunch, runVars
<1>9. CASE Reap
  BY <1>9 DEF Reap, ReapedRuns, Finalize, Announced, Outcome, OpensAtLaunch, Expired,
       Exhausted, OpenItem
<1>10. ASSUME NEW o \in Operators, NEW r \in Runs, CancelRead(o, r) PROVE OpensAtLaunch
  BY <1>10 DEF CancelRead, OpensAtLaunch, runVars, itemVars
<1>11. ASSUME NEW o \in Operators, CancelCommit(o) PROVE OpensAtLaunch
  BY <1>11 DEF CancelCommit, FoundAsRead, CancelledItems, FencedItems, OpensAtLaunch,
       OpenItem, TypeOK
<1>12. ASSUME NEW o \in Operators,
              CancelItems(o) \/ CancelMiss(o) \/ CancelRetry(o) \/ CancelAbort(o)
       PROVE  OpensAtLaunch
  BY <1>12 DEF CancelItems, CancelMiss, FoundAsRead, CancelRetry, CancelAbort, OpensAtLaunch,
       runVars, itemVars
<1>. QED
  BY <1>1, <1>2, <1>3, <1>4, <1>5, <1>6, <1>7, <1>8, <1>9, <1>10, <1>11, <1>12
     DEF Next, CancelStep

\* Locks that cover the open planned items of a launched run go on covering
\* them: no planned item of it opens.
LEMMA CoversKept ==
  ASSUME OpensAtLaunch, CancelInv, NEW o \in Operators, cancel[o].pc = "locked"
  PROVE  Covers(cancel[o].locked, cancel[o].run, itemStatus')
<1>1. runStatus[cancel[o].run] # "Absent" /\ Covers(cancel[o].locked, cancel[o].run, itemStatus)
  BY DEF CancelInv
<1>. QED
  BY <1>1 DEF OpensAtLaunch, Covers

\* While a request does not move, no other step takes away what it knows.
LEMMA CancelInvOthers ==
  ASSUME TypeOK, CancelInv, OpensAtLaunch, cancel' = cancel PROVE CancelInv'
<1>1. \A o \in Operators : cancel[o].pc # "idle" => runStatus'[cancel[o].run] # "Absent"
  BY DEF OpensAtLaunch, CancelInv
<1>2. \A o \in Operators : cancel[o].pc = "locked" =>
            Covers(cancel[o].locked, cancel[o].run, itemStatus')
  BY CoversKept DEF CancelInv
<1>. QED
  BY <1>1, <1>2 DEF CancelInv, Covers, ItemsOf

\* A step of request o: the record of o is checked anew, the others as before.
LEMMA CancelInvOwn ==
  ASSUME TypeOK, CancelInv, NEW o \in Operators,
         CancelStep(o) \/ CancelAbort(o) \/ \E r \in Runs : CancelRead(o, r)
  PROVE  CancelInv'
<1>1. CASE \E r \in Runs : CancelRead(o, r)
  BY <1>1 DEF CancelRead, CancelInv, TypeOK, RunTargets, Covers, runVars, itemVars
<1>2. CASE CancelItems(o)
  BY <1>2 DEF CancelItems, CancelInv, TypeOK, Covers, runVars, itemVars, Open, ItemsOf
<1>3. CASE CancelMiss(o)
  BY <1>3 DEF CancelMiss, FoundAsRead, CancelInv, TypeOK, Covers, runVars, itemVars
<1>4. CASE CancelRetry(o)
  <2>1. /\ cancel[o].run \in Runs
        /\ runStatus[cancel[o].run] # "Absent"
        /\ cancel[o].locked = {}
    BY <1>4 DEF CancelRetry, CancelInv
  <2>2. \/ cancel' = [cancel EXCEPT ![o] = Idle]
        \/ /\ "Cancelled" \in RunTargets(runStatus[cancel[o].run])
           /\ cancel' = [cancel EXCEPT ![o] =
                [cancel[o] EXCEPT !.pc = "begin", !.from = runStatus[cancel[o].run],
                                  !.tries = cancel[o].tries + 1]]
    BY <1>4 DEF CancelRetry
  <2>. QED
    BY <1>4, <2>1, <2>2 DEF CancelRetry, CancelInv, TypeOK, Idle, Covers, runVars, itemVars
<1>5. CASE CancelAbort(o)
  BY <1>5 DEF CancelAbort, CancelInv, TypeOK, Idle, Covers, runVars, itemVars
<1>6. CASE CancelCommit(o)
  <2>1. CancelCommit(o) => [Next]_vars
    BY DEF Next, CancelStep
  <2>2. OpensAtLaunch
    BY <1>6, <2>1, OpensAtLaunchStep
  <2>3. \A p \in Operators : cancel'[p] = IF p = o THEN Idle ELSE cancel[p]
    BY <1>6 DEF CancelCommit, FoundAsRead, CancelledItems, FencedItems, TypeOK
  <2>4. \A p \in Operators : cancel[p].pc # "idle" => runStatus'[cancel[p].run] # "Absent"
    BY <2>2 DEF OpensAtLaunch, CancelInv
  <2>5. \A p \in Operators : cancel[p].pc = "locked" =>
            Covers(cancel[p].locked, cancel[p].run, itemStatus')
    BY <2>2, CoversKept
  <2>. QED
    BY <2>3, <2>4, <2>5 DEF CancelInv, Covers, Idle, ItemsOf
<1>. QED
  BY <1>1, <1>2, <1>3, <1>4, <1>5, <1>6 DEF CancelStep

LEMMA CancelInvStep == ASSUME TypeOK, CancelInv, [Next]_vars PROVE CancelInv'
<1>1. OpensAtLaunch
  BY OpensAtLaunchStep
<1>2. CASE cancel' = cancel
  BY <1>1, <1>2, CancelInvOthers
<1>3. CASE \E o \in Operators :
             CancelStep(o) \/ CancelAbort(o) \/ \E r \in Runs : CancelRead(o, r)
  BY <1>3, CancelInvOwn
<1>. QED
  BY <1>2, <1>3
     DEF Next, vars, Launch, InitialStatus, Steer, Steerable, Claim, Heartbeat, Renewed,
          Complete, Fail, Tick, Reap, ReapedRuns

\* The two invariants hold together.
LEMMA RunAndCancelInv == Spec => [](TypeOK /\ RunInv /\ CancelInv)
<1>1. Init => RunInv /\ CancelInv
  BY RunOfAssumption
     DEF Init, RunInv, NothingBeforeLaunch, CancelInv, Covers, Idle, TerminalRunClosed, ActiveRunsOpen,
          OutboxCount
<1>. QED
  BY <1>1, TypeCorrect, RunInvStep, CancelInvStep, PTL DEF Spec

\* A Succeeded or Failed run has no open item and the outcome its items call
\* for (RunFinalizationSql).
THEOREM RunsClosed == Spec => []TerminalRunClosed
  BY RunAndCancelInv, PTL DEF RunInv

\* One terminated row per finalized run, none before the end.
THEOREM OutboxOnce == Spec => []OutboxExactlyOnce
<1>1. ASSUME OutboxCount PROVE OutboxExactlyOnce
  <2>1. SUFFICES ASSUME NEW r \in Runs
                 PROVE  /\ runStatus[r] \in {"Succeeded", "Failed"} => outbox[r] = 1
                        /\ runStatus[r] \notin TerminalRun => outbox[r] = 0
                        /\ outbox[r] <= 1
    BY DEF OutboxExactlyOnce
  <2>2. CASE runStatus[r] \in {"Succeeded", "Failed"}
    BY <1>1, <2>2 DEF OutboxCount, TerminalRun
  <2>3. CASE runStatus[r] \notin {"Succeeded", "Failed"}
    BY <1>1, <2>3 DEF OutboxCount
  <2>. QED
    BY <2>2, <2>3
<1>2. RunInv => OutboxExactlyOnce
  BY <1>1 DEF RunInv
<1>. QED
  BY <1>2, RunAndCancelInv, PTL

\* No step moves a terminal run or its generation: the compare-and-swap of the
\* cancel only ever matches a status that can be cancelled.
KeepsTerminalRuns ==
    \A r \in Runs : runStatus[r] \in TerminalRun =>
        runStatus'[r] = runStatus[r] /\ runGen'[r] = runGen[r]

LEMMA KeepsTerminalRunsStep ==
  ASSUME TypeOK, CancelInv, [Next]_vars PROVE KeepsTerminalRuns
<1>1. CASE UNCHANGED vars
  BY <1>1 DEF KeepsTerminalRuns, vars, runVars
<1>2. ASSUME NEW r \in Runs, Launch(r) PROVE KeepsTerminalRuns
  BY <1>2 DEF KeepsTerminalRuns, Launch, InitialStatus, TypeOK, TerminalRun
<1>3. ASSUME NEW i \in Items, Steer(i) PROVE KeepsTerminalRuns
  BY <1>3 DEF KeepsTerminalRuns, Steer, Steerable, runVars
<1>4. ASSUME NEW w \in Workers, NEW i \in Items, Claim(w, i) PROVE KeepsTerminalRuns
  BY <1>4 DEF KeepsTerminalRuns, Claim, TypeOK, TerminalRun
<1>5. ASSUME NEW c \in claims, Heartbeat(c) \/ Complete(c) \/ Fail(c) PROVE KeepsTerminalRuns
  BY <1>5 DEF KeepsTerminalRuns, Heartbeat, Renewed, Complete, Fail, Finalize, Announced,
       Concludes, runVars,
              TerminalRun
<1>6. CASE Tick \/ Reap
  BY <1>6 DEF KeepsTerminalRuns, Tick, Reap, ReapedRuns, Finalize, Announced, Concludes,
       runVars, TerminalRun
<1>7. ASSUME NEW o \in Operators, CancelCommit(o) PROVE KeepsTerminalRuns
  <2>1. "Cancelled" \in RunTargets(runStatus[cancel[o].run])
    BY <1>7 DEF CancelCommit, FoundAsRead, CancelledItems, FencedItems, CancelInv
  <2>2. runStatus[cancel[o].run] \notin TerminalRun
    BY <2>1, Cancellable DEF TerminalRun
  <2>. QED
    BY <1>7, <2>2 DEF KeepsTerminalRuns, CancelCommit, FoundAsRead, CancelledItems,
         FencedItems, TypeOK
<1>8. ASSUME NEW o \in Operators,
             CancelItems(o) \/ CancelMiss(o) \/ CancelRetry(o) \/ CancelAbort(o)
      PROVE  KeepsTerminalRuns
  BY <1>8 DEF KeepsTerminalRuns, CancelItems, CancelMiss, FoundAsRead, CancelRetry,
       CancelAbort, runVars
<1>9. ASSUME NEW o \in Operators, NEW r \in Runs, CancelRead(o, r) PROVE KeepsTerminalRuns
  BY <1>9 DEF KeepsTerminalRuns, CancelRead, runVars
<1>. QED
  BY <1>1, <1>2, <1>3, <1>4, <1>5, <1>6, <1>7, <1>8, <1>9 DEF Next, CancelStep

\* A terminal run keeps its status and its generation (RunTransitions).
THEOREM TerminalFrozen == Spec => TerminalRunFrozen
<1>1. TypeOK /\ RunInv /\ CancelInv /\ [Next]_vars
        => [\A r \in Runs : runStatus[r] \in TerminalRun =>
                runStatus'[r] = runStatus[r] /\ runGen'[r] = runGen[r]]_vars
  BY KeepsTerminalRunsStep DEF KeepsTerminalRuns
<1>. QED
  BY <1>1, RunAndCancelInv, PTL DEF Spec, TerminalRunFrozen

-----------------------------------------------------------------------------
(* No active run waits for nothing *)

\* Items are cancelled with their run only, and the plan of a launched run is there.
CancelledWithRun ==
    \A i \in Items : itemStatus[i] = "Cancelled" => runStatus[RunOf[i]] = "Cancelled"

PlanPresent ==
    \A i \in Items \ FollowUps : runStatus[RunOf[i]] # "Absent" => itemStatus[i] # "Absent"

PlanInv == DependentsReleased /\ CancelledWithRun /\ PlanPresent

\* A step in which nothing succeeds and nothing becomes Blocked.
LEMMA ReleasedKept ==
  ASSUME DependentsReleased,
         \A i \in Items : itemStatus'[i] = "Succeeded" => itemStatus[i] = "Succeeded",
         \A i \in Items : itemStatus'[i] = "Blocked" => itemStatus[i] = "Blocked"
  PROVE  DependentsReleased'
<1>1. \A i \in Items : Prereqs[i] \subseteq Items
  BY PrereqsAssumption
<1>. QED
  BY <1>1 DEF DependentsReleased

\* The launched items wait for items of their own plan, launched with them.
LEMMA ReleasedLaunch ==
  ASSUME TypeOK, DependentsReleased, NEW r \in Runs, Launch(r) PROVE DependentsReleased'
<1>. SUFFICES ASSUME NEW i \in Items, itemStatus'[i] = "Blocked"
              PROVE  \E j \in Prereqs[i] : itemStatus'[j] # "Succeeded"
  BY DEF DependentsReleased
<1>1. \A j \in Prereqs[i] : j \in Items /\ (i \in Planned(r) <=> j \in Planned(r))
  BY PrereqsAssumption DEF Planned, ItemsOf
<1>2. \A j \in Items : itemStatus'[j] = IF j \in Planned(r) THEN InitialStatus(j) ELSE itemStatus[j]
  BY DEF Launch
<1>3. CASE i \in Planned(r)
  BY <1>1, <1>2, <1>3 DEF InitialStatus
<1>4. CASE i \notin Planned(r)
  BY <1>1, <1>2, <1>4 DEF DependentsReleased
<1>. QED
  BY <1>3, <1>4

\* The unblock looks at every dependent of the completed item, with the
\* completion among what it sees.
LEMMA ReleasedComplete ==
  ASSUME TypeOK, DependentsReleased, NEW c \in claims, Complete(c) PROVE DependentsReleased'
<1> DEFINE i  == c.item
           st == [itemStatus EXCEPT ![i] = "Succeeded"]
<1>1. itemStatus' = Unblocked(st, i)
  BY DEF Complete, Finalize
<1>2. \A k \in Items : st[k] = IF k = i THEN "Succeeded" ELSE itemStatus[k]
  BY DEF TypeOK
<1>. HIDE DEF i, st
<1>. SUFFICES ASSUME NEW j \in Items, itemStatus'[j] = "Blocked"
              PROVE  \E k \in Prereqs[j] : itemStatus'[k] # "Succeeded"
  BY DEF DependentsReleased
<1>3. \A k \in Items : itemStatus'[k] = "Succeeded" => st[k] = "Succeeded"
  BY <1>1 DEF Unblocked
<1>4. st[j] = "Blocked" /\ itemStatus[j] = "Blocked"
  BY <1>1, <1>2 DEF Unblocked
<1>5. Prereqs[j] \subseteq Items
  BY PrereqsAssumption
<1>6. CASE i \in Prereqs[j]
  BY <1>1, <1>3, <1>4, <1>5, <1>6 DEF Unblocked
<1>7. CASE i \notin Prereqs[j]
  BY <1>2, <1>3, <1>4, <1>5, <1>7 DEF DependentsReleased
<1>. QED
  BY <1>6, <1>7

LEMMA ReleasedStep == ASSUME TypeOK, DependentsReleased, [Next]_vars PROVE DependentsReleased'
<1>1. CASE UNCHANGED <<itemStatus>>
  BY <1>1 DEF DependentsReleased
<1>2. ASSUME NEW i \in Items, Steer(i) PROVE DependentsReleased'
  BY <1>2, ReleasedKept DEF Steer, TypeOK
<1>3. ASSUME NEW w \in Workers, NEW i \in Items, Claim(w, i) PROVE DependentsReleased'
  BY <1>3, ReleasedKept DEF Claim, TypeOK
<1>4. ASSUME NEW c \in claims, Fail(c) PROVE DependentsReleased'
  BY <1>4, ReleasedKept DEF Fail, Finalize, TypeOK
<1>5. CASE Reap
  BY <1>5, ReleasedKept DEF Reap, Finalize
<1>6. ASSUME NEW o \in Operators, CancelCommit(o) PROVE DependentsReleased'
  BY <1>6, ReleasedKept DEF CancelCommit, CancelledItems
<1>. QED
  BY <1>1, <1>2, <1>3, <1>4, <1>5, <1>6, ReleasedLaunch, ReleasedComplete
     DEF Next, CancelStep, vars, itemVars, Heartbeat, Tick, CancelRead, CancelItems, CancelMiss,
         CancelRetry, CancelAbort

\* Only the commit of a cancel, which cancels the run, cancels items.
LEMMA CancelledStep ==
  ASSUME TypeOK, CancelInv, CancelledWithRun, [Next]_vars PROVE CancelledWithRun'
<1>. \A i \in Items : RunOf[i] \in Runs
  BY RunOfAssumption
<1>1. KeepsTerminalRuns
  BY KeepsTerminalRunsStep
<1>2. ASSUME \A i \in Items : itemStatus'[i] = "Cancelled" => itemStatus[i] = "Cancelled"
      PROVE  CancelledWithRun'
  BY <1>1, <1>2 DEF KeepsTerminalRuns, CancelledWithRun, TerminalRun
<1>3. ASSUME NEW r \in Runs, Launch(r) PROVE CancelledWithRun'
  BY <1>2, <1>3 DEF Launch, InitialStatus
<1>4. ASSUME NEW i \in Items, Steer(i) PROVE CancelledWithRun'
  BY <1>2, <1>4 DEF Steer, TypeOK
<1>5. ASSUME NEW w \in Workers, NEW i \in Items, Claim(w, i) PROVE CancelledWithRun'
  BY <1>2, <1>5 DEF Claim, TypeOK
<1>6. ASSUME NEW c \in claims, Complete(c) PROVE CancelledWithRun'
  BY <1>2, <1>6 DEF Complete, Finalize, Unblocked, TypeOK
<1>7. ASSUME NEW c \in claims, Fail(c) PROVE CancelledWithRun'
  BY <1>2, <1>7 DEF Fail, Finalize, TypeOK
<1>8. CASE Reap
  BY <1>2, <1>8 DEF Reap, Finalize
<1>9. ASSUME NEW o \in Operators, CancelCommit(o) PROVE CancelledWithRun'
  <2>1. cancel[o].run \in Runs /\ cancel[o].locked \subseteq ItemsOf(cancel[o].run)
    BY <1>9 DEF CancelCommit, CancelInv
  <2>2. runStatus'[cancel[o].run] = "Cancelled"
    BY <1>9, <2>1 DEF CancelCommit, TypeOK
  <2>3. \A i \in Items : itemStatus'[i] # itemStatus[i] => RunOf[i] = cancel[o].run
    BY <1>9, <2>1 DEF CancelCommit, CancelledItems, ItemsOf
  <2>. QED
    BY <1>1, <2>1, <2>2, <2>3 DEF KeepsTerminalRuns, CancelledWithRun, TerminalRun
<1>10. CASE UNCHANGED itemStatus
  BY <1>2, <1>10
<1>. QED
  BY <1>3, <1>4, <1>5, <1>6, <1>7, <1>8, <1>9, <1>10
     DEF Next, CancelStep, vars, itemVars, Heartbeat, Tick, CancelRead, CancelItems, CancelMiss,
         CancelRetry, CancelAbort

\* A launch brings the whole plan; no step takes an item of it away.
LEMMA PresentStep ==
  ASSUME TypeOK, CancelInv, PlanPresent, [Next]_vars PROVE PlanPresent'
<1>. \A i \in Items : RunOf[i] \in Runs
  BY RunOfAssumption
<1>1. ASSUME \A i \in Items : itemStatus'[i] = "Absent" => itemStatus[i] = "Absent",
             \A r \in Runs : runStatus[r] = "Absent" => runStatus'[r] = "Absent"
      PROVE  PlanPresent'
  BY <1>1 DEF PlanPresent
<1>2. ASSUME NEW r \in Runs, Launch(r) PROVE PlanPresent'
  BY <1>2 DEF Launch, InitialStatus, PlanPresent, Planned, ItemsOf, TypeOK
<1>3. ASSUME NEW i \in Items, Steer(i) PROVE PlanPresent'
  BY <1>1, <1>3 DEF Steer, TypeOK, runVars
<1>4. ASSUME NEW w \in Workers, NEW i \in Items, Claim(w, i) PROVE PlanPresent'
  BY <1>1, <1>4 DEF Claim, TypeOK
<1>5. ASSUME NEW c \in claims, Complete(c) PROVE PlanPresent'
  BY <1>1, <1>5 DEF Complete, Finalize, Concludes, Unblocked, TypeOK
<1>6. ASSUME NEW c \in claims, Fail(c) PROVE PlanPresent'
  BY <1>1, <1>6 DEF Fail, Finalize, Concludes, TypeOK
<1>7. CASE Reap
  BY <1>1, <1>7 DEF Reap, Finalize, Concludes
<1>8. ASSUME NEW o \in Operators, CancelCommit(o) PROVE PlanPresent'
  <2>1. runStatus[cancel[o].run] # "Absent"
    BY <1>8 DEF CancelCommit, CancelInv
  <2>. QED
    BY <1>1, <1>8, <2>1 DEF CancelCommit, CancelledItems, TypeOK
<1>9. CASE UNCHANGED <<itemStatus, runStatus>>
  BY <1>1, <1>9
<1>. QED
  BY <1>2, <1>3, <1>4, <1>5, <1>6, <1>7, <1>8, <1>9
     DEF Next, CancelStep, vars, runVars, itemVars, Heartbeat, Tick, CancelRead, CancelItems,
         CancelMiss, CancelRetry, CancelAbort

LEMMA PlanInvariant == Spec => [](TypeOK /\ RunInv /\ PlanInv)
<1>1. Init => PlanInv
  BY RunOfAssumption DEF Init, PlanInv, DependentsReleased, CancelledWithRun, PlanPresent
<1>2. TypeOK /\ CancelInv /\ PlanInv /\ [Next]_vars => PlanInv'
  BY ReleasedStep, CancelledStep, PresentStep DEF PlanInv
<1>. QED
  BY <1>1, <1>2, RunAndCancelInv, PTL DEF Spec

\* Follow the Blocked items of a run down their prerequisites.  The plan is
\* acyclic, so one of them waits for no Blocked item; what it does wait for
\* did not succeed, and if nothing is queued or running it has failed.
LEMMA ActiveRunsMove == TypeOK /\ RunInv /\ PlanInv => NoRunLeftOpen
<1>. SUFFICES ASSUME TypeOK, RunInv, PlanInv, NEW r \in Runs,
                     runStatus[r] \in {"Queued", "Running"},
                     \A i \in ItemsOf(r) : itemStatus[i] \notin {"Queued", "Running"}
              PROVE  Stalled(r)
  BY DEF NoRunLeftOpen
<1>1. Open(r) # {} /\ Open(r) \in SUBSET Items
  BY DEF RunInv, ActiveRunsOpen, Open, ItemsOf
<1>2. \A i \in Open(r) : itemStatus[i] = "Blocked" /\ i \in ItemsOf(r)
  BY DEF Open, OpenItem
<1>3. PICK i \in Open(r) : Prereqs[i] \cap Open(r) = {}
  BY <1>1, AcyclicAssumption
<1>4. PICK j \in Prereqs[i] : itemStatus[j] # "Succeeded"
  BY <1>1, <1>2, <1>3 DEF PlanInv, DependentsReleased
<1>5. j \in Items \ FollowUps /\ j \in ItemsOf(r) /\ j \notin Open(r)
  BY <1>1, <1>2, <1>3, <1>4, PrereqsAssumption DEF ItemsOf
<1>6. itemStatus[j] # "Absent" /\ itemStatus[j] # "Cancelled"
  BY <1>5 DEF PlanInv, PlanPresent, CancelledWithRun, ItemsOf
<1>7. itemStatus[j] = "Failed"
  BY <1>4, <1>5, <1>6 DEF TypeOK, ItemStatuses, Open, OpenItem
<1>. QED
  BY <1>1, <1>2, <1>5, <1>7 DEF Stalled

\* No dependent is forgotten by the completion of its last prerequisite
\* (UnblockDependentsSql).
THEOREM DependentsAreReleased == Spec => []DependentsReleased
  BY PlanInvariant, PTL DEF PlanInv

\* An active run has an item that can be claimed or is being worked on, or a
\* failed one stopped its plan: nothing else keeps a run from its end
\* (RunProgression.FinalizeAsync, UnblockDependentsAsync, LeaseReaper.ReapAsync).
THEOREM RunsFinalized == Spec => []NoRunLeftOpen
  BY ActiveRunsMove, PlanInvariant, PTL
=============================================================================
