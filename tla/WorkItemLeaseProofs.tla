------------------------- MODULE WorkItemLeaseProofs -------------------------
(***************************************************************************)
(* Theorems about the leases of WorkItemQueue: who may act on an item, what *)
(* a cancel takes away, and whose result is journalled.                     *)
(***************************************************************************)
EXTENDS WorkItemQueueProofs

-----------------------------------------------------------------------------
(* Leases *)

\* An attempt number is handed out once, and an item that was never queued was
\* never claimed.
LeaseInv ==
    /\ LeaseConsistent
    /\ \A i \in Items : itemStatus[i] \in {"Absent", "Blocked"} => attempt[i] = 0
    /\ \A c \in claims : 1 <= c.attempt /\ c.attempt <= attempt[c.item]

\* A step that hands out no claim keeps the lease invariant if a Running item
\* keeps its lessee, any other one has none, and what it queues has attempts
\* left.
LEMMA LeaseKept ==
  ASSUME TypeOK, LeaseInv, claims' = claims, attempt' = attempt,
         \A i \in Items : itemStatus'[i] = "Running" =>
            itemStatus[i] = "Running" /\ leasedBy'[i] = leasedBy[i],
         \A i \in Items : itemStatus'[i] # "Running" => leasedBy'[i] = None,
         \A i \in Items : itemStatus'[i] = "Queued" => attempt[i] < MaxAttempts,
         \A i \in Items : itemStatus'[i] \in {"Absent", "Blocked"} => attempt[i] = 0
  PROVE  LeaseInv'
  BY DEF LeaseInv, LeaseConsistent, IsLatest

\* A claim takes the next attempt number of an item that had one left.
LEMMA LeaseClaim ==
  ASSUME TypeOK, LeaseInv, NEW w \in Workers, NEW i \in Items, Claim(w, i)
  PROVE  LeaseInv'
<1> DEFINE n == attempt[i] + 1
           d == [item |-> i, worker |-> w, generation |-> runGen[RunOf[i]], attempt |-> n]
<1>1. /\ itemStatus[i] = "Queued"
      /\ claims' = claims \cup {d}
      /\ \A j \in Items : itemStatus'[j] = IF j = i THEN "Running" ELSE itemStatus[j]
      /\ \A j \in Items : leasedBy'[j] = IF j = i THEN w ELSE leasedBy[j]
      /\ \A j \in Items : attempt'[j] = IF j = i THEN n ELSE attempt[j]
  BY DEF Claim, Claimable, TypeOK
<1>2. attempt[i] \in Nat /\ attempt[i] < MaxAttempts /\ n \in Nat /\ n <= MaxAttempts
  BY <1>1, LeaseAssumption DEF LeaseInv, LeaseConsistent, TypeOK
<1>3. d.item = i /\ d.worker = w /\ d.attempt = n
  OBVIOUS
<1>. HIDE DEF d
<1>4. \A c \in claims : c.item = i => c.attempt < n
  BY <1>2 DEF LeaseInv, TypeOK, Claims
<1>5. \A c, e \in claims' : c.item = e.item /\ c.attempt = e.attempt => c = e
  BY <1>1, <1>2, <1>3, <1>4 DEF LeaseInv, LeaseConsistent, TypeOK, Claims
<1>6. \A c \in claims' : 1 <= c.attempt /\ c.attempt <= attempt'[c.item]
  <2>1. \A c \in claims : c.attempt \in Nat /\ c.item \in Items
    BY DEF TypeOK, Claims
  <2>. QED
    BY <1>1, <1>2, <1>3, <1>4, <2>1 DEF LeaseInv
<1>7. ASSUME NEW j \in Items
      PROVE  /\ (itemStatus'[j] = "Running") <=> (leasedBy'[j] # None)
             /\ itemStatus'[j] = "Queued" => attempt'[j] < MaxAttempts
             /\ attempt'[j] <= MaxAttempts
             /\ itemStatus'[j] = "Running" =>
                  \E c \in claims' : IsLatest(c, j)' /\ c.worker = leasedBy'[j]
  <2>1. CASE j = i
    BY <1>1, <1>2, <1>3, <2>1, NoneAssumption DEF IsLatest
  <2>2. CASE j # i
    BY <1>1, <2>2 DEF IsLatest, LeaseInv, LeaseConsistent
  <2>. QED
    BY <2>1, <2>2
<1>8. \A j \in Items : itemStatus'[j] \in {"Absent", "Blocked"} => attempt'[j] = 0
  BY <1>1 DEF LeaseInv
<1>. QED
  BY <1>5, <1>6, <1>7, <1>8 DEF LeaseInv, LeaseConsistent, IsLatest

\* Completing or failing a held item gives it a terminal status and queues
\* Blocked dependents, nothing else.
LEMMA FinishItems ==
  ASSUME TypeOK, NEW c \in claims, Complete(c) \/ Fail(c)
  PROVE  /\ c \in Claims /\ c.item \in Items
         /\ Owns(c)
         /\ itemStatus'[c.item] \in {"Succeeded", "Failed"}
         /\ \A j \in Items \ {c.item} :
                \/ itemStatus'[j] = itemStatus[j]
                \/ itemStatus[j] = "Blocked" /\ itemStatus'[j] = "Queued"
<1>1. c \in Claims /\ c.item \in Items
  BY DEF TypeOK, Claims
<1>2. CASE Complete(c)
  <2> DEFINE st == [itemStatus EXCEPT ![c.item] = "Succeeded"]
  <2>1. itemStatus' = Unblocked(st, c.item)
    BY <1>2 DEF Complete, Finalize, Announced
  <2>2. \A j \in Items : st[j] = IF j = c.item THEN "Succeeded" ELSE itemStatus[j]
    BY DEF TypeOK
  <2>. HIDE DEF st
  <2>3. \A j \in Items : itemStatus'[j] = st[j] \/ (st[j] = "Blocked" /\ itemStatus'[j] = "Queued")
    BY <2>1 DEF Unblocked
  <2>. QED
    BY <1>1, <1>2, <2>2, <2>3 DEF Complete
<1>3. CASE Fail(c)
  <2>1. \A j \in Items : itemStatus'[j] = IF j = c.item THEN "Failed" ELSE itemStatus[j]
    BY <1>3 DEF Fail, Finalize, Announced, TypeOK
  <2>. QED
    BY <1>1, <1>3, <2>1 DEF Fail
<1>. QED
  BY <1>2, <1>3

\* Completing and failing release the item; what a completion unblocks was
\* never claimed.
LEMMA LeaseFinish ==
  ASSUME TypeOK, LeaseInv, NEW c \in claims, Complete(c) \/ Fail(c)
  PROVE  LeaseInv'
<1>1. /\ claims' = claims /\ attempt' = attempt
      /\ \A i \in Items : leasedBy'[i] = IF i = c.item THEN None ELSE leasedBy[i]
  BY DEF Complete, Fail, Release
<1>2. /\ c.item \in Items
      /\ itemStatus'[c.item] \in {"Succeeded", "Failed"}
      /\ \A j \in Items \ {c.item} :
             \/ itemStatus'[j] = itemStatus[j]
             \/ itemStatus[j] = "Blocked" /\ itemStatus'[j] = "Queued"
  BY FinishItems
<1>4. \A i \in Items : itemStatus'[i] = "Running" =>
            itemStatus[i] = "Running" /\ leasedBy'[i] = leasedBy[i]
  BY <1>1, <1>2
<1>5. \A i \in Items : itemStatus'[i] # "Running" => leasedBy'[i] = None
  BY <1>1, <1>2 DEF LeaseInv, LeaseConsistent
<1>6. \A i \in Items : itemStatus'[i] = "Queued" => attempt[i] < MaxAttempts
  BY <1>2, LeaseAssumption DEF LeaseInv, LeaseConsistent
<1>7. \A i \in Items : itemStatus'[i] \in {"Absent", "Blocked"} => attempt[i] = 0
  BY <1>2 DEF LeaseInv
<1>. QED
  BY <1>1, <1>4, <1>5, <1>6, <1>7, LeaseKept

LEMMA LeaseStep ==
  ASSUME TypeOK, NothingBeforeLaunch, LeaseInv, [Next]_vars PROVE LeaseInv'
<1>. USE DEF LeaseInv, LeaseConsistent
<1>1. CASE UNCHANGED vars
  BY <1>1, LeaseKept DEF vars, itemVars, leaseVars, callVars
<1>2. ASSUME NEW r \in Runs, Launch(r) PROVE LeaseInv'
  <2>1. \A i \in Items : itemStatus'[i] = itemStatus[i]
                           \/ (itemStatus[i] = "Absent" /\ itemStatus'[i] \in {"Queued", "Blocked"})
    BY <1>2 DEF Launch, InitialStatus, NothingBeforeLaunch, Planned, ItemsOf
  <2>. QED
    BY <1>2, <2>1, LeaseKept, LeaseAssumption DEF Launch, InitialStatus, leaseVars, callVars
<1>3. ASSUME NEW i \in Items, Steer(i) PROVE LeaseInv'
  BY <1>3, LeaseKept, LeaseAssumption DEF Steer, Steerable, leaseVars, callVars, TypeOK
<1>4. ASSUME NEW w \in Workers, NEW i \in Items, Claim(w, i) PROVE LeaseInv'
  BY <1>4, LeaseClaim
<1>5. ASSUME NEW c \in claims, Heartbeat(c) PROVE LeaseInv'
  BY <1>5, LeaseKept DEF Heartbeat, Renewed, callVars
<1>6. ASSUME NEW c \in claims, Complete(c) \/ Fail(c) PROVE LeaseInv'
  BY <1>6, LeaseFinish
<1>7. CASE Tick
  BY <1>7, LeaseKept DEF Tick, callVars
<1>8. CASE Reap
  <2>1. /\ claims' = claims /\ attempt' = attempt
        /\ \A i \in Items : leasedBy'[i] = IF i \in Expired THEN None ELSE leasedBy[i]
        /\ \A i \in Items : itemStatus'[i] = IF i \in Exhausted THEN "Failed"
                                             ELSE IF i \in Expired THEN "Queued"
                                             ELSE itemStatus[i]
    BY <1>8 DEF Reap, ReapedRuns, Release, Finalize, Announced, callVars
  <2>2. \A i \in Expired \ Exhausted : attempt[i] < MaxAttempts
    BY LeaseAssumption DEF Expired, Exhausted, TypeOK
  <2>3. Exhausted \subseteq Expired
    BY DEF Exhausted
  <2>. QED
    BY <2>1, <2>2, <2>3, LeaseKept
<1>9. ASSUME NEW o \in Operators, NEW r \in Runs, CancelRead(o, r) PROVE LeaseInv'
  BY <1>9, LeaseKept DEF CancelRead, itemVars, leaseVars, callVars
<1>10. ASSUME NEW o \in Operators, CancelCommit(o) PROVE LeaseInv'
  BY <1>10, LeaseKept DEF CancelCommit, FoundAsRead, CancelledItems, FencedItems, callVars
<1>11. ASSUME NEW o \in Operators,
              CancelItems(o) \/ CancelMiss(o) \/ CancelRetry(o) \/ CancelAbort(o)
       PROVE  LeaseInv'
  BY <1>11, LeaseKept DEF CancelItems, CancelMiss, FoundAsRead, CancelRetry, CancelAbort,
       itemVars,
                          leaseVars, callVars
<1>. QED
  BY <1>1, <1>2, <1>3, <1>4, <1>5, <1>6, <1>7, <1>8, <1>9, <1>10, <1>11
     DEF Next, CancelStep

LEMMA LeaseInvariant == Spec => []LeaseInv
<1>1. Init => LeaseInv
  BY LeaseAssumption DEF Init, LeaseInv, LeaseConsistent
<1>. QED
  BY <1>1, LeaseStep, RunAndCancelInv, PTL DEF Spec, RunInv

\* One lessee per Running item, its latest claimant; one worker per attempt; no
\* more than MaxAttempts attempts (ClaimSql, ReapRequeueSql, ReapFailSql).
THEOREM LeasesConsistent == Spec => []LeaseConsistent
  BY LeaseInvariant, PTL DEF LeaseInv

-----------------------------------------------------------------------------
(* Fences *)

\* Generations only grow: the one of an item stays behind that of its run, the
\* ones of its claims behind its own, and later claims carry later ones.
GenerationInv ==
    /\ \A r \in Runs : runStatus[r] = "Absent" => runGen[r] = 0
    /\ \A i \in Items : itemGen[i] <= runGen[RunOf[i]]
    /\ \A c \in claims : c.generation <= itemGen[c.item]
    /\ \A c, d \in claims : c.item = d.item /\ c.attempt <= d.attempt
                                => c.generation <= d.generation

\* A step that hands out no claim and moves no generation but the one a launch
\* sets.
LEMMA GenerationKept ==
  ASSUME TypeOK, GenerationInv, claims' = claims, itemGen' = itemGen,
         \A r \in Runs : /\ runStatus'[r] = "Absent" => runStatus[r] = "Absent"
                         /\ runGen'[r] = runGen[r] \/ (runStatus[r] = "Absent" /\ runGen'[r] = 1
                                                        /\ runStatus'[r] # "Absent")
  PROVE  GenerationInv'
<1>1. \A i \in Items : RunOf[i] \in Runs /\ itemGen[i] \in Nat /\ runGen[RunOf[i]] \in Nat
  BY RunOfAssumption DEF TypeOK
<1>2. \A i \in Items : itemGen'[i] <= runGen'[RunOf[i]]
  BY <1>1 DEF GenerationInv
<1>. QED
  BY <1>2 DEF GenerationInv

\* A claim is stamped with the generation of its run, the latest there is.
LEMMA GenerationClaim ==
  ASSUME TypeOK, LeaseInv, GenerationInv, NEW w \in Workers, NEW i \in Items, Claim(w, i)
  PROVE  GenerationInv'
<1> DEFINE r == RunOf[i]
           e == [item |-> i, worker |-> w, generation |-> runGen[r], attempt |-> attempt[i] + 1]
<1>1. /\ r \in Runs
      /\ runGen' = runGen
      /\ claims' = claims \cup {e}
      /\ \A q \in Runs : runStatus'[q] = IF q = r /\ runStatus[q] = "Queued"
                                         THEN "Running" ELSE runStatus[q]
      /\ \A j \in Items : itemGen'[j] = IF j = i THEN runGen[r] ELSE itemGen[j]
  BY RunOfAssumption DEF Claim, TypeOK
<1>2. e.item = i /\ e.generation = runGen[r] /\ e.attempt = attempt[i] + 1
  OBVIOUS
<1>3. /\ runGen[r] \in Nat /\ attempt[i] \in Nat
      /\ itemGen[i] \in Nat /\ itemGen[i] <= runGen[r]
  BY <1>1 DEF GenerationInv, TypeOK
<1>4. \A c \in claims : c.item \in Items /\ c.generation \in Nat /\ c.attempt \in Nat
  BY DEF TypeOK, Claims
<1>5. \A c \in claims : c.item = i => c.generation <= runGen[r] /\ c.attempt <= attempt[i]
  BY <1>3, <1>4 DEF GenerationInv, LeaseInv
<1>. HIDE DEF e
<1>6. \A j \in Items : itemGen'[j] <= runGen'[RunOf[j]]
  BY <1>1, <1>3 DEF GenerationInv
<1>7. \A c \in claims' : c.generation <= itemGen'[c.item]
  BY <1>1, <1>2, <1>3, <1>4, <1>5 DEF GenerationInv
<1>8. \A c, d \in claims' : c.item = d.item /\ c.attempt <= d.attempt
                                => c.generation <= d.generation
  BY <1>1, <1>2, <1>3, <1>4, <1>5 DEF GenerationInv
<1>9. \A q \in Runs : runStatus'[q] = "Absent" => runGen'[q] = 0
  BY <1>1 DEF GenerationInv
<1>. QED
  BY <1>6, <1>7, <1>8, <1>9 DEF GenerationInv

\* What a cancel commits, in one place.
LEMMA CancelCommitRows ==
  ASSUME TypeOK, CancelInv, NEW o \in Operators, CancelCommit(o)
  PROVE  LET r == cancel[o].run  rows == cancel[o].locked IN
         /\ r \in Runs
         /\ rows \subseteq ItemsOf(r)
         /\ Covers(rows, r, itemStatus)
         /\ claims' = claims /\ attempt' = attempt
         /\ \A q \in Runs : runStatus'[q] = IF q = r THEN "Cancelled" ELSE runStatus[q]
         /\ \A q \in Runs : runGen'[q] = IF q = r THEN runGen[q] + 1 ELSE runGen[q]
         /\ \A j \in Items : itemStatus'[j] =
               IF j \in rows /\ itemStatus[j] \in {"Blocked", "Queued"} THEN "Cancelled"
               ELSE itemStatus[j]
         /\ \A j \in Items : itemGen'[j] =
               IF j \in rows /\ itemStatus[j] = "Running" THEN itemGen[j] + 1 ELSE itemGen[j]
<1>1. /\ cancel[o].run \in Runs
      /\ cancel[o].locked \subseteq ItemsOf(cancel[o].run)
      /\ Covers(cancel[o].locked, cancel[o].run, itemStatus)
  BY DEF CancelInv, CancelCommit, FoundAsRead, CancelledItems, FencedItems
<1>. QED
  BY <1>1 DEF CancelCommit, FoundAsRead, CancelledItems, FencedItems, callVars, TypeOK

\* The cancel moves the generation of its run along with those of the items.
LEMMA GenerationCancelCommit ==
  ASSUME TypeOK, CancelInv, GenerationInv, NEW o \in Operators, CancelCommit(o)
  PROVE  GenerationInv'
<1> DEFINE r == cancel[o].run
           rows == cancel[o].locked
<1>1. /\ r \in Runs
      /\ rows \subseteq ItemsOf(r)
      /\ claims' = claims
      /\ \A q \in Runs : runStatus'[q] = IF q = r THEN "Cancelled" ELSE runStatus[q]
      /\ \A q \in Runs : runGen'[q] = IF q = r THEN runGen[q] + 1 ELSE runGen[q]
      /\ \A j \in Items : itemGen'[j] =
            IF j \in rows /\ itemStatus[j] = "Running" THEN itemGen[j] + 1 ELSE itemGen[j]
  BY CancelCommitRows
<1>. HIDE DEF r, rows
<1>2. \A j \in Items : /\ RunOf[j] \in Runs /\ itemGen[j] \in Nat
                       /\ runGen[RunOf[j]] \in Nat /\ itemGen[j] <= runGen[RunOf[j]]
  BY RunOfAssumption DEF TypeOK, GenerationInv
<1>3. \A c \in claims : /\ c.item \in Items /\ c.generation \in Nat
                        /\ c.generation <= itemGen[c.item]
  BY DEF TypeOK, Claims, GenerationInv
<1>4. \A j \in Items : itemGen'[j] <= runGen'[RunOf[j]]
  BY <1>1, <1>2 DEF ItemsOf
<1>5. \A c \in claims' : c.generation <= itemGen'[c.item]
  BY <1>1, <1>2, <1>3
<1>6. \A q \in Runs : runStatus'[q] = "Absent" => runGen'[q] = 0
  BY <1>1 DEF GenerationInv
<1>. QED
  BY <1>1, <1>4, <1>5, <1>6 DEF GenerationInv

LEMMA GenerationStep ==
  ASSUME TypeOK, CancelInv, LeaseInv, GenerationInv, [Next]_vars PROVE GenerationInv'
<1>1. CASE UNCHANGED vars
  BY <1>1, GenerationKept DEF vars, runVars, itemVars, leaseVars, callVars
<1>2. ASSUME NEW r \in Runs, Launch(r) PROVE GenerationInv'
  BY <1>2, GenerationKept DEF Launch, InitialStatus, TypeOK, leaseVars, callVars
<1>3. ASSUME NEW i \in Items, Steer(i) PROVE GenerationInv'
  BY <1>3, GenerationKept DEF Steer, Steerable, runVars, leaseVars, callVars
<1>4. ASSUME NEW w \in Workers, NEW i \in Items, Claim(w, i) PROVE GenerationInv'
  BY <1>4, GenerationClaim
<1>5. ASSUME NEW c \in claims, Heartbeat(c) PROVE GenerationInv'
  BY <1>5, GenerationKept DEF Heartbeat, Renewed, runVars, callVars
<1>6. ASSUME NEW c \in claims, Complete(c) \/ Fail(c) PROVE GenerationInv'
  BY <1>6, GenerationKept DEF Complete, Fail, Finalize, Announced, Outcome
<1>7. CASE Tick
  BY <1>7, GenerationKept DEF Tick, runVars, callVars
<1>8. CASE Reap
  BY <1>8, GenerationKept DEF Reap, ReapedRuns, Finalize, Announced, Outcome, callVars
<1>9. ASSUME NEW o \in Operators, NEW r \in Runs, CancelRead(o, r) PROVE GenerationInv'
  BY <1>9, GenerationKept DEF CancelRead, runVars, itemVars, leaseVars, callVars
<1>10. ASSUME NEW o \in Operators, CancelCommit(o) PROVE GenerationInv'
  BY <1>10, GenerationCancelCommit
<1>11. ASSUME NEW o \in Operators,
              CancelItems(o) \/ CancelMiss(o) \/ CancelRetry(o) \/ CancelAbort(o)
       PROVE  GenerationInv'
  BY <1>11, GenerationKept DEF CancelItems, CancelMiss, FoundAsRead, CancelRetry,
       CancelAbort, runVars, itemVars, leaseVars, callVars
<1>. QED
  BY <1>1, <1>2, <1>3, <1>4, <1>5, <1>6, <1>7, <1>8, <1>9, <1>10, <1>11
     DEF Next, CancelStep

\* The fence of a cancelled run rests on the order of the generations.
FenceInv == PlanItemsFenced /\ GenerationInv

\* A step that moves no generation and hands out no claim keeps the fences if
\* no other run becomes Cancelled, no planned item of a cancelled run becomes
\* Blocked or Running, and the ones it queues were claimed before.
LEMMA FenceKept ==
  ASSUME TypeOK, PlanItemsFenced, claims' = claims, itemGen' = itemGen, attempt' = attempt,
         \A r \in Runs : runStatus'[r] = "Cancelled" => runStatus[r] = "Cancelled",
         \A i \in Items \ FollowUps :
            runStatus[RunOf[i]] = "Cancelled" /\ runStatus'[RunOf[i]] = "Cancelled" =>
               \/ itemStatus'[i] = itemStatus[i]
               \/ itemStatus'[i] \notin {"Blocked", "Running", "Queued"}
               \/ itemStatus'[i] = "Queued" /\ attempt[i] > 0
  PROVE  PlanItemsFenced'
  BY DEF PlanItemsFenced, Planned, ItemsOf

\* A claim is on an item of another run.
LEMMA FenceClaim ==
  ASSUME TypeOK, PlanItemsFenced, NEW w \in Workers, NEW i \in Items, Claim(w, i)
  PROVE  PlanItemsFenced'
<1> DEFINE r == RunOf[i]
           e == [item |-> i, worker |-> w, generation |-> runGen[r], attempt |-> attempt[i] + 1]
<1>1. /\ runStatus[r] \notin TerminalRun
      /\ claims' = claims \cup {e}
      /\ \A q \in Runs : runStatus'[q] = IF q = r /\ runStatus[q] = "Queued"
                                         THEN "Running" ELSE runStatus[q]
      /\ \A j \in Items : itemStatus'[j] = IF j = i THEN "Running" ELSE itemStatus[j]
      /\ \A j \in Items : j # i => attempt'[j] = attempt[j] /\ itemGen'[j] = itemGen[j]
  BY DEF Claim, Claimable, TypeOK
<1>2. e.item = i
  OBVIOUS
<1>. HIDE DEF e
<1>. SUFFICES ASSUME NEW q \in Runs, runStatus'[q] = "Cancelled", NEW j \in Planned(q)
              PROVE  /\ itemStatus'[j] # "Blocked"
                     /\ itemStatus'[j] = "Queued" => attempt'[j] > 0
                     /\ itemStatus'[j] = "Running" =>
                          \A c \in claims' : c.item = j => c.generation < itemGen'[j]
  BY DEF PlanItemsFenced, Planned, ItemsOf
<1>3. runStatus[q] = "Cancelled" /\ q # r
  BY <1>1 DEF TerminalRun
<1>4. j \in Items /\ j # i
  BY <1>3 DEF Planned, ItemsOf
<1>. QED
  BY <1>1, <1>2, <1>3, <1>4 DEF PlanItemsFenced

\* The locks of a cancel cover the open planned items of its run, so the commit
\* closes or fences each of them.
LEMMA FenceCancelCommit ==
  ASSUME TypeOK, CancelInv, FenceInv, NEW o \in Operators, CancelCommit(o)
  PROVE  PlanItemsFenced'
<1> DEFINE r == cancel[o].run
           rows == cancel[o].locked
<1>1. /\ rows \subseteq ItemsOf(r)
      /\ Covers(rows, r, itemStatus)
      /\ claims' = claims /\ attempt' = attempt
      /\ \A q \in Runs : runStatus'[q] = IF q = r THEN "Cancelled" ELSE runStatus[q]
      /\ \A j \in Items : itemStatus'[j] =
            IF j \in rows /\ itemStatus[j] \in {"Blocked", "Queued"} THEN "Cancelled"
            ELSE itemStatus[j]
      /\ \A j \in Items : itemGen'[j] =
            IF j \in rows /\ itemStatus[j] = "Running" THEN itemGen[j] + 1 ELSE itemGen[j]
  BY CancelCommitRows
<1>. HIDE DEF r, rows
<1>2. \A c \in claims : /\ c.item \in Items /\ c.generation \in Nat
                        /\ c.generation <= itemGen[c.item]
  BY DEF TypeOK, Claims, FenceInv, GenerationInv
<1>. SUFFICES ASSUME NEW q \in Runs, runStatus'[q] = "Cancelled", NEW j \in Planned(q)
              PROVE  /\ itemStatus'[j] # "Blocked"
                     /\ itemStatus'[j] = "Queued" => attempt'[j] > 0
                     /\ itemStatus'[j] = "Running" =>
                          \A c \in claims' : c.item = j => c.generation < itemGen'[j]
  BY DEF PlanItemsFenced, Planned, ItemsOf
<1>3. j \in Items \ FollowUps /\ RunOf[j] = q /\ itemGen[j] \in Nat
  BY DEF Planned, ItemsOf, TypeOK
<1>4. CASE q = r
  <2>1. itemStatus[j] \in {"Blocked", "Queued", "Running"} => j \in rows
    BY <1>1, <1>3, <1>4 DEF Covers, OpenItem
  <2>. QED
    BY <1>1, <1>2, <1>3, <2>1
<1>5. CASE q # r
  <2>1. runStatus[q] = "Cancelled" /\ j \notin rows
    BY <1>1, <1>3, <1>5 DEF ItemsOf
  <2>. QED
    BY <1>1, <1>3, <2>1 DEF FenceInv, PlanItemsFenced
<1>. QED
  BY <1>4, <1>5

\* No claim on a planned item of a cancelled run passes the ownership guard.
LEMMA FencedOwnsNothing ==
  ASSUME TypeOK, FenceInv, NEW c \in claims, Owns(c), c.item \notin FollowUps
  PROVE  runStatus[RunOf[c.item]] # "Cancelled"
<1>1. c.item \in Items /\ RunOf[c.item] \in Runs /\ c.generation \in Nat
  BY RunOfAssumption DEF TypeOK, Claims
<1>2. c.item \in Planned(RunOf[c.item])
  BY <1>1 DEF Planned, ItemsOf
<1>. QED
  BY <1>1, <1>2 DEF FenceInv, PlanItemsFenced, Owns

\* What a completion unblocks was Blocked, which no planned item of a cancelled
\* run is.
LEMMA FenceFinish ==
  ASSUME TypeOK, PlanItemsFenced, NEW c \in claims, Complete(c) \/ Fail(c)
  PROVE  PlanItemsFenced'
<1>1. /\ c.item \in Items
      /\ itemStatus'[c.item] \in {"Succeeded", "Failed"}
      /\ \A j \in Items \ {c.item} :
             \/ itemStatus'[j] = itemStatus[j]
             \/ itemStatus[j] = "Blocked" /\ itemStatus'[j] = "Queued"
  BY FinishItems
<1>2. /\ claims' = claims /\ itemGen' = itemGen /\ attempt' = attempt
      /\ \A r \in Runs : runStatus'[r] \in {runStatus[r], "Succeeded", "Failed"}
  BY DEF Complete, Fail, Finalize, Announced, Outcome
<1>3. ASSUME NEW j \in Items \ FollowUps, runStatus[RunOf[j]] = "Cancelled"
      PROVE  itemStatus[j] # "Blocked"
  BY <1>3, RunOfAssumption DEF PlanItemsFenced, Planned, ItemsOf
<1>. QED
  BY <1>1, <1>2, <1>3, FenceKept

\* What the reaper takes back was Running, so it was claimed before.
LEMMA FenceReap == ASSUME TypeOK, LeaseInv, PlanItemsFenced, Reap PROVE PlanItemsFenced'
<1>1. /\ claims' = claims /\ itemGen' = itemGen /\ attempt' = attempt
      /\ \A r \in Runs : runStatus'[r] \in {runStatus[r], "Succeeded", "Failed"}
      /\ \A i \in Items : itemStatus'[i] = IF i \in Exhausted THEN "Failed"
                                           ELSE IF i \in Expired THEN "Queued"
                                           ELSE itemStatus[i]
  BY DEF Reap, ReapedRuns, Finalize, Announced, Outcome, callVars
<1>2. ASSUME NEW i \in Expired PROVE attempt[i] > 0
  <2>1. i \in Items /\ itemStatus[i] = "Running" /\ attempt[i] \in Nat
    BY DEF Expired, TypeOK
  <2>2. PICK c \in claims : c.item = i /\ c.attempt = attempt[i]
    BY <2>1 DEF LeaseInv, LeaseConsistent, IsLatest
  <2>. QED
    BY <2>1, <2>2 DEF LeaseInv
<1>. QED
  BY <1>1, <1>2, FenceKept

LEMMA FenceStep ==
  ASSUME TypeOK, CancelInv, LeaseInv, FenceInv, [Next]_vars PROVE FenceInv'
<1>. PlanItemsFenced /\ GenerationInv
  BY DEF FenceInv
<1>. SUFFICES PlanItemsFenced'
  BY GenerationStep DEF FenceInv
<1>1. CASE UNCHANGED vars
  BY <1>1, FenceKept DEF vars, runVars, itemVars, leaseVars, callVars
<1>2. ASSUME NEW r \in Runs, Launch(r) PROVE PlanItemsFenced'
  <2>1. /\ \A q \in Runs : runStatus'[q] = IF q = r THEN "Queued" ELSE runStatus[q]
        /\ \A i \in Items : RunOf[i] # r => itemStatus'[i] = itemStatus[i]
        /\ claims' = claims /\ itemGen' = itemGen /\ attempt' = attempt
    BY <1>2 DEF Launch, InitialStatus, Planned, ItemsOf, TypeOK, leaseVars, callVars
  <2>. QED
    BY <2>1, FenceKept
<1>3. ASSUME NEW i \in Items, Steer(i) PROVE PlanItemsFenced'
  BY <1>3, FenceKept DEF Steer, Steerable, runVars, leaseVars, callVars, TypeOK
<1>4. ASSUME NEW w \in Workers, NEW i \in Items, Claim(w, i) PROVE PlanItemsFenced'
  BY <1>4, FenceClaim
<1>5. ASSUME NEW c \in claims, Heartbeat(c) PROVE PlanItemsFenced'
  BY <1>5, FenceKept DEF Heartbeat, Renewed, runVars, callVars
<1>6. ASSUME NEW c \in claims, Complete(c) \/ Fail(c) PROVE PlanItemsFenced'
  BY <1>6, FenceFinish
<1>7. CASE Tick
  BY <1>7, FenceKept DEF Tick, runVars, callVars
<1>8. CASE Reap
  BY <1>8, FenceReap
<1>9. ASSUME NEW o \in Operators, NEW r \in Runs, CancelRead(o, r) PROVE PlanItemsFenced'
  BY <1>9, FenceKept DEF CancelRead, runVars, itemVars, leaseVars, callVars
<1>10. ASSUME NEW o \in Operators, CancelCommit(o) PROVE PlanItemsFenced'
  BY <1>10, FenceCancelCommit
<1>11. ASSUME NEW o \in Operators,
              CancelItems(o) \/ CancelMiss(o) \/ CancelRetry(o) \/ CancelAbort(o)
       PROVE  PlanItemsFenced'
  BY <1>11, FenceKept DEF CancelItems, CancelMiss, FoundAsRead, CancelRetry, CancelAbort,
       runVars, itemVars, leaseVars, callVars
<1>. QED
  BY <1>1, <1>2, <1>3, <1>4, <1>5, <1>6, <1>7, <1>8, <1>9, <1>10, <1>11
     DEF Next, CancelStep

LEMMA FenceInvariant == Spec => []FenceInv
<1>1. Init => FenceInv
  BY RunOfAssumption DEF Init, FenceInv, GenerationInv, PlanItemsFenced
<1>. QED
  BY <1>1, FenceStep, RunAndCancelInv, LeaseInvariant, PTL DEF Spec

\* A cancelled run has no planned item waiting that was never claimed, and every
\* claim on a running one is fenced (CancelNotStartedItemsSql, FenceLiveItemsSql).
THEOREM PlanFenced == Spec => []PlanItemsFenced
  BY FenceInvariant, PTL DEF FenceInv

-----------------------------------------------------------------------------
(* What a fenced worker can do *)

FencedStep ==
    \A i \in Items \ FollowUps : runStatus[RunOf[i]] = "Cancelled" =>
        /\ result'[i] = result[i]
        /\ lease'[i] > lease[i] => itemStatus'[i] # "Running"

\* A step that changes no result and lengthens no lease does no harm.
LEMMA FencedIdle ==
  ASSUME result' = result, \A i \in Items : ~(lease'[i] > lease[i])
  PROVE  FencedStep
  BY DEF FencedStep

LEMMA FencedStepHolds == ASSUME TypeOK, FenceInv, [Next]_vars PROVE FencedStep
<1>. \A i \in Items : lease[i] \in Int /\ RunOf[i] \in Runs
  BY RunOfAssumption, LeaseAssumption DEF TypeOK
<1>1. CASE UNCHANGED vars
  BY <1>1, FencedIdle DEF vars, itemVars, leaseVars, callVars
<1>2. ASSUME NEW r \in Runs, Launch(r) PROVE FencedStep
  BY <1>2, FencedIdle DEF Launch, InitialStatus, leaseVars, callVars
<1>3. ASSUME NEW i \in Items, Steer(i) PROVE FencedStep
  BY <1>3, FencedIdle DEF Steer, Steerable, leaseVars, callVars
<1>4. ASSUME NEW w \in Workers, NEW i \in Items, Claim(w, i) PROVE FencedStep
  <2>1. runStatus[RunOf[i]] # "Cancelled"
    BY <1>4 DEF Claim, Claimable, TerminalRun
  <2>. QED
    BY <1>4, <2>1 DEF Claim, FencedStep, TypeOK
<1>5. ASSUME NEW c \in claims, Heartbeat(c) PROVE FencedStep
  <2>1. Owns(c)
    BY <1>5 DEF Heartbeat, Renewed
  <2>2. c.item \notin FollowUps => runStatus[RunOf[c.item]] # "Cancelled"
    BY <2>1, FencedOwnsNothing
  <2>. QED
    BY <1>5, <2>2 DEF Heartbeat, Renewed, FencedStep, callVars, TypeOK
<1>6. ASSUME NEW c \in claims, Complete(c) \/ Fail(c) PROVE FencedStep
  <2>1. c.item \in Items /\ Owns(c)
    BY <1>6, FinishItems
  <2>2. c.item \notin FollowUps => runStatus[RunOf[c.item]] # "Cancelled"
    BY <2>1, FencedOwnsNothing
  <2>3. \A i \in Items : i # c.item => result'[i] = result[i] /\ lease'[i] = lease[i]
    BY <1>6, <2>1 DEF Complete, Fail, Release, TypeOK
  <2>. QED
    BY <2>2, <2>3 DEF FencedStep
<1>7. CASE Tick
  BY <1>7, FencedIdle DEF Tick, callVars
<1>8. CASE Reap
  <2>1. \A i \in Items : /\ i \in Expired => itemStatus'[i] # "Running"
                         /\ i \notin Expired => lease'[i] = lease[i]
    BY <1>8 DEF Reap, ReapedRuns, Finalize, Announced, Release
  <2>2. result' = result
    BY <1>8 DEF Reap, ReapedRuns, callVars
  <2>. QED
    BY <2>1, <2>2 DEF FencedStep
<1>9. ASSUME NEW o \in Operators, NEW r \in Runs, CancelRead(o, r) PROVE FencedStep
  BY <1>9, FencedIdle DEF CancelRead, itemVars, leaseVars, callVars
<1>10. ASSUME NEW o \in Operators, CancelStep(o) \/ CancelAbort(o) PROVE FencedStep
  BY <1>10, FencedIdle DEF CancelStep, CancelItems, CancelCommit, FoundAsRead, CancelledItems,
       FencedItems, CancelMiss, CancelRetry,
                           CancelAbort, itemVars, leaseVars, callVars
<1>. QED
  BY <1>1, <1>2, <1>3, <1>4, <1>5, <1>6, <1>7, <1>8, <1>9, <1>10 DEF Next

\* After a cancel no call on a planned item writes a result or renews a lease
\* (the generation in HeartbeatSql, CompleteSql and FailSql).
THEOREM FencedPowerless == Spec => FencedWorkerPowerless
<1>1. TypeOK /\ FenceInv /\ [Next]_vars
        => [\A i \in Items \ FollowUps : runStatus[RunOf[i]] = "Cancelled" =>
                /\ result'[i] = result[i]
                /\ lease'[i] > lease[i] => itemStatus'[i] # "Running"]_vars
  BY FencedStepHolds DEF FencedStep
<1>. QED
  BY <1>1, TypeCorrect, FenceInvariant, PTL DEF Spec, FencedWorkerPowerless

-----------------------------------------------------------------------------
(* Whose result is journalled *)

\* Only a finished item has a result; a finished item is not claimed again, so
\* its latest claim stays the one that was the holder's.
ResultInv ==
    /\ ResultFromHolder
    /\ \A i \in Items : result[i] # None => itemStatus[i] \in {"Succeeded", "Failed"}

\* A step that keeps finished items, their attempts and every result.
LEMMA ResultKept ==
  ASSUME ResultInv, result' = result, claims \subseteq claims',
         \A i \in Items : itemStatus[i] \in {"Succeeded", "Failed"} =>
            itemStatus'[i] = itemStatus[i] /\ attempt'[i] = attempt[i]
  PROVE  ResultInv'
  BY DEF ResultInv, ResultFromHolder, IsLatest

\* The holder of a Running item made the latest claim, whose generation is the
\* greatest any claim of the item carries, and no greater than that of the item,
\* which a call that passes the guard quotes.
LEMMA OwnsLatest ==
  ASSUME TypeOK, LeaseInv, GenerationInv, NEW c \in claims, Owns(c)
  PROVE  \E d \in claims : /\ IsLatest(d, c.item)
                           /\ d.worker = c.worker
                           /\ d.generation = c.generation
<1>1. c \in Claims /\ c.item \in Items
  BY DEF TypeOK, Claims
<1>2. /\ itemStatus[c.item] = "Running" /\ leasedBy[c.item] = c.worker
      /\ itemGen[c.item] = c.generation
  BY DEF Owns
<1>3. PICK d \in claims : d.item = c.item /\ d.attempt = attempt[c.item] /\ d.worker = c.worker
  BY <1>1, <1>2 DEF LeaseInv, LeaseConsistent, IsLatest
<1>4. c.attempt <= d.attempt
  BY <1>3 DEF LeaseInv
<1>5. c.generation <= d.generation /\ d.generation <= c.generation
  BY <1>2, <1>3, <1>4 DEF GenerationInv
<1>6. d \in Claims
  BY <1>3 DEF TypeOK
<1>7. d.generation = c.generation
  BY <1>1, <1>5, <1>6 DEF Claims
<1>. QED
  BY <1>3, <1>7 DEF IsLatest

LEMMA ResultFinish ==
  ASSUME TypeOK, LeaseInv, GenerationInv, ResultInv, NEW c \in claims, Complete(c) \/ Fail(c)
  PROVE  ResultInv'
<1>1. /\ c \in Claims /\ c.item \in Items
      /\ Owns(c)
      /\ itemStatus'[c.item] \in {"Succeeded", "Failed"}
      /\ \A j \in Items \ {c.item} :
             \/ itemStatus'[j] = itemStatus[j]
             \/ itemStatus[j] = "Blocked" /\ itemStatus'[j] = "Queued"
  BY FinishItems
<1>2. /\ claims' = claims /\ attempt' = attempt
      /\ \A j \in Items : result'[j] = IF j = c.item THEN c ELSE result[j]
  BY <1>1 DEF Complete, Fail, TypeOK
<1>3. PICK d \in claims : /\ IsLatest(d, c.item)
                          /\ d.worker = c.worker
                          /\ d.generation = c.generation
  BY <1>1, OwnsLatest
<1>4. \A j \in Items \ {c.item} : result'[j] # None =>
            /\ itemStatus'[j] \in {"Succeeded", "Failed"}
            /\ \E e \in claims' : /\ IsLatest(e, j)'
                                  /\ e.worker = result'[j].worker
                                  /\ e.generation = result'[j].generation
  BY <1>1, <1>2 DEF ResultInv, ResultFromHolder, IsLatest
<1>5. \E e \in claims' : /\ IsLatest(e, c.item)'
                         /\ e.worker = result'[c.item].worker
                         /\ e.generation = result'[c.item].generation
  BY <1>1, <1>2, <1>3 DEF IsLatest
<1>. QED
  BY <1>1, <1>4, <1>5 DEF ResultInv, ResultFromHolder, IsLatest

LEMMA ResultStep ==
  ASSUME TypeOK, NothingBeforeLaunch, LeaseInv, GenerationInv, ResultInv, [Next]_vars
  PROVE  ResultInv'
<1>1. CASE UNCHANGED vars
  BY <1>1, ResultKept DEF vars, itemVars, leaseVars, callVars
<1>2. ASSUME NEW r \in Runs, Launch(r) PROVE ResultInv'
  <2>1. \A i \in Items : itemStatus[i] \in {"Succeeded", "Failed"} =>
            itemStatus'[i] = itemStatus[i]
    BY <1>2 DEF Launch, InitialStatus, NothingBeforeLaunch, Planned, ItemsOf
  <2>. QED
    BY <1>2, <2>1, ResultKept DEF Launch, InitialStatus, leaseVars, callVars
<1>3. ASSUME NEW i \in Items, Steer(i) PROVE ResultInv'
  BY <1>3, ResultKept DEF Steer, Steerable, leaseVars, callVars, TypeOK
<1>4. ASSUME NEW w \in Workers, NEW i \in Items, Claim(w, i) PROVE ResultInv'
  BY <1>4, ResultKept DEF Claim, Claimable, TypeOK
<1>5. ASSUME NEW c \in claims, Heartbeat(c) PROVE ResultInv'
  BY <1>5, ResultKept DEF Heartbeat, Renewed, callVars
<1>6. ASSUME NEW c \in claims, Complete(c) \/ Fail(c) PROVE ResultInv'
  BY <1>6, ResultFinish
<1>7. CASE Tick
  BY <1>7, ResultKept DEF Tick, callVars
<1>8. CASE Reap
  BY <1>8, ResultKept DEF Reap, ReapedRuns, Finalize, Announced, Expired, Exhausted, callVars
<1>9. ASSUME NEW o \in Operators, NEW r \in Runs, CancelRead(o, r) PROVE ResultInv'
  BY <1>9, ResultKept DEF CancelRead, itemVars, leaseVars, callVars
<1>10. ASSUME NEW o \in Operators, CancelStep(o) \/ CancelAbort(o) PROVE ResultInv'
  BY <1>10, ResultKept DEF CancelStep, CancelItems, CancelCommit, FoundAsRead, CancelledItems,
       FencedItems, CancelMiss, CancelRetry,
                           CancelAbort, itemVars, leaseVars, callVars
<1>. QED
  BY <1>1, <1>2, <1>3, <1>4, <1>5, <1>6, <1>7, <1>8, <1>9, <1>10 DEF Next

LEMMA ResultInvariant == Spec => []ResultInv
<1>1. Init => ResultInv
  BY DEF Init, ResultInv, ResultFromHolder
<1>. QED
  BY <1>1, ResultStep, RunAndCancelInv, LeaseInvariant, FenceInvariant, PTL
     DEF Spec, RunInv, FenceInv

\* The journalled result of an item came from the worker and the generation of
\* its latest claim (CompleteSql, FailSql).
THEOREM ResultsFromHolder == Spec => []ResultFromHolder
  BY ResultInvariant, PTL DEF ResultInv

=============================================================================
