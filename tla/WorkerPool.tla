----------------------------- MODULE WorkerPool -----------------------------
(***************************************************************************)
(* The worker pool of the compute engine: the scale supervisor's pass, the *)
(* in-memory registry of started workers, the containers of the provider   *)
(* and the marks the worker endpoints leave in the registry.               *)
(*                                                                         *)
(* One supervisor runs one pass at a time.  A pass awaits the provider and *)
(* the store, so it takes one step per await and one per loop iteration,   *)
(* and it carries what it read; workers, the endpoints, the clock and the  *)
(* faults move in between.  The queue is a count per (project, profile)    *)
(* backlog: what it does with an item is modelled by WorkItemQueue.        *)
(***************************************************************************)
EXTENDS Integers, FiniteSets

CONSTANTS
    Projects,      \* ScaleSupervisorOptions.Projects
    Profiles,      \* ScaleSupervisorOptions.ProfileKeys
    Workers,       \* worker ids; an id nothing refers to any more is used again
    None,          \* no value
    MinIdle,       \* warm floor, per project
    MaxConcurrent, \* cap on running workers, per project
    MaxWorkers,    \* what the provider can run at once
    IdleTtl,       \* idle time to live, in ticks
    MaxBacklog,    \* bound: work arrives while fewer items are queued
    MaxFaults      \* bound: aborted passes, host restarts and dead workers

ASSUME PoolAssumption ==
    /\ IsFiniteSet(Workers)
    /\ None \notin Projects \cup Profiles \cup Workers
    /\ MinIdle \in [Projects -> Nat]
    /\ MaxConcurrent \in [Projects -> Nat]
    /\ MaxWorkers \in Nat
    /\ IdleTtl \in Nat
    /\ MaxBacklog \in Nat
    /\ MaxFaults \in Nat

VARIABLES
    up,        \* ids whose container runs
    project,   \* label of the container: project it was started for
    profile,   \* label of the container: profile it was started for
    token,     \* ids whose process holds a token the issuer accepts
    pool,      \* ids in the registry
    busy,      \* registry: IsBusy; FALSE where there is no entry
    age,       \* registry: now - LastActiveAt, not followed above IdleTtl + 1
               \* and 0 where there is no entry
    uptime,    \* time since the host started, not followed above IdleTtl + 1
    call,      \* REST call of the worker whose mark is still to be written
    working,   \* ids whose process works on an item
    leased,    \* ids of those that still hold the lease on it
    queued,    \* queued items per backlog
    pc,        \* where the supervisor's pass is
    todo,      \* projects the pass has left
    current,   \* project of the pass
    profiles,  \* profiles of the project the pass has left
    pair,      \* profile of the pass
    listed,    \* what ListAsync returned
    slots,     \* remainingFreeSlots
    backlog,   \* queuedCount
    starts,    \* StartWorkers left
    stops,     \* StopIdleWorkers
    victims,   \* stale workers left to stop
    subject,   \* worker being started or stopped
    faults     \* faults so far

containers == <<up, project, profile, token>>
registry   == <<pool, busy, age, uptime>>
work       == <<call, working, leased, queued>>
cursor     == <<todo, current, profiles, pair, listed>>
plan       == <<slots, backlog, starts, stops, victims, subject>>
pass       == <<pc, cursor, plan>>
vars       == <<containers, registry, work, pass, faults>>

Backlogs == Projects \X Profiles
Calls    == {"none", "claimed", "beaten", "finished", "putBusy", "putIdle"}
Steps    == {"idle", "projects", "sync", "profiles", "decide",
             "start", "register", "stop", "revoke"}

UpIn(j)     == {w \in up : project[w] = j}
PoolOf(j)   == {w \in pool : project[w] = j}
PairOf(j, p) == {w \in PoolOf(j) : profile[w] = p}
IdleOf(j, p) == {w \in PairOf(j, p) : ~busy[w]}
AtLeast0(n)    == IF n < 0 THEN 0 ELSE n
Lesser(m, n)   == IF m < n THEN m ELSE n

\* Mutant: a busy worker that has not been heard of is stale too.
StaleThoughBusy(j, p) == {w \in PairOf(j, p) : age[w] > IdleTtl}
StaleOf(j, p) == {w \in IdleOf(j, p) : age[w] > IdleTtl}

\* Mutant: the deficit is not clamped at zero.
StartUnclamped(queuedCount, idleCount, runningCount, maxConcurrent, freeSlots) ==
    Lesser(queuedCount - idleCount,
           Lesser(AtLeast0(maxConcurrent - runningCount), freeSlots))

\* ScalePolicy.Decide
StartWorkers(queuedCount, idleCount, runningCount, maxConcurrent, freeSlots) ==
    Lesser(AtLeast0(queuedCount - idleCount),
           Lesser(AtLeast0(maxConcurrent - runningCount), freeSlots))
StopIdleWorkers(staleIdleCount, idleCount, minIdle) ==
    AtLeast0(Lesser(staleIdleCount, idleCount - minIdle))

\* Nothing refers to the id any more: WorkerId.New() may return it.
Fresh(w) == w \notin up \cup pool /\ call[w] = "none"

-----------------------------------------------------------------------------
Init ==
    /\ up = {} /\ token = {} /\ pool = {} /\ working = {} /\ leased = {}
    /\ project = [w \in Workers |-> None]
    /\ profile = [w \in Workers |-> None]
    /\ busy = [w \in Workers |-> FALSE]
    /\ age = [w \in Workers |-> 0]
    /\ uptime = 0
    /\ call = [w \in Workers |-> "none"]
    /\ queued = [b \in Backlogs |-> 0]
    /\ pc = "idle"
    /\ todo = {} /\ current = None /\ profiles = {} /\ pair = None /\ listed = {}
    /\ slots = 0 /\ backlog = 0 /\ starts = 0 /\ stops = 0
    /\ victims = {} /\ subject = None
    /\ faults = 0

-----------------------------------------------------------------------------
(* The supervisor's pass *)

\* GetCapacityAsync: the provider counts the containers that run.
BeginPass ==
    /\ pc = "idle"
    /\ pc' = "projects"
    /\ todo' = Projects
    /\ slots' = AtLeast0(MaxWorkers - Cardinality(up))
    /\ UNCHANGED <<containers, registry, work, current, profiles, pair, listed,
                   backlog, starts, stops, victims, subject, faults>>

\* ListAsync of the next project.
ListProject(j) ==
    /\ pc = "projects" /\ j \in todo
    /\ pc' = "sync"
    /\ todo' = todo \ {j}
    /\ current' = j
    /\ listed' = UpIn(j)
    /\ UNCHANGED <<containers, registry, work, profiles, pair, plan, faults>>

\* Mutants: every listed worker is entered anew; an adopted one is entered as
\* idle for ever.
SyncRenewsAll ==
    /\ pc = "sync"
    /\ pc' = "profiles"
    /\ profiles' = Profiles
    /\ pool' = (pool \ (PoolOf(current) \ listed)) \cup listed
    /\ busy' = [w \in Workers |-> busy[w] /\ w \in pool' \ listed]
    /\ age'  = [w \in Workers |-> IF w \in pool' \ listed THEN age[w] ELSE 0]
    /\ listed' = {}
    /\ UNCHANGED <<containers, uptime, work, todo, current, pair, plan, faults>>
SyncAdoptsStale ==
    /\ pc = "sync"
    /\ pc' = "profiles"
    /\ profiles' = Profiles
    /\ pool' = (pool \ (PoolOf(current) \ listed)) \cup listed
    /\ age' = [w \in Workers |-> IF w \in listed \ pool THEN IdleTtl + 1 ELSE age[w]]
    /\ listed' = {}
    /\ UNCHANGED <<containers, busy, uptime, work, todo, current, pair, plan, faults>>

\* The rest of SyncFromProviderAsync: drop what is not listed, adopt as idle
\* what is not known.
SyncFromProvider ==
    /\ pc = "sync"
    /\ pc' = "profiles"
    /\ profiles' = Profiles
    /\ LET adopted == listed \ pool IN
         /\ pool' = (pool \ (PoolOf(current) \ listed)) \cup adopted
         /\ busy' = [w \in Workers |-> busy[w] /\ w \in pool' \ adopted]
         /\ age'  = [w \in Workers |-> IF w \in pool' \ adopted THEN age[w] ELSE 0]
    /\ listed' = {}
    /\ UNCHANGED <<containers, uptime, work, todo, current, pair, plan, faults>>

\* CountQueuedAsync for the next profile.
CountQueued(p) ==
    /\ pc = "profiles" /\ p \in profiles
    /\ pc' = "decide"
    /\ profiles' = profiles \ {p}
    /\ pair' = p
    /\ backlog' = queued[<<current, p>>]
    /\ UNCHANGED <<containers, registry, work, todo, current, listed,
                   slots, starts, stops, victims, subject, faults>>

\* Mutant: only idle workers count against the cap.
DecideIdleOnly ==
    /\ pc = "decide"
    /\ pc' = "start"
    /\ LET idleCount == Cardinality(IdleOf(current, pair)) IN
         /\ starts' = StartWorkers(backlog, idleCount, idleCount, MaxConcurrent[current], slots)
         /\ stops' = StopIdleWorkers(Cardinality(StaleOf(current, pair)),
                                     idleCount, MinIdle[current])
    /\ backlog' = 0
    /\ UNCHANGED <<containers, registry, work, cursor, slots, victims, subject, faults>>

\* The registry is read after the count came back, and the policy applied.
Decide ==
    /\ pc = "decide"
    /\ pc' = "start"
    /\ LET idleCount == Cardinality(IdleOf(current, pair)) IN
         /\ starts' = StartWorkers(backlog, idleCount, Cardinality(PoolOf(current)),
                                   MaxConcurrent[current], slots)
         /\ stops' = StopIdleWorkers(Cardinality(StaleOf(current, pair)),
                                     idleCount, MinIdle[current])
    /\ backlog' = 0
    /\ UNCHANGED <<containers, registry, work, cursor, slots, victims, subject, faults>>

\* Issue of a token and StartAsync.
StartWorker(w) ==
    /\ pc = "start" /\ starts > 0
    /\ Fresh(w)
    /\ pc' = "register"
    /\ subject' = w
    /\ token' = token \cup {w}
    /\ up' = up \cup {w}
    /\ project' = [project EXCEPT ![w] = current]
    /\ profile' = [profile EXCEPT ![w] = pair]
    /\ UNCHANGED <<registry, work, cursor, slots, backlog, starts, stops, victims, faults>>

Register ==
    /\ pc = "register"
    /\ pc' = "start"
    /\ pool' = pool \cup {subject}
    /\ busy' = [busy EXCEPT ![subject] = FALSE]
    /\ age' = [age EXCEPT ![subject] = 0]
    /\ slots' = AtLeast0(slots - 1)
    /\ starts' = starts - 1
    /\ subject' = None
    /\ UNCHANGED <<containers, uptime, work, cursor, backlog, stops, victims, faults>>

\* The stale workers to stop are taken from the registry once, before the first
\* is stopped; ties at the capped age are open.
PickStale ==
    /\ pc = "start" /\ starts = 0
    /\ pc' = "stop"
    /\ LET stale == StaleOf(current, pair) IN
         \E V \in SUBSET stale :
            /\ Cardinality(V) = Lesser(stops, Cardinality(stale))
            /\ victims' = V
    /\ UNCHANGED <<containers, registry, work, cursor, slots, backlog, starts, stops,
                   subject, faults>>

\* StopAsync: the container is stopped and removed, whatever it does by then.
StopWorker(w) ==
    /\ pc = "stop" /\ w \in victims
    /\ pc' = "revoke"
    /\ subject' = w
    /\ victims' = victims \ {w}
    /\ up' = up \ {w}
    /\ token' = token \ {w}
    /\ working' = working \ {w}
    /\ leased' = leased \ {w}
    /\ UNCHANGED <<project, profile, registry, call, queued, cursor,
                   slots, backlog, starts, stops, faults>>

\* Revoke of the token, which died with the process, and Remove from the registry.
RemoveWorker ==
    /\ pc = "revoke"
    /\ pc' = "stop"
    /\ pool' = pool \ {subject}
    /\ busy' = [busy EXCEPT ![subject] = FALSE]
    /\ age' = [age EXCEPT ![subject] = 0]
    /\ subject' = None
    /\ UNCHANGED <<containers, uptime, work, cursor,
                   slots, backlog, starts, stops, victims, faults>>

NextProfile ==
    /\ pc = "stop" /\ victims = {}
    /\ pc' = "profiles"
    /\ pair' = None
    /\ stops' = 0
    /\ UNCHANGED <<containers, registry, work, todo, current, profiles, listed,
                   slots, backlog, starts, victims, subject, faults>>

NextProject ==
    /\ pc = "profiles" /\ profiles = {}
    /\ pc' = "projects"
    /\ current' = None
    /\ UNCHANGED <<containers, registry, work, todo, profiles, pair, listed, plan, faults>>

EndPass ==
    /\ pc = "projects" /\ todo = {}
    /\ pc' = "idle"
    /\ slots' = 0
    /\ UNCHANGED <<containers, registry, work, cursor, backlog, starts, stops,
                   victims, subject, faults>>

PassOver ==
    /\ pc' = "idle"
    /\ todo' = {} /\ current' = None /\ profiles' = {} /\ pair' = None /\ listed' = {}
    /\ slots' = 0 /\ backlog' = 0 /\ starts' = 0 /\ stops' = 0
    /\ victims' = {} /\ subject' = None

\* An awaited call throws, perhaps after it took effect (a container started or
\* stopped): the rest of the pass is skipped.
AbortPass ==
    /\ pc # "idle"
    /\ faults < MaxFaults
    /\ faults' = faults + 1
    /\ PassOver
    /\ UNCHANGED <<containers, registry, work>>

Supervise ==
    \/ BeginPass \/ SyncFromProvider \/ Decide \/ Register \/ PickStale
    \/ RemoveWorker \/ NextProfile \/ NextProject \/ EndPass
    \/ \E j \in Projects : ListProject(j)
    \/ \E p \in Profiles : CountQueued(p)
    \/ \E w \in Workers : StartWorker(w) \/ StopWorker(w)

-----------------------------------------------------------------------------
(* Workers and the endpoints that serve them *)

\* The claim is authenticated by the token and commits; MarkBusy follows.  The
\* claim matches on the profile, not on the project the worker was started for.
ClaimItem(w, j) ==
    LET b == <<j, profile[w]>> IN
    /\ w \in up \cap token /\ w \notin working
    /\ call[w] = "none"
    /\ queued[b] > 0
    /\ queued' = [queued EXCEPT ![b] = @ - 1]
    /\ leased' = leased \cup {w}
    /\ working' = working \cup {w}
    /\ call' = [call EXCEPT ![w] = "claimed"]
    /\ UNCHANGED <<containers, registry, pass, faults>>

\* A heartbeat the queue accepts; Touch follows.
HeartbeatItem(w) ==
    /\ w \in up \cap token \cap leased
    /\ call[w] = "none"
    /\ call' = [call EXCEPT ![w] = "beaten"]
    /\ UNCHANGED <<containers, registry, working, leased, queued, pass, faults>>

\* A complete or fail the queue accepts; MarkIdle follows.
FinishItem(w) ==
    /\ w \in up \cap token \cap leased
    /\ call[w] = "none"
    /\ call' = [call EXCEPT ![w] = "finished"]
    /\ leased' = leased \ {w}
    /\ working' = working \ {w}
    /\ UNCHANGED <<containers, registry, queued, pass, faults>>

\* A heartbeat, complete or fail without a live lease or a live token is
\* refused and marks nothing; the worker drops the item.
DropItem(w) ==
    /\ w \in up \cap working
    /\ call[w] = "none"
    /\ w \notin leased \cap token
    /\ working' = working \ {w}
    /\ leased' = leased \ {w}
    /\ UNCHANGED <<containers, registry, call, queued, pass, faults>>

\* The lease runs out, or the run is cancelled under the worker.
LoseLease(w) ==
    /\ w \in leased
    /\ leased' = leased \ {w}
    /\ UNCHANGED <<containers, registry, call, working, queued, pass, faults>>

\* First half of a mark: TryGetValue on the registry.  Touch keeps the flag of
\* the entry it read.
ReadEntry(w) ==
    /\ call[w] \in {"claimed", "beaten", "finished"}
    /\ call' = [call EXCEPT ![w] =
                  CASE w \notin pool     -> "none"
                    [] @ = "claimed"     -> "putBusy"
                    [] @ = "finished"    -> "putIdle"
                    [] OTHER             -> IF busy[w] THEN "putBusy" ELSE "putIdle"]
    /\ UNCHANGED <<containers, registry, working, leased, queued, pass, faults>>

\* Second half: the entry is written back, there or not there by now.
WriteEntry(w) ==
    /\ call[w] \in {"putBusy", "putIdle"}
    /\ call' = [call EXCEPT ![w] = "none"]
    /\ pool' = pool \cup {w}
    /\ busy' = [busy EXCEPT ![w] = call[w] = "putBusy"]
    /\ age' = [age EXCEPT ![w] = 0]
    /\ UNCHANGED <<containers, uptime, working, leased, queued, pass, faults>>

\* The process fails and its container stops.
Die(w) ==
    /\ w \in up
    /\ faults < MaxFaults
    /\ faults' = faults + 1
    /\ up' = up \ {w}
    /\ token' = token \ {w}
    /\ working' = working \ {w}
    /\ leased' = leased \ {w}
    /\ UNCHANGED <<project, profile, registry, call, queued, pass>>

-----------------------------------------------------------------------------
(* Clock, arrivals and the host *)

Tick ==
    LET older(n) == Lesser(n + 1, IdleTtl + 1) IN
    /\ age' = [w \in Workers |-> IF w \in pool THEN older(age[w]) ELSE age[w]]
    /\ uptime' = older(uptime)
    /\ UNCHANGED <<containers, pool, busy, work, pass, faults>>

\* An item of the backlog becomes claimable: a launch, a prerequisite that
\* succeeded, or the reaper's requeue of an item whose worker lost it.
Arrive(b) ==
    /\ Cardinality({q \in Backlogs \X (1 .. MaxBacklog) : q[2] <= queued[q[1]]}) < MaxBacklog
    /\ queued' = [queued EXCEPT ![b] = @ + 1]
    /\ UNCHANGED <<containers, registry, call, working, leased, pass, faults>>

\* A token reaches its expiry; a running worker is never issued another.
ExpireToken(w) ==
    /\ w \in token
    /\ token' = token \ {w}
    /\ UNCHANGED <<up, project, profile, registry, work, pass, faults>>

\* The host stops and starts again: the registry, the token store, the calls in
\* flight and the pass are gone, the containers and the queue are not.
RestartHost ==
    /\ faults < MaxFaults
    /\ faults' = faults + 1
    /\ pool' = {} /\ token' = {}
    /\ busy' = [w \in Workers |-> FALSE]
    /\ age' = [w \in Workers |-> 0]
    /\ uptime' = 0
    /\ call' = [w \in Workers |-> "none"]
    /\ PassOver
    /\ UNCHANGED <<up, project, profile, working, leased, queued>>

-----------------------------------------------------------------------------
Next ==
    \/ Supervise \/ AbortPass \/ RestartHost \/ Tick
    \/ \E b \in Backlogs : Arrive(b)
    \/ \E w \in Workers :
          \/ HeartbeatItem(w) \/ FinishItem(w) \/ DropItem(w) \/ LoseLease(w)
          \/ ReadEntry(w) \/ WriteEntry(w) \/ Die(w) \/ ExpireToken(w)
          \/ \E j \in Projects : ClaimItem(w, j)

Spec == Init /\ [][Next]_vars

-----------------------------------------------------------------------------
(* Type invariant *)

TypeOK ==
    /\ up \in SUBSET Workers /\ token \in SUBSET Workers
    /\ project \in [Workers -> Projects \cup {None}]
    /\ profile \in [Workers -> Profiles \cup {None}]
    /\ pool \in SUBSET Workers
    /\ busy \in [Workers -> BOOLEAN]
    /\ age \in [Workers -> 0 .. IdleTtl + 1]
    /\ uptime \in 0 .. IdleTtl + 1
    /\ call \in [Workers -> Calls]
    /\ working \in SUBSET Workers
    /\ leased \in SUBSET working
    /\ queued \in [Backlogs -> Nat]
    /\ pc \in Steps
    /\ todo \in SUBSET Projects /\ current \in Projects \cup {None}
    /\ profiles \in SUBSET Profiles /\ pair \in Profiles \cup {None}
    /\ listed \in SUBSET Workers
    /\ slots \in Nat /\ backlog \in Nat /\ starts \in Nat /\ stops \in Nat
    /\ victims \in SUBSET Workers /\ subject \in Workers \cup {None}
    /\ faults \in 0 .. MaxFaults

-----------------------------------------------------------------------------
(* Safety *)

\* A project never runs more workers than MaxConcurrent: not when a pass was cut
\* short after a start, not when the host forgot its registry, not when profiles
\* share the cap (ScaleSupervisorCycle, ScalePolicy.Decide).
CapRespected == \A j \in Projects : Cardinality(UpIn(j)) <= MaxConcurrent[j]

\* All projects together never run more workers than the provider has slots,
\* although the pass reads the capacity once (ScaleSupervisorCycle.RunAsync).
CapacityRespected == Cardinality(up) <= MaxWorkers

\* The supervisor stops nothing before the host has been up for a full idle TTL:
\* a worker it adopted gets the whole TTL (WorkerPoolState.SyncFromProviderAsync).
AdoptedGetFullTtl == [][\A w \in Workers : StopWorker(w) => uptime > IdleTtl]_vars

-----------------------------------------------------------------------------
(* What the pool promises *)

\* A worker runs, in the sense of the contract, while its container does; it is
\* condemned while the pass has it on its list.
Contract == INSTANCE PoolContract WITH
    runsFor   <- [w \in Workers |-> IF w \in up THEN project[w] ELSE None],
    marked    <- busy,
    rest      <- age,
    condemned <- victims

\* Whatever the supervisor's pass reads too early, loses half-way or repeats, the
\* pool does only what PoolContract allows: a start has room under both caps at
\* the moment it is made, no worker is stopped that the same pass did not find
\* idle beyond the TTL, and a restarted host starts every clock anew.
KeepsContract == Contract!Spec

-----------------------------------------------------------------------------
(* Liveness *)

\* The comuki worker registry runs passes for as long as the host lives, the two
\* halves of a mark do not wait, and time passes.  Nothing makes work arrive or
\* finish, workers claim, tokens expire, containers die or calls fail.
Fairness ==
    /\ WF_vars(Supervise)
    /\ WF_vars(Tick)
    /\ \A w \in Workers : WF_vars(ReadEntry(w) \/ WriteEntry(w))

FairSpec == Spec /\ Fairness

\* Without a warm floor, a worker whose token is dead - it expired, or the host
\* restarted - and whom the registry does not have as busy does not run for ever,
\* even when its start was cut short and the registry never had it: it is adopted
\* and reaped, unless a late mark makes it busy (ScaleSupervisorCycle.RunAsync,
\* WorkerPoolState.SyncFromProviderAsync).
UselessReaped ==
    \A j \in Projects : MinIdle[j] = 0 =>
        \A w \in Workers :
            w \in UpIn(j) \ token /\ ~busy[w] ~> w \notin UpIn(j) \/ busy[w]

-----------------------------------------------------------------------------
(* What the repository's texts say and the code does not do *)

\* WorkerEndpoints.ClaimAsync: busy from the claim to the terminal call, so the
\* idle reaper does not stop a worker that holds the lease of an item.
NotReapedMidRun == [][\A w \in Workers : StopWorker(w) => w \notin leased]_vars
=============================================================================
