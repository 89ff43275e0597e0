----------------------------- MODULE PoolContract -----------------------------
(***************************************************************************)
(* What the worker pool promises, without passes, provider, tokens or       *)
(* registry: a worker is started for one project and only where the project *)
(* and the machine have room; it is stopped only after it was found idle    *)
(* for longer than the idle TTL; and whatever else happens to it is a       *)
(* counted fault.                                                           *)
(***************************************************************************)
EXTENDS Naturals, FiniteSets

CONSTANTS
    Projects,
    Workers,
    None,
    MaxConcurrent,  \* workers a project may run
    MaxWorkers,     \* workers the machine may run
    IdleTtl         \* how long a worker may rest

VARIABLES
    runsFor,    \* the project a worker runs for
    marked,     \* the worker is known to be busy
    rest,       \* how long nothing was heard of the worker, up to IdleTtl + 1
    condemned,  \* workers that are to be stopped
    faults

contractVars == <<runsFor, marked, rest, condemned, faults>>

Running == {w \in Workers : runsFor[w] # None}
In(j)   == {w \in Workers : runsFor[w] = j}

Init ==
    /\ runsFor = [w \in Workers |-> None]
    /\ marked = [w \in Workers |-> FALSE]
    /\ rest = [w \in Workers |-> 0]
    /\ condemned = {}
    /\ faults = 0

-----------------------------------------------------------------------------
Start(w, j) ==
    /\ runsFor[w] = None
    /\ Cardinality(In(j)) < MaxConcurrent[j]
    /\ Cardinality(Running) < MaxWorkers
    /\ runsFor' = [runsFor EXCEPT ![w] = j]
    /\ UNCHANGED <<marked, rest, condemned, faults>>

\* Who is to be stopped is decided at one moment, in which all of them were idle
\* for long; a sign of life after that comes too late.
Condemn(V) ==
    /\ \A w \in V : ~marked[w] /\ rest[w] > IdleTtl
    /\ condemned' = V
    /\ UNCHANGED <<runsFor, marked, rest, faults>>

Stop(w) ==
    /\ w \in condemned
    /\ condemned' = condemned \ {w}
    /\ runsFor' = [runsFor EXCEPT ![w] = None]
    /\ UNCHANGED <<marked, rest, faults>>

\* The workers of V show life, or are no longer known: their time starts anew.
Hear(V) ==
    /\ rest' = [w \in Workers |-> IF w \in V THEN 0 ELSE rest[w]]
    /\ marked' \in [Workers -> BOOLEAN]
    /\ \A w \in Workers \ V : marked'[w] = marked[w]
    /\ UNCHANGED <<runsFor, condemned, faults>>

\* Nobody rests more than a tick in a tick.
Pass ==
    /\ rest' \in [Workers -> 0 .. IdleTtl + 1]
    /\ \A w \in Workers : rest'[w] \in {rest[w], rest[w] + 1}
    /\ UNCHANGED <<runsFor, marked, condemned, faults>>

-----------------------------------------------------------------------------
Fault == faults' = faults + 1

Lose(w) ==
    /\ Fault
    /\ runsFor' = [runsFor EXCEPT ![w] = None]
    /\ UNCHANGED <<marked, rest, condemned>>

\* The condemned are let off, and nobody is stopped on old evidence.
Relent ==
    /\ Fault
    /\ condemned' = {}
    /\ UNCHANGED <<runsFor, marked, rest>>

\* Everything is forgotten but the workers themselves.
Forget ==
    /\ Fault
    /\ condemned' = {}
    /\ marked' = [w \in Workers |-> FALSE]
    /\ rest' = [w \in Workers |-> 0]
    /\ UNCHANGED runsFor

Next ==
    \/ \E w \in Workers, j \in Projects : Start(w, j)
    \/ \E w \in Workers : Stop(w) \/ Lose(w)
    \/ \E V \in SUBSET Workers : Condemn(V) \/ Hear(V)
    \/ Pass \/ Relent \/ Forget

Spec == Init /\ [][Next]_contractVars
=============================================================================
