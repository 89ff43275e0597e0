----------------------------- MODULE ClientFeed -----------------------------
(***************************************************************************)
(* The live feed of the command-line client: the hub connection with its   *)
(* retries (lib/signalr.ts), the adapter that keeps the chat groups and    *)
(* drops repeated chunks (kernel/adapters/signalr.ts), and the kernel's    *)
(* side of it: the dispatch gate and the lane of set-subscriptions effects *)
(* (kernel/kernel.ts, kernel/reconnect.ts).                                *)
(*                                                                         *)
(* A group is a membership of one connection id on the server; a new id    *)
(* has none.  The SignalR library is outside the repository.  It           *)
(* reconnects a dropped connection by itself, under a new id.  Whether it  *)
(* calls the callbacks this code ASSIGNS to onreconnected and onclose is   *)
(* left open ("hooked"): the dashboard calls the same members as methods   *)
(* that register a callback (dashboard/src/app/realtime-provider.tsx:94).  *)
(***************************************************************************)
EXTENDS Naturals, Sequences, FiniteSets

CONSTANTS
    Tabs,       \* remote sessions
    Streaming,  \* bound: those whose turns stream
    MaxQueue,   \* bound: connection events, and links of the lane, that wait
    MaxTurns,   \* bound: turns of a session that stream
    MaxChunks,  \* bound: chunks of a turn
    NoSub       \* no set-subscriptions effect is running

ASSUME Bounds ==
    /\ Streaming \subseteq Tabs
    /\ MaxQueue \in Nat
    /\ MaxTurns \in Nat \ {0}
    /\ MaxChunks \in Nat

VARIABLES
    hooked,    \* the library calls the assigned callbacks
    hub,       \* the connection: see Hubs
    bound,     \* the adapter holds a connection
    groups,    \* sessions whose group the live connection id is in
    joined,    \* the adapter's idea of that
    rejoin,    \* sessions the rejoin of the last start has still to join
    feed,      \* "established" events on their way to the kernel
    online,    \* the dispatch gate of the kernel
    open,      \* remote sessions of the kernel
    restored,  \* the workspace has been read
    lane,      \* set-subscriptions effects that wait
    sub,       \* the one that runs
    lastSeq,   \* lastSeqBySession; 0: no entry, n + 1: n
    stream,    \* the server: the turn it streams to a session, the next chunk
    \* Observation only.
    rendered,  \* chunks handed to the kernel
    twice,     \* chunks handed to it more than once
    lost,      \* chunks dropped as repeated that had not been handed over
    lapses     \* why a group may be missing

hubVars   == <<hub, bound, groups, rejoin, feed>>
laneVars  == <<joined, open, restored, lane, sub>>
chunkVars == <<lastSeq, stream, rendered, twice, lost>>
vars == <<hooked, hubVars, laneVars, chunkVars, online, lapses>>

-----------------------------------------------------------------------------

\* "down": not started; "starting": an attempt runs; "waiting": the timer of the
\* retry gate runs; "live"; "dropped": the library reconnects; "dead": closed
\* and nobody retries; "refused": 401 or 403; "stopped".
Hubs == {"down", "starting", "waiting", "live", "dropped", "dead", "refused", "stopped"}

Lapses == {"drop", "join", "restore"}
Chunks == Tabs \X (1..MaxTurns) \X (0..MaxChunks)
Subs   == [wanted : SUBSET Tabs, join : SUBSET Tabs, leave : SUBSET Tabs, old : BOOLEAN]

ASSUME NoSubIsNone == NoSub \notin Subs

TypeOK ==
    /\ hooked \in BOOLEAN
    /\ hub \in Hubs
    /\ bound \in BOOLEAN
    /\ groups \subseteq Tabs
    /\ joined \subseteq Tabs
    /\ rejoin \subseteq Tabs
    /\ feed \in Seq({"established"})
    /\ online \in BOOLEAN
    /\ open \subseteq Tabs
    /\ restored \in BOOLEAN
    /\ lane \in Seq(SUBSET Tabs)
    /\ sub \in Subs \cup {NoSub}
    /\ lastSeq \in [Tabs -> Nat]
    /\ stream \in [Tabs -> [turn : Nat, next : Nat]]
    /\ rendered \subseteq Chunks
    /\ twice \subseteq Chunks
    /\ lost \subseteq Chunks
    /\ lapses \subseteq Lapses

Init ==
    /\ hooked \in BOOLEAN
    /\ hub = "down"
    /\ bound = FALSE
    /\ groups = {}
    /\ joined = {}
    /\ rejoin = {}
    /\ feed = <<>>
    /\ online = FALSE
    /\ open = {}
    /\ restored = FALSE
    /\ lane = <<>>
    /\ sub = NoSub
    /\ lastSeq = [t \in Tabs |-> 0]
    /\ stream = [t \in Tabs |-> [turn |-> 1, next |-> 0]]
    /\ rendered = {}
    /\ twice = {}
    /\ lost = {}
    /\ lapses = {}

-----------------------------------------------------------------------------
(* The connection *)

Attempt ==
    /\ \/ hub = "down"
       \/ hub = "waiting"
    /\ hub' = "starting"
    /\ UNCHANGED <<hooked, bound, groups, rejoin, feed, laneVars, chunkVars, online, lapses>>

RejoinAll == joined

\* A start announces itself, and joins again what the adapter thinks is joined.
\* An effect that runs keeps the connection it began with.  (A start that was
\* retried announces itself twice in a row; the second asks for the same again
\* and is left out.)
HubStarts ==
    /\ hub = "starting"
    /\ Len(feed) < MaxQueue
    /\ hub' = "live"
    /\ bound' = TRUE
    /\ groups' = {}
    /\ rejoin' = RejoinAll
    /\ feed' = Append(feed, "established")
    /\ sub' = IF sub = NoSub THEN NoSub ELSE [sub EXCEPT !.old = TRUE]
    /\ lapses' = IF sub = NoSub THEN lapses \cap {"restore"} ELSE lapses \cup {"join"}
    /\ UNCHANGED <<hooked, joined, open, restored, lane, chunkVars, online>>

\* Mutant: a failed start parks the hub.
ParksAfterFailure == "dead"
AfterFailure == "waiting"

\* The attempt fails, or loses the race against its timeout: the gate schedules
\* the next one.
HubFails ==
    /\ hub = "starting"
    /\ hub' = AfterFailure
    /\ UNCHANGED <<hooked, bound, groups, rejoin, feed, laneVars, chunkVars, online, lapses>>

HubRefused ==
    /\ hub = "starting"
    /\ hub' = "refused"
    /\ UNCHANGED <<hooked, bound, groups, rejoin, feed, laneVars, chunkVars, online, lapses>>

\* Nothing tells the kernel: only the status bar hears of a drop.
HubDrops ==
    /\ hub = "live"
    /\ hub' = "dropped"
    /\ groups' = {}
    /\ lapses' = lapses \cup {"drop"}
    /\ UNCHANGED <<hooked, bound, rejoin, feed, laneVars, chunkVars, online>>

\* The library is back under a new connection id.
HubReturns ==
    /\ hub = "dropped"
    /\ Len(feed) < MaxQueue
    /\ hub' = "live"
    /\ feed' = IF hooked THEN Append(feed, "established") ELSE feed
    /\ UNCHANGED <<hooked, bound, groups, rejoin, laneVars, chunkVars, online, lapses>>

\* The server closes for good; onclose would schedule a new start.
HubCloses ==
    /\ hub \in {"live", "dropped"}
    /\ hub' = IF hooked THEN "waiting" ELSE "dead"
    /\ groups' = {}
    /\ lapses' = lapses \cup {"drop"}
    /\ UNCHANGED <<hooked, bound, rejoin, feed, laneVars, chunkVars, online>>

Stop ==
    /\ hub \notin {"down", "stopped"}
    /\ hub' = "stopped"
    /\ bound' = FALSE
    /\ groups' = {}
    /\ lapses' = lapses \cup {"drop"}
    /\ UNCHANGED <<hooked, rejoin, feed, laneVars, chunkVars, online>>

\* A join on a connection that is not live is rejected, and swallowed.
Member(t) == IF hub = "live" THEN groups \cup {t} ELSE groups

RejoinOne(t) ==
    /\ t \in rejoin
    /\ rejoin' = rejoin \ {t}
    /\ groups' = Member(t)
    /\ lapses' = IF hub = "live" THEN lapses ELSE lapses \cup {"join"}
    /\ UNCHANGED <<hooked, hub, bound, feed, laneVars, chunkVars, online>>

-----------------------------------------------------------------------------
(* The kernel *)

\* After its stop the kernel takes no event.
Takes == hub # "stopped" /\ Len(lane) < MaxQueue

\* Every effect asks for all open sessions, late ones included.
Subscribe(sessions) ==
    /\ lane' = Append(lane, sessions)
    /\ lapses' = lapses \ {"restore"}

\* connection-established: the gate opens, the open set is subscribed.
KernelHears ==
    /\ feed # <<>>
    /\ Takes
    /\ feed' = Tail(feed)
    /\ online' = TRUE
    /\ Subscribe(open)
    /\ UNCHANGED <<hooked, hub, bound, groups, rejoin, joined, open, restored, sub, chunkVars>>

\* The workspace is read.  No effect comes with it: the sessions it brings are
\* subscribed by the next connection-established.
Restore(sessions) ==
    /\ ~restored
    /\ restored' = TRUE
    /\ open' = sessions
    /\ lapses' = IF online THEN lapses \cup {"restore"} ELSE lapses
    /\ UNCHANGED <<hooked, hubVars, joined, lane, sub, chunkVars, online>>

OpenTab(t) ==
    /\ restored
    /\ t \notin open
    /\ Takes
    /\ open' = open \cup {t}
    /\ Subscribe(open')
    /\ UNCHANGED <<hooked, hubVars, joined, restored, sub, chunkVars, online>>

CloseTab(t) ==
    /\ restored
    /\ t \in open
    /\ Takes
    /\ open' = open \ {t}
    /\ Subscribe(open')
    /\ UNCHANGED <<hooked, hubVars, joined, restored, sub, chunkVars, online>>

-----------------------------------------------------------------------------
(* set-subscriptions *)

\* Mutant: what was joined before is left, wanted or not.
LeavesAll(wanted) == joined
Leaves(wanted) == joined \ wanted

\* Without a connection the set is only noted.  Reading the workspace is the
\* first link of the lane.
SubBegins ==
    /\ restored
    /\ lane # <<>>
    /\ sub = NoSub
    /\ lane' = Tail(lane)
    /\ IF bound
         THEN /\ sub' = [wanted |-> Head(lane), join |-> Head(lane) \ joined,
                         leave |-> Leaves(Head(lane)), old |-> FALSE]
              /\ UNCHANGED joined
         ELSE joined' = Head(lane) /\ UNCHANGED sub
    /\ UNCHANGED <<hooked, hubVars, open, restored, chunkVars, online, lapses>>

Reaches == hub = "live" /\ ~sub.old

SubJoins(t) ==
    /\ sub # NoSub
    /\ t \in sub.join
    /\ sub' = [sub EXCEPT !.join = @ \ {t}]
    /\ groups' = IF Reaches THEN groups \cup {t} ELSE groups
    /\ lapses' = IF Reaches THEN lapses ELSE lapses \cup {"join"}
    /\ UNCHANGED <<hooked, hub, bound, rejoin, feed, joined, open, restored, lane, chunkVars, online>>

SubLeaves(t) ==
    /\ sub # NoSub
    /\ sub.join = {}
    /\ t \in sub.leave
    /\ sub' = [sub EXCEPT !.leave = @ \ {t}]
    /\ groups' = IF Reaches THEN groups \ {t} ELSE groups
    /\ UNCHANGED <<hooked, hub, bound, rejoin, feed, joined, open, restored, lane, chunkVars, online, lapses>>

SubEnds ==
    /\ sub # NoSub
    /\ sub.join = {}
    /\ sub.leave = {}
    /\ joined' = sub.wanted
    /\ sub' = NoSub
    /\ UNCHANGED <<hooked, hubVars, open, restored, lane, chunkVars, online, lapses>>

-----------------------------------------------------------------------------
(* Chunks *)

\* The brain numbers the chunks of each turn from 0
\* (platform/.../Comuki.Host.Brain/Brain/BrainAgent.cs:126).
NextTurn(t) ==
    /\ stream[t].turn < MaxTurns
    /\ stream[t].next > 0
    /\ stream' = [stream EXCEPT ![t] = [turn |-> @.turn + 1, next |-> 0]]
    /\ UNCHANGED <<hooked, hubVars, laneVars, lastSeq, rendered, twice, lost, online, lapses>>

\* Mutant: only an older chunk counts as repeated.
OlderOnly(t, n) == n + 1 < lastSeq[t]
Repeated(t, n) == n + 1 <= lastSeq[t]

\* Mutants: the number before, or the one after, is remembered.
RememberedBefore(n) == n - 1
RememberedAfter(n) == n + 2
Remembered(n) == n + 1

\* handleChunk: what is not above the last number of the session is dropped.
Receives(t, k, n) ==
    IF Repeated(t, n)
      THEN /\ lost' = IF <<t, k, n>> \in rendered THEN lost ELSE lost \cup {<<t, k, n>>}
           /\ UNCHANGED <<lastSeq, rendered, twice>>
      ELSE /\ lastSeq' = [lastSeq EXCEPT ![t] = Remembered(n)]
           /\ rendered' = rendered \cup {<<t, k, n>>}
           /\ twice' = IF <<t, k, n>> \in rendered THEN twice \cup {<<t, k, n>>} ELSE twice
           /\ UNCHANGED lost

\* The server streams a chunk; only a member of the group hears it.
ChunkArrives(t) ==
    /\ stream[t].next <= MaxChunks
    /\ stream' = [stream EXCEPT ![t].next = @ + 1]
    /\ IF hub = "live" /\ t \in groups
         THEN Receives(t, stream[t].turn, stream[t].next)
         ELSE UNCHANGED <<lastSeq, rendered, twice, lost>>
    /\ UNCHANGED <<hooked, hubVars, laneVars, online, lapses>>

\* The last chunk comes once more.
ChunkRepeats(t) ==
    /\ hub = "live"
    /\ t \in groups
    /\ stream[t].next > 0
    /\ Receives(t, stream[t].turn, stream[t].next - 1)
    /\ UNCHANGED <<hooked, hubVars, laneVars, stream, online, lapses>>

-----------------------------------------------------------------------------

HubStep ==
    \/ Attempt \/ HubStarts \/ HubFails \/ HubRefused \/ HubDrops \/ HubReturns
    \/ HubCloses \/ Stop
    \/ \E t \in Tabs : RejoinOne(t)

KernelStep ==
    \/ KernelHears
    \/ \E sessions \in SUBSET Tabs : Restore(sessions)
    \/ \E t \in Tabs : OpenTab(t) \/ CloseTab(t)
    \/ SubBegins \/ SubEnds
    \/ \E t \in Tabs : SubJoins(t) \/ SubLeaves(t)

StreamStep == \E t \in Streaming : NextTurn(t) \/ ChunkArrives(t) \/ ChunkRepeats(t)

Next == HubStep \/ KernelStep \/ StreamStep

Spec == Init /\ [][Next]_vars

\* Timers fire, promises settle and are continued.  A start that is tried again
\* and again is answered: that is what the retries are for.
\* (The event queue of the kernel has no bound and is served in order; here the
\* user may keep the bounded lane full, so that WF would not be enough for it.)
Fairness ==
    /\ WF_vars(Attempt)
    /\ WF_vars(HubStarts \/ HubFails \/ HubRefused)
    /\ SF_vars(HubStarts)
    /\ SF_vars(KernelHears)
    /\ WF_vars(\E sessions \in SUBSET Tabs : Restore(sessions))
    /\ WF_vars(SubBegins \/ SubEnds \/ \E t \in Tabs : SubJoins(t) \/ SubLeaves(t))

FairSpec == Spec /\ Fairness

-----------------------------------------------------------------------------
(* Properties *)

\* Nothing is under way between the kernel, the adapter and the hub.
Settled ==
    /\ hub = "live"
    /\ restored
    /\ feed = <<>>
    /\ lane = <<>>
    /\ sub = NoSub
    /\ rejoin = {}

\* When all is settled the live connection is in the group of every open
\* session, whatever was opened and closed around a start or a full restart --
\* unless memberships were lost under the adapter (a drop), a join failed, or
\* the workspace was read after the connection had been announced.
OpenIsSubscribed == Settled /\ lapses = {} => open \subseteq groups

\* A chunk is handed to the kernel at most once.
RenderedOnce == twice = {}

\* Once a chunk of a turn is shown, no later chunk of that turn is taken for a
\* repeat, however often chunks come twice or not at all: the filter makes no gap
\* in what streams.
NoGapInTurn ==
    \A c \in lost, d \in rendered : d[1] = c[1] /\ d[2] = c[2] => c[3] < d[3]

\* A hub that is being started is not given up, however many attempts fail: it
\* comes to live, is refused, or is stopped.
KeepsTrying == hub \in {"starting", "waiting"} ~> hub \in {"live", "refused", "stopped"}

-----------------------------------------------------------------------------
(* What the texts of the client say *)

\* "A reconnect gets a fresh connection id and loses every chat group --
\* re-subscribe to the open set" (harness/reducer.ts:434), taken for a library
\* that does call the callbacks.
ResubscribedAfterDrop == hooked /\ Settled /\ lapses \subseteq {"drop"} => open \subseteq groups

\* "Stale/duplicate frame after a reconnect -- drop, cursor still advanced by the
\* first delivery" (kernel/adapters/signalr.ts:150): what is dropped had been handed
\* over before.  No run checks it: the second turn of a session refutes it, whose
\* numbers start again while lastSeqBySession does not.
OnlyRepeatsDropped == lost = {}
=============================================================================
