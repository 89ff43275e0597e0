----------------------------- MODULE ClientTurns -----------------------------
(***************************************************************************)
(* The turn engine of the command-line client: the kernel                  *)
(* (cli/src/kernel/kernel.ts), its reducer (harness/reducer.ts), the       *)
(* translation of user intents (harness/intents.ts), the effect runner     *)
(* (harness/effect-runner.ts) and the HTTP port (kernel/adapters/http.ts). *)
(*                                                                         *)
(* The kernel is single-threaded: an event is reduced, committed and its   *)
(* effects are started before the next event is looked at, and an effect   *)
(* runs synchronously up to its first await.  One action below is one such *)
(* step.  What interleaves is the user, the answers of the wire and the    *)
(* state of the live connection.                                           *)
(*                                                                         *)
(* A tab is a session of the client.  It opens "pending", with a local id, *)
(* and becomes "remote" when the server has created it; both ids name the  *)
(* same tab here, because adoption moves everything filed under the first  *)
(* to the second.  A request is a command (one message of the user) or a   *)
(* decision on a pending approval.  Texts, titles, transcripts and         *)
(* timestamps are left out; what is kept of a transcript is how often the  *)
(* outcome of a request was appended to it.                                *)
(***************************************************************************)
EXTENDS Naturals, Sequences, FiniteSets

CONSTANTS
    Tabs,       \* sessions of the workspace
    Commands,   \* command ids of submitted messages
    Decisions,  \* command ids of approve / reject decisions
    None        \* "no request", "no tab", "no key"

ASSUME IdsDisjoint ==
    /\ Tabs \cap Commands = {}
    /\ Tabs \cap Decisions = {}
    /\ Commands \cap Decisions = {}
    /\ None \notin Tabs \cup Commands \cup Decisions

Requests == Commands \cup Decisions

VARIABLES
    tab,          \* HarnessState.sessions, by tab
    outbound,     \* HarnessState.outbound: the tab a tracked request belongs to
    online,       \* canDispatch() of the reconnect orchestrator
    creating,     \* tabs with a create-remote-session effect in flight
    wire,         \* the submit-turn or decide-approval effect of each request
    controllers,  \* HttpConversationPort.controllers: key -> request to abort
    applied,      \* appliedServerEvents, of turn outcomes
    \* Observation only: nothing below is read by the client.
    asked,        \* per tab, the commands the kernel took from the user, in order
    posted,       \* per tab, the commands put on the wire, in order
    cancelled,    \* requests the user stopped
    planned,      \* requests whose outcome opened an approval
    shown         \* how often an outcome was appended to the transcript

clientVars  == <<tab, outbound, online, creating, wire, controllers, applied>>
historyVars == <<asked, posted, cancelled, planned, shown>>
vars        == <<clientVars, historyVars>>

-----------------------------------------------------------------------------
(* Types *)

Identities == {"unopened", "pending", "remote", "closed"}
TurnKinds  == {"idle", "thinking", "awaiting", "failed"}

\* "unsent" until the effect is scheduled, "sent" while nothing has come back;
\* then what came back, until the kernel applies it: an answer, an answer with
\* a plan to approve, an error, or the abort of the user; and "over".
Phases   == {"unsent", "sent", "answered", "plan", "refused", "aborted", "over"}
Returned == {"answered", "plan", "refused", "aborted"}
InFlight == {"sent"} \cup Returned

Keys == Commands \cup Tabs

TypeOK ==
    /\ tab \in [Tabs -> [identity : Identities, turn : TurnKinds,
                         req : Requests \cup {None}, queue : Seq(Commands)]]
    /\ outbound \in [Requests -> Tabs \cup {None}]
    /\ online \in BOOLEAN
    /\ creating \in SUBSET Tabs
    /\ wire \in [Requests -> [phase : Phases, key : Keys \cup {None}]]
    /\ controllers \in [Keys -> Commands \cup {None}]
    /\ applied \in SUBSET Requests
    /\ asked \in [Tabs -> Seq(Commands)]
    /\ posted \in [Tabs -> Seq(Commands)]
    /\ cancelled \in SUBSET Requests
    /\ planned \in SUBSET Requests
    /\ shown \in [Requests -> Nat]

-----------------------------------------------------------------------------
(* The reducer and the ports, as operators on their part of the state *)

Fresh(i) == [identity |-> i, turn |-> "idle", req |-> None, queue |-> <<>>]

\* A boot restores remote sessions as idle; the other tabs are opened later.
Init ==
    /\ tab \in [Tabs -> {Fresh("unopened"), Fresh("remote")}]
    /\ outbound = [r \in Requests |-> None]
    /\ online = FALSE
    /\ creating = {}
    /\ wire = [r \in Requests |-> [phase |-> "unsent", key |-> None]]
    /\ controllers = [k \in Keys |-> None]
    /\ applied = {}
    /\ asked = [t \in Tabs |-> <<>>]
    /\ posted = [t \in Tabs |-> <<>>]
    /\ cancelled = {}
    /\ planned = {}
    /\ shown = [r \in Requests |-> 0]

IsOpen(t) == tab[t].identity \in {"pending", "remote"}

Turn(s, kind, r) == [s EXCEPT !.turn = kind, !.req = r]

\* thinking-started drops the request from the queue.  Command ids are unique,
\* so that is the head when the queue is drained, and the entry turn-queued has
\* just appended when the message goes out at once.
Drained(s) == [s EXCEPT !.turn = "thinking", !.req = Head(s.queue), !.queue = Tail(s.queue)]

Sent(w, r, k)        == [w EXCEPT ![r] = [phase |-> "sent", key |-> k]]

\* Mutant: the port files the key in place of the request.
RegisteredKey(cs, k, r) == [cs EXCEPT ![k] = k]
Registered(cs, k, r) == [cs EXCEPT ![k] = r]

\* Nothing is scheduled: the tab becomes s.
Settle(w, cs, t, s) ==
    /\ tab' = [tab EXCEPT ![t] = s]
    /\ wire' = w
    /\ controllers' = cs
    /\ UNCHANGED posted

\* The submit-turn effect of the head of the queue of s, unless that request is
\* in flight already.  The port registers the abort controller under the command
\* id when the effect carries one, under the session otherwise: that is k.
SubmitHead(w, cs, t, s, k) ==
    LET c == Head(s.queue) IN
    IF w[c].phase \in InFlight
      THEN Settle(w, cs, t, s)
      ELSE /\ tab' = [tab EXCEPT ![t] = Drained(s)]
           /\ wire' = Sent(w, c, k)
           /\ controllers' = Registered(cs, k, c)
           /\ posted' = [posted EXCEPT ![t] = Append(@, c)]

\* Mutant: an ended turn does not look at the queue.
NoContinue(w, cs, t, s) == Settle(w, cs, t, s)

\* continueQueue, and the submit of an adopted session: the head of the queue
\* is submitted without its command id.
ContinueQueue(w, cs, t, s) ==
    IF s.queue = <<>> THEN Settle(w, cs, t, s) ELSE SubmitHead(w, cs, t, s, t)

-----------------------------------------------------------------------------
(* The user *)

OpenTab(t) ==
    /\ tab[t].identity = "unopened"
    /\ tab' = [tab EXCEPT ![t] = Fresh("pending")]
    /\ UNCHANGED <<outbound, online, creating, wire, controllers, applied, historyVars>>

\* The tab goes; what it has in flight goes on.
CloseTab(t) ==
    /\ IsOpen(t)
    /\ tab' = [tab EXCEPT ![t] = Fresh("closed")]
    /\ UNCHANGED <<outbound, online, creating, wire, controllers, applied, historyVars>>

\* A turn or a decision is taken only online.
CanDispatch == online

\* Mutant: only what has been sent is known.
NewUnlessSent(c) == wire[c].phase = "unsent"

\* A command the outbound log knows translates to nothing.
NewCommand(c) == outbound[c] = None

\* Mutants: the queue is not looked at; the turn only when it thinks.
StartsWhenIdle(t) == tab[t].turn = "idle"
StartsUnlessThinking(t) == tab[t].turn # "thinking" /\ tab[t].queue = <<>>

\* The message goes out at once only on an idle tab with nothing waiting.
StartsAtOnce(t) == tab[t].turn = "idle" /\ tab[t].queue = <<>>

Queued(s, c) == [s EXCEPT !.queue = Append(@, c)]

\* Queued and taken off the queue again by thinking-started, in one step.
SendNow(t, c) ==
    /\ tab' = [tab EXCEPT ![t] = Turn(@, "thinking", c)]
    /\ wire' = Sent(wire, c, c)
    /\ controllers' = Registered(controllers, c, c)
    /\ posted' = [posted EXCEPT ![t] = Append(@, c)]
    /\ UNCHANGED creating

Accept(t, c) ==
    /\ outbound' = [outbound EXCEPT ![c] = t]
    /\ asked' = [asked EXCEPT ![t] = Append(@, c)]
    /\ UNCHANGED <<online, applied, cancelled, planned, shown>>

SubmitTurn(t, c) ==
    /\ CanDispatch
    /\ IsOpen(t)
    /\ NewCommand(c)
    /\ Accept(t, c)
    /\ \/ /\ StartsAtOnce(t)
          /\ tab[t].identity = "remote"
          /\ SendNow(t, c)
       \/ /\ StartsAtOnce(t)
          /\ tab[t].identity = "pending"
          /\ creating' = creating \cup {t}
          /\ Settle(wire, controllers, t, Queued(tab[t], c))
       \/ /\ ~StartsAtOnce(t)
          /\ Settle(wire, controllers, t, Queued(tab[t], c))
          /\ UNCHANGED creating

\* The controller the port finds under the command id of the thinking turn.
Victim(t) == IF tab[t].req \in Keys THEN controllers[tab[t].req] ELSE None

\* /stop: the tab is idle at once; the port aborts what it finds under the
\* command id, when that has not been answered yet.
CancelTurn(t) ==
    /\ tab[t].identity = "remote"
    /\ tab[t].turn = "thinking"
    /\ tab' = [tab EXCEPT ![t] = Turn(@, "idle", None)]
    /\ cancelled' = cancelled \cup {tab[t].req}
    /\ wire' = IF Victim(t) # None /\ wire[Victim(t)].phase = "sent"
                 THEN [wire EXCEPT ![Victim(t)].phase = "aborted"]
                 ELSE wire
    /\ UNCHANGED <<outbound, online, creating, controllers, applied,
                   asked, posted, planned, shown>>

\* Mutant: approve may be pressed again while the decision is on its way.
MayDecideAgain(t) == tab[t].turn = "awaiting" \/ tab[t].req \in Decisions
MayDecide(t) == tab[t].turn = "awaiting"

\* The host draws a new command id for every decision.
DecideApproval(t, d) ==
    /\ CanDispatch
    /\ tab[t].identity = "remote"
    /\ MayDecide(t)
    /\ NewCommand(d)
    /\ outbound' = [outbound EXCEPT ![d] = t]
    /\ tab' = [tab EXCEPT ![t] = Turn(@, "thinking", d)]
    /\ wire' = Sent(wire, d, None)
    /\ UNCHANGED <<online, creating, controllers, applied, historyVars>>

-----------------------------------------------------------------------------
(* The wire *)

\* The live connection comes and goes; only the dispatch gate depends on it.
LinkChanges ==
    /\ online' = ~online
    /\ UNCHANGED <<tab, outbound, creating, wire, controllers, applied, historyVars>>

\* The server answers the request, with or without a plan to approve ...
ServerAnswers(r) ==
    /\ wire[r].phase = "sent"
    /\ \E p \in {"answered", "plan"} : wire' = [wire EXCEPT ![r].phase = p]
    /\ UNCHANGED <<tab, outbound, online, creating, controllers, applied, historyVars>>

\* ... or refuses it, or the connection breaks.
RequestBreaks(r) ==
    /\ wire[r].phase = "sent"
    /\ wire' = [wire EXCEPT ![r].phase = "refused"]
    /\ UNCHANGED <<tab, outbound, online, creating, controllers, applied, historyVars>>

\* remote-session-adopted: the oldest waiting message goes out.
SessionCreated(t) ==
    /\ t \in creating
    /\ creating' = creating \ {t}
    /\ IF tab[t].identity = "pending"
         THEN ContinueQueue(wire, controllers, t, [tab[t] EXCEPT !.identity = "remote"])
         ELSE UNCHANGED <<tab, wire, controllers, posted>>
    /\ UNCHANGED <<outbound, online, applied, asked, cancelled, planned, shown>>

\* remote-session-create-failed: the turn fails, the message stays queued.
CreateFailed(t) ==
    /\ t \in creating
    /\ creating' = creating \ {t}
    /\ tab' = IF tab[t].identity = "pending"
                THEN [tab EXCEPT ![t] = Turn(@, "failed", Head(@.queue))]
                ELSE tab
    /\ UNCHANGED <<outbound, online, wire, controllers, applied, historyVars>>

-----------------------------------------------------------------------------
(* Outcomes *)

\* Mutant: no event is stale.
NeverStale(t, r) == FALSE

\* Mutant: whatever is not the request of the turn is stale, also on a tab
\* without a turn.
StaleUnlessCurrent(t, r) == tab[t].req # r

\* The stale-event rejection of turn-completed and turn-failed.
Stale(t, r) == tab[t].turn = "thinking" /\ tab[t].req # r

\* Mutant: applied outcomes are not remembered.
EveryTime(r) == TRUE
FirstTime(r) == r \notin applied

\* An outcome is reduced once, and only into a tab that is still there.
Applies(r) ==
    /\ FirstTime(r)
    /\ tab[outbound[r]].identity = "remote"
    /\ ~Stale(outbound[r], r)

\* completeTurn with nothing to approve: idle, then the next in the queue.
Completes(w, cs, r) ==
    /\ shown' = [shown EXCEPT ![r] = @ + 1]
    /\ ContinueQueue(w, cs, outbound[r], Turn(tab[outbound[r]], "idle", None))
    /\ UNCHANGED planned

\* completeTurn with a plan: the queue is held.
Awaits(w, cs, r) ==
    /\ shown' = [shown EXCEPT ![r] = @ + 1]
    /\ planned' = planned \cup {r}
    /\ Settle(w, cs, outbound[r], Turn(tab[outbound[r]], "awaiting", r))

\* turn-failed: the queue is left as it is.
Fails(w, cs, r) ==
    /\ Settle(w, cs, outbound[r], Turn(tab[outbound[r]], "failed", r))
    /\ UNCHANGED <<planned, shown>>

Dropped(w, cs, r) ==
    /\ Settle(w, cs, outbound[r], tab[outbound[r]])
    /\ UNCHANGED <<planned, shown>>

\* The finally of submitTurn deletes whatever its key holds by then.
Released(r) ==
    IF wire[r].key = None THEN controllers ELSE [controllers EXCEPT ![wire[r].key] = None]

Over(r, p) == [wire EXCEPT ![r].phase = p]

\* What came back for r reaches the kernel.
OutcomeArrives(r) ==
    /\ wire[r].phase \in Returned
    /\ applied' = applied \cup {r}
    /\ \/ ~Applies(r) /\ Dropped(Over(r, "over"), Released(r), r)
       \/ /\ Applies(r)
          /\ wire[r].phase = "answered"
          /\ Completes(Over(r, "over"), Released(r), r)
       \/ /\ Applies(r)
          /\ wire[r].phase = "plan"
          /\ Awaits(Over(r, "over"), Released(r), r)
       \/ /\ Applies(r)
          /\ wire[r].phase \in {"refused", "aborted"}
          /\ Fails(Over(r, "over"), Released(r), r)
    /\ UNCHANGED <<outbound, online, creating, asked, cancelled>>

\* The completion of r is accepted a second time.
OutcomeRepeats(r) ==
    /\ wire[r].phase = "over"
    /\ IF Applies(r) THEN Completes(wire, controllers, r) ELSE Dropped(wire, controllers, r)
    /\ UNCHANGED <<outbound, online, creating, applied, asked, cancelled>>

-----------------------------------------------------------------------------

UserStep ==
    \E t \in Tabs :
        \/ OpenTab(t) \/ CloseTab(t) \/ CancelTurn(t)
        \/ \E c \in Commands : SubmitTurn(t, c)
        \/ \E d \in Decisions : DecideApproval(t, d)

WireStep ==
    \/ LinkChanges
    \/ \E t \in Tabs : SessionCreated(t) \/ CreateFailed(t)
    \/ \E r \in Requests : ServerAnswers(r) \/ RequestBreaks(r)

KernelStep == \E r \in Requests : OutcomeArrives(r) \/ OutcomeRepeats(r)

Next == UserStep \/ WireStep \/ KernelStep

Spec == Init /\ [][Next]_vars

\* A request is answered, refused or cut off in the end, and an answer that is
\* there is applied: fetch settles every promise, and the event loop runs it.
Fairness ==
    /\ \A r \in Requests : WF_vars(ServerAnswers(r) \/ RequestBreaks(r))
    /\ \A r \in Requests : WF_vars(OutcomeArrives(r))
    /\ \A t \in Tabs : WF_vars(SessionCreated(t) \/ CreateFailed(t))

FairSpec == Spec /\ Fairness
-----------------------------------------------------------------------------
(* Safety *)

\* What the user typed into a tab is what was posted from it, in that order,
\* followed by what still waits: no message is lost, sent twice or overtaken,
\* whatever is cancelled, fails, is adopted or comes back late.
NothingLost == \A t \in Tabs : IsOpen(t) => asked[t] = posted[t] \o tab[t].queue

\* The turn of a tab and the wire agree: a tab that thinks has its request in
\* flight, and a request in flight that nobody stopped is the one its tab
\* thinks about.  So a tab never has two live turns, and never a dead spinner.
OneLiveTurn ==
    /\ \A t \in Tabs : tab[t].turn = "thinking" => wire[tab[t].req].phase \in InFlight
    /\ \A r \in Requests :
         wire[r].phase \in InFlight /\ r \notin cancelled /\ IsOpen(outbound[r])
           => tab[outbound[r]].turn = "thinking" /\ tab[outbound[r]].req = r

\* The outcome of a request is appended to the transcript at most once, also
\* when it comes late, after a cancellation, or twice.
ShownOnce == \A r \in Requests : shown[r] <= 1

\* A plan is decided at most once, however often approve is pressed and whatever
\* comes in between: a tab never sends more decisions than its turns have opened
\* approvals.
OneDecisionPerPlan ==
    \A t \in Tabs :
        Cardinality({d \in Decisions : outbound[d] = t})
            <= Cardinality({r \in planned : outbound[r] = t})

\* What the outcome of r, when it comes, does to a tab that waits for it.
Wakes(t, r) == outbound[r] = t /\ wire[r].phase \in InFlight /\ Applies(r)

\* A message never waits for nothing: when a queue is not held by a plan or by a
\* failed turn, the session is being created, or a request is in flight whose
\* outcome the tab will take.  After /stop that is the stopped request itself:
\* nothing else goes on with the queue of an idle tab.
NoQueueStranded ==
    \A t \in Tabs :
        IsOpen(t) /\ tab[t].queue # <<>> =>
            \/ tab[t].turn \in {"awaiting", "failed"}
            \/ tab[t].identity = "pending" /\ t \in creating
            \/ \E r \in Requests : Wakes(t, r)

-----------------------------------------------------------------------------
(* What a step may not do *)

\* A pending approval goes away by a decision that is new, with its tab, or by the
\* outcome of an earlier request of the same tab that the user stopped; a tab
\* that is not thinking takes that one, although it is not its turn.  The last
\* way is the one LateCompletionsIgnored refutes; there is no fourth.
AwaitingKept ==
    [][\A t \in Tabs :
         tab[t].turn = "awaiting" /\ tab'[t].turn # "awaiting"
           => \/ tab'[t].identity = "closed"
              \/ tab'[t].req \in {d \in Decisions : outbound[d] = None}
              \/ \E r \in cancelled : outbound[r] = t /\ r \in applied' \ applied]_vars

-----------------------------------------------------------------------------
(* What the client promises *)

\* A tab as the contract sees it.
Stage(s) ==
    CASE s.identity = "unopened" -> "new"
      [] s.identity = "closed"   -> "gone"
      [] OTHER                   -> "open"
Serving(s) == IF s.turn = "thinking" THEN s.req ELSE None

Contract == INSTANCE ConversationContract WITH
    Messages <- Commands,
    stage    <- [t \in Tabs |-> Stage(tab[t])],
    inbox    <- [t \in Tabs |-> tab[t].queue],
    serving  <- [t \in Tabs |-> Serving(tab[t])],
    held     <- [t \in Tabs |-> tab[t].turn = "awaiting"],
    owner    <- outbound,
    served   <- {r \in Requests : wire[r].phase # "unsent"},
    stopped  <- cancelled,
    ended    <- applied

\* Whatever is stopped, refused, answered late or twice, adopted or closed, every
\* step of the client is one ConversationContract allows: one request at a time,
\* the oldest message first, nothing sent twice; a running turn is ended by its
\* own outcome or by the user, and only the outcome of a stopped request comes
\* out of turn.  What that one does to an approval is an action of the contract
\* of its own, Overtake, which LateCompletionsIgnored rules out.
KeepsContract == Contract!Spec

-----------------------------------------------------------------------------
(* Liveness *)

Waits(t, c)   == \E i \in DOMAIN tab[t].queue : tab[t].queue[i] = c
Posts(t, c)   == \E i \in DOMAIN posted[t] : posted[t][i] = c
Closed(t)     == tab[t].identity = "closed"

\* A waiting message goes out in the end, unless the tab is closed, a plan waits
\* for the user, or the turn before it failed.
WaitingMessagesGoOut ==
    \A t \in Tabs, c \in Commands :
        Waits(t, c) ~> Posts(t, c) \/ Closed(t) \/ tab[t].turn \in {"awaiting", "failed"}

-----------------------------------------------------------------------------
(* What the texts of the client say *)

\* "N queued -- sends when the turn ends" (cli/src/lib/queue.ts:55): a message
\* that waits is posted, unless its tab is closed or a plan waits for the user.
QueueDrainsWhenTurnEnds ==
    \A t \in Tabs, c \in Commands :
        Waits(t, c) ~> Posts(t, c) \/ Closed(t) \/ tab[t].turn = "awaiting"

\* A message that went out from the queue: its controller is filed under the
\* session, where a stop does not look, so it runs on and completes at any time.
Unstoppable(r) == wire[r].key \in Tabs

\* "a completion for a request that is not this session's in-flight turn must not
\* clobber state" (harness/reducer.ts:262-264): while a plan waits for the user,
\* the completion of another request leaves the tab as it is.
LateCompletionsIgnored ==
    [][\A r \in applied' \ applied :
         Unstoppable(r) /\ wire[r].phase \in {"answered", "plan"}
             /\ tab[outbound[r]].turn = "awaiting"
           => tab'[outbound[r]] = tab[outbound[r]]]_vars
=============================================================================
