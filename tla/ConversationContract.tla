------------------------ MODULE ConversationContract ------------------------
(***************************************************************************)
(* What the client promises for every session, without kernel, effects,    *)
(* ports, session ids or connection: messages wait in the order they were   *)
(* taken, one request is served at a time, every request is served at most  *)
(* once and ends at most once.  The turn that is served is ended by its own  *)
(* end or by a stop, and by nothing else.  Only the end of a stopped request *)
(* may come out of turn: it is ignored while another request is served, and  *)
(* taken by a session that is free.                                         *)
(*                                                                         *)
(* Overtake is where the client promises less than it should: there the end  *)
(* of a stopped request takes the place of a plan that waits for the user.   *)
(***************************************************************************)
EXTENDS Naturals, Sequences

CONSTANTS
    Tabs,
    Messages,   \* requests that wait in an inbox
    Decisions,  \* requests that answer a held session
    None

VARIABLES
    stage,    \* of a session: "new", "open" or "gone"
    inbox,    \* its messages that wait
    serving,  \* the request it shows as running
    held,     \* it waits for a decision of the user
    owner,    \* the session of a request; None: not taken yet
    served,   \* requests that were ever served
    stopped,  \* requests the user stopped
    ended     \* requests whose end was seen

contractVars == <<stage, inbox, serving, held, owner, served, stopped, ended>>

Init ==
    /\ stage \in [Tabs -> {"new", "open"}]
    /\ inbox = [t \in Tabs |-> <<>>]
    /\ serving = [t \in Tabs |-> None]
    /\ held = [t \in Tabs |-> FALSE]
    /\ owner = [r \in Messages \cup Decisions |-> None]
    /\ served = {}
    /\ stopped = {}
    /\ ended = {}

-----------------------------------------------------------------------------
Open(t) ==
    /\ stage[t] = "new"
    /\ stage' = [stage EXCEPT ![t] = "open"]
    /\ UNCHANGED <<inbox, serving, held, owner, served, stopped, ended>>

Close(t) ==
    /\ stage[t] = "open"
    /\ stage' = [stage EXCEPT ![t] = "gone"]
    /\ inbox' = [inbox EXCEPT ![t] = <<>>]
    /\ serving' = [serving EXCEPT ![t] = None]
    /\ held' = [held EXCEPT ![t] = FALSE]
    /\ UNCHANGED <<owner, served, stopped, ended>>

\* A request is taken once, by one session.
Take(t, r) ==
    /\ stage[t] = "open"
    /\ owner[r] = None
    /\ owner' = [owner EXCEPT ![r] = t]

\* A request is served once.
Serve(t, r) ==
    /\ r \notin served
    /\ served' = served \cup {r}
    /\ serving' = [serving EXCEPT ![t] = r]

\* The oldest message is served.
ServeHead(t) ==
    /\ inbox[t] # <<>>
    /\ Serve(t, Head(inbox[t]))
    /\ inbox' = [inbox EXCEPT ![t] = Tail(@)]

Free(t) == serving[t] = None /\ ~held[t]

Put(t, m) ==
    /\ Take(t, m)
    /\ inbox' = [inbox EXCEPT ![t] = Append(@, m)]
    /\ UNCHANGED <<stage, serving, held, served, stopped, ended>>

\* A message passes the inbox only when nothing is in it.
Say(t, m) ==
    /\ Free(t)
    /\ inbox[t] = <<>>
    /\ Take(t, m)
    /\ Serve(t, m)
    /\ UNCHANGED <<stage, inbox, held, stopped, ended>>

Begin(t) ==
    /\ Free(t)
    /\ ServeHead(t)
    /\ UNCHANGED <<stage, held, owner, stopped, ended>>

Stop(t) ==
    /\ serving[t] # None
    /\ serving' = [serving EXCEPT ![t] = None]
    /\ stopped' = stopped \cup {serving[t]}
    /\ UNCHANGED <<stage, inbox, held, owner, served, ended>>

\* A held session is answered, and held no more.
Decide(t, d) ==
    /\ held[t]
    /\ Take(t, d)
    /\ Serve(t, d)
    /\ held' = [held EXCEPT ![t] = FALSE]
    /\ UNCHANGED <<stage, inbox, stopped, ended>>

-----------------------------------------------------------------------------
Ends(t, r) ==
    /\ r \in served \ ended
    /\ owner[r] = t
    /\ ended' = ended \cup {r}
    /\ UNCHANGED <<stage, owner, stopped>>

\* After an end a session rests, goes on with the oldest message, or is held.
Resumes(t) ==
    \/ /\ serving' = [serving EXCEPT ![t] = None]
       /\ held' = [held EXCEPT ![t] = FALSE]
       /\ UNCHANGED <<inbox, served>>
    \/ /\ ServeHead(t)
       /\ held' = [held EXCEPT ![t] = FALSE]
    \/ /\ serving' = [serving EXCEPT ![t] = None]
       /\ held' = [held EXCEPT ![t] = TRUE]
       /\ UNCHANGED <<inbox, served>>

\* The turn that is served ends.
End(t, r) ==
    /\ Ends(t, r)
    /\ stage[t] = "open"
    /\ serving[t] = r
    /\ Resumes(t)

\* The end of a stopped request comes late, to a session with nothing to disturb.
EndLate(t, r) ==
    /\ Ends(t, r)
    /\ stage[t] = "open"
    /\ r \in stopped
    /\ Free(t)
    /\ Resumes(t)

\* It comes while a plan waits for the user, and takes its place.
Overtake(t, r) ==
    /\ Ends(t, r)
    /\ stage[t] = "open"
    /\ r \in stopped
    /\ held[t]
    /\ Resumes(t)

\* The session is gone, or serves something else by now: the end is ignored.
Ignore(t, r) ==
    /\ Ends(t, r)
    /\ \/ stage[t] = "gone"
       \/ r \in stopped /\ serving[t] \notin {None, r}
    /\ UNCHANGED <<inbox, serving, held, served>>

Next ==
    \E t \in Tabs :
        \/ Open(t) \/ Close(t) \/ Begin(t) \/ Stop(t)
        \/ \E m \in Messages : Put(t, m) \/ Say(t, m)
        \/ \E d \in Decisions : Decide(t, d)
        \/ \E r \in Messages \cup Decisions :
              End(t, r) \/ EndLate(t, r) \/ Overtake(t, r) \/ Ignore(t, r)

Spec == Init /\ [][Next]_contractVars
=============================================================================
