----------------------------- MODULE SessionView -----------------------------
(***************************************************************************)
(* The sessions as a page shows them and the daemon switches them          *)
(* (session-model.ts, Phase1Shell.tsx LiveSession, Daemon.ts dispatch()):  *)
(* which session is active, which one is on screen, and where a message    *)
(* that the user types goes.                                               *)
(*                                                                         *)
(* The daemon handles a command in one step (SessionManager.tla has the    *)
(* awaits) and frames stay in order on a link.  A link may break: what is  *)
(* under way is lost, and events sent meanwhile do not come again, since   *)
(* these have number 0.  The list of sessions travels with the event it    *)
(* always follows.                                                         *)
(***************************************************************************)
EXTENDS Naturals, Sequences, FiniteSets

CONSTANTS Pages,
          Found,       \* sessions on disk when the daemon starts: 1..Found
          MaxSessions, \* bound: sessions made
          MaxMessages, \* bound: messages typed
          MaxMoves     \* bound: rows opened or deleted, sessions asked for or rolled, links
                       \* broken and pages loaded again

ASSUME ViewAssumption ==
    /\ Found \in Nat \ {0} /\ MaxSessions \in Nat /\ Found <= MaxSessions
    /\ MaxMessages \in Nat /\ MaxMoves \in Nat

Sessions == Nat \ {0} \* in the order they are made
Messages == 1..MaxMessages

\* The daemon, and the two directions of each page's link.
VARIABLES exists, active, made, toDaemon, toPage

\* Per page; 0 stands for null.
VARIABLES ready,     \* the connection's status is "ready"
          listed,    \* SessionModel.sessions
          current,   \* activeSessionId
          displayed, \* displayedSessionId
          overlay,   \* the session whose past transcript displayedItems holds
          queued     \* pendingSendRef

\* Per message: the page and session it was typed for, the session that got it, and whether
\* something came between.
VARIABLES typed, aimed, got, disturbed, excused

VARIABLE moves

daemonVars == <<exists, active, made>>
links == <<toDaemon, toPage>>
modelVars == <<listed, current, displayed, overlay>>
history == <<typed, aimed, got, disturbed, excused>>
vars == <<daemonVars, links, ready, modelVars, queued, history, moves>>

\* what a page sends; `message` tells which message a command is about
Commands ==
    [type : {"journal", "delete"}, session : Sessions, message : {0}]
        \cup [type : {"new"}, session : {0}, message : {0}]
        \cup [type : {"open"}, session : Sessions, message : Messages]
        \cup [type : {"message"}, session : {0}, message : Messages]
Events == [type : {"switched", "deleted", "journal", "error"},
           session : Sessions, sessions : SUBSET Sessions]

TypeOK ==
    /\ exists \subseteq 1..made /\ active \in exists /\ made \in Sessions
    /\ toDaemon \in [Pages -> Seq(Commands)] /\ toPage \in [Pages -> Seq(Events)]
    /\ ready \in [Pages -> BOOLEAN]
    /\ listed \in [Pages -> SUBSET Sessions]
    /\ {current, displayed, overlay} \subseteq [Pages -> Nat]
    /\ queued \in [Pages -> 0..MaxMessages]
    /\ typed \in Seq(Pages) /\ Len(typed) <= MaxMessages
    /\ aimed \in [Messages -> Nat] /\ got \in [Messages -> Nat]
    /\ disturbed \subseteq DOMAIN typed /\ excused \subseteq DOMAIN typed
    /\ moves \in 0..MaxMoves
    \* once a page has learnt which session is active it displays one
    /\ \A p \in Pages : current[p] # 0 => displayed[p] # 0

Init ==
    /\ exists = 1..Found /\ active = 1 /\ made = Found
    /\ toDaemon = [p \in Pages |-> <<>>] /\ toPage = [p \in Pages |-> <<>>]
    /\ ready = [p \in Pages |-> TRUE]
    /\ listed = [p \in Pages |-> {}]
    /\ current = [p \in Pages |-> 0] /\ displayed = [p \in Pages |-> 0]
    /\ overlay = [p \in Pages |-> 0] /\ queued = [p \in Pages |-> 0]
    /\ typed = <<>>
    /\ aimed = [m \in Messages |-> 0] /\ got = [m \in Messages |-> 0]
    /\ disturbed = {} /\ excused = {}
    /\ moves = 0

-----------------------------------------------------------------------------
(* The daemon.                                                             *)

Event(type, s) == [type |-> type, session |-> s, sessions |-> {}]

\* emit() to everyone, with the list of the sessions there are then
Broadcast(type, s, sessions) ==
    toPage' = [p \in Pages |-> IF ready[p]
                 THEN Append(toPage[p], [type |-> type, session |-> s, sessions |-> sessions])
                 ELSE toPage[p]]

Answer(p, type, s) == toPage' = [toPage EXCEPT ![p] = Append(@, Event(type, s))]

\* messages that are typed and have not reached a session
UnderWay == {m \in DOMAIN typed : got[m] = 0}

\* the session s is active from here on; `own` is the message that asked for it, 0 if none
SwitchTo(s, own) ==
    /\ active' = s
    /\ exists' = exists \cup {s}
    /\ Broadcast("switched", s, exists')
    /\ disturbed' = disturbed \cup (UnderWay \ {own})
    /\ UNCHANGED <<typed, aimed, got, excused>>

MakeSession ==
    /\ made' = made + 1
    /\ SwitchTo(made', 0)

Takes(p, type) ==
    /\ toDaemon[p] # <<>> /\ Head(toDaemon[p]).type = type
    /\ toDaemon' = [toDaemon EXCEPT ![p] = Tail(@)]
    /\ UNCHANGED <<ready, modelVars, queued, moves>>

\* sessions made and asked for, bounded by MaxSessions
Asked == made + Cardinality({q \in Pages \X (1..MaxMoves + MaxMessages) :
                    q[2] \in DOMAIN toDaemon[q[1]] /\ toDaemon[q[1]][q[2]].type = "new"})

\* handleNewSession()
HandleNew(p) == Takes(p, "new") /\ MakeSession

\* onActiveSessionRolled()
Roll ==
    /\ Asked < MaxSessions
    /\ moves < MaxMoves /\ moves' = moves + 1
    /\ MakeSession
    /\ UNCHANGED <<toDaemon, ready, modelVars, queued>>

\* handleOpenSession() with resume: it fails for the active session and one that is gone
HandleOpen(p) ==
    LET command == Head(toDaemon[p]) s == command.session IN
    /\ Takes(p, "open")
    /\ IF s \in exists \ {active}
         THEN SwitchTo(s, command.message)
         ELSE /\ Answer(p, "error", s)
              /\ excused' = excused \cup {command.message}
              /\ UNCHANGED <<exists, active, typed, aimed, got, disturbed>>
    /\ UNCHANGED made

\* replyJournal(): a session that is gone has an empty journal
HandleJournal(p) ==
    /\ Takes(p, "journal")
    /\ Answer(p, "journal", Head(toDaemon[p]).session)
    /\ UNCHANGED <<daemonVars, history>>

\* handleDeleteSession(): rm() does not mind a session that is gone
HandleDelete(p) ==
    LET s == Head(toDaemon[p]).session IN
    /\ Takes(p, "delete")
    /\ IF s = active THEN Answer(p, "error", s) /\ UNCHANGED exists
       ELSE exists' = exists \ {s} /\ Broadcast("deleted", s, exists')
    /\ UNCHANGED <<active, made, history>>

\* any other command goes to the active session
HandleMessage(p) ==
    /\ Takes(p, "message")
    /\ got' = [got EXCEPT ![Head(toDaemon[p]).message] = active]
    /\ UNCHANGED <<daemonVars, toPage, typed, aimed, disturbed, excused>>

Handle(p) ==
    \/ HandleNew(p) \/ HandleOpen(p) \/ HandleJournal(p) \/ HandleDelete(p) \/ HandleMessage(p)

-----------------------------------------------------------------------------
(* The user.                                                               *)

Command(type, s, m) == [type |-> type, session |-> s, message |-> m]

Send(p, command) == toDaemon' = [toDaemon EXCEPT ![p] = Append(@, command)]

\* Connection.send() drops a command when the socket is not open
SendIfReady(p, command) == IF ready[p] THEN Send(p, command) ELSE UNCHANGED toDaemon

Tap ==
    /\ moves < MaxMoves /\ moves' = moves + 1
    /\ UNCHANGED <<daemonVars, toPage, ready, listed, current, queued, history>>

\* openSession() of a row of the list: setDisplayedSession(), and the journal of a session that is not active
OpenRow(p, s) ==
    /\ Tap
    /\ displayed' = [displayed EXCEPT ![p] = s]
    /\ overlay' = [overlay EXCEPT ![p] = 0]
    /\ IF s = current[p] THEN UNCHANGED toDaemon
       ELSE SendIfReady(p, Command("journal", s, 0))

NewSession(p) ==
    /\ Asked < MaxSessions
    /\ Tap
    /\ SendIfReady(p, Command("new", 0, 0))
    /\ UNCHANGED <<displayed, overlay>>

DeleteSession(p, s) ==
    /\ Tap
    /\ SendIfReady(p, Command("delete", s, 0))
    /\ UNCHANGED <<displayed, overlay>>

\* the page knows which session is active, and no older switch is still on its way to it
UpToDate(p) == current[p] = active /\ \A i \in DOMAIN toPage[p] : toPage[p][i].type # "switched"

\* Slip: sendMessage() does not resume a past session that is on screen.
SendMessageLive(p) ==
    LET m == Len(typed) + 1 IN
    /\ ready[p] /\ m \in Messages
    /\ typed' = Append(typed, p)
    /\ aimed' = [aimed EXCEPT ![m] = IF displayed[p] = 0 THEN active ELSE displayed[p]]
    /\ disturbed' = IF UpToDate(p) THEN disturbed ELSE disturbed \cup {m}
    /\ Send(p, Command("message", 0, m))
    /\ UNCHANGED <<daemonVars, toPage, ready, modelVars, queued, got, excused, moves>>

\* sendMessage(): a message for a past session waits until that session has been resumed; the
\* one that was waiting is forgotten
SendMessage(p) ==
    LET m == Len(typed) + 1
        past == displayed[p] # 0 /\ current[p] # 0 /\ displayed[p] # current[p]
    IN
    /\ ready[p] /\ m \in Messages
    /\ typed' = Append(typed, p)
    /\ aimed' = [aimed EXCEPT ![m] = IF displayed[p] = 0 THEN active ELSE displayed[p]]
    /\ disturbed' = IF UpToDate(p) THEN disturbed ELSE disturbed \cup {m}
    /\ IF past
         THEN /\ excused' = excused \cup ({queued[p]} \ {0})
              /\ queued' = [queued EXCEPT ![p] = m]
              /\ Send(p, Command("open", displayed[p], m))
         ELSE /\ Send(p, Command("message", 0, m))
              /\ UNCHANGED <<queued, excused>>
    /\ UNCHANGED <<daemonVars, toPage, ready, modelVars, got, moves>>

-----------------------------------------------------------------------------
(* The page: SessionModel.apply() and LiveSession's onEvent.               *)

Receives(p, type) ==
    /\ toPage[p] # <<>> /\ Head(toPage[p]).type = type
    /\ toPage' = [toPage EXCEPT ![p] = Tail(@)]
    /\ UNCHANGED <<daemonVars, ready, history, moves>>

\* Slip: a switch clears the message that waits without sending it.
OnSwitchedClearing(p) ==
    LET event == Head(toPage[p])
        follows == displayed[p] \in {0, event.session}
    IN
    /\ Receives(p, "switched")
    /\ current' = [current EXCEPT ![p] = event.session]
    /\ displayed' = [displayed EXCEPT ![p] = IF follows THEN event.session ELSE @]
    /\ overlay' = [overlay EXCEPT ![p] = IF follows THEN 0 ELSE @]
    /\ listed' = [listed EXCEPT ![p] = event.sessions]
    /\ queued' = [queued EXCEPT ![p] = 0]
    /\ UNCHANGED toDaemon

\* any switch sends the message that waits; the screen follows only a page that displays
\* nothing or the new session, for activeSessionId is set before it is compared
OnSwitched(p) ==
    LET event == Head(toPage[p])
        follows == displayed[p] \in {0, event.session}
    IN
    /\ Receives(p, "switched")
    /\ current' = [current EXCEPT ![p] = event.session]
    /\ displayed' = [displayed EXCEPT ![p] = IF follows THEN event.session ELSE @]
    /\ overlay' = [overlay EXCEPT ![p] = IF follows THEN 0 ELSE @]
    /\ listed' = [listed EXCEPT ![p] = event.sessions]
    /\ queued' = [queued EXCEPT ![p] = 0]
    /\ IF queued[p] = 0 THEN UNCHANGED toDaemon
       ELSE SendIfReady(p, Command("message", 0, queued[p]))

OnDeleted(p) ==
    LET event == Head(toPage[p])
        gone == displayed[p] = event.session
    IN
    /\ Receives(p, "deleted")
    /\ displayed' = [displayed EXCEPT ![p] = IF gone THEN current[p] ELSE @]
    /\ overlay' = [overlay EXCEPT ![p] = IF gone THEN 0 ELSE @]
    /\ listed' = [listed EXCEPT ![p] = event.sessions]
    /\ UNCHANGED <<toDaemon, current, queued>>

\* Slip: a transcript is shown whatever the page displays.
OnJournalAny(p) ==
    /\ Receives(p, "journal")
    /\ overlay' = [overlay EXCEPT ![p] = Head(toPage[p]).session]
    /\ UNCHANGED <<toDaemon, listed, current, displayed, queued>>

\* a late transcript, of a session that is not displayed any more, is dropped
OnJournal(p) ==
    LET s == Head(toPage[p]).session IN
    /\ Receives(p, "journal")
    /\ overlay' = [overlay EXCEPT ![p] = IF displayed[p] = s THEN s ELSE @]
    /\ UNCHANGED <<toDaemon, listed, current, displayed, queued>>

OnError(p) ==
    /\ Receives(p, "error")
    /\ UNCHANGED <<toDaemon, modelVars, queued>>

Apply(p) == OnSwitched(p) \/ OnDeleted(p) \/ OnJournal(p) \/ OnError(p)

-----------------------------------------------------------------------------
(* The link.                                                               *)

\* messages of p that are queued there or on their way to the daemon
Pending(p) == {m \in UnderWay : typed[m] = p}

Lose(p) ==
    /\ moves < MaxMoves /\ moves' = moves + 1
    /\ toDaemon' = [toDaemon EXCEPT ![p] = <<>>]
    /\ toPage' = [toPage EXCEPT ![p] = <<>>]
    /\ excused' = excused \cup Pending(p)
    /\ UNCHANGED <<daemonVars, typed, aimed, got, disturbed>>

Disconnect(p) ==
    /\ ready[p]
    /\ Lose(p)
    /\ ready' = [ready EXCEPT ![p] = FALSE]
    /\ UNCHANGED <<modelVars, queued>>

\* the resume that follows brings numbered events, none of these
Reconnect(p) ==
    /\ ~ready[p]
    /\ ready' = [ready EXCEPT ![p] = TRUE]
    /\ UNCHANGED <<daemonVars, links, modelVars, queued, history, moves>>

\* the page is loaded again, with a new SessionModel; it does not ask for the list
Reload(p) ==
    /\ Lose(p)
    /\ ready' = [ready EXCEPT ![p] = TRUE]
    /\ listed' = [listed EXCEPT ![p] = {}]
    /\ current' = [current EXCEPT ![p] = 0] /\ displayed' = [displayed EXCEPT ![p] = 0]
    /\ overlay' = [overlay EXCEPT ![p] = 0] /\ queued' = [queued EXCEPT ![p] = 0]

-----------------------------------------------------------------------------
User(p) ==
    \/ \E s \in listed[p] : OpenRow(p, s) \/ DeleteSession(p, s)
    \/ NewSession(p)
    \/ SendMessage(p)

Next ==
    \/ \E p \in Pages : User(p) \/ Handle(p) \/ Apply(p) \/ Disconnect(p) \/ Reconnect(p) \/ Reload(p)
    \/ Roll

\* the daemon and an open page take what reaches them; users need not do anything
Fairness == \A p \in Pages : WF_vars(Handle(p)) /\ WF_vars(Apply(p))

Spec == Init /\ [][Next]_vars /\ Fairness

-----------------------------------------------------------------------------
\* A past transcript is on screen only while its session is the one displayed, however late
\* the answer to get_session_journal comes and whatever was deleted or switched meanwhile.
OverlayIsDisplayed == \A p \in Pages : overlay[p] # 0 => overlay[p] = displayed[p]

\* The page's views and queues are of a shape the code knows, and a transcript shown is the right one.
DisplayInvariant == TypeOK /\ OverlayIsDisplayed

\* A message gets to the session that was on screen when it was typed, resumed for it if it was
\* a past one, unless the page did not know then which session was active (it had not heard of a
\* switch yet), or another switch came before the message did.
MessageReachesItsSession ==
    \A m \in DOMAIN typed : got[m] # 0 => got[m] = aimed[m] \/ m \in disturbed

\* A message that was typed on a page gets to a session, unless the link breaks, the session
\* to resume is gone or active already, or the user types another one before it is resumed.
MessagesArrive ==
    \A m \in Messages : m \in DOMAIN typed ~> got[m] # 0 \/ m \in excused
=============================================================================
