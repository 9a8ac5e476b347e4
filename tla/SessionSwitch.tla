--------------------------- MODULE SessionSwitch ----------------------------
(***************************************************************************)
(* Switching the active session (Daemon.ts dispatch() to rebindSession(),  *)
(* SessionManager.ts attach()): one engine, the journals of the sessions,  *)
(* and a Session object for every binding.  rebindSession() replaces       *)
(* this.session and leaves the old object alone: it stays subscribed to    *)
(* the engine, its prompts keep their timers, and its journal is closed.   *)
(*                                                                         *)
(* A step is one run of the event loop.  An engine event runs the          *)
(* listeners of all the objects, oldest first; each numbers and journals   *)
(* it in its own storage and broadcasts it.  One page listens on a link    *)
(* that does not break (see EventDelivery for one that does).  A session   *)
(* is what Session.tla says, less its interrupts, failures and policy.     *)
(***************************************************************************)
EXTENDS Naturals, Sequences, FiniteSets, SequencesExt

CONSTANTS Requests,    \* tool calls
          MaxSessions, \* bound: sessions made
          MaxBinds,    \* bound: Session objects made
          MaxTurns,    \* bound: messages accepted
          MaxEvents,   \* bound: assistant messages and messages to a busy session
          MaxRestarts  \* bound: restarts of the daemon

ASSUME SwitchAssumption ==
    /\ MaxSessions \in Nat \ {0} /\ MaxBinds \in Nat \ {0}
    /\ MaxTurns \in Nat /\ MaxEvents \in Nat /\ MaxRestarts \in Nat

Sessions == 1..MaxSessions
Turns == 1..MaxTurns

VARIABLES up,
          binds,    \* what attach() and rebindSession() made, in order: a storage, its journal
                    \* stream and, once bound, a Session
          bound,    \* Daemon.session
          switch,   \* the command of the manager that is under way
          sessions, \* session ids handed out: 1..sessions
          file,     \* per session: the numbers of the events in its journal, the turns left open
          lastTurn, events, restarts

\* The engine: messages it has yet to answer, the first being answered, and its tool calls.
VARIABLES inbox, promise

\* The page, and history.
VARIABLES cursor,   \* Connection.highestSeq
          prompts,  \* prompts it shows, that is has not answered
          missed,   \* kinds of engine events that reached the page in no copy
          lost,     \* an event of Daemon.session went to a journal that was not open
          rash      \* a session was left, or spoken to while it was being left, at work

engineVars == <<inbox, promise>>
pageVars == <<cursor, prompts, missed>>
counters == <<sessions, lastTurn, events, restarts>>
vars == <<up, binds, bound, switch, file, engineVars, pageVars, lost, rash, counters>>

\* Session.state is left out; currentTurnId is `turn`, 0 if there is none
Bind(s, seq, journal, live) ==
    [sid |-> s, seq |-> seq, journal |-> journal, live |-> live, turn |-> 0, armed |-> {}]

Idle == [phase |-> "none", to |-> 0, resume |-> FALSE]

TypeOK ==
    /\ up \in BOOLEAN
    /\ binds \in Seq([sid : Sessions, seq : Nat, journal : {"open", "ending", "closed"},
                      live : BOOLEAN, turn : 0..MaxTurns, armed : SUBSET Requests])
    /\ bound \in DOMAIN binds /\ Len(binds) <= MaxBinds
    /\ switch \in [phase : {"none", "closing", "ending", "opening", "attached"},
                  to : 0..MaxSessions, resume : BOOLEAN]
    /\ sessions \in Sessions
    /\ file \in [Sessions -> [seqs : Seq(Nat), open : SUBSET Turns]]
    /\ lastTurn \in 0..MaxTurns /\ events \in 0..MaxEvents /\ restarts \in 0..MaxRestarts
    /\ inbox \in Seq(Turns) /\ promise \in [Requests -> {"unused", "blocked", "approve", "deny"}]
    /\ cursor \in Nat /\ prompts \subseteq Requests /\ missed \subseteq {"message", "prompt", "completion"}
    /\ {lost, rash} \subseteq BOOLEAN
    \* the manager's journal, the last one made, is the only one that is not closed
    /\ \A b \in DOMAIN binds : binds[b].journal # "closed" => b = Len(binds)

Init ==
    /\ up = TRUE
    /\ binds = <<Bind(1, 1, "open", TRUE)>> /\ bound = 1
    /\ switch = Idle
    /\ sessions = 1
    /\ file = [s \in Sessions |-> [seqs |-> IF s = 1 THEN <<1>> ELSE <<>>, open |-> {}]]
    /\ lastTurn = 0 /\ events = 0 /\ restarts = 0
    /\ inbox = <<>> /\ promise = [r \in Requests |-> "unused"]
    /\ cursor = 1 /\ prompts = {}
    /\ missed = {} /\ lost = FALSE /\ rash = FALSE

-----------------------------------------------------------------------------
(* Events.                                                                 *)

\* the Session objects, which are all subscribed to the engine
Live == {b \in DOMAIN binds : binds[b].live}

Numbers(seq, n) == [i \in 1..n |-> seq + i]

\* the journal of session s once the objects of `who` have pushed n events each, oldest object first;
\* each writes to the stream of its own binding, if that is open
Appended(s, who, n) ==
    LET after[b \in 0..Len(binds)] ==
            IF b = 0 THEN file[s].seqs
            ELSE IF b \in who /\ binds[b].sid = s /\ binds[b].journal = "open"
                 THEN after[b - 1] \o Numbers(binds[b].seq, n)
                 ELSE after[b - 1]
    IN  after[Len(binds)]

\* a turn starts, or the turns of some of the objects end
Journal(who, n, started, ended) ==
    LET mine(s) == {b \in who : binds[b].sid = s /\ binds[b].journal = "open"}
    IN  file' = [s \in Sessions |->
            [seqs |-> Appended(s, who, n),
             open |-> (file[s].open \cup (IF mine(s) = {} THEN {} ELSE started))
                        \ {binds[b].turn : b \in mine(s) \cap ended}]]

\* the journal of Daemon.session is on its way to another session's
Leaving == binds[bound].journal # "open"

\* writing to a stream that is ending raises an error nobody handles; once it has ended the
\* record is dropped
Write(who) ==
    /\ up' = \A b \in who : binds[b].journal # "ending"
    /\ lost' = (lost \/ (bound \in who /\ Leaving))

\* the page takes events by number; of each object's n the k-th is shown if it is news
Hear(who, n, k, kind) ==
    LET Seen(b) == {cursor} \cup {binds[c].seq + n : c \in {c \in who : c < b}}
        shown == {b \in who : \A m \in Seen(b) : binds[b].seq + k > m}
    IN  /\ cursor' = CHOOSE m \in {cursor} \cup {binds[b].seq + n : b \in who} :
                        \A b \in who : m >= cursor /\ m >= binds[b].seq + n
        /\ missed' = IF shown = {} THEN missed \cup {kind} ELSE missed

\* an event of one object's own, which the page may take for an old one
HearOwn(b) ==
    /\ cursor' = IF binds[b].seq + 1 > cursor THEN binds[b].seq + 1 ELSE cursor
    /\ UNCHANGED <<missed>>

-----------------------------------------------------------------------------
(* Commands to Daemon.session.                                             *)

\* startTurn()
StartTurn ==
    /\ up /\ binds[bound].turn = 0
    /\ lastTurn < MaxTurns
    /\ lastTurn' = lastTurn + 1
    /\ binds' = [binds EXCEPT ![bound].turn = lastTurn', ![bound].seq = @ + 1]
    /\ Journal({bound}, 1, {lastTurn'}, {})
    /\ Write({bound}) /\ HearOwn(bound)
    /\ inbox' = Append(inbox, lastTurn')
    /\ rash' = (rash \/ (Leaving /\ switch # Idle))
    /\ UNCHANGED <<bound, switch, promise, prompts, sessions, events, restarts>>

\* a message during this object's turn is only warned about
IgnoreMessage ==
    /\ up /\ binds[bound].turn # 0
    /\ events < MaxEvents /\ events' = events + 1
    /\ binds' = [binds EXCEPT ![bound].seq = @ + 1]
    /\ Journal({bound}, 1, {}, {}) /\ Write({bound}) /\ HearOwn(bound)
    /\ rash' = (rash \/ (Leaving /\ switch # Idle))
    /\ UNCHANGED <<bound, switch, engineVars, prompts, sessions, lastTurn, restarts>>

\* approveTool(), denyTool(): only a call that is pending is settled
Settle(r, decision) ==
    promise' = IF promise[r] = "blocked" THEN [promise EXCEPT ![r] = decision] ELSE promise

\* resolvePermission(): the page answers a prompt it shows; this object may not know of it, and
\* only warns then
Answer(r, decision) ==
    /\ up /\ r \in prompts
    /\ prompts' = prompts \ {r}
    /\ IF r \in binds[bound].armed
         THEN /\ binds' = [binds EXCEPT ![bound].armed = @ \ {r}]
              /\ Settle(r, decision)
              /\ UNCHANGED <<up, file, cursor, missed, lost>>
         ELSE /\ binds' = [binds EXCEPT ![bound].seq = @ + 1]
              /\ Journal({bound}, 1, {}, {}) /\ Write({bound}) /\ HearOwn(bound)
              /\ UNCHANGED promise
    /\ rash' = (rash \/ (Leaving /\ switch # Idle))
    /\ UNCHANGED <<bound, switch, inbox, counters>>

\* the timer of whichever object still has the prompt
TimeoutPermission(b, r) ==
    /\ up /\ b \in Live /\ r \in binds[b].armed
    /\ binds' = [binds EXCEPT ![b].armed = @ \ {r}, ![b].seq = @ + 1]
    /\ Journal({b}, 1, {}, {}) /\ Write({b}) /\ HearOwn(b)
    /\ Settle(r, "deny")
    /\ UNCHANGED <<bound, switch, inbox, prompts, rash, counters>>

-----------------------------------------------------------------------------
(* The engine, heard by every Session object.                              *)

AssistantMessage ==
    /\ up /\ inbox # <<>> /\ events < MaxEvents
    /\ events' = events + 1
    /\ binds' = [b \in DOMAIN binds |-> IF b \in Live THEN [binds[b] EXCEPT !.seq = @ + 1] ELSE binds[b]]
    /\ Journal(Live, 1, {}, {}) /\ Write(Live) /\ Hear(Live, 1, 1, "message")
    /\ UNCHANGED <<bound, switch, engineVars, prompts, rash, sessions, lastTurn, restarts>>

\* onEnginePermission(): a status and a prompt, with a timer in each object
AskPermission(r) ==
    /\ up /\ inbox # <<>> /\ promise[r] = "unused"
    /\ promise' = [promise EXCEPT ![r] = "blocked"]
    /\ binds' = [b \in DOMAIN binds |-> IF b \in Live
                    THEN [binds[b] EXCEPT !.seq = @ + 2, !.armed = @ \cup {r}] ELSE binds[b]]
    /\ Journal(Live, 2, {}, {}) /\ Write(Live) /\ Hear(Live, 2, 2, "prompt")
    /\ prompts' = prompts \cup {r}
    /\ UNCHANGED <<bound, switch, inbox, rash, counters>>

\* completeTurn() in every object, whichever sent the message; turn_complete, then a status
TurnComplete ==
    /\ up /\ inbox # <<>> /\ \A r \in Requests : promise[r] # "blocked"
    /\ inbox' = Tail(inbox)
    /\ binds' = [b \in DOMAIN binds |-> IF b \in Live
                    THEN [binds[b] EXCEPT !.seq = @ + 2, !.turn = 0] ELSE binds[b]]
    /\ Journal(Live, 2, {}, Live)
    /\ Write(Live) /\ Hear(Live, 2, 1, "completion")
    /\ UNCHANGED <<bound, switch, promise, prompts, rash, counters>>

-----------------------------------------------------------------------------
(* A switch: new_session (also by the idle sweeper) or open_session.       *)

AtWork == inbox # <<>> \/ \E b \in Live : binds[b].armed # {}

\* the manager's mutex is taken; close() writes the meta of the session that is left
BeginSwitch(s, resume) ==
    /\ up /\ switch = Idle
    /\ Len(binds) < MaxBinds
    /\ switch' = [phase |-> "closing", to |-> s, resume |-> resume]
    /\ UNCHANGED <<up, binds, bound, file, engineVars, pageVars, lost, rash>>

NewSession ==
    /\ sessions < MaxSessions /\ sessions' = sessions + 1
    /\ BeginSwitch(sessions + 1, FALSE)
    /\ UNCHANGED <<lastTurn, events, restarts>>

OpenSession(s) ==
    /\ s <= sessions /\ s # binds[Len(binds)].sid
    /\ BeginSwitch(s, TRUE)
    /\ UNCHANGED counters

\* Slip: the journal of the session that is left stays open.
EndJournalNever ==
    /\ up /\ switch.phase = "closing"
    /\ switch' = [switch EXCEPT !.phase = "opening"]
    /\ rash' = (rash \/ AtWork)
    /\ UNCHANGED <<up, binds, bound, file, engineVars, pageVars, lost, counters>>

\* attach(): journal.close() ends the stream ...
EndJournal ==
    /\ up /\ switch.phase = "closing"
    /\ switch' = [switch EXCEPT !.phase = "ending"]
    /\ binds' = [binds EXCEPT ![Len(binds)].journal = "ending"]
    /\ rash' = (rash \/ AtWork)
    /\ UNCHANGED <<up, bound, file, engineVars, pageVars, lost, counters>>

\* ... and waits until it has ended
JournalEnded ==
    /\ up /\ switch.phase = "ending"
    /\ switch' = [switch EXCEPT !.phase = "opening"]
    /\ binds' = [binds EXCEPT ![Len(binds)].journal = "closed"]
    /\ UNCHANGED <<up, bound, file, engineVars, pageVars, lost, rash, counters>>

LastNumber(s) == IF file[s].seqs = <<>> THEN 0 ELSE file[s].seqs[Len(file[s].seqs)]

\* the journal of the other session is opened and loaded; openSession() appends session_resumed,
\* which nobody broadcasts; active.json and the index are still to be written
Attach ==
    /\ up /\ switch.phase = "opening"
    /\ switch' = [switch EXCEPT !.phase = "attached"]
    /\ LET s == switch.to
           resumed == IF switch.resume THEN 1 ELSE 0
       IN  /\ binds' = Append(binds, Bind(s, LastNumber(s) + resumed, "open", FALSE))
           /\ file' = [file EXCEPT ![s].seqs = @ \o Numbers(LastNumber(s), resumed)]
    /\ UNCHANGED <<up, bound, engineVars, pageVars, lost, rash, counters>>

\* Slip: the idle sweeper rolls the session and nobody rebinds.
RebindNobody ==
    /\ up /\ switch.phase = "attached"
    /\ switch' = Idle
    /\ UNCHANGED <<up, binds, bound, file, engineVars, pageVars, lost, rash, counters>>

\* Slip: the old object is disposed: it no longer listens, and its timers are cleared.
RebindDisposing ==
    /\ up /\ switch.phase = "attached"
    /\ switch' = Idle
    /\ bound' = Len(binds)
    /\ binds' = [b \in DOMAIN binds |->
                    [binds[b] EXCEPT !.live = (b = Len(binds)), !.armed = {}]]
    /\ UNCHANGED <<up, file, engineVars, pageVars, lost, rash, counters>>

\* the mutex is free; rebindSession()
Rebind ==
    /\ up /\ switch.phase = "attached"
    /\ switch' = Idle
    /\ bound' = Len(binds)
    /\ binds' = [binds EXCEPT ![Len(binds)].live = TRUE]
    /\ UNCHANGED <<up, file, engineVars, pageVars, lost, rash, counters>>

\* The daemon died of a write to an ending stream and is started again on active.json, which
\* still names the session that was being left.  Session.start() closes the turns open in its
\* journal, with two events each and a status.
Restart ==
    /\ ~up /\ restarts < MaxRestarts
    /\ restarts' = restarts + 1
    /\ up' = TRUE
    /\ LET s == binds[Len(binds)].sid
           n == 2 * Cardinality(file[s].open) + 1
       IN  /\ binds' = <<Bind(s, LastNumber(s) + n, "open", TRUE)>>
           /\ file' = [file EXCEPT ![s].seqs = @ \o Numbers(LastNumber(s), n), ![s].open = {}]
           /\ cursor' = IF LastNumber(s) + n > cursor THEN LastNumber(s) + n ELSE cursor
    /\ bound' = 1 /\ switch' = Idle
    /\ inbox' = <<>>
    /\ promise' = [r \in Requests |-> IF promise[r] = "blocked" THEN "deny" ELSE promise[r]]
    /\ UNCHANGED <<prompts, missed, lost, rash, sessions, lastTurn, events>>

-----------------------------------------------------------------------------
Switching ==
    \/ NewSession
    \/ \E s \in Sessions : OpenSession(s)
    \/ EndJournal \/ JournalEnded \/ Attach \/ Rebind

Next ==
    \/ StartTurn
    \/ IgnoreMessage
    \/ \E r \in Requests : \E decision \in {"approve", "deny"} : Answer(r, decision)
    \/ \E b \in DOMAIN binds, r \in Requests : TimeoutPermission(b, r)
    \/ AssistantMessage
    \/ \E r \in Requests : AskPermission(r)
    \/ TurnComplete
    \/ Switching
    \/ Restart

\* Timers fire, and the SDK ends a turn whose calls are settled.
Fairness ==
    /\ \A b \in 1..MaxBinds, r \in Requests : WF_vars(b \in DOMAIN binds /\ TimeoutPermission(b, r))
    /\ WF_vars(TurnComplete)

Spec == Init /\ [][Next]_vars /\ Fairness

-----------------------------------------------------------------------------
\* A journal holds each event number once and in order, although two Session objects of one
\* session may be at work: the session was left and opened again during a turn.
FileSeqsIncrease ==
    \A s \in Sessions : \A i \in 1..Len(file[s].seqs) - 1 : file[s].seqs[i] < file[s].seqs[i + 1]

\* The files and objects are of a shape the code knows, and journals are in order.
JournalInvariant == TypeOK /\ FileSeqsIncrease

\* A switch made while nothing is at work is safe: nothing that the session says is missing from
\* its journal, and no write meets a stream that is ending.
QuietSwitchLosesNothing == ~rash => up /\ ~lost

\* Every message and prompt of the engine reaches the page, although its cursor stays where the
\* last session left it and drops what a shorter session says: the object that was left still
\* speaks, under numbers that go on.  A turn_complete may be lost all the same: the status that
\* one object sends after it can have the number of the turn_complete of the next.
EngineIsHeard == restarts = 0 => missed \subseteq {"completion"}

\* A turn ends although its session is left in the middle of it, even when the prompt that it
\* waits for is known only to an object that nobody can answer.
TurnsEnd == \A t \in Turns : (up /\ t \in Range(inbox)) ~> (t \notin Range(inbox) \/ ~up)
=============================================================================
