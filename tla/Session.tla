------------------------------ MODULE Session -------------------------------
(***************************************************************************)
(* One Session (packages/daemon/src/session/Session.ts) driving one        *)
(* ClaudeAgentEngine, with the turn records of its journal: turns, the     *)
(* permission round trip with its timeout, interrupts, reconfiguration,    *)
(* ending, and recovery of a turn left open by a crash.                    *)
(*                                                                         *)
(* A step is one synchronous run of the daemon's event loop: a client      *)
(* command, a callback of the engine, or a timer.  Events pushed to the    *)
(* browsers are not kept here (see EventLog.tla) except the status of each *)
(* turn's turn_complete, in `outcome`.                                     *)
(***************************************************************************)
EXTENDS Policy, AgentEngine, Sequences, FiniteSets

CONSTANTS ToolOf,       \* the tool each request is for
          Commands,     \* optional client commands that occur in this instance
          PolicyUpdates,\* the policy_update commands that clients send
          Failures,     \* engine failures that occur: "query" loop throws, "restart" throws
          MaxRestarts   \* bound: times the daemon goes down

ASSUME SessionAssumption ==
    /\ ToolOf \in [Requests -> Tools]
    /\ Commands \subseteq {"session_config", "interrupt", "end"}
    /\ PolicyUpdates \subseteq [executionMode : Modes, allowTools : SUBSET Tools]
    /\ Failures \subseteq {"query", "restart"}
    /\ MaxRestarts \in Nat

VARIABLES up,            \* the daemon process is running and start() has returned
          restarts,      \* times the daemon went down
          state,         \* Session.state, as shown by the last session_status
          currentTurn,   \* Session.currentTurnId
          lastTurn,      \* turn ids are fresh: the last one handed out
          armed,         \* Session.pending: prompts shown to the user, each with a running timer
          resumeContext, \* Session.pendingResumeContext is set
          sending,       \* startTurn() is suspended in engine.send()
          log,           \* what was written to the journal's file, in order
          flushed        \* how much of it the last start found in the file

\* History variables, written by the steps and read by properties only.
VARIABLES firstWord,     \* what first spoke on each request: policy, client, timeout, interrupt
          dropped,       \* prompts that ending the session dropped
          stopped,       \* turns a client interrupted, once their message was with the SDK
          outcome,       \* status of the turn_complete announced for each turn
          carried,       \* last turn whose send() passed a resume context
          applied        \* last turn whose query was started with a resume context

processVars == <<up, restarts>>
turnVars == <<currentTurn, lastTurn, sending, resumeContext>>
journalVars == <<log, flushed>>
callHistory == <<firstWord, dropped>>
turnHistory == <<stopped, outcome>>
contextHistory == <<carried, applied>>
vars == <<policyVars, engineVars, processVars, state, turnVars, armed, journalVars,
          callHistory, turnHistory, contextHistory>>

\* Of the events only the status that a start ends with is kept: it may complete a line of before.
TurnStart(t) == [kind |-> "turn_start", turn |-> t]
TurnEnd(t) == [kind |-> "turn_end", turn |-> t]
StatusEvent == [kind |-> "event", turn |-> NoTurn]
Records == {TurnStart(t) : t \in Turns} \cup {TurnEnd(t) : t \in Turns} \cup {StatusEvent}

\* What is left in the file of a record appended to it: its line; all but the newline; or part of it.
Writes == [record : Records, left : {"line", "bare", "part"}]
Line(record) == [record |-> record, left |-> "line"]
Bare(record) == [record |-> record, left |-> "bare"]
Fragment == [record |-> StatusEvent, left |-> "part"]

\* readAll(): what follows a record without newline is on its line, and such a line does not parse
Legible(file) ==
    {i \in DOMAIN file :
        /\ file[i].left # "part"
        /\ i > 1 => file[i - 1].left = "line"
        /\ i < Len(file) => file[i].left = "line"}

\* SessionStorage.load(): a turn is dirty when no turn_end follows its turn_start
OpenTurns(file) ==
    {t \in Turns : \E i \in Legible(file) :
        /\ file[i].record = TurnStart(t)
        /\ \A j \in Legible(file) : j > i => file[j].record # TurnEnd(t)}

SessionTypeOK ==
    /\ up \in BOOLEAN
    /\ state \in {"idle", "thinking", "tool-running", "awaiting-approval", "ended"}
    /\ currentTurn \in Turns \cup {NoTurn}
    /\ lastTurn \in Turns \cup {NoTurn}
    /\ armed \subseteq Requests
    /\ resumeContext \in BOOLEAN
    /\ sending \in BOOLEAN
    /\ restarts \in 0..MaxRestarts

JournalTypeOK ==
    /\ log \in Seq(Writes)
    /\ flushed \in 0..Len(log)

HistoryTypeOK ==
    /\ firstWord \in [Requests -> {"none", "policy", "approve", "deny", "timeout", "interrupt"}]
    /\ dropped \subseteq Requests
    /\ stopped \subseteq Turns
    /\ outcome \in [Turns -> {"none", "ok", "error", "interrupted"}]
    /\ carried \in Turns \cup {NoTurn}
    /\ applied \in Turns \cup {NoTurn}

TypeOK ==
    /\ PolicyTypeOK
    /\ EngineTypeOK
    /\ SessionTypeOK
    /\ JournalTypeOK
    /\ HistoryTypeOK

\* a Session the Daemon has just bound, at boot or (with a context) by open_session
Init ==
    /\ PolicyInit
    /\ EngineInit
    /\ up = TRUE
    /\ state = "idle"
    /\ currentTurn = NoTurn
    /\ lastTurn = NoTurn
    /\ armed = {}
    /\ resumeContext \in BOOLEAN
    /\ sending = FALSE
    /\ log = <<>>
    /\ flushed = 0
    /\ restarts = 0
    /\ firstWord = [r \in Requests |-> "none"]
    /\ stopped = {}
    /\ dropped = {}
    /\ outcome = [t \in Turns |-> "none"]
    /\ carried = NoTurn
    /\ applied = NoTurn

\* the first of policy, client, timer and interrupt to speak on a live request
Speak(rs, word) ==
    firstWord' = [r \in Requests |->
        IF r \in rs /\ callTurn'[r] # NoTurn /\ firstWord[r] = "none" THEN word ELSE firstWord[r]]

-----------------------------------------------------------------------------
(* Turns.                                                                  *)

\* Slip: a message sent during a turn starts another one.
StartTurnUnguarded ==
    /\ up
    /\ lastTurn < MaxTurns
    /\ LET t == lastTurn + 1 IN
        /\ lastTurn' = t
        /\ currentTurn' = t
        /\ log' = Append(log, Line(TurnStart(t)))
        /\ state' = "thinking"
        /\ resumeContext' = FALSE
        /\ carried' = IF resumeContext THEN t ELSE carried
        /\ \/ SendNow(t, resumeContext) /\ sending' = FALSE
           \/ BeginRestart(resumeContext) /\ sending' = TRUE
    /\ UNCHANGED <<policyVars, processVars, armed, flushed, callHistory, turnHistory, applied>>

\* startTurn() up to engine.send(): a message during a turn is only warned about
StartTurn ==
    /\ up /\ currentTurn = NoTurn
    /\ lastTurn < MaxTurns
    /\ LET t == lastTurn + 1 IN
        /\ lastTurn' = t
        /\ currentTurn' = t
        /\ log' = Append(log, Line(TurnStart(t)))
        /\ state' = "thinking"
        /\ resumeContext' = FALSE
        /\ carried' = IF resumeContext THEN t ELSE carried
        /\ \/ SendNow(t, resumeContext) /\ sending' = FALSE
           \/ BeginRestart(resumeContext) /\ sending' = TRUE
    /\ UNCHANGED <<policyVars, processVars, armed, flushed, callHistory, turnHistory, applied>>

\* startQuery() returned: the awaited send() pushes the message to the new query
SendAfterRestart ==
    /\ up /\ sending
    /\ FinishRestart(currentTurn)
    /\ sending' = FALSE
    /\ applied' = IF extension THEN currentTurn ELSE applied
    /\ UNCHANGED <<policyVars, processVars, state, currentTurn, lastTurn, resumeContext, armed,
                   journalVars, callHistory, turnHistory, carried>>

CompleteTurn(status) ==
    /\ log' = IF currentTurn # NoTurn THEN Append(log, Line(TurnEnd(currentTurn))) ELSE log
    /\ currentTurn' = NoTurn
    /\ outcome' = [t \in Turns |-> IF t = currentTurn THEN status ELSE outcome[t]]
    /\ state' = "idle"

\* startQuery() threw: startTurn's catch completes the turn
SendFails ==
    /\ "restart" \in Failures
    /\ up /\ sending
    /\ FailRestart
    /\ CompleteTurn("error")
    /\ sending' = FALSE
    /\ UNCHANGED <<policyVars, processVars, lastTurn, resumeContext, armed, flushed,
                   callHistory, stopped, contextHistory>>

\* engine turn_complete event
OnTurnComplete ==
    /\ up
    /\ Result
    /\ \E status \in ResultStatuses : CompleteTurn(status)
    /\ UNCHANGED <<policyVars, processVars, lastTurn, sending, resumeContext, armed, flushed,
                   callHistory, stopped, contextHistory>>

\* engine tool_use event
OnToolUse ==
    /\ up
    /\ sdkTurn # NoTurn
    /\ state' = "tool-running"
    /\ UNCHANGED <<policyVars, engineVars, processVars, turnVars, armed, journalVars,
                   callHistory, turnHistory, contextHistory>>

\* engine error event: pushed to the browsers, and nothing else
OnEngineError ==
    /\ "query" \in Failures
    /\ up
    /\ LoopThrows
    /\ UNCHANGED <<policyVars, processVars, state, turnVars, armed, journalVars,
                   callHistory, turnHistory, contextHistory>>

\* interrupt: forwarded to the engine; Session.pending keeps its prompts and timers
InterruptTurn ==
    /\ "interrupt" \in Commands
    /\ up
    /\ Interrupt
    /\ stopped' = IF sending THEN stopped ELSE stopped \cup ({currentTurn} \ {NoTurn})
    /\ Speak(Blocked, "interrupt")
    /\ UNCHANGED <<policyVars, processVars, state, turnVars, armed, journalVars,
                   dropped, outcome, contextHistory>>

SessionConfig ==
    /\ "session_config" \in Commands
    /\ up
    /\ Configure
    /\ UNCHANGED <<policyVars, processVars, state, turnVars, armed, journalVars,
                   callHistory, turnHistory, contextHistory>>

-----------------------------------------------------------------------------
(* The permission round trip.                                              *)

\* canUseTool -> onEnginePermission(): settled by policy at once, or prompted with a timer
OnEnginePermission(r) ==
    /\ up
    /\ Ask(r)
    /\ IF AutoApproves(ToolOf[r])
       THEN /\ promise' = [promise EXCEPT ![r] = "approve"]
            /\ Speak({r}, "policy")
            /\ UNCHANGED <<armed, state>>
       ELSE /\ promise' = [promise EXCEPT ![r] = "blocked"]
            /\ armed' = armed \cup {r}
            /\ state' = "awaiting-approval"
            /\ UNCHANGED firstWord
    /\ UNCHANGED <<policyVars, processVars, turnVars, journalVars,
                   dropped, turnHistory, contextHistory>>

\* Slip: the answer clears the prompt and its timer but is not passed to the engine.
ResolveWithoutEngine(r, decision, scope) ==
    /\ up
    /\ IF r \in armed
       THEN /\ armed' = armed \ {r}
            /\ UNCHANGED engineVars
            /\ IF decision = "approve" /\ scope = "session"
               THEN AllowForSession(ToolOf[r])
               ELSE UNCHANGED policyVars
       ELSE UNCHANGED <<armed, engineVars, policyVars>>
    /\ Speak({r}, decision)
    /\ UNCHANGED <<processVars, state, turnVars, journalVars,
                   dropped, turnHistory, contextHistory>>

\* permission_response for any id; one that is not pending never reaches the engine
ResolvePermission(r, decision, scope) ==
    /\ up
    /\ IF r \in armed
       THEN /\ armed' = armed \ {r}
            /\ Settle(r, decision)
            /\ IF decision = "approve" /\ scope = "session"
               THEN AllowForSession(ToolOf[r])
               ELSE UNCHANGED policyVars
       ELSE UNCHANGED <<armed, engineVars, policyVars>>
    /\ Speak({r}, decision)
    /\ UNCHANGED <<processVars, state, turnVars, journalVars,
                   dropped, turnHistory, contextHistory>>

\* Slip: the timer clears the prompt without denying the call.
TimeoutWithoutDeny(r) ==
    /\ up
    /\ r \in armed
    /\ armed' = armed \ {r}
    /\ UNCHANGED engineVars
    /\ Speak({r}, "timeout")
    /\ UNCHANGED <<policyVars, processVars, state, turnVars, journalVars,
                   dropped, turnHistory, contextHistory>>

\* Slip: the call is settled with an outcome of the timer's own, neither approve nor deny.
TimeoutAsOutcome(r) ==
    /\ up
    /\ r \in armed
    /\ armed' = armed \ {r}
    /\ Settle(r, "timeout")
    /\ Speak({r}, "timeout")
    /\ UNCHANGED <<policyVars, processVars, state, turnVars, journalVars,
                   dropped, turnHistory, contextHistory>>

TimeoutPermission(r) ==
    /\ up
    /\ r \in armed
    /\ armed' = armed \ {r}
    /\ Settle(r, "deny")
    /\ Speak({r}, "timeout")
    /\ UNCHANGED <<policyVars, processVars, state, turnVars, journalVars,
                   dropped, turnHistory, contextHistory>>

PolicyUpdate(update) ==
    /\ up
    /\ UpdatePolicy(update.executionMode, update.allowTools)
    /\ UNCHANGED <<engineVars, processVars, state, turnVars, armed, journalVars,
                   callHistory, turnHistory, contextHistory>>

\* session_control "end": prompts and timers are dropped, the engine is not told
EndSession ==
    /\ "end" \in Commands
    /\ up
    /\ armed' = {}
    /\ dropped' = dropped \cup armed
    /\ state' = "ended"
    /\ UNCHANGED <<policyVars, engineVars, processVars, turnVars, journalVars,
                   firstWord, turnHistory, contextHistory>>

-----------------------------------------------------------------------------
(* Going down and coming back.                                             *)

\* the process ends, and leaves the journal so
Down(file) ==
    /\ up
    /\ restarts < MaxRestarts
    /\ restarts' = restarts + 1
    /\ up' = FALSE
    /\ EngineDown
    /\ log' = file
    /\ armed' = {}
    /\ currentTurn' = NoTurn
    /\ sending' = FALSE
    /\ resumeContext' = FALSE
    /\ mode' = "manual" /\ allow' = {}
    /\ UNCHANGED <<state, lastTurn, flushed, callHistory, turnHistory, contextHistory>>

\* a crash loses any suffix of what was written to the stream since the last load: the file ends
\* after the newline of the nth record, inside the next one (which may be an event), or before the
\* newline of the nth
Remains(n) ==
    {SubSeq(log, 1, n), Append(SubSeq(log, 1, n), Fragment)}
        \cup (IF n > flushed THEN {Append(SubSeq(log, 1, n - 1), Bare(log[n].record))} ELSE {})

Crash == \E n \in flushed..Len(log) : \E file \in Remains(n) : Down(file)

\* SIGTERM: Session.dispose(), then the journal is closed, which flushes it
Dispose == Down(log)

\* every order in which a loop may visit the elements of a set
Orders(S) == {s \in [1..Cardinality(S) -> S] : \A x \in S : \E i \in DOMAIN s : s[i] = x}

\* Slip: dirty turns are announced but not closed in the journal.
StartLeavingTurnsOpen ==
    /\ ~up
    /\ up' = TRUE
    /\ Connect
    /\ flushed' = Len(log)
    /\ LET dirty == OpenTurns(log) IN
        /\ log' = Append(log, Line(StatusEvent))
        /\ outcome' = [t \in Turns |-> IF t \in dirty THEN "error" ELSE outcome[t]]
    /\ state' = "idle"
    /\ UNCHANGED <<policyVars, restarts, turnVars, armed,
                   callHistory, stopped, contextHistory>>

\* start(): connect, load the journal, close its dirty turns with an error, and push a status; the
\* first of these records goes to the line a crash has left without its end
Start ==
    /\ ~up
    /\ up' = TRUE
    /\ Connect
    /\ flushed' = Len(log)
    /\ LET dirty == OpenTurns(log) IN
        /\ \E order \in Orders(dirty) :
              log' = log \o [i \in DOMAIN order |-> Line(TurnEnd(order[i]))] \o <<Line(StatusEvent)>>
        /\ outcome' = [t \in Turns |-> IF t \in dirty THEN "error" ELSE outcome[t]]
    /\ state' = "idle"
    /\ UNCHANGED <<policyVars, restarts, turnVars, armed,
                   callHistory, stopped, contextHistory>>

-----------------------------------------------------------------------------

ClientStep ==
    \/ StartTurn
    \/ InterruptTurn
    \/ SessionConfig
    \/ \E update \in PolicyUpdates : PolicyUpdate(update)
    \/ EndSession
    \/ \E r \in Requests, decision \in {"approve", "deny"}, scope \in {"once", "session"} :
          ResolvePermission(r, decision, scope)

EngineStep ==
    \/ SendAfterRestart
    \/ SendFails
    \/ OnTurnComplete
    \/ OnToolUse
    \/ OnEngineError
    \/ \E r \in Requests : OnEnginePermission(r)

Next ==
    \/ ClientStep
    \/ EngineStep
    \/ \E r \in Requests : TimeoutPermission(r)
    \/ Crash
    \/ Dispose
    \/ Start

Spec == Init /\ [][Next]_vars

\* Timers fire, an import completes, and the SDK answers a turn whose tool calls are all settled.
\* Clients owe nothing; a daemon that is down is started again.
Fairness ==
    /\ WF_vars(SendAfterRestart \/ SendFails)
    /\ WF_vars(OnTurnComplete)
    /\ \A r \in Requests : WF_vars(TimeoutPermission(r))
    /\ WF_vars(Start)

FairSpec == Spec /\ Fairness

-----------------------------------------------------------------------------
(* What the component promises.                                            *)

\* Default deny (Session.ts:9): a call is allowed only when policy or a client's approval was the
\* first thing to speak on it: once denied, timed out or interrupted no later answer revives it.
\* Nor is a call denied that was first approved, unless ending the session discarded the prompt.
FirstWordDecides ==
    \A r \in Requests :
        /\ promise[r] = "approve" => firstWord[r] \in {"policy", "approve"}
        /\ promise[r] = "deny" => firstWord[r] \in {"deny", "timeout", "interrupt"} \/ r \in dropped

\* messages.ts:278, "the daemon will default-deny if unanswered": every call the SDK is blocked on
\* has a prompt whose timer is running, through interrupts, answers and restarts, but for the one
\* command that breaks it: endSession() clears Session.pending and its timers.
OnlyEndDropsTimers == \A r \in Blocked : r \in armed \cup dropped

\* Dirty-exit detection (Session.ts:222): while the daemon runs, a crash now is recovered as the
\* running turn, and no other turn would be reported as aborted.  Excepted is a turn whose turn_end no
\* load can read: the record that the last crash left without its newline, or the first one written
\* after it.  Nothing else is lost to torn lines, whatever earlier crashes did: each start repairs it.
JournalMatchesTurn ==
    up =>
        /\ currentTurn # NoTurn => currentTurn \in OpenTurns(log)
        /\ \A t \in OpenTurns(log) \ {currentTurn} :
              \E i \in DOMAIN log \ Legible(log) :
                  i \in {flushed, flushed + 1} /\ log[i].record = TurnEnd(t)

\* Session.completeTurn() closes currentTurnId whatever turn the engine's event was about: the turn
\* the SDK is answering is therefore always the current one.
EngineAnswersCurrentTurn == sdkTurn # NoTurn => sdkTurn = currentTurn

\* The browser's composer follows session_status: idle is shown exactly while no turn runs.
IdleIffNoTurn == up /\ state # "ended" => (state = "idle" <=> currentTurn = NoTurn)

\* Engine, Session and browser never disagree on which turn is running, if any: the SDK, currentTurnId
\* and the status shown change in steps of their own, through failing restarts, interrupts and crashes.
TurnsAgree == EngineAnswersCurrentTurn /\ IdleIffNoTurn

\* A turn is reported "interrupted" only if a client interrupted that very turn: the engine's
\* `interrupted` flag never leaks from an idle moment or an earlier turn.
InterruptedIsHonest == \A t \in Turns : outcome[t] = "interrupted" => t \in stopped

\* IAgentEngine.ts:80, "Stop the in-flight turn. Emits a turn_complete with status interrupted": an
\* interrupted turn is never reported as having completed normally, but for an interrupt that falls
\* into send()'s await of startQuery(): send() then resets the flag that the interrupt has set.
InterruptHonouredOnceSent == \A t \in stopped : outcome[t] # "ok"

\* What a turn_complete says of interruption is true both ways: the flag that decides it is set in one
\* callback, cleared in another, and read when the SDK's result comes.
InterruptsAreHonest == InterruptedIsHonest /\ InterruptHonouredOnceSent

\* IAgentEngine.ts:65-67, "a one-shot system-prompt extension prepended for THIS turn only": a query
\* is given a resume context only for the turn whose send() passed it.
ContextForItsTurnOnly == applied # NoTurn => applied = carried

-----------------------------------------------------------------------------
(* Inductive strengthenings.                                               *)

\* a start completes the line that a crash has left: what is written next has a line of its own
JournalInvariant ==
    /\ JournalMatchesTurn
    /\ up /\ log # <<>> => log[Len(log)].left = "line"

\* a call has no history before it is asked; a live prompt was never dropped; nothing has spoken
\* on a call the SDK is still blocked on, unless its prompt was dropped and answers are ignored
CallInvariant ==
    /\ FirstWordDecides
    /\ OnlyEndDropsTimers
    /\ armed \cap dropped = {}
    /\ \A r \in Requests :
        /\ promise[r] = "unused" <=> callTurn[r] = NoTurn
        /\ callTurn[r] = NoTurn => firstWord[r] = "none" /\ r \notin armed \cup dropped
        /\ promise[r] = "blocked" => firstWord[r] = "none" \/ r \in dropped

\* the SDK's turn, the session's turn and the suspended send() agree, and the engine's flag says
\* whether the running SDK turn was interrupted; a turn not yet over has no normal outcome
TurnInvariant ==
    /\ EngineAnswersCurrentTurn
    /\ IdleIffNoTurn
    /\ InterruptedIsHonest
    /\ InterruptHonouredOnceSent
    /\ sending => currentTurn # NoTurn /\ sdkTurn = NoTurn /\ currentTurn \notin stopped
    /\ ~up => currentTurn = NoTurn /\ sdkTurn = NoTurn /\ ~sending
    /\ currentTurn <= lastTurn
    /\ sdkTurn # NoTurn => (interrupted <=> sdkTurn \in stopped)
    /\ \A t \in Turns : t > lastTurn \/ t = currentTurn => outcome[t] \notin {"ok", "interrupted"}
    /\ \A t \in Turns : t > lastTurn => t \notin stopped

-----------------------------------------------------------------------------
(* Liveness.                                                               *)

\* Nobody will end the running turn: its query is gone, or "end" dropped the prompt it waits for.
Abandoned == \/ query = "closed" /\ ~sending
             \/ \E r \in Blocked : r \in dropped

\* A turn the session accepted completes, or the daemon goes down, unless it is abandoned.
TurnsComplete ==
    \A t \in Turns : (up /\ currentTurn = t) ~> (currentTurn # t \/ Abandoned)

\* A call the SDK is blocked on is settled by an answer, an interrupt, its timer or a restart,
\* unless ending the session dropped its prompt.
CallsAreSettled ==
    \A r \in Requests : (promise[r] = "blocked") ~> (promise[r] # "blocked" \/ r \in dropped)
=============================================================================
