--------------------------- MODULE SessionProofs ----------------------------
(***************************************************************************)
(* Theorems about Session, for any set of tool calls, any bounds and any   *)
(* choice of the optional commands and failures.                           *)
(***************************************************************************)
EXTENDS Session, FiniteSetTheorems, SequenceTheorems, TLAPS

-----------------------------------------------------------------------------
(* The journal.                                                            *)

\* The turns a journal leaves open are finitely many turns: start() can visit them all.
LEMMA OpenTurnsFinite ==
    ASSUME NEW records
    PROVE  IsFiniteSet(OpenTurns(records))
<1>1. OpenTurns(records) \subseteq 1..MaxTurns
  BY DEF OpenTurns, Turns
<1>2. IsFiniteSet(1..MaxTurns)
  BY MaxTurnsAssumption, FS_Interval
<1> QED
  BY <1>1, <1>2, FS_Subset

\* The turn_end records that start() writes for the dirty turns of a journal form a sequence of
\* lines with one for each dirty turn.
LEMMA OrdersGiveLines ==
    ASSUME NEW file,
           NEW order \in Orders(OpenTurns(file))
    PROVE  /\ [i \in DOMAIN order |-> Line(TurnEnd(order[i]))] \in Seq(Writes)
           /\ \A t \in OpenTurns(file) : \E i \in DOMAIN order : order[i] = t
           /\ DOMAIN order = 1..Len([i \in DOMAIN order |-> Line(TurnEnd(order[i]))])
           /\ \A i \in DOMAIN order : order[i] \in Turns
<1> DEFINE n == Cardinality(OpenTurns(file))
<1>1. n \in Nat
  BY OpenTurnsFinite, FS_CardinalityType
<1>2. order \in [1..n -> OpenTurns(file)]
  BY DEF Orders
<1>3. OpenTurns(file) \subseteq Turns
  BY DEF OpenTurns
<1>4. [i \in DOMAIN order |-> Line(TurnEnd(order[i]))] \in [1..n -> Writes]
  BY <1>2, <1>3 DEF Records, Writes, Line
<1>5. \A t \in OpenTurns(file) : \E i \in DOMAIN order : order[i] = t
  BY DEF Orders
<1> HIDE DEF n
<1> QED
  BY <1>1, <1>2, <1>3, <1>4, <1>5

\* A start leaves the journal with the lines of its turn_end records and of its status appended.
LEMMA StartAppendsLines ==
    ASSUME TypeOK, Start
    PROVE  \E order \in Orders(OpenTurns(log)) :
              /\ log' = log \o Append([i \in DOMAIN order |-> Line(TurnEnd(order[i]))], Line(StatusEvent))
              /\ Append([i \in DOMAIN order |-> Line(TurnEnd(order[i]))], Line(StatusEvent)) \in Seq(Writes)
<1>1. PICK order \in Orders(OpenTurns(log)) :
          log' = log \o [i \in DOMAIN order |-> Line(TurnEnd(order[i]))] \o <<Line(StatusEvent)>>
  BY DEF Start
<1> DEFINE ends == [i \in DOMAIN order |-> Line(TurnEnd(order[i]))]
<1>2. ends \in Seq(Writes)
  BY OrdersGiveLines
<1>3. Line(StatusEvent) \in Writes
  BY DEF Line, Writes, Records
<1>4. log \in Seq(Writes)
  BY DEF TypeOK, JournalTypeOK
<1>5. log' = log \o ends \o <<Line(StatusEvent)>>
  BY <1>1
<1> HIDE DEF ends
<1>6. Append(ends, Line(StatusEvent)) \in Seq(Writes)
  BY <1>2, <1>3, AppendProperties
<1>7. Append(ends, Line(StatusEvent)) = ends \o <<Line(StatusEvent)>>
  BY <1>2, <1>3, AppendIsConcat
<1>8. <<Line(StatusEvent)>> \in Seq(Writes)
  BY <1>3
<1>9. (log \o ends) \o <<Line(StatusEvent)>> = log \o (ends \o <<Line(StatusEvent)>>)
  BY <1>2, <1>4, <1>8, ConcatAssociative
<1> QED
  BY <1>5, <1>6, <1>7, <1>9 DEF ends

\* What a crash leaves of the journal is a sequence of writes no shorter than what the last load found.
LEMMA RemainsAreWrites ==
    ASSUME JournalTypeOK, NEW n \in flushed..Len(log), NEW file \in Remains(n)
    PROVE  file \in Seq(Writes) /\ flushed \in 0..Len(file)
<1>1. log \in Seq(Writes) /\ flushed \in Nat /\ n \in 0..Len(log) /\ n >= flushed
  BY DEF JournalTypeOK
<1>2. ASSUME NEW k \in 0..Len(log) PROVE SubSeq(log, 1, k) \in Seq(Writes) /\ Len(SubSeq(log, 1, k)) = k
  BY <1>1
<1>3. Fragment \in Writes
  BY DEF Fragment, Writes, Records
<1>4. CASE file = SubSeq(log, 1, n)
  BY <1>1, <1>2, <1>4
<1>5. CASE file = Append(SubSeq(log, 1, n), Fragment)
  <2>1. file \in Seq(Writes) /\ Len(file) = n + 1
    BY <1>1, <1>2, <1>3, <1>5
  <2> QED
    BY <1>1, <2>1
<1>6. CASE n > flushed /\ file = Append(SubSeq(log, 1, n - 1), Bare(log[n].record))
  <2>1. n \in 1..Len(log) /\ n - 1 \in 0..Len(log)
    BY <1>1, <1>6
  <2>2. log[n] \in Writes
    BY <1>1, <2>1
  <2>3. Bare(log[n].record) \in Writes
    BY <2>2 DEF Bare, Writes
  <2>4. file \in Seq(Writes) /\ Len(file) = n
    BY <1>1, <1>2, <1>6, <2>1, <2>3
  <2> QED
    BY <1>1, <2>4
<1> QED
  BY <1>4, <1>5, <1>6 DEF Remains

-----------------------------------------------------------------------------
(* Type correctness.                                                       *)

\* A freshly bound Session has well-typed state.
LEMMA InitTypeOK == Init => TypeOK
<1> SUFFICES ASSUME Init PROVE TypeOK
  OBVIOUS
<1>1. PolicyTypeOK
  BY DEF Init, PolicyInit, PolicyTypeOK, Modes
<1>2. EngineTypeOK
  BY DEF Init, EngineInit, EngineTypeOK
<1>3. SessionTypeOK
  <2>1. restarts \in 0..MaxRestarts
    BY SessionAssumption DEF Init
  <2> QED
    BY <2>1, Zenon DEF Init, SessionTypeOK
<1>4. JournalTypeOK
  BY DEF Init, JournalTypeOK
<1>5. HistoryTypeOK
  BY DEF Init, HistoryTypeOK
<1> QED
  BY <1>1, <1>2, <1>3, <1>4, <1>5 DEF TypeOK

\* Every step keeps the policy well typed: only policy_update, approvals for the session and going
\* down change it.
LEMMA NextPolicyTypeOK == PolicyTypeOK /\ [Next]_vars => PolicyTypeOK'
<1> SUFFICES ASSUME PolicyTypeOK, [Next]_vars PROVE PolicyTypeOK'
  OBVIOUS
<1> USE SessionAssumption DEF PolicyTypeOK
<1>1. ASSUME UNCHANGED policyVars PROVE PolicyTypeOK'
  BY <1>1 DEF policyVars
<1>2. ASSUME NEW update \in PolicyUpdates, PolicyUpdate(update) PROVE PolicyTypeOK'
  BY <1>2 DEF PolicyUpdate, UpdatePolicy
<1>3. ASSUME NEW r \in Requests, NEW decision, NEW scope, ResolvePermission(r, decision, scope)
      PROVE  PolicyTypeOK'
  BY <1>3 DEF ResolvePermission, AllowForSession, policyVars
<1>4. CASE Crash \/ Dispose
  BY <1>4 DEF Crash, Dispose, Down, Modes
<1> QED
  BY <1>1, <1>2, <1>3, <1>4
  DEF Next, ClientStep, EngineStep, vars, StartTurn, SendAfterRestart, SendFails, OnTurnComplete,
      OnToolUse, OnEngineError, InterruptTurn, SessionConfig, OnEnginePermission,
      TimeoutPermission, EndSession, Start

\* Every step keeps the engine's fields well typed.
LEMMA NextEngineTypeOK == TypeOK /\ [Next]_vars => EngineTypeOK'
<1> USE DEF EngineTypeOK, engineVars
<1> SUFFICES ASSUME TypeOK, [Next]_vars PROVE EngineTypeOK'
  OBVIOUS
<1>1. CASE StartTurn
  <2>1. lastTurn + 1 \in Turns
    BY <1>1, MaxTurnsAssumption DEF StartTurn, TypeOK, SessionTypeOK, Turns, NoTurn
  <2>2. CASE SendNow(lastTurn + 1, resumeContext)
    BY <2>1, <2>2 DEF SendNow, TypeOK, SessionTypeOK
  <2>3. CASE BeginRestart(resumeContext)
    BY <2>3 DEF BeginRestart, TypeOK, SessionTypeOK
  <2> QED
    BY <1>1, <2>2, <2>3 DEF StartTurn
<1>2. CASE SendAfterRestart \/ SendFails
  BY <1>2 DEF SendAfterRestart, SendFails, FinishRestart, FailRestart, TypeOK, SessionTypeOK
<1>3. CASE OnTurnComplete \/ OnToolUse \/ OnEngineError
  BY <1>3 DEF OnTurnComplete, OnToolUse, OnEngineError, Result, LoopThrows, TypeOK
<1>4. CASE InterruptTurn \/ SessionConfig
  BY <1>4 DEF InterruptTurn, SessionConfig, Interrupt, Configure, TypeOK
<1>5. ASSUME NEW r \in Requests, OnEnginePermission(r) PROVE EngineTypeOK'
  BY <1>5 DEF OnEnginePermission, Ask, TypeOK
<1>6. ASSUME NEW r \in Requests, NEW decision \in {"approve", "deny"}, NEW scope,
             ResolvePermission(r, decision, scope)
      PROVE  EngineTypeOK'
  BY <1>6 DEF ResolvePermission, Settle, TypeOK
<1>7. ASSUME NEW r \in Requests, TimeoutPermission(r) PROVE EngineTypeOK'
  BY <1>7 DEF TimeoutPermission, Settle, TypeOK
<1>8. CASE EndSession \/ \E update \in PolicyUpdates : PolicyUpdate(update)
  BY <1>8 DEF EndSession, PolicyUpdate, TypeOK
<1>9. CASE Crash \/ Dispose
  BY <1>9 DEF Crash, Dispose, Down, EngineDown, TypeOK
<1>10. CASE Start
  BY <1>10 DEF Start, Connect, TypeOK
<1>11. CASE UNCHANGED vars
  BY <1>11 DEF vars, TypeOK
<1> QED
  BY <1>1, <1>2, <1>3, <1>4, <1>5, <1>6, <1>7, <1>8, <1>9, <1>10, <1>11
  DEF Next, ClientStep, EngineStep

\* Every step keeps the Session's own fields well typed.
LEMMA NextSessionTypeOK == TypeOK /\ [Next]_vars => SessionTypeOK'
<1> USE DEF SessionTypeOK, processVars, turnVars
<1> SUFFICES ASSUME TypeOK, [Next]_vars PROVE SessionTypeOK'
  OBVIOUS
<1>1. CASE StartTurn
  <2>1. lastTurn + 1 \in Turns
    BY <1>1, MaxTurnsAssumption DEF StartTurn, TypeOK, Turns, NoTurn
  <2> QED
    BY <1>1, <2>1 DEF StartTurn, TypeOK
<1>2. CASE SendAfterRestart \/ SendFails
  BY <1>2 DEF SendAfterRestart, SendFails, CompleteTurn, TypeOK
<1>3. CASE OnTurnComplete \/ OnToolUse \/ OnEngineError
  BY <1>3 DEF OnTurnComplete, OnToolUse, OnEngineError, CompleteTurn, TypeOK
<1>4. CASE InterruptTurn \/ SessionConfig
  BY <1>4 DEF InterruptTurn, SessionConfig, TypeOK
<1>5. ASSUME NEW r \in Requests, OnEnginePermission(r) PROVE SessionTypeOK'
  BY <1>5 DEF OnEnginePermission, TypeOK
<1>6. ASSUME NEW r \in Requests, NEW decision, NEW scope, ResolvePermission(r, decision, scope)
      PROVE  SessionTypeOK'
  BY <1>6 DEF ResolvePermission, TypeOK
<1>7. ASSUME NEW r \in Requests, TimeoutPermission(r) PROVE SessionTypeOK'
  BY <1>7 DEF TimeoutPermission, TypeOK
<1>8. CASE EndSession \/ \E update \in PolicyUpdates : PolicyUpdate(update)
  BY <1>8 DEF EndSession, PolicyUpdate, TypeOK
<1>9. CASE Crash \/ Dispose
  <2>1. restarts' \in 0..MaxRestarts
    BY <1>9, SessionAssumption DEF Crash, Dispose, Down, TypeOK
  <2> QED
    BY <1>9, <2>1 DEF Crash, Dispose, Down, TypeOK
<1>10. CASE Start
  BY <1>10 DEF Start, TypeOK
<1>11. CASE UNCHANGED vars
  BY <1>11 DEF vars, TypeOK
<1> QED
  BY <1>1, <1>2, <1>3, <1>4, <1>5, <1>6, <1>7, <1>8, <1>9, <1>10, <1>11
  DEF Next, ClientStep, EngineStep

\* Every step keeps the journal a sequence of writes, with what a load has found no longer than it.
LEMMA NextJournalTypeOK == TypeOK /\ [Next]_vars => JournalTypeOK'
<1> USE DEF JournalTypeOK, journalVars
<1> SUFFICES ASSUME TypeOK, [Next]_vars PROVE JournalTypeOK'
  OBVIOUS
<1>1. ASSUME UNCHANGED journalVars PROVE JournalTypeOK'
  BY <1>1 DEF TypeOK
<1>2. ASSUME NEW record \in Records, log' = Append(log, Line(record)), UNCHANGED flushed
      PROVE  JournalTypeOK'
  <2>1. Line(record) \in Writes
    BY DEF Line, Writes
  <2> QED
    BY <1>2, <2>1 DEF TypeOK
<1>3. CASE StartTurn
  <2>1. lastTurn + 1 \in Turns
    BY <1>3, MaxTurnsAssumption DEF StartTurn, TypeOK, SessionTypeOK, Turns, NoTurn
  <2>2. TurnStart(lastTurn + 1) \in Records
    BY <2>1 DEF Records
  <2> QED
    BY <1>2, <1>3, <2>2 DEF StartTurn
<1>4. ASSUME NEW status, CompleteTurn(status), UNCHANGED flushed PROVE JournalTypeOK'
  <2>1. CASE currentTurn = NoTurn
    BY <1>4, <2>1 DEF CompleteTurn, TypeOK
  <2>2. CASE currentTurn # NoTurn
    <3>1. TurnEnd(currentTurn) \in Records
      BY <2>2 DEF TypeOK, SessionTypeOK, Records
    <3> QED
      BY <1>2, <1>4, <2>2, <3>1 DEF CompleteTurn
  <2> QED
    BY <2>1, <2>2
<1>5. CASE SendFails \/ OnTurnComplete
  BY <1>4, <1>5 DEF SendFails, OnTurnComplete
<1>6. CASE Crash
  <2>0. PICK n \in flushed..Len(log) : \E file \in Remains(n) : Down(file)
    BY <1>6 DEF Crash
  <2>1. PICK file \in Remains(n) : Down(file)
    BY <2>0
  <2>2. file \in Seq(Writes) /\ flushed \in 0..Len(file)
    BY <2>1, RemainsAreWrites DEF TypeOK
  <2> QED
    BY <2>1, <2>2 DEF Down
<1>7. CASE Dispose
  BY <1>7 DEF Dispose, Down, TypeOK
<1>8. CASE Start
  <2>1. PICK more \in Seq(Writes) : log' = log \o more
    BY <1>8, StartAppendsLines
  <2>2. log' \in Seq(Writes) /\ Len(log') = Len(log) + Len(more) /\ Len(more) \in Nat
    BY <2>1 DEF TypeOK
  <2> QED
    BY <1>8, <2>2 DEF Start, TypeOK
<1> QED
  BY <1>1, <1>3, <1>5, <1>6, <1>7, <1>8
  DEF Next, ClientStep, EngineStep, vars, SendAfterRestart, OnToolUse, OnEngineError,
      InterruptTurn, SessionConfig, OnEnginePermission, ResolvePermission, TimeoutPermission,
      PolicyUpdate, EndSession

\* Every step keeps the history variables well typed.
LEMMA NextHistoryTypeOK == TypeOK /\ [Next]_vars => HistoryTypeOK'
<1> USE DEF HistoryTypeOK, callHistory, turnHistory, contextHistory
<1> SUFFICES ASSUME TypeOK, [Next]_vars PROVE HistoryTypeOK'
  OBVIOUS
<1>1. CASE StartTurn
  <2>1. lastTurn + 1 \in Turns
    BY <1>1, MaxTurnsAssumption DEF StartTurn, TypeOK, SessionTypeOK, Turns, NoTurn
  <2> QED
    BY <1>1, <2>1 DEF StartTurn, TypeOK
<1>2. CASE SendAfterRestart
  BY <1>2 DEF SendAfterRestart, TypeOK, SessionTypeOK
<1>3. CASE SendFails
  BY <1>3 DEF SendFails, CompleteTurn, TypeOK
<1>4. CASE OnTurnComplete
  BY <1>4 DEF OnTurnComplete, ResultStatuses, CompleteTurn, TypeOK
<1>5. CASE InterruptTurn
  BY <1>5 DEF InterruptTurn, Speak, TypeOK, SessionTypeOK
<1>6. ASSUME NEW r \in Requests, OnEnginePermission(r) PROVE HistoryTypeOK'
  BY <1>6 DEF OnEnginePermission, Speak, TypeOK
<1>7. ASSUME NEW r \in Requests, NEW decision \in {"approve", "deny"}, NEW scope,
             ResolvePermission(r, decision, scope)
      PROVE  HistoryTypeOK'
  BY <1>7 DEF ResolvePermission, Speak, TypeOK
<1>8. ASSUME NEW r \in Requests, TimeoutPermission(r) PROVE HistoryTypeOK'
  BY <1>8 DEF TimeoutPermission, Speak, TypeOK
<1>9. CASE EndSession
  BY <1>9 DEF EndSession, TypeOK, SessionTypeOK
<1>10. CASE Start
  BY <1>10 DEF Start, TypeOK
<1>11. ASSUME UNCHANGED <<callHistory, turnHistory, contextHistory>> PROVE HistoryTypeOK'
  BY <1>11 DEF TypeOK
<1> QED
  BY <1>1, <1>2, <1>3, <1>4, <1>5, <1>6, <1>7, <1>8, <1>9, <1>10, <1>11
  DEF Next, ClientStep, EngineStep, vars, OnToolUse, OnEngineError, SessionConfig, PolicyUpdate,
      Crash, Dispose, Down

\* Every variable keeps its type, for every value of the constants.
THEOREM TypeCorrect == Spec => []TypeOK
<1>1. TypeOK /\ [Next]_vars => TypeOK'
  <2> SUFFICES ASSUME TypeOK, [Next]_vars PROVE TypeOK'
    OBVIOUS
  <2>1. PolicyTypeOK
    BY DEF TypeOK
  <2> QED
    BY <2>1, NextPolicyTypeOK, NextEngineTypeOK, NextSessionTypeOK, NextJournalTypeOK,
       NextHistoryTypeOK
    DEF TypeOK
<1> QED
  BY InitTypeOK, <1>1, PTL DEF Spec

-----------------------------------------------------------------------------
(* The permission round trip.                                              *)

\* No call has been asked when a Session is bound.
LEMMA InitCallInvariant == Init => CallInvariant
  BY DEF Init, EngineInit, CallInvariant, FirstWordDecides, OnlyEndDropsTimers, Blocked

\* Every step keeps the books on tool calls: prompts, timers, promises and who spoke first.
LEMMA NextCallInvariant == TypeOK /\ CallInvariant /\ [Next]_vars => CallInvariant'
<1> USE DEF CallInvariant, FirstWordDecides, OnlyEndDropsTimers, Blocked
<1> SUFFICES ASSUME TypeOK, CallInvariant, [Next]_vars PROVE CallInvariant'
  OBVIOUS
<1> USE DEF TypeOK, EngineTypeOK, SessionTypeOK, HistoryTypeOK
<1>1. ASSUME UNCHANGED <<promise, callTurn, armed, callHistory>> PROVE CallInvariant'
  BY <1>1 DEF callHistory
<1>2. CASE InterruptTurn
  BY <1>2 DEF InterruptTurn, Interrupt, Speak
<1>3. ASSUME NEW r \in Requests, OnEnginePermission(r) PROVE CallInvariant'
  <2>1. /\ sdkTurn # NoTurn
        /\ promise[r] = "unused"
        /\ callTurn' = [callTurn EXCEPT ![r] = sdkTurn]
        /\ dropped' = dropped
    BY <1>3 DEF OnEnginePermission, Ask
  <2>2. CASE AutoApproves(ToolOf[r])
    BY <1>3, <2>1, <2>2 DEF OnEnginePermission, Speak
  <2>3. CASE ~AutoApproves(ToolOf[r])
    BY <1>3, <2>1, <2>3 DEF OnEnginePermission
  <2> QED
    BY <2>2, <2>3
<1>4. ASSUME NEW r \in Requests, NEW decision \in {"approve", "deny"}, NEW scope,
             ResolvePermission(r, decision, scope)
      PROVE  CallInvariant'
  <2>1. /\ callTurn' = callTurn
        /\ dropped' = dropped
        /\ Speak({r}, decision)
    BY <1>4 DEF ResolvePermission, Settle, engineVars
  <2>2. CASE r \in armed
    BY <1>4, <2>1, <2>2 DEF ResolvePermission, Settle, Speak
  <2>3. CASE r \notin armed
    BY <1>4, <2>1, <2>3 DEF ResolvePermission, Speak, engineVars
  <2> QED
    BY <2>2, <2>3
<1>5. ASSUME NEW r \in Requests, TimeoutPermission(r) PROVE CallInvariant'
  BY <1>5 DEF TimeoutPermission, Settle, Speak
<1>6. CASE EndSession
  BY <1>6 DEF EndSession, engineVars
<1>7. CASE Crash \/ Dispose
  BY <1>7 DEF Crash, Dispose, Down, EngineDown, callHistory
<1> QED
  BY <1>1, <1>2, <1>3, <1>4, <1>5, <1>6, <1>7
  DEF Next, ClientStep, EngineStep, vars, engineVars, callHistory, StartTurn, SendNow,
      BeginRestart, SendAfterRestart, FinishRestart, SendFails, FailRestart, OnTurnComplete,
      Result, OnToolUse, OnEngineError, LoopThrows, SessionConfig, Configure, PolicyUpdate,
      Start, Connect

\* The strengthened invariant of the permission round trip: Session.pending, its timers and the
\* engine's promises agree on every call that was ever asked.
THEOREM CallInvariance == Spec => []CallInvariant
  BY InitCallInvariant, NextCallInvariant, TypeCorrect, PTL DEF Spec

\* Default deny: whatever clients, timers, interrupts, crashes and engine failures do, a tool call
\* is allowed only if policy or a client's approval spoke on it first.
THEOREM DefaultDeny == Spec => []FirstWordDecides
<1>1. CallInvariant => FirstWordDecides
  BY DEF CallInvariant
<1> QED
  BY <1>1, CallInvariance, PTL

\* Every call the SDK is blocked on has a running timer, or lost it to the end of the session.
THEOREM TimersGuardCalls == Spec => []OnlyEndDropsTimers
<1>1. CallInvariant => OnlyEndDropsTimers
  BY DEF CallInvariant
<1> QED
  BY <1>1, CallInvariance, PTL

-----------------------------------------------------------------------------
(* Turns.                                                                  *)

\* No turn runs when a Session is bound.
LEMMA InitTurnInvariant == Init => TurnInvariant
  BY DEF Init, EngineInit, TurnInvariant, EngineAnswersCurrentTurn, IdleIffNoTurn,
         InterruptedIsHonest, InterruptHonouredOnceSent, NoTurn

\* Every step keeps the Session's turn, the engine's turn and the interrupted flag in agreement.
LEMMA NextTurnInvariant == TypeOK /\ TurnInvariant /\ [Next]_vars => TurnInvariant'
<1> USE DEF TurnInvariant, EngineAnswersCurrentTurn, IdleIffNoTurn, InterruptedIsHonest,
            InterruptHonouredOnceSent, NoTurn
<1> SUFFICES ASSUME TypeOK, TurnInvariant, [Next]_vars PROVE TurnInvariant'
  OBVIOUS
<1> USE DEF TypeOK, EngineTypeOK, SessionTypeOK, HistoryTypeOK
<1> USE DEF processVars, turnVars, turnHistory
<1>0. Turns \subseteq Nat /\ 0 \notin Turns
  BY MaxTurnsAssumption DEF Turns
<1>1. ASSUME UNCHANGED <<processVars, state, turnVars, interrupted, sdkTurn, turnHistory>>
      PROVE  TurnInvariant'
  BY <1>1
<1>2. CASE StartTurn
  <2>1. CASE SendNow(lastTurn + 1, resumeContext) /\ ~sending'
    BY <1>0, <1>2, <2>1 DEF StartTurn, SendNow
  <2>2. CASE BeginRestart(resumeContext) /\ sending'
    BY <1>0, <1>2, <2>2 DEF StartTurn, BeginRestart
  <2> QED
    BY <1>2, <2>1, <2>2 DEF StartTurn
<1>3. CASE SendAfterRestart
  BY <1>0, <1>3 DEF SendAfterRestart, FinishRestart
<1>4. CASE SendFails
  BY <1>0, <1>4 DEF SendFails, FailRestart, CompleteTurn
<1>5. CASE OnTurnComplete
  <2> PICK status \in ResultStatuses : CompleteTurn(status)
    BY <1>5 DEF OnTurnComplete
  <2>1. status = "interrupted" <=> interrupted
    BY DEF ResultStatuses
  <2> QED
    BY <1>0, <1>5, <2>1 DEF OnTurnComplete, Result, CompleteTurn
<1>6. CASE OnToolUse
  BY <1>0, <1>6 DEF OnToolUse, engineVars
<1>7. CASE OnEngineError
  BY <1>0, <1>7 DEF OnEngineError, LoopThrows
<1>8. CASE InterruptTurn
  <2>1. CASE sending
    BY <1>0, <1>8, <2>1 DEF InterruptTurn, Interrupt
  <2>2. CASE ~sending
    <3>1. \A t \in Turns : t \in stopped' <=> t \in stopped \/ t = currentTurn
      BY <1>0, <1>8, <2>2 DEF InterruptTurn
    <3>2. /\ interrupted' = TRUE
          /\ UNCHANGED <<up, state, currentTurn, lastTurn, sending, sdkTurn, outcome>>
      BY <1>8 DEF InterruptTurn, Interrupt
    <3>3. sdkTurn' # NoTurn => (interrupted' <=> sdkTurn' \in stopped')
      BY <3>1, <3>2
    <3>4. \A t \in Turns : t > lastTurn' => t \notin stopped'
      BY <1>0, <3>1, <3>2
    <3>5. InterruptedIsHonest' /\ InterruptHonouredOnceSent'
      BY <1>0, <1>8, <2>2, <3>1, <3>2 DEF InterruptTurn
    <3> QED
      BY <2>2, <3>2, <3>3, <3>4, <3>5
  <2> QED
    BY <2>1, <2>2
<1>9. ASSUME NEW r \in Requests, OnEnginePermission(r) PROVE TurnInvariant'
  BY <1>0, <1>9 DEF OnEnginePermission, Ask
<1>10. CASE EndSession
  BY <1>0, <1>10 DEF EndSession, engineVars
<1>11. CASE Crash \/ Dispose
  <2> PICK file : Down(file)
    BY <1>11 DEF Crash, Dispose
  <2> QED
    BY <1>0 DEF Down, EngineDown
<1>12. CASE Start
  BY <1>0, <1>12 DEF Start, Connect
<1> QED
  BY <1>1, <1>2, <1>3, <1>4, <1>5, <1>6, <1>7, <1>8, <1>9, <1>10, <1>11, <1>12
  DEF Next, ClientStep, EngineStep, vars, engineVars, SessionConfig, Configure, PolicyUpdate,
      ResolvePermission, TimeoutPermission, Settle

\* The strengthened invariant of turns: currentTurnId, a suspended send(), the turn the SDK answers
\* and the engine's interrupted flag agree.
THEOREM TurnInvariance == Spec => []TurnInvariant
  BY InitTurnInvariant, NextTurnInvariant, TypeCorrect, PTL DEF Spec

\* The engine's completion event is always about the turn the session closes on it, and the UI is idle
\* exactly between turns.
THEOREM TurnsAreTracked == Spec => []TurnsAgree
<1>1. TurnInvariant => TurnsAgree
  BY DEF TurnInvariant, TurnsAgree
<1> QED
  BY <1>1, TurnInvariance, PTL

\* An outcome of "interrupted" is reported only for an interrupted turn, and a turn interrupted once its
\* message was sent is never reported as completed normally.
THEOREM InterruptsAreReported == Spec => []InterruptsAreHonest
<1>1. TurnInvariant => InterruptsAreHonest
  BY DEF TurnInvariant, InterruptsAreHonest
<1> QED
  BY <1>1, TurnInvariance, PTL

-----------------------------------------------------------------------------
(* Crash recovery.                                                         *)

\* A turn_start is never mistaken for a turn_end, nor the records of one turn for those of another.
LEMMA RecordsDiffer ==
    ASSUME NEW t, NEW u
    PROVE  /\ TurnStart(t) # TurnEnd(u)
           /\ TurnStart(t) = TurnStart(u) => t = u
           /\ TurnEnd(t) = TurnEnd(u) => t = u
<1>1. TurnStart(t).kind # TurnEnd(u).kind
  BY DEF TurnStart, TurnEnd
<1>2. TurnStart(t).turn = t /\ TurnStart(u).turn = u /\ TurnEnd(t).turn = t /\ TurnEnd(u).turn = u
  BY DEF TurnStart, TurnEnd
<1> QED
  BY <1>1, <1>2

\* Lines appended to a file leave what stands before its last record as legible as it was, and are
\* legible themselves, but for the first when the file did not end with a newline.
LEMMA LegibleOfLonger ==
    ASSUME NEW file \in Seq(Writes), NEW more \in Seq(Writes),
           \A k \in DOMAIN more : more[k].left = "line"
    PROVE  /\ DOMAIN (file \o more) = 1..(Len(file) + Len(more))
           /\ \A i \in 1..Len(file) : (file \o more)[i] = file[i]
           /\ \A k \in 1..Len(more) : (file \o more)[Len(file) + k] = more[k]
           /\ \A i \in 1..Len(file) :
                 /\ i \in Legible(file \o more) => i \in Legible(file)
                 /\ i \in Legible(file) /\ (i < Len(file) \/ file[i].left = "line")
                        => i \in Legible(file \o more)
           /\ \A k \in 1..Len(more) :
                 k > 1 \/ file = <<>> \/ file[Len(file)].left = "line"
                        => Len(file) + k \in Legible(file \o more)
<1> DEFINE longer == file \o more
<1>1. /\ DOMAIN longer = 1..(Len(file) + Len(more)) /\ Len(longer) = Len(file) + Len(more)
      /\ \A i \in 1..Len(file) : longer[i] = file[i]
      /\ \A k \in 1..Len(more) : longer[Len(file) + k] = more[k]
      /\ Len(file) \in Nat /\ Len(more) \in Nat
      /\ DOMAIN file = 1..Len(file) /\ DOMAIN more = 1..Len(more)
      /\ file = <<>> => Len(file) = 0
  OBVIOUS
<1> HIDE DEF longer
<1>2. ASSUME NEW i \in 1..Len(file), i \in Legible(longer) PROVE i \in Legible(file)
  <2>1. i > 1 => i - 1 \in 1..Len(file)
    BY <1>1
  <2>2. i < Len(file) => i < Len(longer)
    BY <1>1
  <2> QED
    BY <1>1, <1>2, <2>1, <2>2 DEF Legible
<1>3. ASSUME NEW i \in 1..Len(file), i \in Legible(file), i < Len(file) \/ file[i].left = "line"
      PROVE  i \in Legible(longer)
  <2>1. i > 1 => i - 1 \in 1..Len(file)
    BY <1>1
  <2>2. i \in DOMAIN longer /\ longer[i] = file[i]
    BY <1>1
  <2>3. file[i].left = "line"
    BY <1>3 DEF Legible
  <2> QED
    BY <1>1, <1>3, <2>1, <2>2, <2>3 DEF Legible
<1>4. ASSUME NEW k \in 1..Len(more), k > 1 \/ file = <<>> \/ file[Len(file)].left = "line"
      PROVE  Len(file) + k \in Legible(longer)
  <2>1. Len(file) + k \in DOMAIN longer /\ longer[Len(file) + k].left = "line"
    BY <1>1
  <2>2. ASSUME Len(file) + k > 1 PROVE longer[Len(file) + k - 1].left = "line"
    <3>1. CASE k > 1
      <4>1. k - 1 \in 1..Len(more) /\ Len(file) + k - 1 = Len(file) + (k - 1)
        BY <1>1, <3>1
      <4> QED
        BY <1>1, <4>1
    <3>2. CASE k = 1
      <4>1. Len(file) \in 1..Len(file) /\ Len(file) + k - 1 = Len(file)
        BY <1>1, <2>2, <3>2
      <4> QED
        BY <1>1, <1>4, <3>2, <4>1
    <3> QED
      BY <3>1, <3>2
  <2> QED
    BY <2>1, <2>2 DEF Legible
<1> QED
  BY <1>1, <1>2, <1>3, <1>4 DEF longer

\* A line appended to a file that ends with a newline is one more legible record.
LEMMA LegibleAfterLine ==
    ASSUME NEW file \in Seq(Writes), NEW record \in Records,
           file # <<>> => file[Len(file)].left = "line"
    PROVE  /\ DOMAIN Append(file, Line(record)) = 1..(Len(file) + 1)
           /\ Append(file, Line(record))[Len(file) + 1].record = record
           /\ \A i \in 1..Len(file) : Append(file, Line(record))[i] = file[i]
           /\ Legible(Append(file, Line(record))) = Legible(file) \cup {Len(file) + 1}
           /\ Legible(file) \subseteq 1..Len(file)
<1> DEFINE more == <<Line(record)>>
           longer == Append(file, Line(record))
<1>1. more \in Seq(Writes) /\ Len(more) = 1 /\ more[1] = Line(record) /\ longer = file \o more
  BY DEF Line, Writes
<1>2. Line(record).left = "line" /\ Line(record).record = record
  BY DEF Line
<1>3. \A k \in DOMAIN more : more[k].left = "line"
  BY <1>1, <1>2
<1>4. Len(file) \in Nat /\ Legible(file) \subseteq 1..Len(file) /\ Legible(longer) \subseteq DOMAIN longer
  BY DEF Legible
<1> HIDE DEF more, longer
<1>5. /\ DOMAIN longer = 1..(Len(file) + 1)
      /\ \A i \in 1..Len(file) : longer[i] = file[i]
      /\ longer[Len(file) + 1] = Line(record)
      /\ \A i \in 1..Len(file) : i \in Legible(longer) => i \in Legible(file)
      /\ \A i \in 1..Len(file) :
            i \in Legible(file) /\ (i < Len(file) \/ file[i].left = "line") => i \in Legible(longer)
      /\ Len(file) + 1 \in Legible(longer)
  <2>1. /\ DOMAIN (file \o more) = 1..(Len(file) + Len(more))
        /\ \A i \in 1..Len(file) : (file \o more)[i] = file[i]
        /\ \A k \in 1..Len(more) : (file \o more)[Len(file) + k] = more[k]
    BY <1>1, <1>3, LegibleOfLonger
  <2>2. \A i \in 1..Len(file) :
           /\ i \in Legible(file \o more) => i \in Legible(file)
           /\ i \in Legible(file) /\ (i < Len(file) \/ file[i].left = "line")
                 => i \in Legible(file \o more)
    BY <1>1, <1>3, LegibleOfLonger
  <2>3. 1 \in 1..Len(more)
    BY <1>1
  <2>4. Len(file) + 1 \in Legible(file \o more)
    BY <1>1, <1>3, <2>3, LegibleOfLonger
  <2> QED
    BY <1>1, <2>1, <2>2, <2>3, <2>4
<1>6. \A i \in Legible(file) : i < Len(file) \/ file[i].left = "line"
  BY <1>4
<1>7. Legible(longer) = Legible(file) \cup {Len(file) + 1}
  <2>1. ASSUME NEW i \in Legible(longer) PROVE i \in Legible(file) \cup {Len(file) + 1}
    BY <1>4, <1>5
  <2>2. ASSUME NEW i \in Legible(file) PROVE i \in Legible(longer)
    BY <1>4, <1>5, <1>6
  <2> QED
    BY <1>5, <2>1, <2>2
<1> QED
  BY <1>2, <1>4, <1>5, <1>7 DEF longer

\* turnStart() of a turn adds exactly that turn to the open ones, on a line of its own.
LEMMA OpenAfterStart ==
    ASSUME NEW file \in Seq(Writes), NEW t \in Turns, file # <<>> => file[Len(file)].left = "line"
    PROVE  OpenTurns(Append(file, Line(TurnStart(t)))) = OpenTurns(file) \cup {t}
<1> DEFINE longer == Append(file, Line(TurnStart(t)))
<1>1. /\ Legible(longer) = Legible(file) \cup {Len(file) + 1}
      /\ longer[Len(file) + 1].record = TurnStart(t)
      /\ \A i \in Legible(file) : longer[i] = file[i]
      /\ Legible(file) \subseteq 1..Len(file)
      /\ Len(file) \in Nat
  <2>1. TurnStart(t) \in Records
    BY DEF Records
  <2>2. /\ Legible(longer) = Legible(file) \cup {Len(file) + 1}
        /\ longer[Len(file) + 1].record = TurnStart(t)
        /\ \A i \in 1..Len(file) : longer[i] = file[i]
        /\ Legible(file) \subseteq 1..Len(file)
    BY <2>1, LegibleAfterLine
  <2> QED
    BY <2>2
<1> HIDE DEF longer
<1>2. ASSUME NEW u \in Turns PROVE u \in OpenTurns(longer) <=> u \in OpenTurns(file) \cup {t}
  <2>1. ASSUME u \in OpenTurns(longer), u # t PROVE u \in OpenTurns(file)
    <3>1. PICK i \in Legible(longer) :
              /\ longer[i].record = TurnStart(u)
              /\ \A j \in Legible(longer) : j > i => longer[j].record # TurnEnd(u)
      BY <2>1 DEF OpenTurns
    <3>2. i \in Legible(file)
      BY <1>1, <2>1, <3>1, RecordsDiffer
    <3> QED
      BY <1>1, <3>1, <3>2 DEF OpenTurns
  <2>2. ASSUME u \in OpenTurns(file) PROVE u \in OpenTurns(longer)
    <3>1. PICK i \in Legible(file) :
              /\ file[i].record = TurnStart(u)
              /\ \A j \in Legible(file) : j > i => file[j].record # TurnEnd(u)
      BY <2>2 DEF OpenTurns
    <3>2. \A j \in Legible(longer) : j > i => longer[j].record # TurnEnd(u)
      BY <1>1, <3>1, RecordsDiffer
    <3> QED
      BY <1>1, <3>1, <3>2 DEF OpenTurns
  <2>3. ASSUME u = t PROVE u \in OpenTurns(longer)
    <3>1. \A j \in Legible(longer) : ~(j > Len(file) + 1)
      BY <1>1
    <3> QED
      BY <1>1, <2>3, <3>1 DEF OpenTurns
  <2> QED
    BY <2>1, <2>2, <2>3
<1>3. OpenTurns(longer) \subseteq Turns /\ OpenTurns(file) \subseteq Turns
  BY DEF OpenTurns
<1> QED
  BY <1>2, <1>3 DEF longer

\* turnEnd() of a turn removes exactly that turn from the open ones.
LEMMA OpenAfterEnd ==
    ASSUME NEW file \in Seq(Writes), NEW t \in Turns, file # <<>> => file[Len(file)].left = "line"
    PROVE  OpenTurns(Append(file, Line(TurnEnd(t)))) = OpenTurns(file) \ {t}
<1> DEFINE longer == Append(file, Line(TurnEnd(t)))
<1>1. /\ Legible(longer) = Legible(file) \cup {Len(file) + 1}
      /\ longer[Len(file) + 1].record = TurnEnd(t)
      /\ \A i \in Legible(file) : longer[i] = file[i]
      /\ Legible(file) \subseteq 1..Len(file)
      /\ Len(file) \in Nat
  <2>1. TurnEnd(t) \in Records
    BY DEF Records
  <2>2. /\ Legible(longer) = Legible(file) \cup {Len(file) + 1}
        /\ longer[Len(file) + 1].record = TurnEnd(t)
        /\ \A i \in 1..Len(file) : longer[i] = file[i]
        /\ Legible(file) \subseteq 1..Len(file)
    BY <2>1, LegibleAfterLine
  <2> QED
    BY <2>2
<1> HIDE DEF longer
<1>2. ASSUME NEW u \in Turns PROVE u \in OpenTurns(longer) <=> u \in OpenTurns(file) \ {t}
  <2>1. ASSUME u \in OpenTurns(longer) PROVE u \in OpenTurns(file) \ {t}
    <3>1. PICK i \in Legible(longer) :
              /\ longer[i].record = TurnStart(u)
              /\ \A j \in Legible(longer) : j > i => longer[j].record # TurnEnd(u)
      BY <2>1 DEF OpenTurns
    <3>2. i \in Legible(file)
      BY <1>1, <3>1, RecordsDiffer
    <3>3. u # t
      BY <1>1, <3>1, <3>2
    <3> QED
      BY <1>1, <3>1, <3>2, <3>3 DEF OpenTurns
  <2>2. ASSUME u \in OpenTurns(file), u # t PROVE u \in OpenTurns(longer)
    <3>1. PICK i \in Legible(file) :
              /\ file[i].record = TurnStart(u)
              /\ \A j \in Legible(file) : j > i => file[j].record # TurnEnd(u)
      BY <2>2 DEF OpenTurns
    <3>2. \A j \in Legible(longer) : j > i => longer[j].record # TurnEnd(u)
      BY <1>1, <2>2, <3>1, RecordsDiffer
    <3> QED
      BY <1>1, <3>1, <3>2 DEF OpenTurns
  <2> QED
    BY <2>1, <2>2
<1>3. OpenTurns(longer) \subseteq Turns /\ OpenTurns(file) \subseteq Turns
  BY DEF OpenTurns
<1> QED
  BY <1>2, <1>3 DEF longer

\* recoverDirtyTurns(), in whatever order it visits the dirty turns, leaves a turn open only where no
\* load can read its turn_end: the last record found was that one without its newline, or the first
\* record written, on the line of what a crash had left, is that one.
LEMMA RecoveryCloses ==
    ASSUME TypeOK, Start
    PROVE  /\ \A t \in OpenTurns(log') : \E i \in DOMAIN log' \ Legible(log') :
                  i \in {flushed', flushed' + 1} /\ log'[i].record = TurnEnd(t)
           /\ log'[Len(log')].left = "line"
<1>1. log \in Seq(Writes) /\ flushed' = Len(log)
  BY DEF Start, TypeOK, JournalTypeOK
<1>2. PICK order \in Orders(OpenTurns(log)) :
          /\ log' = log \o Append([i \in DOMAIN order |-> Line(TurnEnd(order[i]))], Line(StatusEvent))
          /\ Append([i \in DOMAIN order |-> Line(TurnEnd(order[i]))], Line(StatusEvent)) \in Seq(Writes)
  BY StartAppendsLines
<1> DEFINE ends == [i \in DOMAIN order |-> Line(TurnEnd(order[i]))]
           more == Append(ends, Line(StatusEvent))
<1>3. /\ ends \in Seq(Writes) /\ DOMAIN order = 1..Len(ends)
      /\ \A u \in OpenTurns(log) : \E i \in DOMAIN order : order[i] = u
  BY OrdersGiveLines
<1>4. \A i \in 1..Len(ends) : ends[i] = Line(TurnEnd(order[i]))
  BY <1>3
<1>5. log' = log \o more /\ more \in Seq(Writes)
  BY <1>2
<1>6. more = Append(ends, Line(StatusEvent))
  OBVIOUS
<1> HIDE DEF ends, more
<1>7. /\ Len(more) = Len(ends) + 1 /\ DOMAIN more = 1..Len(more)
      /\ \A i \in 1..Len(ends) : more[i] = ends[i]
      /\ more[Len(ends) + 1] = Line(StatusEvent)
      /\ Len(ends) \in Nat /\ Len(log) \in Nat
  <2>1. Line(StatusEvent) \in Writes
    BY DEF Line, Writes, Records
  <2>2. /\ Len(more) = Len(ends) + 1
        /\ \A i \in 1..Len(ends) : more[i] = ends[i]
        /\ more[Len(ends) + 1] = Line(StatusEvent)
    BY <1>3, <1>6, <2>1, AppendProperties
  <2> QED
    BY <1>1, <1>3, <1>5, <2>2
<1>8. ASSUME NEW k \in DOMAIN more
      PROVE  more[k].left = "line" /\ \A t \in Turns : more[k].record # TurnStart(t)
  <2>1. CASE k \in 1..Len(ends)
    <3>1. more[k] = Line(TurnEnd(order[k]))
      BY <1>4, <1>7, <2>1
    <3>2. more[k].left = "line" /\ more[k].record = TurnEnd(order[k])
      BY <3>1 DEF Line
    <3> QED
      BY <3>2, RecordsDiffer
  <2>2. CASE k = Len(ends) + 1
    <3>1. more[k].left = "line" /\ more[k].record = StatusEvent
      BY <1>7, <2>2 DEF Line
    <3>2. ASSUME NEW t PROVE StatusEvent.kind # TurnStart(t).kind
      BY DEF StatusEvent, TurnStart
    <3>3. ASSUME NEW t PROVE StatusEvent # TurnStart(t)
      BY <3>2
    <3> QED
      BY <3>1, <3>3
  <2> QED
    BY <1>7, <2>1, <2>2
<1>9. /\ DOMAIN log' = 1..(Len(log) + Len(more))
      /\ \A i \in 1..Len(log) : log'[i] = log[i]
      /\ \A k \in 1..Len(more) : log'[Len(log) + k] = more[k]
      /\ \A i \in 1..Len(log) :
            /\ i \in Legible(log') => i \in Legible(log)
            /\ i \in Legible(log) /\ (i < Len(log) \/ log[i].left = "line") => i \in Legible(log')
      /\ \A k \in 1..Len(more) : k > 1 => Len(log) + k \in Legible(log')
  <2>1. \A k \in DOMAIN more : more[k].left = "line"
    BY <1>8
  <2>2. DOMAIN (log \o more) = 1..(Len(log) + Len(more))
    BY <1>1, <1>5, <2>1, LegibleOfLonger
  <2>3. \A i \in 1..Len(log) : (log \o more)[i] = log[i]
    BY <1>1, <1>5, <2>1, LegibleOfLonger
  <2>4. \A k \in 1..Len(more) : (log \o more)[Len(log) + k] = more[k]
    BY <1>1, <1>5, <2>1, LegibleOfLonger
  <2>5. \A i \in 1..Len(log) :
           /\ i \in Legible(log \o more) => i \in Legible(log)
           /\ i \in Legible(log) /\ (i < Len(log) \/ log[i].left = "line")
                 => i \in Legible(log \o more)
    BY <1>1, <1>5, <2>1, LegibleOfLonger
  <2>6. \A k \in 1..Len(more) : k > 1 => Len(log) + k \in Legible(log \o more)
    BY <1>1, <1>5, <2>1, LegibleOfLonger
  <2> QED
    BY <1>5, <2>2, <2>3, <2>4, <2>5, <2>6
<1>10. log'[Len(log')].left = "line"
  <2>1. Len(more) \in 1..Len(more)
    BY <1>7
  <2>2. Len(log') = Len(log) + Len(more)
    BY <1>1, <1>5
  <2>3. log'[Len(log')] = more[Len(more)]
    BY <1>9, <2>1, <2>2
  <2> QED
    BY <1>7, <1>8, <2>1, <2>3
<1> SUFFICES ASSUME NEW t \in OpenTurns(log')
             PROVE  \E i \in DOMAIN log' \ Legible(log') :
                       i \in {Len(log), Len(log) + 1} /\ log'[i].record = TurnEnd(t)
  BY <1>1, <1>10
<1>11. t \in Turns /\ t \in OpenTurns(log') /\ Legible(log') \subseteq DOMAIN log'
  BY DEF OpenTurns, Legible
<1>12. PICK i \in Legible(log') : /\ log'[i].record = TurnStart(t)
                                   /\ \A j \in Legible(log') : j > i => log'[j].record # TurnEnd(t)
  BY <1>11 DEF OpenTurns
<1>13. i \in 1..Len(log)
  <2>1. CASE i \in 1..Len(log)
    BY <2>1
  <2>2. CASE i \notin 1..Len(log)
    <3>1. i \in 1..(Len(log) + Len(more))
      BY <1>9, <1>11
    <3>2. i - Len(log) \in 1..Len(more) /\ i = Len(log) + (i - Len(log))
      BY <1>7, <2>2, <3>1
    <3>3. log'[i] = more[i - Len(log)]
      BY <1>9, <3>2
    <3>4. i - Len(log) \in DOMAIN more
      BY <1>7, <3>2
    <3>5. more[i - Len(log)].record # TurnStart(t)
      BY <1>8, <1>11, <3>4
    <3> QED
      BY <1>12, <3>3, <3>5
  <2> QED
    BY <2>1, <2>2
<1>14. i \in Legible(log) /\ log[i].record = TurnStart(t)
  BY <1>9, <1>12, <1>13
<1>15. CASE t \in OpenTurns(log)
  <2>1. PICK k \in 1..Len(ends) : order[k] = t
    BY <1>3, <1>15
  <2>2. k \in 1..Len(more) /\ log'[Len(log) + k].record = TurnEnd(t)
    <3>1. k \in 1..Len(more)
      BY <1>7
    <3>2. log'[Len(log) + k] = Line(TurnEnd(t))
      BY <1>4, <1>7, <1>9, <2>1, <3>1
    <3> QED
      BY <3>1, <3>2 DEF Line
  <2>3. Len(log) + k > i /\ Len(log) + k \in DOMAIN log'
    BY <1>7, <1>9, <1>13, <2>2
  <2>4. Len(log) + k \notin Legible(log')
    BY <1>12, <2>2, <2>3
  <2>5. k = 1
    BY <1>7, <1>9, <2>2, <2>4
  <2>6. /\ Len(log) + 1 \in DOMAIN log' \ Legible(log')
        /\ log'[Len(log) + 1].record = TurnEnd(t)
    BY <2>2, <2>3, <2>4, <2>5
  <2> QED
    BY <2>6
<1>16. CASE t \notin OpenTurns(log)
  <2>1. PICK j \in Legible(log) : j > i /\ log[j].record = TurnEnd(t)
    BY <1>11, <1>14, <1>16 DEF OpenTurns
  <2>2. j \in 1..Len(log)
    BY DEF Legible
  <2>3. log'[j].record = TurnEnd(t) /\ j \in DOMAIN log'
    BY <1>7, <1>9, <2>1, <2>2
  <2>4. j \notin Legible(log')
    BY <1>12, <2>1, <2>3
  <2>5. j = Len(log)
    BY <1>7, <1>9, <2>2, <2>4
  <2> QED
    BY <2>3, <2>4, <2>5
<1> QED
  BY <1>15, <1>16

\* A line appended by the running daemon keeps what is said of the turns whose turn_end is not legible.
LEMMA UnreadableStay ==
    ASSUME JournalTypeOK, up, JournalInvariant, NEW record \in Records,
           log' = Append(log, Line(record)), UNCHANGED flushed, NEW t \in OpenTurns(log) \ {currentTurn}
    PROVE  \E i \in DOMAIN log' \ Legible(log') :
              i \in {flushed', flushed' + 1} /\ log'[i].record = TurnEnd(t)
<1>1. PICK i \in DOMAIN log \ Legible(log) : i \in {flushed, flushed + 1} /\ log[i].record = TurnEnd(t)
  BY DEF JournalInvariant, JournalMatchesTurn
<1>2. log \in Seq(Writes) /\ (log # <<>> => log[Len(log)].left = "line")
  BY DEF JournalTypeOK, JournalInvariant
<1>3. /\ DOMAIN log' = 1..(Len(log) + 1)
      /\ Legible(log') = Legible(log) \cup {Len(log) + 1}
      /\ \A k \in 1..Len(log) : log'[k] = log[k]
  BY <1>2, LegibleAfterLine
<1>4. i \in 1..Len(log) /\ Len(log) \in Nat
  BY <1>1, <1>2
<1>5. i \in DOMAIN log' \ Legible(log') /\ log'[i] = log[i]
  BY <1>1, <1>3, <1>4
<1> QED
  BY <1>1, <1>5

\* A line appended by the running daemon is the last of the file.
LEMMA LastIsLine ==
    ASSUME NEW file \in Seq(Writes), NEW record \in Records
    PROVE  Append(file, Line(record))[Len(Append(file, Line(record)))].left = "line"
<1>1. Line(record) \in Writes /\ Line(record).left = "line"
  BY DEF Line, Writes
<1>2. Append(file, Line(record))[Len(Append(file, Line(record)))] = Line(record)
  BY <1>1
<1> QED
  BY <1>1, <1>2

\* completeTurn() closes the current turn, if there is one, and opens none.
LEMMA CompleteTurnKeepsJournal ==
    ASSUME TypeOK, up, JournalInvariant, NEW status, CompleteTurn(status), UNCHANGED <<up, flushed>>
    PROVE  JournalInvariant'
<1>1. CASE currentTurn = NoTurn
  BY <1>1 DEF CompleteTurn, JournalInvariant, JournalMatchesTurn
<1>2. CASE currentTurn # NoTurn
  <2>1. currentTurn \in Turns /\ log \in Seq(Writes) /\ TurnEnd(currentTurn) \in Records
    BY <1>2 DEF TypeOK, SessionTypeOK, JournalTypeOK, Records
  <2>2. log' = Append(log, Line(TurnEnd(currentTurn))) /\ currentTurn' = NoTurn
    BY <1>2 DEF CompleteTurn
  <2>3. OpenTurns(log') = OpenTurns(log) \ {currentTurn}
    BY <2>1, <2>2, OpenAfterEnd DEF JournalInvariant
  <2>4. ASSUME NEW t \in OpenTurns(log') \ {currentTurn'}
        PROVE  \E i \in DOMAIN log' \ Legible(log') :
                  i \in {flushed', flushed' + 1} /\ log'[i].record = TurnEnd(t)
    <3>1. t \in OpenTurns(log) \ {currentTurn}
      BY <2>3
    <3> QED
      BY <2>1, <2>2, <3>1, UnreadableStay DEF TypeOK
  <2>5. log'[Len(log')].left = "line"
    BY <2>1, <2>2, LastIsLine
  <2> QED
    BY <2>2, <2>4, <2>5 DEF JournalInvariant, JournalMatchesTurn
<1> QED
  BY <1>1, <1>2

\* Every step keeps the running turn open in the journal, and any other turn closed that can be.
LEMMA NextJournalInvariant ==
    TypeOK /\ TurnInvariant /\ JournalInvariant /\ [Next]_vars => JournalInvariant'
<1> SUFFICES ASSUME TypeOK, TurnInvariant, JournalInvariant, [Next]_vars
             PROVE  JournalInvariant'
  OBVIOUS
<1>1. ASSUME UNCHANGED <<up, log, flushed, currentTurn>> PROVE JournalInvariant'
  BY <1>1 DEF JournalInvariant, JournalMatchesTurn
<1>2. CASE StartTurn
  <2>1. /\ lastTurn + 1 \in Turns
        /\ log \in Seq(Writes)
        /\ TurnStart(lastTurn + 1) \in Records
    BY <1>2, MaxTurnsAssumption
    DEF StartTurn, TypeOK, SessionTypeOK, JournalTypeOK, Turns, NoTurn, Records
  <2>2. /\ log' = Append(log, Line(TurnStart(lastTurn + 1)))
        /\ currentTurn' = lastTurn + 1
        /\ up /\ currentTurn = NoTurn
        /\ UNCHANGED <<up, flushed>>
    BY <1>2 DEF StartTurn, processVars
  <2>3. OpenTurns(log') = OpenTurns(log) \cup {lastTurn + 1}
    BY <2>1, <2>2, OpenAfterStart DEF JournalInvariant
  <2>4. ASSUME NEW t \in OpenTurns(log') \ {currentTurn'}
        PROVE  \E i \in DOMAIN log' \ Legible(log') :
                  i \in {flushed', flushed' + 1} /\ log'[i].record = TurnEnd(t)
    <3>1. NoTurn \notin Turns /\ OpenTurns(log) \subseteq Turns
      BY MaxTurnsAssumption DEF Turns, NoTurn, OpenTurns
    <3>2. t \in OpenTurns(log) \ {currentTurn}
      BY <2>2, <2>3, <3>1
    <3> QED
      BY <2>1, <2>2, <3>2, UnreadableStay DEF TypeOK
  <2>5. log'[Len(log')].left = "line"
    BY <2>1, <2>2, LastIsLine
  <2> QED
    BY <2>2, <2>3, <2>4, <2>5 DEF JournalInvariant, JournalMatchesTurn
<1>3. CASE SendFails \/ OnTurnComplete
  BY <1>3, CompleteTurnKeepsJournal DEF SendFails, OnTurnComplete, processVars
<1>4. CASE Crash \/ Dispose
  BY <1>4 DEF Crash, Dispose, Down, JournalInvariant, JournalMatchesTurn
<1>5. CASE Start
  <2>1. currentTurn' = NoTurn
    BY <1>5 DEF Start, TurnInvariant, turnVars
  <2> QED
    BY <1>5, <2>1, RecoveryCloses DEF JournalInvariant, JournalMatchesTurn
<1> QED
  BY <1>1, <1>2, <1>3, <1>4, <1>5
  DEF Next, ClientStep, EngineStep, vars, processVars, turnVars, journalVars, SendAfterRestart,
      OnToolUse, OnEngineError, InterruptTurn, SessionConfig, OnEnginePermission,
      ResolvePermission, TimeoutPermission, PolicyUpdate, EndSession

\* Crash recovery: whenever the daemon runs, its journal leaves the running turn open, and no other
\* but one whose turn_end the last crash made illegible, wherever earlier crashes cut the file: between
\* two lines, inside one, or before its newline.
THEOREM JournalRecovered == Spec => []JournalMatchesTurn
<1>1. Init => JournalInvariant
  BY DEF Init, JournalInvariant, JournalMatchesTurn, OpenTurns, Legible
<1>2. JournalInvariant => JournalMatchesTurn
  BY DEF JournalInvariant
<1> QED
  BY <1>1, <1>2, NextJournalInvariant, TypeCorrect, TurnInvariance, PTL DEF Spec
=============================================================================
