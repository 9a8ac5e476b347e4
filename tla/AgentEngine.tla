---------------------------- MODULE AgentEngine -----------------------------
(***************************************************************************)
(* ClaudeAgentEngine (packages/daemon/src/engine/ClaudeAgentEngine.ts):    *)
(* the adapter between a Session and the agent SDK.  It feeds user         *)
(* messages to a streaming query, turns every canUseTool callback of the   *)
(* SDK into a promise it settles when the Session approves or denies, and  *)
(* restarts the query on the first send after a configuration change.      *)
(*                                                                         *)
(* The operators are the effects of the engine's methods on its own        *)
(* fields; Session.tla, which the engine calls back, composes them into    *)
(* steps.  JavaScript runs a method to its next `await`, so each is one    *)
(* step, except send(), which awaits startQuery() when a restart is due.   *)
(* The SDK is external: what it may do is read off how the engine uses it. *)
(***************************************************************************)
EXTENDS Naturals

CONSTANTS Requests,   \* ids of the SDK's tool calls (toolUseID)
          MaxTurns    \* bound: user messages accepted in a behaviour

ASSUME MaxTurnsAssumption == MaxTurns \in Nat

NoTurn == 0
Turns == 1..MaxTurns

VARIABLES promise,       \* settlement of each canUseTool promise; "blocked" = still in `pending`
          callTurn,      \* turn in which the SDK asked for each request
          interrupted,   \* interrupt() ran since the last send or result
          needsRestart,  \* configure() ran since the last send
          extension,     \* pendingSystemPromptExtension holds a resume context
          query,         \* is a query reading the current InputChannel?
          sdkTurn        \* the turn the SDK is answering

engineVars == <<promise, callTurn, interrupted, needsRestart, extension, query, sdkTurn>>

EngineTypeOK ==
    /\ promise \in [Requests -> {"unused", "blocked", "approve", "deny", "lost"}]
    /\ callTurn \in [Requests -> Turns \cup {NoTurn}]
    /\ interrupted \in BOOLEAN
    /\ needsRestart \in BOOLEAN
    /\ extension \in BOOLEAN
    /\ query \in {"none", "open", "closed"}
    /\ sdkTurn \in Turns \cup {NoTurn}

Blocked == {r \in Requests : promise[r] = "blocked"}

EngineInit ==
    /\ promise = [r \in Requests |-> "unused"]
    /\ callTurn = [r \in Requests |-> NoTurn]
    /\ interrupted = FALSE
    /\ needsRestart = FALSE
    /\ extension = FALSE
    /\ query = "open"
    /\ sdkTurn = NoTurn

-----------------------------------------------------------------------------
(* send(): without a pending restart the message goes straight to the      *)
(* channel; a channel nobody reads swallows it.                            *)

\* Slip: the flag of an interrupt that found no turn is not reset.
SendNowKeepingFlag(turn, withContext) ==
    /\ ~needsRestart
    /\ extension' = (extension \/ withContext)
    /\ sdkTurn' = IF query = "open" THEN turn ELSE sdkTurn
    /\ UNCHANGED <<promise, callTurn, interrupted, needsRestart, query>>

SendNow(turn, withContext) ==
    /\ ~needsRestart
    /\ interrupted' = FALSE
    /\ extension' = (extension \/ withContext)
    /\ sdkTurn' = IF query = "open" THEN turn ELSE sdkTurn
    /\ UNCHANGED <<promise, callTurn, needsRestart, query>>

\* send() up to `await this.startQuery(...)`: the old channel is closed
BeginRestart(withContext) ==
    /\ needsRestart
    /\ needsRestart' = FALSE
    /\ extension' = (extension \/ withContext)
    /\ query' = "closed"
    /\ UNCHANGED <<promise, callTurn, interrupted, sdkTurn>>

\* the rest of startQuery() and send(): the new query takes the extension and the message
FinishRestart(turn) ==
    /\ query' = "open"
    /\ interrupted' = FALSE
    /\ extension' = FALSE
    /\ sdkTurn' = turn
    /\ UNCHANGED <<promise, callTurn, needsRestart>>

\* startQuery() throws in queryFn(): the new channel has no reader, the extension is already cleared
FailRestart ==
    /\ extension' = FALSE
    /\ UNCHANGED <<promise, callTurn, interrupted, needsRestart, query, sdkTurn>>

Configure ==
    /\ needsRestart' = TRUE
    /\ UNCHANGED <<promise, callTurn, interrupted, extension, query, sdkTurn>>

-----------------------------------------------------------------------------
(* Settling canUseTool promises.                                           *)

\* approveTool / denyTool: only a request still in `pending` is settled
Settle(r, decision) ==
    /\ promise' = IF promise[r] = "blocked" THEN [promise EXCEPT ![r] = decision] ELSE promise
    /\ UNCHANGED <<callTurn, interrupted, needsRestart, extension, query, sdkTurn>>

\* makeCanUseTool: the SDK calls back for a fresh tool use of the running turn
Ask(r) ==
    /\ sdkTurn # NoTurn
    /\ promise[r] = "unused"
    /\ callTurn' = [callTurn EXCEPT ![r] = sdkTurn]
    /\ UNCHANGED <<interrupted, needsRestart, extension, query, sdkTurn>>

\* Slip: the calls still pending are not denied.
InterruptLeavingPending ==
    /\ interrupted' = TRUE
    /\ UNCHANGED <<promise, callTurn, needsRestart, extension, query, sdkTurn>>

\* interrupt(): deny everything pending, then ask the SDK to stop
Interrupt ==
    /\ interrupted' = TRUE
    /\ promise' = [r \in Requests |-> IF promise[r] = "blocked" THEN "deny" ELSE promise[r]]
    /\ UNCHANGED <<callTurn, needsRestart, extension, query, sdkTurn>>

-----------------------------------------------------------------------------
(* What the SDK sends back.                                                *)

ResultStatuses == IF interrupted THEN {"interrupted"} ELSE {"ok", "error"}

\* a `result` message; an uninterrupted SDK turn does not end while a tool call is blocked
Result ==
    /\ sdkTurn # NoTurn
    /\ interrupted \/ \A r \in Blocked : callTurn[r] # sdkTurn
    /\ sdkTurn' = NoTurn
    /\ interrupted' = FALSE
    /\ UNCHANGED <<promise, callTurn, needsRestart, extension, query>>

\* consume(): the query loop throws; an `error` event is all that is emitted
LoopThrows ==
    /\ query = "open"
    /\ query' = "closed"
    /\ sdkTurn' = NoTurn
    /\ UNCHANGED <<promise, callTurn, interrupted, needsRestart, extension>>

\* the process is gone: the SDK child dies with it, promises are never settled
EngineDown ==
    /\ promise' = [r \in Requests |-> IF promise[r] = "blocked" THEN "lost" ELSE promise[r]]
    /\ interrupted' = FALSE
    /\ needsRestart' = FALSE
    /\ extension' = FALSE
    /\ query' = "none"
    /\ sdkTurn' = NoTurn
    /\ UNCHANGED callTurn

Connect ==
    /\ query' = "open"
    /\ interrupted' = FALSE
    /\ UNCHANGED <<promise, callTurn, needsRestart, extension, sdkTurn>>
=============================================================================
