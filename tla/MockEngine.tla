----------------------------- MODULE MockEngine -----------------------------
(***************************************************************************)
(* MockEngine (packages/daemon/src/engine/MockEngine.ts), the engine the   *)
(* daemon runs by default: runTurn() greets, yields once, and either       *)
(* echoes the message or asks permission to write one file and writes it.  *)
(*                                                                         *)
(* As in AgentEngine.tla the operators are the effects of its methods on   *)
(* its own fields; beside each stands the sequence of events it emits,     *)
(* which the Session forwards.  A settled permission resumes runTurn() in  *)
(* a microtask, before any other command or timer, so settling and what    *)
(* follows it up to the next await is one step.                            *)
(***************************************************************************)
EXTENDS Naturals, Sequences

CONSTANTS MaxTurns,  \* bound: turns accepted in a behaviour
          Paths,     \* paths of the workspace that messages name
          PathOf     \* the one each turn's message names, if it asks for a file

ASSUME MaxTurnsAssumption == MaxTurns \in Nat

Turns == 1..MaxTurns

ASSUME PathOfAssumption == PathOf \in [Turns -> Paths]

VARIABLES step,        \* where runTurn() is: "idle", "ticking", "asking", "writing"
          writes,      \* parseWriteIntent() of the turn's text found a file to write
          interrupted,
          written,     \* turns whose write succeeded
          file         \* per path: what is there, when no write to it is going on

engineVars == <<step, writes, interrupted, written, file>>

\* What may be found under a path: the content of a turn, all of it or not; or no file.
Version(t, part) == [by |-> t, part |-> part]
Missing == Version(0, "none")
Versions == [by : Turns, part : {"whole", "half"}] \cup {Missing}

EngineTypeOK ==
    /\ step \in {"idle", "ticking", "asking", "writing"}
    /\ writes \in BOOLEAN
    /\ interrupted \in BOOLEAN
    /\ written \subseteq Turns
    /\ file \in [Paths -> Versions]

EngineInit ==
    /\ step = "idle"
    /\ writes = FALSE
    /\ interrupted = FALSE
    /\ written = {}
    /\ file = [q \in Paths |-> Missing]

\* An event of turn t; a turn has one request, one tool call and one file, all named by it: its file is
\* the one at PathOf[t], which may be that of other turns too.
Event(type, t, arg) == [type |-> type, of |-> t, arg |-> arg]

Complete(t, status) == Event("turn_complete", t, status)
Message(t) == Event("assistant_message", t, "")

-----------------------------------------------------------------------------

\* send() and runTurn() up to `await tick()`.  `turnActive` is reset in a microtask after turn_complete,
\* so a Session that has no current turn never finds it set.
Send(withFile) ==
    /\ step' = "ticking"
    /\ writes' = withFile
    /\ interrupted' = FALSE
    /\ UNCHANGED <<written, file>>

SendEmits(t) == <<Event("assistant_delta", t, "")>>

\* after the tick: the message is echoed, or the turn was interrupted already
Answer ==
    /\ step = "ticking"
    /\ interrupted \/ ~writes
    /\ step' = "idle"
    /\ UNCHANGED <<writes, interrupted, written, file>>

AnswerEmits(t) ==
    IF interrupted THEN <<Complete(t, "interrupted")>> ELSE <<Message(t), Complete(t, "ok")>>

\* after the tick: requestPermission() tells the Session, which may approve within the call
RequestPermission(approved) ==
    /\ step = "ticking"
    /\ ~interrupted /\ writes
    /\ step' = IF approved THEN "writing" ELSE "asking"
    /\ UNCHANGED <<writes, interrupted, written, file>>

\* approveTool / denyTool, and runTurn() from there
Settle(decision) ==
    /\ step = "asking"
    /\ step' = IF decision = "approve" THEN "writing" ELSE "idle"
    /\ UNCHANGED <<writes, interrupted, written, file>>

SettleEmits(t, decision) ==
    IF decision = "approve"
    THEN <<Event("tool_use", t, "Write")>>
    ELSE <<Event("tool_result", t, "failed"), Message(t), Complete(t, "ok")>>

\* interrupt(): a pending permission is denied and the turn unwinds; a write goes on and ends "ok"
Interrupt ==
    /\ interrupted' = TRUE
    /\ step' = IF step = "asking" THEN "idle" ELSE step
    /\ UNCHANGED <<writes, written, file>>

InterruptEmits(t) == IF step = "asking" THEN <<Complete(t, "interrupted")>> ELSE <<>>

LeftBy(t, part) == file' = [file EXCEPT ![PathOf[t]] = Version(t, part)]

\* Slip: writeFile is not awaited, and the turn ends while it is under way.
FinishWriteUnawaited(t, ok) ==
    /\ step = "writing"
    /\ step' = "idle"
    /\ \/ ok /\ written' = written \cup {t} /\ LeftBy(t, "half")
       \/ ~ok /\ UNCHANGED <<written, file>>
    /\ UNCHANGED <<writes, interrupted>>

\* mkdir and writeFile, which replaces what an earlier turn put there, resolve; or safeJoin or one of
\* them throws, writeFile perhaps when it has emptied the file and written part of it
FinishWrite(t, ok) ==
    /\ step = "writing"
    /\ step' = "idle"
    /\ \/ ok /\ written' = written \cup {t} /\ LeftBy(t, "whole")
       \/ ~ok /\ UNCHANGED written /\ (UNCHANGED file \/ LeftBy(t, "half"))
    /\ UNCHANGED <<writes, interrupted>>

FinishWriteEmits(t, ok) ==
    IF ok
    THEN <<Event("tool_stream", t, ""), Event("tool_result", t, "ok"), Message(t), Complete(t, "ok")>>
    ELSE <<Event("tool_result", t, "failed"), Event("error", t, ""), Complete(t, "error")>>
=============================================================================
