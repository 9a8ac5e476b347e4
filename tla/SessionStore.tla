---------------------------- MODULE SessionStore ----------------------------
(***************************************************************************)
(* What SessionManager promises of the sessions on disk (the comments on   *)
(* its mutex, SessionManager.ts:197-198 and 209-214): commands take effect *)
(* one at a time.  The session a restart comes back to is one that was     *)
(* made and that no command deleted, ids are never used again, and the     *)
(* title a user gave stays.  The Summarizer is the one exception: what it  *)
(* writes may undo a command, and a command may undo it.                   *)
(***************************************************************************)
CONSTANTS Sessions, NoSession

VARIABLES used,      \* ids handed out
          stored,    \* the sessions that are there
          title,     \* of each
          current,   \* the session that a restart comes back to
          disturbed, \* sessions that the Summarizer, and no command since, wrote or removed
          discarded  \* sessions that the Summarizer ever removed

vars == <<used, stored, title, current, disturbed, discarded>>

Titles == {"none", "auto", "user"}

Init ==
    /\ used = {} /\ stored = {} /\ disturbed = {} /\ discarded = {}
    /\ title = [s \in Sessions |-> "none"]
    /\ current = NoSession

\* session s is there, with title t, or is not
Store(s, t) == stored' = stored \cup {s} /\ title' = [title EXCEPT ![s] = t]
Remove(s) == stored' = stored \ {s} /\ title' = [title EXCEPT ![s] = "none"]

ByCommand(s) == disturbed' = disturbed \ {s} /\ UNCHANGED discarded

Create(s) ==
    /\ s \notin used /\ used' = used \cup {s}
    /\ Store(s, "none") /\ ByCommand(s)
    /\ UNCHANGED current

Select(s) ==
    /\ s \in stored \cup discarded
    /\ current' = s
    /\ UNCHANGED <<used, stored, title, disturbed, discarded>>

Delete(s) ==
    /\ s \in used /\ s # current
    /\ Remove(s) /\ ByCommand(s)
    /\ UNCHANGED <<used, current>>

Rename(s) ==
    /\ s \in stored \cup disturbed
    /\ Store(s, "user") /\ ByCommand(s)
    /\ UNCHANGED <<used, current>>

\* A command that touches, opens or closes a session writes its record back, which changes nothing
\* here unless the Summarizer was at it since the record was read.
PutBack(s) ==
    /\ s \in disturbed
    /\ \E t \in Titles : Store(s, t)
    /\ ByCommand(s)
    /\ UNCHANGED <<used, current>>

\* The Summarizer writes what it read some time ago, also if the session was deleted since.
Summarize(s) ==
    /\ s \in used
    /\ Store(s, "auto")
    /\ disturbed' = disturbed \cup {s}
    /\ UNCHANGED <<used, current, discarded>>

\* It removes a session it found without events.
Discard(s) ==
    /\ s \in used
    /\ Remove(s)
    /\ disturbed' = disturbed \cup {s} /\ discarded' = discarded \cup {s}
    /\ UNCHANGED <<used, current>>

Next == \E s \in Sessions :
    \/ Create(s) \/ Select(s) \/ Delete(s) \/ Rename(s)
    \/ PutBack(s) \/ Summarize(s) \/ Discard(s)

Spec == Init /\ [][Next]_vars
=============================================================================
