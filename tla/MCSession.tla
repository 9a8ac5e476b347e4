----------------------------- MODULE MCSession ------------------------------
(* Small instances of Session: a shell tool and an edit tool. *)
EXTENDS Session

CONSTANTS Write, Bash, r1, r2

MCToolOf == [r \in Requests |-> IF r = r1 THEN Bash ELSE Write]

\* clients switch to auto-edits; approving for the session is what extends the allow-list
MCPolicyUpdates == {[executionMode |-> "auto-edits", allowTools |-> {}]}
=============================================================================
