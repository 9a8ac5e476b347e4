------------------------------- MODULE Policy -------------------------------
(***************************************************************************)
(* The workspace's execution policy (packages/daemon/src/policy/Policy.ts):*)
(* which tool calls run without asking the user.  The Policy object lives  *)
(* in the Workspace, so it outlives the Sessions that consult it.          *)
(***************************************************************************)
CONSTANTS Tools,           \* tool names the agent may call
          EditTools,       \* EDIT_TOOLS
          NeverAutoTools   \* NEVER_AUTO_TOOLS

ASSUME ToolsAssumption == /\ EditTools \subseteq Tools
                          /\ NeverAutoTools \subseteq Tools

Modes == {"manual", "auto-edits", "yolo"}

VARIABLES mode,    \* the execution mode in force
          allow    \* tools the user allow-listed

policyVars == <<mode, allow>>

PolicyInit == mode = "manual" /\ allow = {}

PolicyTypeOK == mode \in Modes /\ allow \subseteq Tools

\* decide(toolName) = "auto-approve"
AutoApproves(tool) ==
    \/ tool \in allow
    \/ mode = "yolo"
    \/ mode = "auto-edits" /\ tool \in EditTools \ NeverAutoTools

\* update({executionMode, allowTools}): the mode is replaced, tools are only ever added
UpdatePolicy(newMode, tools) ==
    /\ mode' = newMode
    /\ allow' = allow \cup tools

AllowForSession(tool) ==
    /\ allow' = allow \cup {tool}
    /\ UNCHANGED mode
=============================================================================
