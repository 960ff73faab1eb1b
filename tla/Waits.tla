-------------------------------- MODULE Waits --------------------------------
(***************************************************************************)
(* What a turn may wait for, side by side: the help of another agent, an   *)
(* MCP server, and a script. They share no state; a step of the whole is a *)
(* step of one of them.                                                    *)
(***************************************************************************)
EXTENDS Assistance, Mcp, Scripts

waitsVars == <<assistVars, mcpVars, scriptVars>>

WaitsInit == AssistInit /\ McpInit /\ ScriptsInit

AssistOnly == AssistNext /\ UNCHANGED <<mcpVars, scriptVars>>
McpOnly == McpNext /\ UNCHANGED <<assistVars, scriptVars>>
ScriptsOnly == ScriptsNext /\ UNCHANGED <<assistVars, mcpVars>>

WaitsNext == AssistOnly \/ McpOnly \/ ScriptsOnly

WaitsFairness == AssistFairness /\ McpFairness /\ ScriptsFairness

WaitsSpec == WaitsInit /\ [][WaitsNext]_waitsVars /\ WaitsFairness

\* The variables of the three hold values of their types.
WaitsTypesOK == AssistTypeOK /\ McpTypeOK /\ ScriptsTypeOK
==============================================================================
