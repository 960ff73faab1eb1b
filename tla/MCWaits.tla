------------------------------- MODULE MCWaits -------------------------------
(***************************************************************************)
(* Constants of Waits for TLC. Each behaviour is of one of the three, as in *)
(* MCParts; the others stand at their start, where nothing is enabled that  *)
(* their fairness is about.                                                 *)
(***************************************************************************)
EXTENDS Waits, TLC

CONSTANTS r, u, c1, c2, c3, pay, payAlias, notes

\* The turn of r asks once; that of u does, and its child asks again.
HelpersAsk == (r :> c1) @@ (u :> c2) @@ (c2 :> c3)

\* Skills with and without a hyphen in the name.
PayAndNotes == <<pay, notes>>
Underscores == (pay :> payAlias) @@ (notes :> notes)

VARIABLE part

Init == WaitsInit /\ part \in {"assistance", "mcp", "scripts"}

Next ==
  /\ UNCHANGED part
  /\ \/ part = "assistance" /\ AssistOnly
     \/ part = "mcp" /\ McpOnly
     \/ part = "scripts" /\ ScriptsOnly

Spec == Init /\ [][Next]_<<part, waitsVars>> /\ WaitsFairness
==============================================================================
