------------------------------ MODULE MCProposals ------------------------------
(* Proposals for TLC: one registered, one configured and one new skill, a subagent *)
(* and an agent to add, and a change of each kind, sound and with each flaw.       *)
EXTENDS Proposals, TLC

CONSTANTS p1, p2, known, configured, new, sub, added

Change(kind, target, needs, flaws) ==
  [kind |-> kind, target |-> target, needs |-> needs, flaws |-> flaws]

SmallChanges ==
  {Change("config_change", NoTarget, {}, f) : f \in {{}, {"unsound"}, {"marked"}, {"sandbox"}, {"regress"}}}
    \cup {Change("skill_add", t, {}, {}) : t \in {new, known, NoTarget}}
    \cup {Change("skill_update", t, {}, f) : t \in {known, configured}, f \in {{}, {"regress"}}}
    \cup {Change("agent_add", added, n, {}) : n \in {{}, {configured}, {new}}}
    \cup {Change("agent_update", t, {new}, {}) : t \in {sub, added}}

Symmetry == Permutations(Proposals)
================================================================================
