------------------------------- MODULE Proposals -------------------------------
(***************************************************************************)
(* The change proposals of System0's self-improvement: verified and audited *)
(* when they are made, authorized and applied in later calls, maybe of later *)
(* turns, or made and applied at once by modify_skill.                       *)
(*                                                                          *)
(* A tool call holds the broker's mutex from its gate to its result: it is  *)
(* one action. What a proposal was verified against may have changed by the *)
(* time it is applied. Self-improvement is enabled: when it is not, every   *)
(* call returns an error and changes nothing.                               *)
(***************************************************************************)
EXTENDS FiniteSets

CONSTANTS
  Proposals,   \* proposal ids
  Skills,      \* skill ids
  AgentIds,    \* agent ids
  Registered,  \* skills the registry has at startup
  Configured,  \* skills the capabilities of configured agents name
  Subagents,   \* agents with a runtime
  Changes,     \* what the propose_* tools are called with
  NoTarget,    \* a missing target_id
  Nobody

\* TriggerType: Admin, and User or Internal, which nothing here tells apart.
Triggers == {"admin", "other"}
Flaws == {"unsound",  \* an empty patch or content, or a lint error
          "marked",   \* one of the critical markers of the audit
          "sandbox",  \* required_safeguards name a sandbox
          "regress"}  \* simulate_regression
SkillKinds == {"skill_add", "skill_update"}
AgentKinds == {"agent_add", "agent_update"}
Kinds == {"config_change"} \cup SkillKinds \cup AgentKinds

\* needs: the skills the patch of an agent names.
AllChanges ==
  {c \in [kind : Kinds, target : Skills \cup AgentIds \cup {NoTarget},
          needs : SUBSET Skills, flaws : SUBSET Flaws] :
     /\ c.kind = "config_change" => c.target = NoTarget /\ c.needs = {}
     /\ c.kind \in SkillKinds => c.target \in Skills \cup {NoTarget} /\ c.needs = {}
     /\ c.kind \in AgentKinds => c.target \in AgentIds \cup {NoTarget}}

ASSUME ProposalsAssumption ==
  /\ Skills \cap AgentIds = {} /\ NoTarget \notin Skills \cup AgentIds
  /\ Registered \subseteq Skills /\ Configured \subseteq Skills
  /\ Subagents \subseteq AgentIds
  /\ Changes \subseteq AllChanges
  /\ Nobody \notin Proposals

VARIABLES
  settings,    \* the flags of SelfImprovementConfig
  trigger,     \* current_trigger_type
  prop,        \* proposals_index
  improvement, \* SelfImprovementState: the ids known, and which proposal set what
  log          \* mutation_audit_log as a set, without the denials

vars == <<settings, trigger, prop, improvement, log>>

Settings == [require_admin : BOOLEAN, verify_first : BOOLEAN, canary : BOOLEAN]

Absent == [state |-> "absent"]
Grave  == {"high", "critical"}

\* known: known_skill_ids. managed: managed_skills and managed_agents. config and
\* good: the patch in config_snapshot and in last_known_good_snapshot.
Init ==
  /\ settings \in Settings
  /\ trigger \in Triggers
  /\ prop = [p \in Proposals |-> Absent]
  /\ improvement = [known |-> Registered, config |-> Nobody, good |-> Nobody,
                    managed |-> [t \in Skills \cup AgentIds |-> Nobody]]
  /\ log = {}

-----------------------------------------------------------------------------

Managed(imp) == {t \in Skills \cup AgentIds : imp.managed[t] # Nobody}

KnownSkills == improvement.known \cup (Managed(improvement) \cap Skills) \cup Configured

KnownAgents == Subagents \cup (Managed(improvement) \cap AgentIds)

\* Mutant of Verified: validate_agent_patch_skills is not called.
VerifiedWithoutSkills(c) ==
  /\ "unsound" \notin c.flaws
  /\ c.kind = "skill_add"    => c.target \notin improvement.known
  /\ c.kind = "skill_update" => c.target \in KnownSkills
  /\ c.kind = "agent_add"    => c.target \notin KnownAgents
  /\ c.kind = "agent_update" => c.target \in KnownAgents

\* verify_proposal.
Verified(c) ==
  /\ "unsound" \notin c.flaws
  /\ c.kind = "skill_add"    => c.target \notin improvement.known
  /\ c.kind = "skill_update" => c.target \in KnownSkills
  /\ c.kind = "agent_add"    => c.target \notin KnownAgents
  /\ c.kind = "agent_update" => c.target \in KnownAgents
  /\ c.kind \in AgentKinds   => c.needs \subseteq KnownSkills

\* audit_proposal.
Risk(c, passed) ==
  CASE "marked" \in c.flaws -> "critical"
    [] "marked" \notin c.flaws /\ ~passed -> "high"
    [] "marked" \notin c.flaws /\ passed /\ c.kind \in {"config_change", "agent_update"} -> "medium"
    [] OTHER -> "low"

Guarded(c) == "sandbox" \in c.flaws

\* create_proposal: the guard may take back what verification and audit said.
Created(c) ==
  LET passed == Verified(c) /\ ~Guarded(c)
      risk   == IF Guarded(c) THEN "critical" ELSE Risk(c, Verified(c))
      allow  == passed /\ risk \notin Grave
  IN  [change |-> c, passed |-> passed, risk |-> risk, allow |-> allow,
       state |-> IF allow THEN "awaiting_admin_message" ELSE "audit_blocked",
       authorized |-> FALSE, force |-> FALSE, by |-> "other"]

Log(outcome, p) == log' = log \cup {[outcome |-> outcome, of |-> p]}

\* gate_self_improvement.
Admitted == settings.require_admin => trigger = "admin"

\* set_turn_context: another turn begins.
SetTurnContext ==
  /\ trigger' \in Triggers
  /\ UNCHANGED <<settings, prop, improvement, log>>

\* The propose_* tools.
Propose(p) ==
  /\ prop[p] = Absent
  /\ \E c \in Changes : prop' = [prop EXCEPT ![p] = Created(c)]
  /\ UNCHANGED <<settings, trigger, improvement, log>>

\* The three mutating tools, refused by their gate.
NotAdmitted == ~Admitted /\ UNCHANGED vars

-----------------------------------------------------------------------------
(* authorize_proposal: in whatever state the proposal is.                    *)

AuthorizeDenied(p) ==
  /\ Admitted /\ prop[p] # Absent
  /\ (settings.verify_first /\ ~prop[p].passed) \/ prop[p].risk \in Grave
  /\ UNCHANGED vars

Authorized(r, force) ==
  [r EXCEPT !.authorized = TRUE, !.force = force, !.by = trigger, !.state = "authorized"]

\* Mutant of Authorize: verify_before_authorize is not looked at.
AuthorizeUnverified(p) ==
  /\ Admitted /\ prop[p] # Absent
  /\ \E force \in BOOLEAN :
       /\ prop[p].risk \in Grave => force
       /\ prop' = [prop EXCEPT ![p] = Authorized(@, force)]
  /\ Log("authorized", p)
  /\ UNCHANGED <<settings, trigger, improvement>>

Authorize(p) ==
  /\ Admitted /\ prop[p] # Absent
  /\ settings.verify_first => prop[p].passed
  /\ \E force \in BOOLEAN :
       /\ prop[p].risk \in Grave => force
       /\ prop' = [prop EXCEPT ![p] = Authorized(@, force)]
  /\ Log("authorized", p)
  /\ UNCHANGED <<settings, trigger, improvement>>

-----------------------------------------------------------------------------
(* apply_authorized_proposal: the proposal is not verified again.            *)

\* Mutant of Applies: a skill that is known is not added.
AppliesOnce(c) ==
  /\ c.kind # "config_change" => c.target # NoTarget
  /\ c.kind = "skill_add"    => c.target \notin improvement.known
  /\ c.kind = "skill_update" => c.target \in improvement.known \cup Managed(improvement)
  /\ c.kind = "agent_update" => c.target \in KnownAgents

\* Whether apply_proposal_mutation returns Ok: it adds what is there already.
Applies(c) ==
  /\ c.kind # "config_change" => c.target # NoTarget
  /\ c.kind = "skill_update" => c.target \in improvement.known \cup Managed(improvement)
  /\ c.kind = "agent_update" => c.target \in KnownAgents

\* apply_proposal_mutation, when it returns Ok.
Mutated(p, c) ==
  IF c.kind = "config_change"
  THEN [improvement EXCEPT !.config = p]
  ELSE [improvement EXCEPT !.managed[c.target] = p,
                           !.known = IF c.kind \in SkillKinds THEN @ \cup {c.target} ELSE @]

Moved(p, state) == prop' = [prop EXCEPT ![p].state = state]

\* Mutant of MayApply: a proposal that was verified needs no authorization.
MayApplyIfPassed(p) == Admitted /\ prop[p] # Absent /\ prop[p].passed

MayApply(p) == Admitted /\ prop[p] # Absent /\ prop[p].authorized

ApplyDenied(p) ==
  /\ Admitted /\ prop[p] # Absent /\ ~prop[p].authorized
  /\ UNCHANGED vars

ApplyGuarded(p) ==
  /\ MayApply(p) /\ Guarded(prop[p].change)
  /\ Moved(p, "rolled_back")
  /\ Log("rolled_back_guard_block", p)
  /\ UNCHANGED <<settings, trigger, improvement>>

\* The metrics before and after are of one critical section and cannot differ: what
\* the canary sees is a regression that the payload simulates.
Regresses(c) == settings.canary /\ "regress" \in c.flaws

\* Mutation and restoration of the snapshot are of one critical section without an await,
\* and apply_proposal_mutation errs before it changes anything: nobody sees more than this.
ApplyRolledBack(p) ==
  /\ MayApply(p) /\ ~Guarded(prop[p].change)
  /\ ~Applies(prop[p].change) \/ Regresses(prop[p].change)
  /\ Moved(p, "rolled_back")
  /\ Log("rolled_back", p)
  /\ UNCHANGED <<settings, trigger, improvement>>

ApplyPromoted(p) ==
  LET c == prop[p].change
  IN  /\ MayApply(p) /\ ~Guarded(c) /\ Applies(c) /\ ~Regresses(c)
      /\ improvement' = [Mutated(p, c) EXCEPT !.good = Mutated(p, c).config]
      /\ Moved(p, "promoted")
      /\ Log("promoted", p)
      /\ UNCHANGED <<settings, trigger>>

-----------------------------------------------------------------------------
(* modify_skill: proposed, authorized and applied in one call.               *)

Modification(skill, flaws) ==
  [kind |-> IF skill \in improvement.known \cup Managed(improvement)
            THEN "skill_update" ELSE "skill_add",
   target |-> skill, needs |-> {}, flaws |-> flaws]

\* A blocked proposal is returned and not kept.
ModifySkillBlocked ==
  /\ Admitted
  /\ \E skill \in Skills, flaws \in SUBSET {"unsound", "marked"} :
       ~Created(Modification(skill, flaws)).allow
  /\ UNCHANGED vars

\* Mutant of ModifySkill: no record in the audit log.
ModifySkillUnlogged(p) ==
  /\ Admitted /\ prop[p] = Absent
  /\ \E skill \in Skills :
       LET c == Modification(skill, {})
       IN  /\ Created(c).allow
           /\ prop' = [prop EXCEPT ![p] = [Authorized(Created(c), FALSE) EXCEPT !.state = "promoted"]]
           /\ improvement' = Mutated(p, c)
  /\ UNCHANGED <<settings, trigger, log>>

\* One that is allowed always applies: it has a target, known if it is an update.
ModifySkill(p) ==
  /\ Admitted /\ prop[p] = Absent
  /\ \E skill \in Skills :
       LET c == Modification(skill, {})
       IN  /\ Created(c).allow
           /\ prop' = [prop EXCEPT ![p] = [Authorized(Created(c), FALSE) EXCEPT !.state = "promoted"]]
           /\ improvement' = Mutated(p, c)
  /\ Log("promoted", p)
  /\ UNCHANGED <<settings, trigger>>

-----------------------------------------------------------------------------

ApplyNext(p) == ApplyDenied(p) \/ ApplyGuarded(p) \/ ApplyRolledBack(p) \/ ApplyPromoted(p)

Next == \/ SetTurnContext \/ NotAdmitted \/ ModifySkillBlocked
        \/ \E p \in Proposals : \/ Propose(p) \/ ModifySkill(p)
                                \/ AuthorizeDenied(p) \/ Authorize(p) \/ ApplyNext(p)

Spec == Init /\ [][Next]_vars
-----------------------------------------------------------------------------

ProposalStates == {"awaiting_admin_message", "audit_blocked", "authorized", "rolled_back",
                   "promoted"}

Records == [change : AllChanges, passed : BOOLEAN, risk : {"low", "medium"} \cup Grave,
            allow : BOOLEAN, state : ProposalStates, authorized : BOOLEAN,
            force : BOOLEAN, by : Triggers]

Outcomes == {"authorized", "promoted", "rolled_back", "rolled_back_guard_block"}

Improvements == [known : SUBSET Skills, config : Proposals \cup {Nobody},
                 good : Proposals \cup {Nobody},
                 managed : [Skills \cup AgentIds -> Proposals \cup {Nobody}]]

\* The types, and that a proposal beyond the first two states has been authorized.
TypeOK ==
  /\ settings \in Settings /\ trigger \in Triggers
  /\ log \subseteq [outcome : Outcomes, of : Proposals]
  /\ prop \in [Proposals -> Records \cup {Absent}]
  /\ improvement \in Improvements
  /\ \A p \in Proposals :
       prop[p] # Absent =>
         (prop[p].state \in {"authorized", "rolled_back", "promoted"} <=> prop[p].authorized)

InForce == {improvement.managed[t] : t \in Skills \cup AgentIds}
           \cup {improvement.config, improvement.good}

Approved(r) ==
  /\ r.authorized
  /\ settings.require_admin => r.by = "admin"
  /\ settings.verify_first => r.passed
  /\ r.risk \in Grave => r.force

\* Whatever is in force was approved as the settings demand, however its proposal was
\* made, authorized again, applied again or rolled back since.
InForceIsApproved ==
  \A p \in InForce \ {Nobody} : prop[p] # Absent /\ Approved(prop[p])

\* Whatever is in force has its promotion in the audit log.
InForceIsAudited ==
  \A p \in InForce \ {Nobody} : [outcome |-> "promoted", of |-> p] \in log

\* With verification before authorization, the agents the proposals made or changed
\* name only skills that are known now, though they were verified some calls ago.
AgentsUseKnownSkills ==
  settings.verify_first =>
    \A a \in AgentIds \cap Managed(improvement) :
      prop[improvement.managed[a]].change.needs \subseteq KnownSkills

\* No proposal that is rolled back is in force: one that is in force may be authorized
\* and applied again, after any others, and the rollback restores only what was there.
RolledBackLeavesNothing ==
  \A p \in Proposals : prop[p] # Absent /\ prop[p].state = "rolled_back" => p \notin InForce

(* The inductive invariant behind the five.                                       *)

\* A proposal that is kept: authorized only as the settings demand, and verified
\* against skills that are known still.
Sound(r) ==
  /\ r \in Records
  /\ r.state \in {"authorized", "rolled_back", "promoted"} <=> r.authorized
  /\ r.authorized => Approved(r)
  /\ r.passed => r.change.needs \subseteq KnownSkills

\* Nothing can roll back a proposal with this change: it has been promoted, and what it
\* needs is there still.
Applicable(c) == ~Guarded(c) /\ Applies(c) /\ ~Regresses(c)

IInv ==
  /\ settings \in Settings /\ trigger \in Triggers
  /\ log \subseteq [outcome : Outcomes, of : Proposals]
  /\ improvement \in Improvements
  /\ prop \in [Proposals -> Records \cup {Absent}]
  /\ \A p \in Proposals : prop[p] # Absent => Sound(prop[p])
  /\ \A p \in InForce \ {Nobody} : /\ prop[p] # Absent /\ prop[p].authorized
                                   /\ prop[p].state # "rolled_back"
                                   /\ Applicable(prop[p].change)
                                   /\ [outcome |-> "promoted", of |-> p] \in log
================================================================================
