---------------------------- MODULE ProposalsProofs ----------------------------
(* Proofs about Proposals, for any proposals, skills, agents and changes.       *)
EXTENDS Proposals, TLAPS

\* What a change is, by its kind.
LEMMA ChangeFacts ==
  ASSUME NEW c \in AllChanges
  PROVE  /\ c.kind \in Kinds /\ c.needs \subseteq Skills /\ c.flaws \subseteq Flaws
         /\ c.target \in Skills \cup AgentIds \cup {NoTarget}
         /\ c.kind \notin AgentKinds => c.needs = {}
         /\ c.kind \in SkillKinds => c.target \in Skills \cup {NoTarget}
         /\ c.kind \in AgentKinds => c.target \in AgentIds \cup {NoTarget}
  BY DEF AllChanges, Kinds, SkillKinds, AgentKinds

\* A proposal as it is created is sound and not authorized.
LEMMA CreatedIsSound ==
  ASSUME NEW c \in AllChanges
  PROVE  /\ Sound(Created(c)) /\ Created(c) # Absent
         /\ ~Created(c).authorized /\ Created(c).change = c
         /\ Created(c).allow => Created(c).passed /\ Created(c).risk \notin Grave
<1> DEFINE passed == Verified(c) /\ ~Guarded(c)
           risk   == IF Guarded(c) THEN "critical" ELSE Risk(c, Verified(c))
           allow  == passed /\ risk \notin Grave
<1>1. risk \in {"low", "medium"} \cup Grave
  BY DEF Risk, Grave
<1>2. passed \in BOOLEAN /\ allow \in BOOLEAN
  BY Zenon DEF Guarded, Verified
<1>3. Created(c) = [change |-> c, passed |-> passed, risk |-> risk, allow |-> allow,
                    state |-> IF allow THEN "awaiting_admin_message" ELSE "audit_blocked",
                    authorized |-> FALSE, force |-> FALSE, by |-> "other"]
  BY Zenon DEF Created
<1>4. passed => c.needs \subseteq KnownSkills
  <2>1. CASE c.kind \in AgentKinds
    BY <2>1 DEF Verified
  <2>2. CASE c.kind \notin AgentKinds
    BY <2>2, ChangeFacts
  <2> QED BY <2>1, <2>2
<1> HIDE DEF passed, risk, allow
<1>5. Created(c) \in Records
  BY <1>1, <1>2, <1>3 DEF Records, ProposalStates, Triggers
<1>6. allow => passed /\ risk \notin Grave
  BY DEF allow
<1>7. Created(c).state \notin {"authorized", "rolled_back", "promoted"}
  BY <1>3
<1> QED BY <1>3, <1>4, <1>5, <1>6, <1>7 DEF Sound, Absent

\* Authorizing changes the authorization and the state, nothing else.
LEMMA AuthorizedFacts ==
  ASSUME NEW r \in Records, NEW force \in BOOLEAN, trigger \in Triggers
  PROVE  /\ Authorized(r, force) \in Records
         /\ Authorized(r, force).authorized /\ Authorized(r, force).force = force
         /\ Authorized(r, force).by = trigger /\ Authorized(r, force).state = "authorized"
         /\ Authorized(r, force).risk = r.risk /\ Authorized(r, force).passed = r.passed
         /\ Authorized(r, force).change = r.change
  BY DEF Authorized, Records, ProposalStates

\* A record whose state alone is changed.
LEMMA MovedFacts ==
  ASSUME NEW r \in Records, NEW s \in ProposalStates
  PROVE  LET m == [r EXCEPT !.state = s]
         IN  /\ m \in Records /\ m.state = s /\ m.authorized = r.authorized
             /\ m.force = r.force /\ m.by = r.by /\ m.risk = r.risk
             /\ m.passed = r.passed /\ m.change = r.change
  BY DEF Records

\* A mutation puts p in force and forgets no skill.
LEMMA MutatedFacts ==
  ASSUME improvement \in Improvements, NEW p \in Proposals, NEW c \in AllChanges, Applies(c)
  PROVE  /\ Mutated(p, c) \in Improvements
         /\ Mutated(p, c).good = improvement.good
         /\ Mutated(p, c).config \in {improvement.config, p}
         /\ improvement.known \subseteq Mutated(p, c).known
         /\ \A t \in Skills \cup AgentIds : Mutated(p, c).managed[t] \in {improvement.managed[t], p}
<1>1. CASE c.kind = "config_change"
  BY <1>1 DEF Mutated, Improvements
<1>2. CASE c.kind # "config_change"
  <2> DEFINE known2 == IF c.kind \in SkillKinds THEN improvement.known \cup {c.target}
                                                ELSE improvement.known
             managed2 == [improvement.managed EXCEPT ![c.target] = p]
  <2>1. c.target \in Skills \cup AgentIds /\ (c.kind \in SkillKinds => c.target \in Skills)
    BY <1>2, ChangeFacts DEF Applies
  <2>2. managed2 \in [Skills \cup AgentIds -> Proposals \cup {Nobody}]
    BY <2>1 DEF Improvements
  <2>3. \A t \in Skills \cup AgentIds : managed2[t] \in {improvement.managed[t], p}
    BY <2>1 DEF Improvements
  <2>4. known2 \in SUBSET Skills /\ improvement.known \subseteq known2
    BY <2>1 DEF Improvements
  <2>5. Mutated(p, c) = [known |-> known2, config |-> improvement.config,
                         good |-> improvement.good, managed |-> managed2]
    BY <1>2 DEF Mutated, Improvements
  <2> HIDE DEF known2, managed2
  <2> QED BY <2>2, <2>3, <2>4, <2>5 DEF Improvements
<1> QED BY <1>1, <1>2

\* No skill and no agent is forgotten.
KnownGrows ==
  /\ improvement.known \subseteq improvement'.known
  /\ Managed(improvement) \subseteq Managed(improvement)'

\* What a change needs to be applied stays.
LEMMA StaysApplicable ==
  ASSUME KnownGrows, UNCHANGED settings, NEW c \in AllChanges, Applicable(c)
  PROVE  Applicable(c)'
<1>1. KnownAgents \subseteq KnownAgents'
  BY DEF KnownGrows, KnownAgents
<1>2. Applies(c)'
  BY <1>1 DEF Applicable, Applies, KnownGrows
<1>3. ~Guarded(c)' /\ ~Regresses(c)'
  BY DEF Applicable, Guarded, Regresses
<1> QED BY <1>2, <1>3 DEF Applicable

\* What keeps IInv when one proposal changes, whatever the change is.
LEMMA OneProposal ==
  ASSUME IInv, NEW p \in Proposals, NEW r, Sound(r), r # Absent,
         prop' = [prop EXCEPT ![p] = r], UNCHANGED <<settings, trigger>>,
         prop[p] # Absent /\ prop[p].authorized => r.authorized,
         improvement' \in Improvements,
         log \subseteq log', log' \subseteq [outcome : Outcomes, of : Proposals],
         KnownSkills \subseteq KnownSkills',
         InForce' \subseteq InForce \cup {p},
         KnownGrows,
         p \in InForce => r.state # "rolled_back" /\ r.change = prop[p].change,
         p \in InForce' \ InForce => /\ r.authorized /\ r.state # "rolled_back"
                                    /\ Applicable(r.change)
                                    /\ [outcome |-> "promoted", of |-> p] \in log'
  PROVE  IInv'
<1>1. prop' \in [Proposals -> Records \cup {Absent}]
  BY DEF IInv, Sound
<1>2. ASSUME NEW q \in Proposals, prop'[q] # Absent
      PROVE  Sound(prop[q])'
  <2>1. Sound(prop'[q])
    BY <1>2 DEF IInv
  <2> QED BY <2>1 DEF Sound, Approved
<1>3. ASSUME NEW q \in InForce' \ {Nobody}
      PROVE  /\ prop'[q] # Absent /\ prop'[q].authorized
             /\ prop'[q].state # "rolled_back"
             /\ [outcome |-> "promoted", of |-> q] \in log'
             /\ Applicable(prop'[q].change)
  <2>1. CASE q \in InForce
    BY <2>1, <1>3 DEF IInv, InForce, Improvements
  <2>2. CASE q \notin InForce
    BY <2>2, <1>3 DEF IInv
  <2> QED BY <2>1, <2>2
<1>5. ASSUME NEW q \in InForce' \ {Nobody}
      PROVE  Applicable(prop[q].change)'
  <2>1. q \in Proposals
    BY <1>5 DEF IInv, InForce, Improvements
  <2>2. prop'[q] \in Records /\ prop'[q].change \in AllChanges
    BY <1>1, <1>3, <1>5, <2>1 DEF Records
  <2>3. Applicable(prop'[q].change)
    BY <1>3, <1>5
  <2> QED BY <2>2, <2>3, StaysApplicable
<1>4. settings' \in Settings /\ trigger' \in Triggers
  BY DEF IInv
<1> QED BY <1>1, <1>2, <1>3, <1>4, <1>5 DEF IInv

\* In force after a mutation by p: what was, and p.
LEMMA InForceGrows ==
  ASSUME improvement \in Improvements, NEW p \in Proposals, NEW c \in AllChanges, Applies(c),
         improvement' = Mutated(p, c) \/ improvement' = [Mutated(p, c) EXCEPT !.good = Mutated(p, c).config]
  PROVE  /\ improvement' \in Improvements
         /\ KnownSkills \subseteq KnownSkills' /\ KnownGrows
         /\ InForce' \subseteq InForce \cup {p}
<1> DEFINE m == Mutated(p, c)
<1>1. /\ m \in Improvements /\ m.good = improvement.good /\ m.config \in {improvement.config, p}
      /\ improvement.known \subseteq m.known
      /\ \A t \in Skills \cup AgentIds : m.managed[t] \in {improvement.managed[t], p}
  BY MutatedFacts
<1> HIDE DEF m
<1>2. improvement' = m \/ improvement' = [m EXCEPT !.good = m.config]
  BY DEF m
<1>3. /\ improvement' \in Improvements
      /\ improvement'.known = m.known /\ improvement'.managed = m.managed
      /\ improvement'.config = m.config /\ improvement'.good \in {m.good, m.config}
  BY <1>1, <1>2 DEF Improvements
<1>4. KnownSkills \subseteq KnownSkills' /\ KnownGrows
  <2>1. ASSUME NEW t \in Skills \cup AgentIds, improvement.managed[t] # Nobody
        PROVE  improvement'.managed[t] # Nobody
    BY <2>1, <1>1, <1>3, ProposalsAssumption
  <2>2. Managed(improvement) \subseteq Managed(improvement)'
    BY <2>1 DEF Managed
  <2> QED BY <2>2, <1>1, <1>3 DEF KnownSkills, KnownGrows
<1>5. InForce' \subseteq InForce \cup {p}
  BY <1>1, <1>3 DEF InForce
<1> QED BY <1>3, <1>4, <1>5

\* Steps that change nothing, or the turn only.
LEMMA NoChange ==
  ASSUME IInv, UNCHANGED vars \/ SetTurnContext
  PROVE  IInv'
<1>1. UNCHANGED <<settings, prop, improvement, log>> /\ trigger' \in Triggers
  BY DEF IInv, vars, SetTurnContext
<1>2. KnownSkills' = KnownSkills /\ InForce' = InForce
  BY <1>1 DEF KnownSkills, Managed, InForce
<1>3. ASSUME NEW q \in Proposals, Sound(prop[q])
      PROVE  Sound(prop[q])'
  BY <1>1, <1>2, <1>3 DEF Sound, Approved
<1>4. ASSUME NEW q \in InForce \ {Nobody}, Applicable(prop[q].change)
      PROVE  Applicable(prop[q].change)'
  BY <1>1, <1>4 DEF Applicable, Guarded, Applies, Regresses, KnownAgents, Managed
<1> QED BY <1>1, <1>2, <1>3, <1>4 DEF IInv

\* The improvement is untouched: nothing new is in force or known.
LEMMA Untouched ==
  ASSUME UNCHANGED improvement
  PROVE  KnownSkills' = KnownSkills /\ InForce' = InForce /\ KnownGrows
  BY DEF KnownSkills, KnownGrows, Managed, InForce

\* An entry added to the log.
LEMMA Logged ==
  ASSUME IInv, NEW p \in Proposals, NEW outcome \in Outcomes, Log(outcome, p)
  PROVE  /\ log \subseteq log' /\ log' \subseteq [outcome : Outcomes, of : Proposals]
         /\ [outcome |-> outcome, of |-> p] \in log'
  BY DEF IInv, Log

\* The propose_* tools keep the invariant: what they add is not authorized.
LEMMA ProposeKeeps ==
  ASSUME IInv, NEW p \in Proposals, Propose(p)
  PROVE  IInv'
<1>1. PICK c \in Changes : prop' = [prop EXCEPT ![p] = Created(c)]
  BY DEF Propose
<1>2. c \in AllChanges
  BY ProposalsAssumption
<1>3. Sound(Created(c)) /\ Created(c) # Absent
  BY <1>2, CreatedIsSound
<1>4. UNCHANGED <<settings, trigger, improvement, log>> /\ prop[p] = Absent
  BY DEF Propose
<1>5. KnownSkills' = KnownSkills /\ InForce' = InForce /\ KnownGrows
  BY <1>4, Untouched
<1>6. improvement' \in Improvements /\ log' = log /\ log \subseteq [outcome : Outcomes, of : Proposals]
  BY <1>4 DEF IInv
<1>7. p \notin InForce
  BY <1>4, ProposalsAssumption DEF IInv
<1> QED BY <1>1, <1>3, <1>4, <1>5, <1>6, <1>7, OneProposal

\* authorize_proposal keeps it: it authorizes only as the settings demand.
LEMMA AuthorizeKeeps ==
  ASSUME IInv, NEW p \in Proposals, Authorize(p)
  PROVE  IInv'
<1>1. PICK force \in BOOLEAN :
        /\ prop[p].risk \in Grave => force
        /\ prop' = [prop EXCEPT ![p] = Authorized(prop[p], force)]
  BY DEF Authorize, IInv
<1> DEFINE r == Authorized(prop[p], force)
<1>2. prop[p] # Absent /\ prop[p] \in Records /\ Sound(prop[p]) /\ trigger \in Triggers
  BY DEF Authorize, IInv
<1>3. /\ r \in Records /\ r.authorized /\ r.force = force /\ r.by = trigger
      /\ r.state = "authorized" /\ r.risk = prop[p].risk /\ r.passed = prop[p].passed
      /\ r.change = prop[p].change
  BY <1>2, AuthorizedFacts
<1> HIDE DEF r
<1>4. Approved(r)
  BY <1>1, <1>3 DEF Approved, Authorize, Admitted
<1>5. Sound(r)
  BY <1>2, <1>3, <1>4 DEF Sound
<1>6. r # Absent
  BY <1>3 DEF Absent
<1>7. UNCHANGED <<settings, trigger, improvement>> /\ improvement' \in Improvements
  BY DEF Authorize, IInv
<1>8. KnownSkills' = KnownSkills /\ InForce' = InForce /\ KnownGrows
  BY <1>7, Untouched
<1>9. log \subseteq log' /\ log' \subseteq [outcome : Outcomes, of : Proposals]
  BY Logged DEF Authorize, Outcomes
<1>10. prop' = [prop EXCEPT ![p] = r]
  BY <1>1 DEF r
<1> QED BY <1>3, <1>5, <1>6, <1>7, <1>8, <1>9, <1>10, OneProposal

\* A proposal that may be applied and whose state alone is changed stays sound.
LEMMA MovedIsSound ==
  ASSUME IInv, NEW p \in Proposals, MayApply(p), NEW s \in {"rolled_back", "promoted"}, Moved(p, s)
  PROVE  LET r == [prop[p] EXCEPT !.state = s]
         IN  /\ prop' = [prop EXCEPT ![p] = r] /\ Sound(r) /\ r # Absent /\ r.authorized
             /\ r.state = s /\ r.change = prop[p].change /\ prop[p].change \in AllChanges
<1> DEFINE r == [prop[p] EXCEPT !.state = s]
<1>1. prop[p] # Absent /\ prop[p] \in Records /\ Sound(prop[p]) /\ prop[p].authorized
  BY DEF MayApply, IInv
<1>2. s \in ProposalStates
  BY DEF ProposalStates
<1>3. /\ r \in Records /\ r.state = s /\ r.authorized = prop[p].authorized
      /\ r.force = prop[p].force /\ r.by = prop[p].by /\ r.risk = prop[p].risk
      /\ r.passed = prop[p].passed /\ r.change = prop[p].change
  BY <1>1, <1>2, MovedFacts
<1>4. prop' = [prop EXCEPT ![p] = r]
  BY DEF Moved, IInv
<1> HIDE DEF r
<1>5. Sound(r)
  BY <1>1, <1>3 DEF Sound, Approved
<1>6. r # Absent
  BY <1>1, <1>3 DEF Absent
<1>7. prop[p].change \in AllChanges
  BY <1>1 DEF Records
<1> QED BY <1>1, <1>3, <1>4, <1>5, <1>6, <1>7 DEF r

\* apply_authorized_proposal keeps it when it rolls back.
LEMMA RollbackKeeps ==
  ASSUME IInv, NEW p \in Proposals, ApplyGuarded(p) \/ ApplyRolledBack(p)
  PROVE  IInv'
<1> DEFINE r == [prop[p] EXCEPT !.state = "rolled_back"]
<1>1. /\ MayApply(p) /\ Moved(p, "rolled_back")
      /\ UNCHANGED <<settings, trigger, improvement>>
      /\ \E outcome \in Outcomes : Log(outcome, p)
  BY DEF ApplyGuarded, ApplyRolledBack, Outcomes
<1>2. prop' = [prop EXCEPT ![p] = r] /\ Sound(r) /\ r # Absent /\ r.authorized
  BY <1>1, MovedIsSound
<1> HIDE DEF r
<1>3. KnownSkills' = KnownSkills /\ InForce' = InForce /\ KnownGrows
  BY <1>1, Untouched
<1>4. improvement' \in Improvements
  BY <1>1 DEF IInv
<1>5. log \subseteq log' /\ log' \subseteq [outcome : Outcomes, of : Proposals]
  BY <1>1, Logged
<1>6. p \notin InForce
  BY ProposalsAssumption DEF IInv, Applicable, ApplyGuarded, ApplyRolledBack
<1> QED BY <1>1, <1>2, <1>3, <1>4, <1>5, <1>6, OneProposal

\* It keeps it when it promotes: the proposal was authorized, and is logged.
LEMMA PromotionKeeps ==
  ASSUME IInv, NEW p \in Proposals, ApplyPromoted(p)
  PROVE  IInv'
<1> DEFINE r == [prop[p] EXCEPT !.state = "promoted"]
           c == prop[p].change
<1>1. /\ MayApply(p) /\ Moved(p, "promoted") /\ UNCHANGED <<settings, trigger>>
      /\ Log("promoted", p) /\ Applies(c) /\ Applicable(c)
      /\ improvement' = [Mutated(p, c) EXCEPT !.good = Mutated(p, c).config]
  BY DEF ApplyPromoted, Applicable
<1>2. /\ prop' = [prop EXCEPT ![p] = r] /\ Sound(r) /\ r # Absent /\ r.authorized
      /\ r.state = "promoted" /\ r.change = c /\ c \in AllChanges
  BY <1>1, MovedIsSound
<1> HIDE DEF r, c
<1>3. improvement \in Improvements
  BY DEF IInv
<1>4. /\ improvement' \in Improvements /\ KnownSkills \subseteq KnownSkills' /\ KnownGrows
      /\ InForce' \subseteq InForce \cup {p}
  BY <1>1, <1>2, <1>3, InForceGrows
<1>5. /\ log \subseteq log' /\ log' \subseteq [outcome : Outcomes, of : Proposals]
      /\ [outcome |-> "promoted", of |-> p] \in log'
  BY <1>1, Logged DEF Outcomes
<1>6. prop[p].change = c
  BY DEF c
<1> QED BY <1>1, <1>2, <1>4, <1>5, <1>6, OneProposal

\* modify_skill keeps it: what it puts in force passed verification and audit.
LEMMA ModifySkillKeeps ==
  ASSUME IInv, NEW p \in Proposals, ModifySkill(p)
  PROVE  IInv'
<1>1. PICK skill \in Skills :
        LET c == Modification(skill, {})
        IN  /\ Created(c).allow
            /\ prop' = [prop EXCEPT ![p] = [Authorized(Created(c), FALSE) EXCEPT !.state = "promoted"]]
            /\ improvement' = Mutated(p, c)
  BY DEF ModifySkill
<1> DEFINE c == Modification(skill, {})
           a == Authorized(Created(c), FALSE)
           r == [a EXCEPT !.state = "promoted"]
<1>2. c \in AllChanges /\ Applies(c) /\ Applicable(c)
  BY ProposalsAssumption
  DEF Applicable, Guarded, Regresses, Modification, AllChanges, Applies, Kinds, SkillKinds, AgentKinds, Flaws
<1>3. /\ Sound(Created(c)) /\ Created(c).passed /\ Created(c).risk \notin Grave
      /\ Created(c) \in Records
  BY <1>1, <1>2, CreatedIsSound DEF Sound
<1>4. trigger \in Triggers
  BY DEF IInv
<1>5. /\ a \in Records /\ a.authorized /\ a.by = trigger /\ a.risk = Created(c).risk
      /\ a.passed = Created(c).passed /\ a.change = Created(c).change
  BY <1>3, <1>4, AuthorizedFacts
<1>6. prop' = [prop EXCEPT ![p] = r] /\ improvement' = Mutated(p, c)
  BY <1>1
<1>7. /\ UNCHANGED <<settings, trigger>> /\ Log("promoted", p) /\ prop[p] = Absent /\ Admitted
      /\ improvement \in Improvements
  BY DEF ModifySkill, IInv
<1> HIDE DEF c, a
<1>8. /\ r \in Records /\ r.state = "promoted" /\ r.authorized /\ r.by = trigger
      /\ r.risk = Created(c).risk /\ r.passed /\ r.change = Created(c).change
  <2>1. "promoted" \in ProposalStates
    BY DEF ProposalStates
  <2> QED BY <1>3, <1>5, <2>1, MovedFacts
<1> HIDE DEF r
<1>9. Sound(r)
  BY <1>3, <1>7, <1>8 DEF Sound, Approved, Admitted
<1>10. r # Absent
  BY <1>8 DEF Absent
<1>11. /\ improvement' \in Improvements /\ KnownSkills \subseteq KnownSkills' /\ KnownGrows
       /\ InForce' \subseteq InForce \cup {p}
  BY <1>2, <1>6, <1>7, InForceGrows
<1>12. /\ log \subseteq log' /\ log' \subseteq [outcome : Outcomes, of : Proposals]
       /\ [outcome |-> "promoted", of |-> p] \in log'
  BY <1>7, Logged DEF Outcomes
<1>13. p \notin InForce
  BY <1>7, ProposalsAssumption DEF IInv
<1>14. Applicable(r.change)
  <2>1. Created(c).change = c
    BY <1>2, CreatedIsSound
  <2> QED BY <1>2, <1>8, <2>1
<1> QED BY <1>6, <1>7, <1>8, <1>9, <1>10, <1>11, <1>12, <1>13, <1>14, OneProposal
--------------------------------------------------------------------------------

\* IInv holds at the start and is kept by every step.
THEOREM Invariance == Spec => []IInv
<1>1. Init => IInv
  BY ProposalsAssumption DEF Init, IInv, InForce, Improvements
<1>2. IInv /\ [Next]_vars => IInv'
  <2> SUFFICES ASSUME IInv, [Next]_vars PROVE IInv'
    OBVIOUS
  <2>1. CASE UNCHANGED vars \/ SetTurnContext
    BY <2>1, NoChange
  <2>2. CASE NotAdmitted \/ ModifySkillBlocked
    BY <2>2, NoChange DEF NotAdmitted, ModifySkillBlocked
  <2>3. ASSUME NEW p \in Proposals,
               \/ Propose(p) \/ ModifySkill(p) \/ AuthorizeDenied(p) \/ Authorize(p) \/ ApplyNext(p)
        PROVE  IInv'
    <3>1. CASE AuthorizeDenied(p) \/ ApplyDenied(p)
      BY <3>1, NoChange DEF AuthorizeDenied, ApplyDenied
    <3> QED BY <2>3, <3>1, ProposeKeeps, ModifySkillKeeps, AuthorizeKeeps, RollbackKeeps,
               PromotionKeeps DEF ApplyNext
  <2> QED BY <2>1, <2>2, <2>3 DEF Next
<1> QED BY <1>1, <1>2, PTL DEF Spec

\* The state of System0's self-improvement is always of its type (proposals_index,
\* SelfImprovementState, current_trigger_type).
THEOREM TypeCorrect == Spec => []TypeOK
<1>1. IInv => TypeOK
  BY DEF IInv, TypeOK, Sound
<1> QED BY <1>1, Invariance, PTL

\* What apply_authorized_proposal or modify_skill put in force was approved as the
\* settings demand, for any number of proposals and calls.
THEOREM OnlyApprovedInForce == Spec => []InForceIsApproved
<1>1. IInv => InForceIsApproved
  <2> SUFFICES ASSUME IInv, NEW p \in InForce \ {Nobody} PROVE prop[p] # Absent /\ Approved(prop[p])
    BY DEF InForceIsApproved
  <2>1. p \in Proposals
    BY DEF IInv, InForce, Improvements
  <2> QED BY <2>1 DEF IInv, Sound
<1> QED BY <1>1, Invariance, PTL

\* Every promotion in force is in the audit log.
THEOREM AllInForceAudited == Spec => []InForceIsAudited
<1>1. IInv => InForceIsAudited
  BY DEF IInv, InForceIsAudited
<1> QED BY <1>1, Invariance, PTL

\* Agents in force name known skills when verification comes before authorization,
\* although verification looked at an earlier state.
THEOREM ManagedAgentsUseKnownSkills == Spec => []AgentsUseKnownSkills
<1>1. IInv => AgentsUseKnownSkills
  <2> SUFFICES ASSUME IInv, settings.verify_first, NEW a \in AgentIds \cap Managed(improvement)
               PROVE  prop[improvement.managed[a]].change.needs \subseteq KnownSkills
    BY DEF AgentsUseKnownSkills
  <2>1. improvement.managed[a] \in InForce \ {Nobody}
    BY DEF Managed, InForce
  <2>2. improvement.managed[a] \in Proposals
    BY <2>1 DEF IInv, InForce, Improvements
  <2> QED BY <2>1, <2>2 DEF IInv, Sound, Approved
<1> QED BY <1>1, Invariance, PTL

\* No proposal that was rolled back is in force, however often proposals are authorized and
\* applied again: what a promoted change needs is never taken away.
THEOREM RolledBackIsNotInForce == Spec => []RolledBackLeavesNothing
<1>1. IInv => RolledBackLeavesNothing
  BY ProposalsAssumption DEF IInv, RolledBackLeavesNothing
<1> QED BY <1>1, Invariance, PTL
================================================================================
