SPECIFICATION Spec
CONSTANTS
  p1 = p1
  p2 = p2
  known = known
  configured = configured
  new = new
  sub = sub
  added = added
  Proposals = {p1, p2}
  Skills = {known, configured, new}
  AgentIds = {sub, added}
  Registered = {known}
  Configured = {configured}
  Subagents = {sub}
  Changes <- SmallChanges
  NoTarget = NoTarget
  Nobody = Nobody
SYMMETRY Symmetry
CHECK_DEADLOCK FALSE
INVARIANT TypeOK
INVARIANT InForceIsApproved
INVARIANT InForceIsAudited
INVARIANT AgentsUseKnownSkills
INVARIANT RolledBackLeavesNothing
