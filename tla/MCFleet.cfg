CONSTANTS
  None = None
  Err = Err
  a1 = a1
  a2 = a2
  s1 = s1
  s2 = s2
  i1 = i1
  i2 = i2
  Agents = {a1, a2}
  StateKeys = {s1, s2}
  Invitations = {i1, i2}
  Requests <- MCRequests
  Snapshots <- MCSnapshots
  Versions <- MCVersions
  MaxFailures = 1
  Window = 1
  Lifetime = 2
  Horizon = 3
  MaxPublications = 1
  r1 = r1
  r2 = r2
  c1 = c1
  c2 = c2
  Members = {a1}
  Routers = {r1, r2}
  Replicas = {c1, c2}
  PolicyLife = 2
  Margin = 1
  AckLife = 1
  ConfigurationDigest <- MCDigests
  MaxGeneration = 2
  MaxRevision = 2
SPECIFICATION MCSpec
SYMMETRY MCSymmetry
CHECK_DEADLOCK FALSE
INVARIANTS AdmissionMeansCurrent RetirementIsProved OneKeyPerPurpose
