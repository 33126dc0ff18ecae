\* A wizard over two accounts, a table of three items, a viewer of two steps.
CONSTANTS
  u1 = u1
  u2 = u2
  u3 = u3
  t1 = t1
  t2 = t2
  t3 = t3
  a1 = a1
  a2 = a2
  o1 = o1
  o2 = o2
  o3 = o3
  q1 = q1
  q2 = q2
  x0 = x0
  x1 = x1
  n1 = n1
  n2 = n2
  None = None
  Urls <- TwoUrls
  Vanity <- OneVanity
  Tokens <- ThreeTokens
  Owner <- TokenOwner
  OrgsOf <- TheirOrgs
  ProjectsOf <- TheirProjects
  Existing = t2
  Count <- Lengths
  NoSearch = x0
  Size = 2
  Totals = {TRUE, FALSE}
  MaxPage = 2
  MaxDepth = 1
  MaxRunning = 2
  Nodes <- TwoSteps
  Silent = {}
  Whole <- TwoLines
  MaxStreams = 2
SPECIFICATION Spec
INVARIANTS WizardIsSound TableIsSound ViewerIsSound
PROPERTIES BackRestores
CHECK_DEADLOCK FALSE
