SPECIFICATION MCSpec
CONSTANTS
  p1 = p1 p2 = p2 p3 = p3 r1 = r1 r2 = r2 c1 = c1 c2 = c2 c3 = c3 fa = fa fb = fb
  s1 = s1 s2 = s2 s3 = s3 u1 = u1 u2 = u2 bad = bad project = project coll = coll
  k1 = k1 k2 = k2 web = web front = front hash = hash ns1 = ns1 ns2 = ns2
  kube = kube svc = svc lk = lk lv = lv a1 = a1 a2 = a2 None = None
  Profiles = {p1, p2}
  ProfileNames = {p1, p2, p3}
  DefaultProfile = p1
  Regions = {r1, r2}
  Clusters = {c1, c2, c3}
  Families = {fa, fb}
  Services = {s1, s2, s3}
  AccountOf <- MCAccountOf
  RegionOf <- MCRegionOf
  ClusterOf <- MCClusterOf
  DefaultRegion <- MCDefaultRegion
  Flags <- MCFlags
  Tasks <- MCTasks
  Running <- MCRunning
  MaxTicks = 2
  Handlers = {h1, h2}
  Pods <- MCPods
  CommandLines <- MCCommandLines
  Environments <- MCEnvironments
  AgentHost <- MCAgentHost
  DefaultExcluded = {kube}
  UUIDs = {u1, u2}
  ProjectIDs = {project}
  DefaultRateLimit = 1000
  Agents = {a1, a2}
  Interfaces = {i1, i2}
  Starts <- MCStarts
  ServiceIDs = {v1, v2}
  MaxSessions = 2
  Statuses = {0, 3}
CHECK_DEADLOCK FALSE
INVARIANT SidecarSkipped
