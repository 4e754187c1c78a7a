CONSTANTS
  gpu = gpu
  cpu = cpu
  npu = npu
  r1 = r1
  r2 = r2
  r3 = r3
  r4 = r4
  None = None
  Threshold = 2
  Providers = {gpu, cpu, npu}
  Requests = {r1, r2, r3, r4}
  Primary <- MCPrimary
  Fallback <- MCFallback
  Mode <- MCMode
  Answers <- MCAnswers
  Disconnects = TRUE
SPECIFICATION FairSpec
INVARIANTS TypeOK OneProbe HealthyStaysClosed
PROPERTIES BrokenStaysOpen OpenEnds
