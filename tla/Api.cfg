\* Two tasks of up to two snapshots each, delivered late, twice, out of order or
\* never; two command ids used for five commands, three different answers.  Or the
\* demonstration run, whose nodes have default quotas within their bounds or not.
\* Or the trigger, with a cooldown of two windows in experiments of up to five.
SPECIFICATION PlaneSpec
CONSTANTS
  critical = critical
  elastic = elastic
  camera = camera
  detector = detector
  bridge = bridge
  Tasks <- MCTasks
  CriticalTasks <- MCCritical
  MaxVersion = 2
  PublishedStates <- MCStates
  RefSets <- MCRefSets
  Nodes <- MCNodes
  CoreNodes <- MCCore
  HighNodes <- MCCore
  QuotaBounds <- MCBounds
  CommandIds = {1, 2}
  Payloads <- MCPayloads
  MaxReplies = 3
  NodeSpecs <- MCNodeSpecs
  QuotaDefaults = {2, 3}
  ProbeNode = detector
  DemoSnapshot <- MCDemoSnapshot
  CooldownWindows = 2
  MaxWindow = 5
  NULL = NULL
INVARIANTS EffectiveIsNewest EndedTasksHoldNothing OneAnswerPerCommand ConflictIsJustified
  ResultIsWhole CooldownHolds
PROPERTIES ImplementsPromise
\* The demonstration ends with its file or its exception.
CHECK_DEADLOCK FALSE
