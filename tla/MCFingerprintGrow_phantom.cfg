SPECIFICATION Spec
CONSTANTS
  Configs <- MCPoweredConfigs
  EnrollmentBuffers = 2
  Automations <- MCCancelOnScan
  MaxUnread = 0
INVARIANT EnrollingInSync
