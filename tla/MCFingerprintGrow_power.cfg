SPECIFICATION Spec
CONSTANTS
  Configs <- MCPowerPin
  EnrollmentBuffers = 1
  Automations <- MCCancelOnScan
  MaxUnread = 0
PROPERTY CommandsArePowered
