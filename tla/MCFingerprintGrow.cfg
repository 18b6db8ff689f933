SPECIFICATION FairSpec
CONSTANTS
  Configs <- MCAllConfigs
  EnrollmentBuffers = 3
  Automations <- MCPoliteAutomations
  MaxUnread = 1
INVARIANTS TypeOK EnrollingInSync ModelOfOneEnrollment
PROPERTIES OneImagePerTouch FollowsSession RemovalNoticed ImagesAreResolved
