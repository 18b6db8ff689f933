SPECIFICATION Spec
CONSTANTS
  UINT32_MAX = 3
  MaxUnread = 2
INVARIANTS TypeOK ConfigNamesPassword NewPasswordIsSet
