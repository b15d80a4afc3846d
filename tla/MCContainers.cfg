SPECIFICATION Spec
CONSTANTS
  Cgroups <- SomeCgroups
  Unknown = Unknown
  Asked <- SomeAsked
  TTL = 2
  MaxBack = 2
  MaxSetBacks = 1
  None = None
PROPERTIES KeepsLive EventuallyNamed
