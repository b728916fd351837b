SPECIFICATION Spec
INVARIANT
  StopKillsGroup
