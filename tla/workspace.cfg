SPECIFICATION Spec
CONSTANTS
  Name = {"s", "k"}
  FileSystem <- MCFileSystem
  Request <- MCRequest
  Root <- MCRoot
  SkillsDir = "s"
  SkillFile = "k"
  MaxLinks = 3
  MaxOps = 1
INVARIANTS OnlyWorkspaceChanges ReadAfterWrite SkillsReadable
CHECK_DEADLOCK FALSE
