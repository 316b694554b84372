SPECIFICATION Spec
CONSTANTS
  Configs <- MCConfigs
  AppSpecs <- MCSpecs
  Workloads <- MCWorkloads
  ImageInfos <- MCImageInfos
  ShellContexts <- MCShellContexts
  NameLength <- MCNameLength
  Malformed = Malformed
  NoFork = NoFork
  NoConfigMap = NoConfigMap
INVARIANTS
  TypeOK
  OnlyForkPanics
  UserEnvWins
  ForkedPod
  ShellAgrees
  VolumesResolve
CHECK_DEADLOCK FALSE
