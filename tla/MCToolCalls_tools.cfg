SPECIFICATION Spec
CONSTANTS
  src = src
  env = env
  key = key
  lnk = lnk
  art = art
  short = short
  huge = huge
  Torn = Torn
  Absent = Absent
  Outside = Outside
  None = None
  Tools <- ToolNames
  Words = {"git", "-C", "reset", "soft", "path", "rm", "ls"}
  Marks = {"&&"}
  Basename <- BasenameOf
  Names = {src, env, key, lnk, art}
  Protected = {env}
  Denied = {key}
  Allowed = {env, key, lnk, art}
  Hidden = {env, art}
  Aliases = {lnk, art}
  Scratch = {src, lnk, art}
  Executables = {"soft"}
  Texts = {short, huge}
  Huge = {huge}
  Artifact <- ArtifactOf
  Setups <- SomePolicies
  Inputs <- SomeCommands
INVARIANTS
  TypeOK
  ShowsAccessible
  CommandsJudged
  HintHonest
PROPERTIES
  WritesGuarded
