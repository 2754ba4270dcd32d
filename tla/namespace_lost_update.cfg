SPECIFICATION Spec
CONSTANTS
  alice = alice
  bob = bob
  report = report
  root = root
  drafts = drafts
  old = old
  User = {alice, bob}
  NoUser = NoUser
  System = System
  File = {report}
  NoMeta = NoMeta
  Servers = 2
  Folder = {root, old}
  Directory = {drafts, old}
  Path <- TwoDeep
  Root = root
  MaxAcl = 1
  MaxRequests = 2
  MaxCommands = 3
PROPERTY OnlyAccessCommands
CHECK_DEADLOCK FALSE
