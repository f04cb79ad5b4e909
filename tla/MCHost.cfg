SPECIFICATION Spec
CHECK_DEADLOCK FALSE
CONSTANTS
  Starter = {s1, s2}
  NoOne = NoOne
  HomeWorlds <- QuietHomes
  root_env = "root"
  DoorWorlds <- MCDoors
  Proposal = {"u1", "u2"}
  UpgradeWorlds <- MCUpgrades
  LoaderWorlds <- MCTrees
  failures = 2
  MaxQueued = 1
  LinkWorlds <- MCLinks
  Focuses = {"home", "door", "upgrade", "loader", "link"}
INVARIANTS HomeIsSound DoorIsSound UpgradeIsSafe TreeIsAsComposed LinkIsSound
 
