SPECIFICATION FairSpec
CONSTANTS
  Clients = {c1, c2}
  SystemVolumes <- MCVolumes
INVARIANTS TypeOK SystemFilesHidden ListedIsMounted VolumesInUse SessionsBehindSocket ServerFollowsSwitch
PROPERTIES StopReturns ListensAgain
