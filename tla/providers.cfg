SPECIFICATION FairSpec
CONSTANTS
    Configs = {"c1", "c2"}
    Fields = {"f"}
    MaxChanges = 3
    MaxErrors = 2
INVARIANTS TypeOK NoLostCluster StoredIsLive StoredIsIndexed
PROPERTY FollowsObject
CHECK_DEADLOCK FALSE
