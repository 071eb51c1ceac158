SPECIFICATION FairSpec
CONSTANTS
    Hosts = {1, 2, 3}
    Machines = {1, 2}
    Disks = {1, 2, 11, 12, 13}
    Journals = {11, 12, 13}
    Controllers = {1, 2}
    OwnDisk <- Owns12
    Bounds <- EveryDay
    MaximumGeneration = 20
 
INVARIANT NeverRefused
 
PROPERTY StepsOnly
PROPERTY ClusterSettles
