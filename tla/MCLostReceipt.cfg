SPECIFICATION InventoryFairSpec
CONSTANTS
    MaxResources = 1
    MaxParts = 0
    MaxEpochs = 2
    MaxSequence <- MCSequence
    Snapshots = {1, 2}
    MaxOnWire = 1
PROPERTIES
    LeasesAreMaintained
CHECK_DEADLOCK FALSE
