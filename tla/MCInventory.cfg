SPECIFICATION InventorySpec
CONSTANTS
    MaxResources = 2
    MaxParts = 2
    MaxEpochs = 4
    MaxSequence <- MCSequence
    Snapshots = {1, 2}
    MaxOnWire = 2
INVARIANTS
    InventoryTypeOK
    ReceiptsContiguous
    NextIsAccepted
PROPERTIES
    SupersededEpochsAreSilent
CHECK_DEADLOCK FALSE
