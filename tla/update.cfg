CONSTANTS
    script = script
    big = big
    Uploads <- MCUploads
    Size <- MCSize
    Tries <- MCTries
    SlotSize = 2
    MaxCuts = 1
    MaxRefused = 1
SPECIFICATION Spec
INVARIANTS TypeOK FlashedIsOneUpload FlashWrittenAlone
CHECK_DEADLOCK FALSE
