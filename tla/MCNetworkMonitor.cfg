SPECIFICATION FairSpec
CONSTANTS
    Signature = {wifi, ethernet}
    StableSamples = 3
    Interval = 1
    Cooldown = 4
    MaxAttempt = 5
    None = None
PROPERTIES
    OnlyStable
    CooldownKept
    NetworkAdopted
CHECK_DEADLOCK FALSE
