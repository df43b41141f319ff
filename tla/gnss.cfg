SPECIFICATION Spec
CONSTANTS
    PVT_WATCHDOG = 2
    I2C_FAIL_RECOVERY = 2
    UBX_NAV_PVT_LEN = 2
    UBX_READ_CHUNK = 4
    NOISE = 255
    MaxFaults = 2
    Payloads <- MCPayloads
INVARIANTS BackInStep SpeaksAfterInit
PROPERTIES PvtAsSent EphemerisKept
