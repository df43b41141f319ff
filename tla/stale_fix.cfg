SPECIFICATION Spec
CONSTANTS
    PVT_WATCHDOG = 2
    I2C_FAIL_RECOVERY = 2
    MAX_IRIDIUM_RETRY = 2
PROPERTY NoStaleFix
