SPECIFICATION BoardSpec
CONSTANTS
    PVT_WATCHDOG = 2
    I2C_FAIL_RECOVERY = 2
    MAX_IRIDIUM_RETRY = 2
    CYCLE_INTERVAL = 2
    Positions <- MCPositions
    Readings <- MCReadings
    Reports <- MCReports
    Configs <- MCConfigs
    Commands <- MCCommands
INVARIANTS
    AntennaExclusive
    SessionGivesBack
    ReportReadsBack
PROPERTIES
    WatchdogIsPatient
    MuteReceiverRestarted
    LostReceiverRecovers
