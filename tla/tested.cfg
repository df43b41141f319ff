SPECIFICATION ReportingSpec
CONSTANTS
    MISSION_DATA_FRESHNESS = 1
    FAILSAFE_HEARTBEAT_TIMEOUT = 5
    BATTERY_CRITICAL_VOLTAGE = 2
    DIVE_HEARTBEAT_GRACE = 4
    CRITICAL_VOLTAGE_HOLD = 2
    SURFACE_LOGGING_DWELL = 1
    POWER_SHUTDOWN_FINAL_GRACE = 1
    RECOVERY_DEPTH_THRESHOLD = 2
    SURFACE_QUALIFY = 2
    SURFACE_DEPTH_LIVENESS = 1
    IRIDIUM_INTERVAL = 4
    MILLIS_WRAP = 64
    NotFinite = NotFinite
    DorisStates = {0, 1, 4}
    Depths = {}
    Volts = {}
    Durations = {1}
    SessionTimes = {2}
    Commands = {"PWR_ACK", "set_leak", "reset", "reboot", "iridium_test"}
INVARIANTS
    FirstReportAtOnce
    AskedInThisDive
PROPERTIES
    SpacedButForTest
    ApiSpec
