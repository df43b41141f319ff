SPECIFICATION PartnersSpec
CONSTANTS
    MISSION_DATA_FRESHNESS = 1
    FAILSAFE_HEARTBEAT_TIMEOUT = 5
    BATTERY_CRITICAL_VOLTAGE = 2
    DIVE_HEARTBEAT_GRACE = 4
    CRITICAL_VOLTAGE_HOLD = 2
    SURFACE_LOGGING_DWELL = 3
    POWER_SHUTDOWN_FINAL_GRACE = 2
    RECOVERY_DEPTH_THRESHOLD = 2
    SURFACE_QUALIFY = 2
    SURFACE_DEPTH_LIVENESS = 1
    POWER_STATUS_INTERVAL = 2
    IRIDIUM_INTERVAL = 3
    MILLIS_WRAP = 64
    NotFinite = NotFinite
    DorisStates = {1, 3, 4}
    Depths = {0, 1}
    Volts = {}
    Durations = {1}
    SessionTimes = {2}
    Commands = {"PWR_ACK", "set_leak"}
PROPERTIES
    HandshakeCompletes
    ReportsRecur
    AfloatSurfaces
