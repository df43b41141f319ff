SPECIFICATION Spec
CONSTANTS
    MISSION_DATA_FRESHNESS = 1
    FAILSAFE_HEARTBEAT_TIMEOUT = 3
    BATTERY_CRITICAL_VOLTAGE = 2
    DIVE_HEARTBEAT_GRACE = 2
    CRITICAL_VOLTAGE_HOLD = 2
    SURFACE_LOGGING_DWELL = 3
    POWER_SHUTDOWN_FINAL_GRACE = 2
    RECOVERY_DEPTH_THRESHOLD = 2
    SURFACE_QUALIFY = 2
    SURFACE_DEPTH_LIVENESS = 1
    NotFinite = NotFinite
    DorisStates <- MCDoris
    Depths <- MCFrozen
    Volts <- MCVolts
    Durations = {1, 3}
INVARIANTS
    TypeOK
    CutoffEarned
    HandshakeOfThisDive
    FailsafeExplainsRecovery
    FrozenNeverSurfaces
PROPERTY PowerSpec
