SPECIFICATION PowerSpec
CONSTANTS
    CONFIG_MAGIC_NUMBER = 5
    DEFAULT_IRIDIUM_INTERVAL = 144
    DEFAULT_MESHTASTIC_INTERVAL = 2
    DEFAULT_MAVLINK_INTERVAL = 1
    LEGACY_TIMED_EVENT_DURATION_SEC = 1
    DEFAULT_POWER_SAVE_VOLTAGE = 2
    MS_PER_S = 5
    BYTE = 4
    Commands <- MCCommands
INVARIANT PayloadFollows
PROPERTIES OnlyRequestsCut SavedSurvives TornSaveDetected
