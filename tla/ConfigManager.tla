--------------------------- MODULE ConfigManager ----------------------------
(***************************************************************************)
(* The persistent settings (modules/config_manager.cpp) as operators on    *)
(* the bytes of SystemConfig, in RAM and in the EEPROM: the checksum adds  *)
(* them one by one, whatever they mean, and a save writes them so.         *)
(***************************************************************************)
EXTENDS Integers, Sequences

CONSTANTS
    CONFIG_MAGIC_NUMBER, DEFAULT_IRIDIUM_INTERVAL, DEFAULT_MESHTASTIC_INTERVAL,
    DEFAULT_MAVLINK_INTERVAL, LEGACY_TIMED_EVENT_DURATION_SEC,
    DEFAULT_POWER_SAVE_VOLTAGE,
    MS_PER_S,           \* 1000
    BYTE                \* what a byte counts to, 256

UINT16 == BYTE * BYTE
UINT32 == UINT16 * UINT16

\* The bytes of a record add up to less than an erased checksum reads.
ASSUME ConfigAssumption ==
    /\ BYTE \in Nat \ {0, 1} /\ 40 * (BYTE - 1) < UINT32 - 1
    /\ MS_PER_S \in Nat \ {0}
    /\ {CONFIG_MAGIC_NUMBER, DEFAULT_IRIDIUM_INTERVAL, DEFAULT_MESHTASTIC_INTERVAL,
        DEFAULT_MAVLINK_INTERVAL, LEGACY_TIMED_EVENT_DURATION_SEC,
        DEFAULT_POWER_SAVE_VOLTAGE} \subseteq 0 .. UINT32 - 1

-----------------------------------------------------------------------------
(* The record *)

\* Where the fields begin.  Bytes 22 to 24, 27 and 28 align the next field;
\* nobody sets them, and they keep what an erased EEPROM reads.
First ==
    [magic |-> 1, iridiumInterval |-> 5, meshtasticInterval |-> 9, mavlinkInterval |-> 13,
     enableIridium |-> 17, enableMeshtastic |-> 18, enableMAVLink |-> 19, enablePSM |-> 20,
     enableNeoPixels |-> 21, timedEnabled |-> 25, timedAbsolute |-> 26, triggerTime |-> 29,
     durationSeconds |-> 33, powerSaveVoltage |-> 37, checksum |-> 41]

Flags ==
    {"enableIridium", "enableMeshtastic", "enableMAVLink", "enablePSM", "enableNeoPixels",
     "timedEnabled", "timedAbsolute"}

Span(f) == First[f] .. First[f] + IF f \in Flags THEN 0 ELSE 3

Bytes == 1 .. 44
Summed == 1 .. 40     \* all but the checksum

\* The k-th byte of a number, from the lowest.
Place == <<1, BYTE, BYTE * BYTE, BYTE * BYTE * BYTE>>
byteOf(n, k) == (n \div Place[k]) % BYTE

FieldAt ==
    [b \in Bytes |->
        IF \E f \in DOMAIN First : b \in Span(f) THEN CHOOSE f \in DOMAIN First : b \in Span(f)
        ELSE "none"]

Settings == {b \in Summed : FieldAt[b] # "none"}

\* Fields of a record take values.
set(c, values) ==
    [b \in Bytes |->
        IF FieldAt[b] \in DOMAIN values
        THEN byteOf(values[FieldAt[b]], b - First[FieldAt[b]] + 1) ELSE c[b]]

\* The number in a field of four bytes.
Number(c, f) ==
    LET b == First[f]
    IN  c[b] + BYTE * (c[b + 1] + BYTE * (c[b + 2] + BYTE * c[b + 3]))

-----------------------------------------------------------------------------

\* The sum of the bytes in front of the checksum.
SumOfBytes(c) ==
    LET sum[k \in 0 .. 40] == IF k = 0 THEN 0 ELSE sum[k - 1] + c[k]
    IN  sum[40]

calculateChecksum(c) == SumOfBytes(c) % UINT32

summed(c) == set(c, [checksum |-> calculateChecksum(c)])

defaultSettings ==
    [magic |-> CONFIG_MAGIC_NUMBER, iridiumInterval |-> DEFAULT_IRIDIUM_INTERVAL,
     meshtasticInterval |-> DEFAULT_MESHTASTIC_INTERVAL,
     mavlinkInterval |-> DEFAULT_MAVLINK_INTERVAL,
     enableIridium |-> 1, enableMeshtastic |-> 1, enableMAVLink |-> 1, enablePSM |-> 0,
     enableNeoPixels |-> 1, timedEnabled |-> 0, timedAbsolute |-> 0, triggerTime |-> 0,
     durationSeconds |-> LEGACY_TIMED_EVENT_DURATION_SEC,
     powerSaveVoltage |-> DEFAULT_POWER_SAVE_VOLTAGE]

ConfigManager_setDefaults(c) == summed(set(c, defaultSettings))

ConfigManager_load(e) ==
    Number(e, "magic") = CONFIG_MAGIC_NUMBER /\ Number(e, "checksum") = calculateChecksum(e)

\* Seeded fault: a record is taken by its magic number alone.
loadedByMagic(e) ==
    IF Number(e, "magic") = CONFIG_MAGIC_NUMBER THEN e ELSE ConfigManager_setDefaults(e)

\* The record that setup() goes on with; the defaults are not written back.
loadConfiguration(e) ==
    IF ConfigManager_load(e) THEN e ELSE ConfigManager_setDefaults(e)

\* Seeded fault: the record goes out with the sum of the one before.
savedUnsummed(c) == c

\* ConfigManager_save, up to the writing of the record.
saved(c) == summed(c)

-----------------------------------------------------------------------------
(* ConfigManager_processCommand: what a command makes of the record.  A     *)
(* number is what toInt() makes of the text behind it.                      *)

Feature == [iridium |-> "enableIridium", meshtastic |-> "enableMeshtastic",
            mavlink |-> "enableMAVLink", psm |-> "enablePSM", neopixels |-> "enableNeoPixels"]

ConfigManager_enableFeature(c, feature, enable) ==
    IF feature \in DOMAIN Feature THEN set(c, [f \in {Feature[feature]} |-> enable]) ELSE c

ConfigManager_setTimedEvent(c, gmt, time, duration) ==
    set(c, [timedEnabled |-> 1, timedAbsolute |-> IF gmt THEN 1 ELSE 0,
            triggerTime |-> time % UINT32, durationSeconds |-> duration % UINT16])

\* Seconds come in, milliseconds are kept in 32 bits.
Milliseconds(n) == ((n % UINT32) * MS_PER_S) % UINT32

ConfigManager_processCommand(c, cmd) ==
    CASE cmd.name = "set_iridium_interval" -> set(c, [iridiumInterval |-> Milliseconds(cmd.n)])
      [] cmd.name = "set_meshtastic_interval" ->
           set(c, [meshtasticInterval |-> Milliseconds(cmd.n)])
      [] cmd.name = "set_mavlink_interval" -> set(c, [mavlinkInterval |-> cmd.n % UINT32])
      [] cmd.name = "set_power_save_voltage" -> set(c, [powerSaveVoltage |-> cmd.n])
      [] cmd.name = "enable" -> ConfigManager_enableFeature(c, cmd.feature, 1)
      [] cmd.name = "disable" -> ConfigManager_enableFeature(c, cmd.feature, 0)
      [] cmd.name = "set_timed_event" ->
           ConfigManager_setTimedEvent(c, cmd.gmt, cmd.n, cmd.duration)
      [] cmd.name = "reset" -> saved(ConfigManager_setDefaults(c))
      [] cmd.name = "save" -> saved(c)
      [] OTHER -> c

\* The commands that end in ConfigManager_save.
Saves(cmd) == cmd.name \in {"save", "reset"}
=============================================================================
