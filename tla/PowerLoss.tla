----------------------------- MODULE PowerLoss ------------------------------
(***************************************************************************)
(* What a reset of the board at any point does to the two things that      *)
(* outlive it: the payload's power (PayloadRelay) and the saved settings   *)
(* (ConfigManager).  The superloop is one thread: a command line, the      *)
(* bytes a save writes and the pin operations of a driver exclude each     *)
(* other, and setup() reads the settings and drives the pins again.        *)
(*                                                                         *)
(* A save writes the record byte by byte.  A reset in it leaves the bytes  *)
(* written so far in front of the old ones, or an erased page.             *)
(***************************************************************************)
EXTENDS PayloadRelay, ConfigManager

CONSTANT Commands   \* the command lines an operator may type

\* toInt() makes an integer of any text; the voltage is four bytes.
ASSUME PowerLossAssumption ==
    \A cmd \in Commands :
      /\ cmd.name \in {"set_iridium_interval", "set_meshtastic_interval",
                      "set_mavlink_interval"} => cmd.n \in Int
      /\ cmd.name = "set_power_save_voltage" => cmd.n \in 0 .. UINT32 - 1
      /\ cmd.name = "set_timed_event" => cmd.n \in Int /\ cmd.duration \in Int

VARIABLES sysConfig,   \* in RAM
          eeprom,      \* its image
          writing,     \* the next byte a save writes, 0 outside one
          kept         \* observes: the record last written whole, and whether
                       \* the image holds it but for a save in progress

store == <<sysConfig, eeprom, writing, kept>>
allVars == <<vars, store>>

\* An erased byte reads all ones.
Blank == [b \in Bytes |-> BYTE - 1]
Defaults == ConfigManager_setDefaults(Blank)
nothing == [record |-> Blank, whole |-> FALSE]

PowerInit ==
    /\ Init
    /\ eeprom = Blank /\ sysConfig = loadConfiguration(eeprom) /\ writing = 0
    /\ kept = nothing

\* The pins, and whoever drives them.
Drive ==
    /\ Step \/ LoseVin \/ (writing = 0 /\ \E state \in BOOLEAN : Set(state))
    /\ UNCHANGED store

Type(cmd) ==
    /\ todo = <<>> /\ writing = 0
    /\ sysConfig' = ConfigManager_processCommand(sysConfig, cmd)
    /\ writing' = IF Saves(cmd) THEN 1 ELSE 0
    /\ UNCHANGED <<eeprom, kept, vars>>

\* EEPROM.put: the next byte that changes, or the last.
Put ==
    /\ writing # 0
    /\ \E b \in writing .. 44 :
         /\ \A passed \in writing .. b - 1 : eeprom[passed] = sysConfig[passed]
         /\ eeprom[b] # sysConfig[b] \/ b = 44
         /\ eeprom' = [eeprom EXCEPT ![b] = sysConfig[b]]
         /\ writing' = IF b = 44 THEN 0 ELSE b + 1
    /\ kept' = IF writing' = 0 THEN [record |-> sysConfig, whole |-> TRUE] ELSE kept
    /\ UNCHANGED <<sysConfig, vars>>

\* A reset, setup() with it.
Restart(erased) ==
    /\ (erased => writing # 0) /\ writing' = 0
    /\ eeprom' = IF erased THEN Blank ELSE eeprom
    /\ sysConfig' = loadConfiguration(eeprom')
    /\ kept' = IF kept.whole /\ eeprom' = kept.record THEN kept ELSE nothing
    /\ Reset

PowerNext ==
    \/ Drive \/ Put
    \/ \E cmd \in Commands : Type(cmd)
    \/ \E erased \in BOOLEAN : Restart(erased)

PowerSpec == PowerInit /\ [][PowerNext]_allVars

-----------------------------------------------------------------------------

AnyRestart == \E erased \in BOOLEAN : Restart(erased)

\* The bytes a save in progress changes, and those of them in front of the last.
Changed == {b \in Summed : sysConfig[b] # kept.record[b]}
Early == {b \in Changed : \E last \in Changed : b < last}

\* They all rise, or they all fall.
OneWay ==
    \/ \A b \in Early : sysConfig[b] > kept.record[b]
    \/ \A b \in Early : sysConfig[b] < kept.record[b]

\* What was saved is what the next boot finds, however often the board resets
\* and whatever is typed and not saved in between (docs/BLUEOS_INTEGRATION.md,
\* "Must be called after configuration changes to persist").
SavedSurvives == [][kept.whole /\ writing = 0 /\ AnyRestart => sysConfig' = kept.record]_allVars

\* A reset in the middle of a save never boots with settings nobody chose: it
\* finds the old ones, the new ones or the defaults.  The checksum of
\* ConfigManager_load is an addition, so this is promised only of changes that
\* cannot cancel: of at most two bytes, or of more that but for the last all rise
\* or all fall.
TornSaveDetected ==
    [][kept.whole /\ writing # 0 /\ OneWay /\ AnyRestart =>
         \E c \in {sysConfig, kept.record, Defaults} :
           \A b \in Settings : sysConfig'[b] = c[b]]_allVars
=============================================================================
