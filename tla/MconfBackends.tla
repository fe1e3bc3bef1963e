--------------------------- MODULE MconfBackends ----------------------------
(***************************************************************************)
(* An application on either Zephyr backend.  The two share no state: which *)
(* one is used is settled at the start.                                    *)
(***************************************************************************)
EXTENDS MconfEeprom

CONSTANTS Areas, AreaSize, Sector, MinSize, NULL   \* of MconfFlash

VARIABLES
  kind,                                 \* "eeprom" or "flash"
  fa, total_size, slot_size, access,    \* of MconfFlash
  flash_result                          \* its result

eepromVars == vars
flashVars  == <<fa, total_size, slot_size, access, flash_result>>

Flash == INSTANCE MconfFlash WITH result <- flash_result

ASSUME FlashConstants == Flash!FlashAssumption

BackendsInit == Init /\ Flash!Init /\ kind \in {"eeprom", "flash"}

BackendsNext ==
  \/ kind = "eeprom" /\ Next /\ UNCHANGED <<kind, flashVars>>
  \/ kind = "flash" /\ Flash!Next /\ UNCHANGED <<kind, eepromVars>>

BackendsSpec == BackendsInit /\ [][BackendsNext]_<<kind, eepromVars, flashVars>>

(* On flash, every access that reaches the driver lies inside the area it  *)
(* is made on, after any sequence of opens, refused opens and closes,      *)
(* although the bounds checked are those of the last successful            *)
(* mconf_zephyr_flash_init.                                                *)
AccessInArea == Flash!AccessInArea
=============================================================================
