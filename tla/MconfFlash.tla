----------------------------- MODULE MconfFlash -----------------------------
(***************************************************************************)
(* The Zephyr flash map backend (zephyr/src/mconf_zephyr_flash.c): opening *)
(* and closing a flash area, again and again on one context and one        *)
(* mconf_io_t, and the callbacks with the offsets mconf_load and mconf_save*)
(* pass.  The driver's accesses are recorded; the contents of the flash    *)
(* are those of the medium "nor" of MconfStorage.                          *)
(***************************************************************************)
EXTENDS Integers

CONSTANTS
  Areas,      \* flash area ids
  AreaSize,   \* flash_area_get_size
  Sector,     \* erase unit of the flash device
  MinSize,    \* smallest area: two record headers
  NULL        \* no flash area

(* Assumed of the constants where this module is instantiated.            *)
FlashAssumption ==
  /\ AreaSize \in [Areas -> Nat] /\ Sector \in Nat \ {0} /\ MinSize \in Nat \ {0}
  /\ NULL \notin Areas

Slots == {0, 1}

VARIABLES
  fa,          \* ctx->fa
  total_size,  \* ctx->total_size
  slot_size,   \* io->slot_size, 0 while io is not set up
  access,      \* the last access that reached the driver
  result       \* what the last call returned

vars == <<fa, total_size, slot_size, access, result>>

NoAccess == [op |-> "none", area |-> NULL, from |-> 0, size |-> 0]

Init ==
  /\ fa = NULL /\ total_size = 0 /\ slot_size = 0
  /\ access = NoAccess /\ result = "OK"

-----------------------------------------------------------------------------
SizeAccepted(size) == size >= MinSize /\ size % 2 = 0

(* Mutant: the handle of an area of a refused size is kept.                *)
AfterRefusal_Kept(area) == area

(* The area of a refused size is closed and the handle cleared.            *)
AfterRefusal(area) == NULL

mconf_zephyr_flash_init(area) ==
  /\ \/ /\ result' = "ENOENT"                        \* flash_area_open failed
        /\ UNCHANGED <<fa, total_size, slot_size>>
     \/ /\ ~SizeAccepted(AreaSize[area])
        /\ fa' = AfterRefusal(area)
        /\ result' = "EINVAL"
        /\ UNCHANGED <<total_size, slot_size>>
     \/ /\ SizeAccepted(AreaSize[area])
        /\ fa' = area
        /\ total_size' = AreaSize[area]
        /\ slot_size' = AreaSize[area] \div 2
        /\ result' = "OK"
  /\ UNCHANGED access

mconf_zephyr_flash_close ==
  /\ fa' = NULL
  /\ UNCHANGED <<total_size, slot_size, access, result>>

(* The driver erases whole sectors only; any access may fail.              *)
DriverAccepts(op, from, size) ==
  op = "erase" => from % Sector = 0 /\ size % Sector = 0

(* mconf_zephyr_flash_read, _write and _erase: base_offset is always 0.    *)
FlashAccess(op, offset, size) ==
  /\ IF fa = NULL \/ offset + size > total_size
     THEN result' = "IO" /\ UNCHANGED access
     ELSE /\ access' = [op |-> op, area |-> fa, from |-> offset, size |-> size]
          /\ \/ DriverAccepts(op, offset, size) /\ result' = "OK"
             \/ result' = "IO"
  /\ UNCHANGED <<fa, total_size, slot_size>>

(* mconf_load and mconf_save address a slot by slot * slot_size and stay   *)
(* within slot_size.                                                       *)
mconf_zephyr_flash_read(s, at, size) ==
  /\ slot_size > 0 /\ at + size <= slot_size
  /\ FlashAccess("read", s * slot_size + at, size)

mconf_zephyr_flash_write(s, at, size) ==
  /\ slot_size > 0 /\ at + size <= slot_size
  /\ FlashAccess("write", s * slot_size + at, size)

mconf_zephyr_flash_erase(s) ==
  /\ slot_size > 0
  /\ FlashAccess("erase", s * slot_size, slot_size)

Next ==
  \/ \E a \in Areas : mconf_zephyr_flash_init(a)
  \/ mconf_zephyr_flash_close
  \/ \E s \in Slots, at \in 0 .. slot_size - 1, size \in 1 .. slot_size :
       \/ mconf_zephyr_flash_read(s, at, size)
       \/ mconf_zephyr_flash_write(s, at, size)
  \/ \E s \in Slots : mconf_zephyr_flash_erase(s)

Spec == Init /\ [][Next]_vars

-----------------------------------------------------------------------------
(* Properties                                                              *)

(* Every access that reaches the driver lies inside the area it is made    *)
(* on, after any sequence of opens, refused opens and closes, although the *)
(* bounds checked are those of the last successful init.                   *)
AccessInArea ==
  access # NoAccess => access.from + access.size <= AreaSize[access.area]
=============================================================================
