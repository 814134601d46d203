------------------------------ MODULE SysFlash ------------------------------
(* The flash storage of the lock (System/sys_flash.c): one page that holds   *)
(* the AES key at offset 0 and the lock status byte at offset 20.            *)
(*                                                                           *)
(* A byte is the set of its bits that are 1.  NOR flash can only clear bits, *)
(* so programming a byte is an intersection and only an erase of the whole   *)
(* page sets bits again.  The sixteen key bytes are one abstract value.      *)
EXTENDS Integers

CONSTANTS
    Keys,          \* the AES keys in circulation
    DefaultKey,    \* the key compiled into the firmware
    Blank,         \* sixteen erased bytes
    Corrupt,       \* what programming a key over another one leaves
    FlashFaults    \* TRUE iff an erase or a write of the device may fail

ASSUME FlashAssumption ==
    /\ DefaultKey \in Keys
    /\ Blank \notin Keys
    /\ Corrupt \notin Keys
    /\ Corrupt # Blank
    /\ FlashFaults \in BOOLEAN

VARIABLES flashKey, flashStatus
flashVars == <<flashKey, flashStatus>>

Byte       == SUBSET (0..7)
ErasedByte == 0..7            \* 0xff
Locked     == {0}             \* 0x01
Unlocked   == {1}             \* 0x02

FLASH_PAGE_SIZE      == 4096
Priv_key             == 0
lock_status_location == 20

StoredKeys == Keys \cup {Blank, Corrupt}

FlashTypeOK ==
    /\ flashKey \in StoredKeys
    /\ flashStatus \in Byte

FlashInit ==
    /\ flashKey = Blank
    /\ flashStatus = ErasedByte

(* Faulty variant of sys_flash_erase: the offset is rounded down to its page. *)
sys_flash_erase_RoundsDown(offset) ==
    /\ flashKey' = Blank
    /\ flashStatus' = ErasedByte

(* flash_erase of the device driver, which refuses an address that is not a  *)
(* page boundary.  sys_flash_write ignores the result, so a refused erase    *)
(* and a failed one look the same to the caller: nothing happens.            *)
sys_flash_erase(offset) ==
    \/ /\ offset % FLASH_PAGE_SIZE = 0
       /\ flashKey' = Blank
       /\ flashStatus' = ErasedByte
    \/ /\ offset % FLASH_PAGE_SIZE # 0 \/ FlashFaults
       /\ UNCHANGED flashVars

(* What the key bytes hold after key k is programmed over the value old.     *)
Programmed(old, k) == IF old \in {Blank, k} THEN k ELSE Corrupt

(* The flash_write half of sys_flash_write, for each of the two locations.   *)
ProgramKey(k) ==
    /\ \/ flashKey' = Programmed(flashKey, k)
       \/ FlashFaults /\ UNCHANGED flashKey
    /\ UNCHANGED flashStatus

ProgramStatus(b) ==
    /\ \/ flashStatus' = flashStatus \cap b
       \/ FlashFaults /\ UNCHANGED flashStatus
    /\ UNCHANGED flashKey
=============================================================================
