------------------------------ MODULE Cryptoapp ------------------------------
(* The use of the PSA crypto library (crypto/cryptoapp.c).  Every call       *)
(* imports the key anew, works with the handle and destroys it; the caller   *)
(* never looks at the result.  A call of the library may fail.               *)
EXTENDS Integers

CONSTANTS
    Keys,                 \* the AES keys in circulation
    NoKey,                \* a handle that names no key
    Slots,                \* how many keys the library can hold
    MaxFaults,            \* bound: failing calls in a behaviour
    LockIvs               \* what the random generator yields, draw by draw

CONSTANT Ctr(_, _, _, _)  \* AES-CTR: key, IV, position and byte to byte

ASSUME CryptoAssumption ==
    /\ NoKey \notin Keys
    /\ Slots \in Nat \ {0}
    /\ MaxFaults \in Nat

VARIABLES
    key_id,    \* the key the handle names
    live,      \* slots in use
    lost,      \* history: keys the library did not destroy when asked
    drawn,     \* IVs generated so far
    faults     \* failing calls so far
cryptoVars == <<key_id, live, lost, drawn, faults>>

CryptoInit ==
    /\ key_id = NoKey
    /\ live = 0
    /\ lost = 0
    /\ drawn = 0
    /\ faults = 0

Fails == faults < MaxFaults /\ faults' = faults + 1

(* psa_import_key takes a free slot; when it fails, as it does for a key     *)
(* that is not of sixteen bytes, the handle is the null handle.  A failed    *)
(* psa_crypto_init shows here, for it is ignored.                            *)
cryptoapp_importKey(key, size) ==
    /\ \/ /\ size = 16 /\ live < Slots
          /\ live' = live + 1 /\ key_id' = key /\ UNCHANGED faults
       \/ /\ size # 16 \/ live = Slots
          /\ key_id' = NoKey /\ UNCHANGED <<live, faults>>
       \/ Fails /\ key_id' = NoKey /\ UNCHANGED live
    /\ UNCHANGED <<lost, drawn>>

(* AES-CTR of n bytes of src into dst, encryption and decryption alike.      *)
Ciphered(key, iv, src, n, dst) ==
    [i \in DOMAIN dst |-> IF i < n THEN Ctr(key, iv, i, src[i]) ELSE dst[i]]

(* Decryption: dst gets the plaintext, or stays as it is when the handle is  *)
(* the null handle or one of setup, set_iv and update fails.  (What fails    *)
(* after the update has no effect.)                                          *)
cryptoapp_decryptMsg(src, n, dst, newDst, iv) ==
    /\ \/ key_id # NoKey /\ newDst = Ciphered(key_id, iv, src, n, dst) /\ UNCHANGED faults
       \/ key_id = NoKey /\ newDst = dst /\ UNCHANGED faults
       \/ key_id # NoKey /\ Fails /\ newDst = dst
    /\ UNCHANGED <<key_id, live, lost, drawn>>

(* Faulty variant of cryptoapp_encryptMsg: an IV once generated is kept.     *)
cryptoapp_encryptMsg_KeepsIv(src, n, dst, newDst, iv, newIv) ==
    /\ \/ /\ key_id # NoKey
          /\ newIv = LockIvs[1] /\ drawn' = 1
          /\ newDst = Ciphered(key_id, newIv, src, n, dst) /\ UNCHANGED faults
       \/ /\ key_id = NoKey
          /\ newDst = dst /\ newIv = iv /\ UNCHANGED <<drawn, faults>>
       \/ /\ key_id # NoKey /\ Fails /\ newDst = dst
          /\ \/ newIv = iv /\ UNCHANGED drawn
             \/ newIv = LockIvs[1] /\ drawn' = 1
    /\ UNCHANGED <<key_id, live, lost>>

(* Encryption: a new IV is generated first, so a call that fails may leave   *)
(* the new IV with the old ciphertext, or both as they were.                 *)
cryptoapp_encryptMsg(src, n, dst, newDst, iv, newIv) ==
    /\ \/ /\ key_id # NoKey
          /\ newIv = LockIvs[drawn + 1] /\ drawn' = drawn + 1
          /\ newDst = Ciphered(key_id, newIv, src, n, dst) /\ UNCHANGED faults
       \/ /\ key_id = NoKey
          /\ newDst = dst /\ newIv = iv /\ UNCHANGED <<drawn, faults>>
       \/ /\ key_id # NoKey /\ Fails /\ newDst = dst
          /\ \/ newIv = iv /\ UNCHANGED drawn
             \/ newIv = LockIvs[drawn + 1] /\ drawn' = drawn + 1
    /\ UNCHANGED <<key_id, live, lost>>

(* Faulty variant of cryptoapp_finish: the key is destroyed only if nothing  *)
(* has failed.                                                               *)
cryptoapp_finish_OnSuccess ==
    /\ key_id' = NoKey
    /\ \/ key_id # NoKey /\ faults = 0 /\ live' = live - 1 /\ UNCHANGED <<lost, faults>>
       \/ key_id # NoKey /\ Fails /\ lost' = lost + 1 /\ UNCHANGED live
       \/ (key_id = NoKey \/ faults > 0) /\ UNCHANGED <<live, lost, faults>>
    /\ UNCHANGED drawn

(* psa_destroy_key frees the slot; of the null handle it does nothing.       *)
cryptoapp_finish ==
    /\ key_id' = NoKey
    /\ \/ key_id # NoKey /\ live' = live - 1 /\ UNCHANGED <<lost, faults>>
       \/ key_id # NoKey /\ Fails /\ lost' = lost + 1 /\ UNCHANGED live
       \/ key_id = NoKey /\ UNCHANGED <<live, lost, faults>>
    /\ UNCHANGED drawn
=============================================================================
