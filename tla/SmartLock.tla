------------------------------ MODULE SmartLock ------------------------------
(* The firmware of the lock: the main thread (main.c) with the flash, the    *)
(* motor and the Bluetooth callbacks it works with, the client that writes   *)
(* commands to it, and power failures.                                       *)
(*                                                                           *)
(* pc is the place of the main thread.  Everything between two values of pc  *)
(* touches nothing a callback can see or change, so it is one step.          *)
EXTENDS SysFlash, Mcapp, BLEapp

CONSTANTS
    Pieces,        \* what a piece of the data of a message may be (see Args)
    Zero,          \* a piece of zero bytes
    Shorts,        \* data of less than 16 bytes
    Times,         \* well-formed dates that are in range
    BadTimes,      \* well-formed dates that are out of range
    LongArgs,      \* more than 17 bytes of data, none of them zero
    ZeroTime,      \* the date fields after a reset
    Patient,       \* TRUE iff a client writes only when the lock has nothing to do
    MaxCrashes     \* bound: resets in a behaviour

(* The data of a message are one piece after the other: piece 1 ends where   *)
(* short data end, piece 2 with byte 15, where a key ends, piece 3 is byte   *)
(* 16, the last of a date, and piece 4 what comes behind it.                 *)
NoArg  == <<>>
Args   == {NoArg} \cup Shorts \cup Keys \cup Times \cup BadTimes \cup LongArgs
Codes  == (0..3) \X (0..34)         \* data type and message id

(* A frame as the lock sees it:                                              *)
(*   outer  the envelope: no SOH, no EOT, a bad EM or length, or fine        *)
(*   body   what decrypts under the right key: not a message, a message with *)
(*          a bad length, one for another lock, or fine                      *)
(*   code   the command, key what it is encrypted with, arg its data         *)
ContentType == [outer : {"ok", "nosoh", "noeot", "nolen"},
                body  : {"ok", "malformed", "badlen", "otherid"},
                code  : Codes, key : Keys, arg : Args]

ASSUME LockAssumption ==
    /\ Contents \subseteq ContentType
    /\ Zero \in Pieces
    /\ Shorts \subseteq [1..1 -> Pieces]
    /\ Keys \subseteq [1..2 -> Pieces]
    /\ Times \cup BadTimes \subseteq [1..3 -> Pieces \ {Zero}]
    /\ LongArgs \subseteq [1..4 -> Pieces \ {Zero}]
    /\ Times \cap BadTimes = {}
    /\ Patient \in BOOLEAN
    /\ MaxCrashes \in Nat

VARIABLES
    pc, evt,             \* the main thread and the event it handles
    lenOf,               \* MainMsgLen: the write whose length it is
    ivHi, ivLo,          \* BLEivBuf, its first and its last bytes
    prevIv,              \* BLEPrevivBuf, the same two parts
    enc,                 \* the write whose ciphertext is in BLEencryptBuf
    Data, dataTail,      \* Data: its first 17 bytes, and whether byte 17 is set
    dataLen,             \* dataLen
    clock,               \* hour, min, sec, date, month, year
    Key,                 \* the key in use
    lockUnlockStatus,
    reply,               \* the last notification a client received
    done,                \* history: writes carried out since the last reset
    crashes
parseVars == <<lenOf, ivHi, ivLo, prevIv, enc>>
dataVars  == <<Data, dataTail, dataLen>>
lockVars  == <<clock, Key, lockUnlockStatus>>
vars == <<flashVars, motorVars, bleVars, pc, evt, parseVars, dataVars, lockVars,
          reply, done, crashes>>

Battery90 == {1, 3, 4, 6}        \* the constant battery level
Battery11 == {0, 1, 3}           \* the one BLEapp_loop is called with
Battery99 == {0, 1, 5, 6}        \* the one in the first mfg_data
BadLength == 255

ArgLen(a) == CASE a = NoArg            -> 0
               [] a \in Shorts         -> 8
               [] a \in Keys           -> 16
               [] a \in Times \cup BadTimes -> 17
               [] OTHER                -> 20

BootPcs  == {"boot_erase", "boot_write_erase", "boot_write", "boot_key",
             "boot_again_erase", "boot_again", "boot_init"}
ParsePcs == {"iv_hi", "iv_lo", "cipher", "decode"}
MotorPcs == {"pwm_lhs", "pwm_rhs", "sleep", "stop_lhs", "stop_rhs"}
StorePcs == {"store_erase", "store_write", "push_ack"}
KeyPcs   == {"key_erase", "key_write"}
Pcs == BootPcs \cup {"wait", "adv_check", "adv_write", "dispatch"}
       \cup ParsePcs \cup MotorPcs \cup StorePcs \cup KeyPcs

ReplyKinds == {"none", "LOCK_STATUS", "BATTERY_LEVEL", "GETTIMEDATE",
               "GETENCRYPTKEY", "ACK", "NACK"}
Clocks     == Times \cup BadTimes \cup {ZeroTime}
ReplyVals(kind) == CASE kind = "GETTIMEDATE"   -> Clocks
                     [] kind = "GETENCRYPTKEY" -> StoredKeys
                     [] OTHER                  -> Byte

TypeOK ==
    /\ FlashTypeOK /\ MotorTypeOK /\ BLETypeOK
    /\ pc \in Pcs
    /\ evt \in Event
    /\ {lenOf, ivHi, ivLo, enc} \subseteq 0..Len(sent)
    /\ prevIv \in (0..Len(sent)) \X (0..Len(sent))
    /\ Data \in [1..3 -> Pieces]
    /\ dataTail \in BOOLEAN
    /\ dataLen \in {0, 8, 16, 17, 20, BadLength}
    /\ clock \in Clocks
    /\ Key \in StoredKeys
    /\ lockUnlockStatus \in Byte
    /\ reply.kind \in ReplyKinds
    /\ reply \in [kind : {reply.kind}, of : 0..Len(sent), val : ReplyVals(reply.kind)]
    /\ done \subseteq 1..Len(sent)
    /\ crashes \in Nat

ZeroData == [i \in 1..3 |-> Zero]

(* Key and lockUnlockStatus are read from the flash before they are used;    *)
(* until then Blank and {} stand for their zeroed bytes.                     *)
Init ==
    /\ FlashInit /\ BLEInit
    /\ lhs = 0 /\ rhs = 0 /\ bolt = BoltIn
    /\ pc = "boot_erase" /\ evt = NoEvent
    /\ lenOf = 0 /\ ivHi = 0 /\ ivLo = 0 /\ prevIv = <<0, 0>> /\ enc = 0
    /\ Data = ZeroData /\ dataTail = FALSE /\ dataLen = 0
    /\ clock = ZeroTime /\ Key = Blank /\ lockUnlockStatus = {}
    /\ reply = [kind |-> "none", of |-> 0, val |-> {}]
    /\ done = {}
    /\ crashes = 0
-----------------------------------------------------------------------------
(* main(), up to its loop.  The page is erased and the default key written   *)
(* on every start, before the status byte is read back.                      *)
BootErase(from, to) ==
    /\ pc = from
    /\ sys_flash_erase(Priv_key)
    /\ pc' = to
    /\ UNCHANGED <<motorVars, bleVars, evt, parseVars, dataVars, lockVars,
                   reply, done, crashes>>

BootProgram(from, to) ==
    /\ pc = from
    /\ ProgramKey(DefaultKey)
    /\ pc' = to
    /\ UNCHANGED <<motorVars, bleVars, evt, parseVars, dataVars, lockVars,
                   reply, done, crashes>>

BootErasePage ==
    \/ BootErase("boot_erase", "boot_write_erase")
    \/ BootErase("boot_write_erase", "boot_write")
    \/ BootErase("boot_again_erase", "boot_again")

BootWriteKey ==
    \/ BootProgram("boot_write", "boot_key")
    \/ BootProgram("boot_again", "boot_init")

(* A key that reads back as erased is written once more.                     *)
BootReadKey ==
    /\ pc = "boot_key"
    /\ pc' = IF flashKey = Blank THEN "boot_again_erase" ELSE "boot_init"
    /\ UNCHANGED <<flashVars, motorVars, bleVars, evt, parseVars, dataVars,
                   lockVars, reply, done, crashes>>

StatusRead(b) == IF b \in {ErasedByte, {}} THEN Locked ELSE b

BootInit ==
    /\ pc = "boot_init"
    /\ Key' = flashKey
    /\ lockUnlockStatus' = StatusRead(flashStatus)
    /\ BLEapp_init(lockUnlockStatus', Battery99)
    /\ mcapp_init
    /\ pc' = "wait"
    /\ UNCHANGED <<flashVars, bolt, evt, parseVars, dataVars, clock, reply,
                   done, crashes>>
-----------------------------------------------------------------------------
(* The loop of main(): wait up to a second for an event, refresh the         *)
(* advertised data, handle the event.                                        *)

TimedGet ==
    /\ pc = "wait"
    /\ \/ queue # <<>> /\ evt' = Head(queue) /\ queue' = Tail(queue)
       \/ queue = <<>> /\ evt' = NoEvent /\ UNCHANGED queue
    /\ pc' = "adv_check"
    /\ UNCHANGED <<flashVars, motorVars, radioVars, parseVars, dataVars,
                   lockVars, reply, done, crashes>>

(* Faulty variant of AdvCheck: the test of current_conn is inverted.         *)
AdvCheck_Inverted ==
    /\ pc = "adv_check"
    /\ pc' = IF current_conn # NoConn THEN "adv_write" ELSE "dispatch"
    /\ UNCHANGED <<flashVars, motorVars, bleVars, evt, parseVars, dataVars,
                   lockVars, reply, done, crashes>>

(* BLEapp_loop looks at current_conn first and writes afterwards.            *)
AdvCheck ==
    /\ pc = "adv_check"
    /\ pc' = IF current_conn = NoConn THEN "adv_write" ELSE "dispatch"
    /\ UNCHANGED <<flashVars, motorVars, bleVars, evt, parseVars, dataVars,
                   lockVars, reply, done, crashes>>

AdvRefresh ==
    /\ pc = "adv_write"
    /\ AdvWrite(lockUnlockStatus, Battery11)
    /\ pc' = "dispatch"
    /\ UNCHANGED <<flashVars, motorVars, evt, parseVars, dataVars, lockVars,
                   reply, done, crashes>>

Handling(type) == pc = "dispatch" /\ evt.type = type
Finish == pc' = "wait" /\ evt' = NoEvent

Idle ==
    /\ Handling("NONE")
    /\ Finish
    /\ UNCHANGED <<flashVars, motorVars, bleVars, parseVars, dataVars, lockVars,
                   reply, done, crashes>>

(* BLE_APP_EVENT_LOCK and BLE_APP_EVENT_UNLOCK run the motor forward and     *)
(* backward.  The bolt needs less than the second the motor runs.            *)
Forward == evt.type = "LOCK"

(* Faulty variant of StartMove: the ACK is queued before the move as well.   *)
StartMove_AckFirst ==
    /\ Handling("LOCK") \/ Handling("UNLOCK")
    /\ Push("ACK", evt.of)
    /\ pc' = "pwm_lhs"
    /\ UNCHANGED <<flashVars, motorVars, radioVars, evt, parseVars, dataVars,
                   lockVars, reply, done, crashes>>

StartMove ==
    /\ Handling("LOCK") \/ Handling("UNLOCK")
    /\ pc' = "pwm_lhs"
    /\ UNCHANGED <<flashVars, motorVars, bleVars, evt, parseVars, dataVars,
                   lockVars, reply, done, crashes>>

PwmStep(from, to) ==
    /\ pc = from
    /\ pc' = to
    /\ UNCHANGED <<flashVars, bleVars, evt, parseVars, dataVars, clock, Key,
                   reply, done, crashes>>

RunMotor ==
    /\ \/ PwmStep("pwm_lhs", "pwm_rhs") /\ SetLhs(Forward, FullSpeed)
       \/ PwmStep("pwm_rhs", "sleep") /\ SetRhs(Forward, FullSpeed)
    /\ UNCHANGED lockUnlockStatus

Sleep ==
    /\ PwmStep("sleep", "stop_lhs")
    /\ BoltArrives
    /\ UNCHANGED lockUnlockStatus

(* Faulty variants of StopMotor: the status codes are swapped; the right     *)
(* side is left at full speed.                                               *)
StopMotor_SwappedStatus ==
    \/ /\ PwmStep("stop_lhs", "stop_rhs")
       /\ SetLhs(Forward, 0)
       /\ UNCHANGED lockUnlockStatus
    \/ /\ PwmStep("stop_rhs", "store_erase")
       /\ SetRhs(Forward, 0)
       /\ lockUnlockStatus' = IF Forward THEN Unlocked ELSE Locked

StopMotor_KeepsSpeed ==
    \/ /\ PwmStep("stop_lhs", "stop_rhs")
       /\ SetLhs(Forward, 0)
       /\ UNCHANGED lockUnlockStatus
    \/ /\ PwmStep("stop_rhs", "store_erase")
       /\ SetRhs(Forward, FullSpeed)
       /\ lockUnlockStatus' = IF Forward THEN Locked ELSE Unlocked

StopMotor ==
    \/ /\ PwmStep("stop_lhs", "stop_rhs")
       /\ SetLhs(Forward, 0)
       /\ UNCHANGED lockUnlockStatus
    \/ /\ PwmStep("stop_rhs", "store_erase")
       /\ SetRhs(Forward, 0)
       /\ lockUnlockStatus' = IF Forward THEN Locked ELSE Unlocked

StoreStatus ==
    /\ \/ /\ pc = "store_erase"
          /\ sys_flash_erase(lock_status_location)
          /\ pc' = "store_write"
       \/ /\ pc = "store_write"
          /\ ProgramStatus(lockUnlockStatus)
          /\ pc' = "push_ack"
    /\ UNCHANGED <<motorVars, bleVars, evt, parseVars, dataVars, lockVars,
                   reply, done, crashes>>

PushAck ==
    /\ pc = "push_ack"
    /\ Push("ACK", evt.of)
    /\ done' = done \cup {evt.of}
    /\ Finish
    /\ UNCHANGED <<flashVars, motorVars, radioVars, parseVars, dataVars,
                   lockVars, reply, crashes>>
-----------------------------------------------------------------------------
(* BLE_APP_EVENT_SETTIMEDATE.  The fields are stored as they are parsed and  *)
(* checked afterwards; Data is measured with strlen, so a byte left behind   *)
(* the seventeen of a date makes it too long.  Bytes the command did not     *)
(* bring are the ones of the data stored before.                             *)
WellFormed == Data \in Times \cup BadTimes /\ ~dataTail
Accepted   == WellFormed /\ Data \in Times

SetTimeDate ==
    /\ Handling("SETTIMEDATE")
    /\ clock' = IF WellFormed THEN Data ELSE clock
    /\ Push(IF Accepted THEN "ACK" ELSE "NACK", evt.of)
    /\ done' = IF Accepted THEN done \cup {evt.of} ELSE done
    /\ Finish
    /\ UNCHANGED <<flashVars, motorVars, radioVars, parseVars, dataVars, Key,
                   lockUnlockStatus, reply, crashes>>

(* Faulty variant of RejectKey: no answer.                                   *)
RejectKey_Silent ==
    /\ Handling("SETENCRYPTKEY")
    /\ dataLen # 16
    /\ Finish
    /\ UNCHANGED <<flashVars, motorVars, bleVars, parseVars, dataVars,
                   lockVars, reply, done, crashes>>

(* BLE_APP_EVENT_SETENCRYPTKEY.  cryptoapp_importKey takes sixteen bytes     *)
(* only.  The ACK is queued before the key goes to the flash and back.       *)
RejectKey ==
    /\ Handling("SETENCRYPTKEY")
    /\ dataLen # 16
    /\ Push("NACK", evt.of)
    /\ Finish
    /\ UNCHANGED <<flashVars, motorVars, radioVars, parseVars, dataVars,
                   lockVars, reply, done, crashes>>

AcceptKey ==
    /\ Handling("SETENCRYPTKEY")
    /\ dataLen = 16
    /\ Push("ACK", evt.of)
    /\ pc' = "key_erase"
    /\ UNCHANGED <<flashVars, motorVars, radioVars, evt, parseVars, dataVars,
                   lockVars, reply, done, crashes>>

EraseKey ==
    /\ pc = "key_erase"
    /\ sys_flash_erase(Priv_key)
    /\ pc' = "key_write"
    /\ UNCHANGED <<motorVars, bleVars, evt, parseVars, dataVars, lockVars,
                   reply, done, crashes>>

KeyIn(data) == [i \in 1..2 |-> data[i]]

(* Faulty variant of WriteKey: the new key is used without reading it back.  *)
WriteKey_NoReadBack ==
    /\ pc = "key_write"
    /\ ProgramKey(KeyIn(Data))
    /\ Key' = KeyIn(Data)
    /\ done' = IF Key' = KeyIn(Data) THEN done \cup {evt.of} ELSE done
    /\ Finish
    /\ UNCHANGED <<motorVars, bleVars, parseVars, dataVars, clock,
                   lockUnlockStatus, reply, crashes>>

WriteKey ==
    /\ pc = "key_write"
    /\ ProgramKey(KeyIn(Data))
    /\ Key' = flashKey'
    /\ done' = IF Key' = KeyIn(Data) THEN done \cup {evt.of} ELSE done
    /\ Finish
    /\ UNCHANGED <<motorVars, bleVars, parseVars, dataVars, clock,
                   lockUnlockStatus, reply, crashes>>
-----------------------------------------------------------------------------
(* The cases that answer: the message is encrypted with the key in use and   *)
(* sent as a notification, which is lost when nobody is connected.           *)
Notify(kind, val) ==
    /\ Handling(kind)
    /\ reply' = IF current_conn # NoConn
                THEN [kind |-> kind, of |-> evt.of, val |-> val]
                ELSE reply
    /\ Finish
    /\ UNCHANGED <<flashVars, motorVars, bleVars, parseVars, dataVars, lockVars,
                   done, crashes>>

LockStatus    == Notify("LOCK_STATUS", lockUnlockStatus)
BatteryLevel  == Notify("BATTERY_LEVEL", Battery90)
GetTimeDate   == Notify("GETTIMEDATE", clock)
GetEncryptKey == Notify("GETENCRYPTKEY", Key)
Ack           == Notify("ACK", {})
Nack          == Notify("NACK", {})
-----------------------------------------------------------------------------
(* BLE_APP_EVENT_MSG_RECV: bib_parseMainMsg, the check of the IV against the *)
(* last one, decryption, bib_parseInnerMsg and the choice of the event.  The *)
(* envelope is parsed in place, in the buffer on_data_received writes to.    *)
Envelope == sent[BlemsgBuf].outer

(* The length was passed to the parser by value.  Applied to a frame that    *)
(* has arrived since, it finds the EOT and the number of bytes where another *)
(* frame had them: a good frame may be rejected, and one without them may    *)
(* pass on what is left of a longer one.                                     *)
OwnLength == IvOf(lenOf) = IvOf(BlemsgBuf)

DropFrame == Finish /\ UNCHANGED <<flashVars, motorVars, bleVars, dataVars,
                                   lockVars, reply, done, crashes>>

NextPc(to) == pc' = to /\ UNCHANGED <<flashVars, motorVars, bleVars, evt,
                              dataVars, lockVars, reply, done, crashes>>

StartParse ==
    /\ Handling("MSG_RECV")
    /\ lenOf' = BlemsgBuf
    /\ UNCHANGED <<ivHi, ivLo, prevIv, enc>>
    /\ NextPc("iv_hi")

(* The SOH and EOT test, then the memcpy of the IV, which a callback may     *)
(* interrupt halfway.                                                        *)
RejectEnvelope ==
    /\ pc = "iv_hi"
    /\ Envelope \in {"nosoh", "noeot"} \/ ~OwnLength
    /\ DropFrame
    /\ UNCHANGED parseVars

CopyIvHi ==
    /\ pc = "iv_hi"
    /\ Envelope # "nosoh"
    /\ Envelope = "noeot" => ~OwnLength
    /\ ivHi' = BlemsgBuf
    /\ UNCHANGED <<lenOf, ivLo, prevIv, enc>>
    /\ NextPc("iv_lo")

CopyIvLo ==
    /\ pc = "iv_lo"
    /\ ivLo' = BlemsgBuf
    /\ UNCHANGED <<lenOf, ivHi, prevIv, enc>>
    /\ NextPc("cipher")

(* The EM and length tests, which the wrong length may fail as well.         *)
RejectLength ==
    /\ pc = "cipher"
    /\ Envelope \in {"noeot", "nolen"} \/ ~OwnLength
    /\ DropFrame
    /\ UNCHANGED parseVars

SameIv == IvOf(prevIv[1]) = IvOf(ivHi) /\ IvOf(prevIv[2]) = IvOf(ivLo)

(* Faulty variants of CopyCipher: the IV is not compared; half of it is      *)
(* remembered.                                                               *)
CopyCipher_NoIvCheck ==
    /\ pc = "cipher"
    /\ Envelope \in {"noeot", "nolen"} => ~OwnLength
    /\ enc' = BlemsgBuf
    /\ prevIv' = <<ivHi, ivLo>>
    /\ UNCHANGED <<lenOf, ivHi, ivLo>>
    /\ NextPc("decode")

CopyCipher_HalfIv ==
    /\ pc = "cipher"
    /\ Envelope \in {"noeot", "nolen"} => ~OwnLength
    /\ enc' = BlemsgBuf
    /\ prevIv' = <<ivHi, prevIv[2]>>
    /\ UNCHANGED <<lenOf, ivHi, ivLo>>
    /\ IF SameIv THEN DropFrame ELSE NextPc("decode")

(* The ciphertext is copied and the IV compared with the previous one:       *)
(* the same IV again is logged as an intruder and dropped without a reply.   *)
(* Any other is remembered in place of it, one that was used before as well. *)
CopyCipher ==
    /\ pc = "cipher"
    /\ Envelope \in {"noeot", "nolen"} => ~OwnLength
    /\ enc' = BlemsgBuf
    /\ prevIv' = <<ivHi, ivLo>>
    /\ UNCHANGED <<lenOf, ivHi, ivLo>>
    /\ IF SameIv THEN DropFrame ELSE NextPc("decode")

(* The switch on data type and message id.                                   *)
CommandOf(code) ==
    CASE code = <<1, 1>>  -> "LOCK"
      [] code = <<1, 2>>  -> "UNLOCK"
      [] code = <<2, 1>>  -> "LOCK_STATUS"
      [] code = <<2, 2>>  -> "BATTERY_LEVEL"
      [] code = <<3, 17>> -> "SETTIMEDATE"
      [] code = <<3, 33>> -> "SETENCRYPTKEY"
      [] code = <<3, 18>> -> "GETTIMEDATE"
      [] code = <<3, 34>> -> "GETENCRYPTKEY"
      [] OTHER            -> "NACK"

(* AES-CTR returns bytes whatever the key and the IV are; only the right     *)
(* ones, of the frame the ciphertext is from, give a message (or garbage     *)
(* still, if the length was not of that frame).                              *)
Readable == /\ IvOf(ivHi) = IvOf(enc) /\ IvOf(ivLo) = IvOf(enc)
            /\ sent[enc].outer = "ok"
            /\ sent[enc].key = Key
            /\ sent[enc].body # "malformed"

Overwritten(a) == [i \in 1..3 |-> IF i \in DOMAIN a THEN a[i] ELSE Data[i]]

(* Faulty variant of StoreData: the separator is counted as data.            *)
StoreData_CountsSeparator(a) ==
    /\ Data' = Overwritten(a)
    /\ dataTail' = (dataTail \/ 4 \in DOMAIN a)
    /\ dataLen' = ArgLen(a) + 1

(* Faulty variant of StoreData: the separator behind the data is copied, so  *)
(* that a date sets byte 17.                                                 *)
StoreData_CopiesSeparator(a) ==
    /\ Data' = Overwritten(a)
    /\ dataTail' = (dataTail \/ 3 \in DOMAIN a)
    /\ dataLen' = ArgLen(a)

(* memcpy to Data of as many bytes as the message says; the bytes behind     *)
(* them stay.                                                                *)
StoreData(a) ==
    /\ Data' = Overwritten(a)
    /\ dataTail' = (dataTail \/ 4 \in DOMAIN a)
    /\ dataLen' = ArgLen(a)

(* Faulty variant of ForThisLock: the result of strcmp is used as a truth     *)
(* value.                                                                    *)
ForThisLock_NotEqualsZero == ~(sent[enc].body = "ok" /\ IdHasNul)

(* strcmp finds the ids of a message for this lock equal only if it meets a  *)
(* zero byte in them: otherwise it reads on behind both (app_defines.h:91)   *)
(* and compares the first byte of the lock's id with the data type.          *)
ForThisLock == sent[enc].body = "ok" /\ IdHasNul

FinishDecode(type) ==
    /\ Push(type, enc)
    /\ Finish
    /\ UNCHANGED <<flashVars, motorVars, radioVars, parseVars, lockVars, reply,
                   done, crashes>>

DecodeGarbage ==
    /\ pc = "decode"
    /\ ~Readable \/ IvOf(enc) # IvOf(lenOf)
    /\ UNCHANGED dataVars
    /\ FinishDecode("NACK")

DecodeBadLength ==
    /\ pc = "decode"
    /\ Readable
    /\ sent[enc].body = "badlen"
    /\ dataLen' = BadLength
    /\ UNCHANGED <<Data, dataTail>>
    /\ FinishDecode("NACK")

DecodeMessage ==
    /\ pc = "decode"
    /\ Readable
    /\ sent[enc].body # "badlen"
    /\ StoreData(sent[enc].arg)
    /\ FinishDecode(IF ForThisLock THEN CommandOf(sent[enc].code) ELSE "NACK")
-----------------------------------------------------------------------------
(* The Bluetooth stack and the client.  A client may write a new frame, the  *)
(* last one once more, or one that was written before it.  The same frame    *)
(* has the same IV.                                                          *)
mainVars == <<flashVars, motorVars, pc, evt, parseVars, dataVars, lockVars,
              reply, done, crashes>>

BtReady      == bt_ready /\ UNCHANGED mainVars
Connected    == on_connected /\ UNCHANGED mainVars
Disconnected == on_disconnected /\ UNCHANGED mainVars

LockIdle == queue = <<>> /\ evt = NoEvent
MayWrite == Patient => LockIdle

WriteFrame ==
    /\ MayWrite
    /\ Len(sent) < MaxFrames
    /\ \E c \in Contents :
          /\ sent' = Append(sent, c)
          /\ on_data_received(Len(sent'), c.outer)
    /\ origin' = Append(origin, Len(sent'))
    /\ UNCHANGED mainVars

RepeatFrame ==
    /\ MayWrite
    /\ sent # <<>>
    /\ on_data_received(Len(sent), sent[Len(sent)].outer)
    /\ UNCHANGED <<sent, origin, mainVars>>

WriteAgain ==
    /\ MayWrite
    /\ Len(sent) < MaxWrites
    /\ \E f \in 1..Len(sent) :
          /\ IvOf(f) # IvOf(Len(sent))
          /\ sent' = Append(sent, sent[f])
          /\ origin' = Append(origin, origin[f])
          /\ on_data_received(Len(sent'), sent[f].outer)
    /\ UNCHANGED mainVars

(* A power failure or a reset: RAM and peripherals start over, the flash and *)
(* the bolt keep what they hold.                                             *)
Crash ==
    /\ crashes < MaxCrashes
    /\ crashes' = crashes + 1
    /\ BLEReset
    /\ lhs' = 0 /\ rhs' = 0
    /\ pc' = "boot_erase" /\ evt' = NoEvent
    /\ lenOf' = 0 /\ ivHi' = 0 /\ ivLo' = 0 /\ prevIv' = <<0, 0>> /\ enc' = 0
    /\ Data' = ZeroData /\ dataTail' = FALSE /\ dataLen' = 0
    /\ clock' = ZeroTime /\ Key' = Blank /\ lockUnlockStatus' = {}
    /\ done' = {}
    /\ UNCHANGED <<flashVars, bolt, reply>>
-----------------------------------------------------------------------------
Boot == BootErasePage \/ BootWriteKey \/ BootReadKey \/ BootInit
Loop == TimedGet \/ AdvCheck \/ AdvRefresh \/ Idle
Move == StartMove \/ RunMotor \/ Sleep \/ StopMotor \/ StoreStatus \/ PushAck
Config == SetTimeDate \/ RejectKey \/ AcceptKey \/ EraseKey \/ WriteKey
Answer == LockStatus \/ BatteryLevel \/ GetTimeDate \/ GetEncryptKey \/ Ack \/ Nack
Parse == \/ StartParse \/ RejectEnvelope \/ CopyIvHi \/ CopyIvLo \/ RejectLength
         \/ CopyCipher \/ DecodeGarbage \/ DecodeBadLength \/ DecodeMessage
MainStep == Boot \/ Loop \/ Move \/ Config \/ Answer \/ Parse

Callback == BtReady \/ Connected \/ Disconnected
            \/ WriteFrame \/ RepeatFrame \/ WriteAgain

Next == MainStep \/ Callback \/ Crash

Spec == Init /\ [][Next]_vars

(* The main thread never blocks for good (every wait has a timeout) and the  *)
(* callbacks return, so it keeps running; bt_enable calls bt_ready.          *)
FairSpec == Spec /\ WF_vars(MainStep) /\ WF_vars(BtReady)
=============================================================================
