------------------------ MODULE SmartLockService_proofs ------------------------
(* Proof that SmartLock implements LockService for every value of the        *)
(* constants.  ServiceInv is shown invariant with the help of IInv, then     *)
(* each step of the firmware is mapped to a step of the service.             *)
EXTENDS SmartLockService, SmartLock_proofs

USE FlashAssumption, BLEAssumption, LockAssumption
    DEF BootPcs, ParsePcs, MotorPcs, StorePcs, KeyPcs, flashVars, motorVars,
        pwmVars, bleVars, radioVars, parseVars, dataVars, lockVars, mainVars,
        IvOf, Remembered

(* The initial states satisfy ServiceInv.                                    *)
LEMMA InitServiceInv == Init => ServiceInv
BY DEF Init, FlashInit, BLEInit, ServiceInv, CommandOk, Commands, NoEvent,
       DataInv, ZeroData, BootInv

(* A command stays as it is while nothing it depends on changes, also when   *)
(* another frame is written.                                                 *)
LEMMA KeepCommand ==
  ASSUME sent \in Seq(Contents), NEW e \in Event, EventOk(e), CommandOk(e),
         UNCHANGED <<Key, done>>,
         sent' = sent \/ \E c \in Contents : sent' = Append(sent, c)
  PROVE  CommandOk(e)'
<1>1. e.type \in Commands => e.of \in 1..Len(sent)
  BY DEF EventOk, Commands
<1>2. e.type \in Commands => sent'[e.of] = sent[e.of]
  BY <1>1
<1>. QED  BY <1>2 DEF CommandOk

(* The bytes in Data stay the bytes of messages that have been parsed.       *)
LEMMA KeepData ==
  ASSUME IInv, DataInv, Data' = Data, enc' \in {enc, BlemsgBuf},
         sent' = sent \/ \E c \in Contents : sent' = Append(sent, c)
  PROVE  DataInv'
<1>1. /\ enc \in Nat /\ BlemsgBuf \in Nat /\ enc <= BlemsgBuf
      /\ sent \in Seq(Contents) /\ enc \in 0..Len(sent)
  BY DEF IInv, TypeOK, BLETypeOK, IvInv
<1>2. \A g \in 1..enc : g \in 1..enc' /\ sent'[g] = sent[g]
  <2>1. \A g \in 1..enc : g \in 1..Len(sent) /\ g \in 1..enc'
    BY <1>1
  <2>2. \A g \in 1..Len(sent) : sent'[g] = sent[g]
    BY <1>1
  <2>. QED  BY <2>1, <2>2
<1>. QED  BY <1>2 DEF DataInv

(* A step that leaves the commands alone: what is handled or queued          *)
(* afterwards was queued before or is no command.                            *)
LEMMA QuietStep ==
  ASSUME IInv, ServiceInv, BootInv',
         UNCHANGED <<Key, done, Data>>, enc' \in {enc, BlemsgBuf},
         sent' = sent \/ \E c \in Contents : sent' = Append(sent, c),
         evt' \in {evt, NoEvent} \/ (queue # <<>> /\ evt' = queue[1]),
         queue' # <<>> => \/ queue # <<>> /\ queue'[1] = queue[1]
                          \/ queue'[1].type \notin Commands
  PROVE  ServiceInv'
<1>1. sent \in Seq(Contents) /\ evt \in Event /\ EventOk(evt) /\ CommandOk(evt)
  BY DEF IInv, TypeOK, BLETypeOK, EventInv, ServiceInv
<1>2. queue # <<>> => queue[1] \in Event /\ EventOk(queue[1]) /\ CommandOk(queue[1])
  BY QueueShape DEF IInv, TypeOK, BLETypeOK, QueueInv, EventInv, ServiceInv
<1>3. CommandOk(evt)'
  <2>1. CASE evt' = evt
    BY <1>1, <2>1, KeepCommand DEF CommandOk
  <2>2. CASE evt' = NoEvent
    BY <2>2 DEF CommandOk, NoEvent, Commands
  <2>3. CASE queue # <<>> /\ evt' = queue[1]
    <3>. DEFINE q == queue[1]
    <3>1. q \in Event /\ EventOk(q) /\ CommandOk(q)
      BY <1>2, <2>3
    <3>. HIDE DEF q
    <3>2. ASSUME NEW e \in Event, EventOk(e), CommandOk(e), evt' = e PROVE CommandOk(evt)'
      <4>1. CommandOk(e)'
        BY <1>1, <3>2, KeepCommand
      <4>. QED  BY <3>2, <4>1 DEF CommandOk
    <3>. QED  BY <2>3, <3>1, <3>2 DEF q
  <2>. QED  BY <2>1, <2>2, <2>3
<1>4. queue' # <<>> => CommandOk(queue[1])'
  <2>1. CASE queue' # <<>> /\ queue'[1].type \notin Commands
    BY <2>1 DEF CommandOk
  <2>2. CASE queue # <<>> /\ queue'[1] = queue[1]
    <3>1. ASSUME NEW e \in Event, EventOk(e), CommandOk(e), queue'[1] = e PROVE CommandOk(queue[1])'
      <4>1. CommandOk(e)'
        BY <1>1, <3>1, KeepCommand
      <4>. QED  BY <3>1, <4>1 DEF CommandOk
    <3>. QED  BY <1>2, <2>2, <3>1
  <2>. QED  BY <2>1, <2>2
<1>5. DataInv'
  BY KeepData DEF ServiceInv
<1>. QED  BY <1>3, <1>4, <1>5 DEF ServiceInv

(* Start-up: nothing is pending, and without faults the page is erased and   *)
(* holds the default key at the end.                                         *)
LEMMA BootService ==
  ASSUME IInv, ServiceInv, Boot PROVE ServiceInv'
<1>1. CASE BootInit
  <2>1. evt' = NoEvent /\ queue' = <<>> /\ pc' = "wait"
    BY <1>1 DEF BootInit, BLEapp_init, IInv, PcInv, ServiceInv, BootInv
  <2>2. DataInv'
    BY <1>1, KeepData DEF BootInit, BLEapp_init, ServiceInv
  <2>. QED
    BY <2>1, <2>2 DEF ServiceInv, CommandOk, Commands, NoEvent, BootInv
<1>2. CASE BootErasePage \/ BootWriteKey \/ BootReadKey
  <2>1. /\ pc \in BootPcs /\ pc' \in BootPcs
        /\ UNCHANGED <<queue, stack, current_conn, lockUnlockStatus, Key, clock,
                       done, Data, enc, sent, evt>>
    BY <1>2 DEF BootErasePage, BootErase, BootWriteKey, BootProgram, BootReadKey
  <2>2. BootInv'
    <3>1. CASE FlashFaults
      BY <2>1, <3>1 DEF ServiceInv, BootInv
    <3>2. CASE ~FlashFaults
      <4>1. CASE BootErasePage
        <5>1. flashKey' = Blank /\ flashStatus' = ErasedByte
          BY <3>2, <4>1 DEF BootErasePage, BootErase, sys_flash_erase, Priv_key,
                            FLASH_PAGE_SIZE
        <5>2. pc' \in {"boot_write_erase", "boot_write"}
          BY <3>2, <4>1 DEF BootErasePage, BootErase, ServiceInv, BootInv
        <5>. QED  BY <2>1, <5>1, <5>2 DEF ServiceInv, BootInv
      <4>2. CASE BootWriteKey
        <5>1. pc = "boot_write" /\ pc' = "boot_key" /\ ProgramKey(DefaultKey)
          BY <3>2, <4>2 DEF BootWriteKey, BootProgram, ServiceInv, BootInv
        <5>2. flashKey = Blank /\ flashStatus = ErasedByte
          BY <3>2, <5>1 DEF ServiceInv, BootInv
        <5>3. flashKey' = DefaultKey /\ flashStatus' = ErasedByte
          BY <3>2, <5>1, <5>2 DEF ProgramKey, Programmed
        <5>. QED  BY <2>1, <5>1, <5>3 DEF ServiceInv, BootInv
      <4>3. CASE BootReadKey
        <5>1. /\ flashKey = DefaultKey /\ flashStatus = ErasedByte
              /\ flashKey' = flashKey /\ flashStatus' = flashStatus
          BY <3>2, <4>3 DEF BootReadKey, ServiceInv, BootInv
        <5>2. pc' = "boot_init"
          BY <4>3, <5>1 DEF BootReadKey
        <5>. QED  BY <2>1, <5>1, <5>2 DEF ServiceInv, BootInv
      <4>. QED  BY <1>2, <4>1, <4>2, <4>3
    <3>. QED  BY <3>1, <3>2
  <2>. QED  BY <2>1, <2>2, QuietStep
<1>. QED  BY <1>1, <1>2 DEF Boot

(* The loop, the motor, the answers and the parser up to the decryption do   *)
(* not touch a command.                                                      *)
LEMMA MainService ==
  ASSUME IInv, ServiceInv,
         \/ Loop \/ Answer \/ StartMove \/ RunMotor \/ Sleep \/ StopMotor
         \/ StoreStatus \/ EraseKey \/ StartParse \/ RejectEnvelope \/ CopyIvHi
         \/ CopyIvLo \/ RejectLength \/ CopyCipher
  PROVE  ServiceInv'
<1>1. pc \notin BootPcs /\ pc' \notin BootPcs
  BY DEF Loop, TimedGet, AdvCheck, AdvRefresh, Idle, Answer, LockStatus,
         BatteryLevel, GetTimeDate, GetEncryptKey, Ack, Nack, Notify, Handling,
         Finish, StartMove, RunMotor, Sleep, StopMotor, PwmStep, StoreStatus,
         EraseKey, StartParse, RejectEnvelope, CopyIvHi, CopyIvLo, RejectLength,
         CopyCipher, DropFrame, NextPc
<1>2. BootInv'
  BY <1>1 DEF BootInv
<1>3. UNCHANGED <<Key, done, Data, sent>> /\ enc' \in {enc, BlemsgBuf}
  BY DEF Loop, TimedGet, AdvCheck, AdvRefresh, AdvWrite, Idle, Answer, LockStatus,
         BatteryLevel, GetTimeDate, GetEncryptKey, Ack, Nack, Notify,
         StartMove, RunMotor, Sleep, StopMotor, PwmStep, StoreStatus,
         EraseKey, StartParse, RejectEnvelope, CopyIvHi, CopyIvLo, RejectLength,
         CopyCipher, DropFrame, NextPc
<1>4. CASE TimedGet
  <2>1. \/ queue # <<>> /\ evt' = queue[1] /\ queue' = <<>>
        \/ queue = <<>> /\ evt' = NoEvent /\ queue' = queue
    BY <1>4, QueueShape DEF TimedGet, IInv, TypeOK, BLETypeOK, QueueInv
  <2>. QED  BY <1>2, <1>3, <2>1, QuietStep
<1>5. CASE ~TimedGet
  <2>1. evt' \in {evt, NoEvent} /\ queue' = queue
    BY <1>5 DEF Loop, AdvCheck, AdvRefresh, AdvWrite, Idle, Answer, LockStatus,
         BatteryLevel, GetTimeDate, GetEncryptKey, Ack, Nack, Notify, Finish,
         StartMove, RunMotor, Sleep, StopMotor, PwmStep, StoreStatus,
         EraseKey, StartParse, RejectEnvelope, CopyIvHi, CopyIvLo, RejectLength,
         CopyCipher, DropFrame, NextPc
  <2>. QED  BY <1>2, <1>3, <2>1, QuietStep
<1>. QED  BY <1>4, <1>5

(* While an event is handled no command is queued, and Push adds none when   *)
(* it adds an answer.                                                        *)
LEMMA PushAnswer ==
  ASSUME IInv, pc \notin BootPcs \cup {"wait"}, evt.type # "NONE",
         NEW t \in {"ACK", "NACK"}, Push(t, evt.of)
  PROVE  queue' # <<>> => queue'[1].type \notin Commands
<1>1. queue # <<>> => queue[1].type \in {"MSG_RECV", "ACK"}
  BY DEF IInv, QueueInv, QueuedOk
<1>2. \/ queue' = queue /\ queue # <<>>
      \/ queue = <<>> /\ queue' = <<[type |-> t, of |-> evt.of]>>
  BY PushQueue DEF IInv, TypeOK, BLETypeOK, QueueInv, Event, EventTypes
<1>. QED  BY <1>1, <1>2 DEF Commands

(* The steps that end a command.                                             *)
LEMMA EndService ==
  ASSUME IInv, ServiceInv,
         PushAck \/ SetTimeDate \/ RejectKey \/ AcceptKey \/ WriteKey
  PROVE  ServiceInv'
<1>1. pc \notin BootPcs \cup {"wait"} /\ evt.type # "NONE" /\ pc' \notin BootPcs
  BY DEF PushAck, SetTimeDate, RejectKey, AcceptKey, WriteKey, Handling, Finish,
         IInv, PcInv
<1>2. BootInv'
  BY <1>1 DEF BootInv
<1>3. queue' # <<>> => queue'[1].type \notin Commands
  <2>1. CASE WriteKey
    <3>1. queue' = queue
      BY <2>1 DEF WriteKey
    <3>. QED  BY <1>1, <3>1 DEF IInv, QueueInv, QueuedOk, Commands
  <2>2. CASE PushAck \/ RejectKey \/ AcceptKey
    BY <1>1, <2>2, PushAnswer DEF PushAck, RejectKey, AcceptKey
  <2>3. CASE SetTimeDate
    <3>1. Push("ACK", evt.of) \/ Push("NACK", evt.of)
      BY <2>3 DEF SetTimeDate
    <3>. QED  BY <1>1, <3>1, PushAnswer
  <2>. QED  BY <2>1, <2>2, <2>3
<1>4. CASE AcceptKey
  BY <1>2, <1>3, <1>4, QuietStep DEF AcceptKey
<1>5. CASE ~AcceptKey
  <2>1. evt' = NoEvent
    BY <1>5 DEF PushAck, SetTimeDate, RejectKey, WriteKey, Finish
  <2>2. UNCHANGED <<Data, enc, sent>>
    BY <1>5 DEF PushAck, SetTimeDate, RejectKey, WriteKey
  <2>3. DataInv'
    BY <2>2, KeepData DEF ServiceInv
  <2>. QED  BY <1>2, <1>3, <2>1, <2>3 DEF ServiceInv, CommandOk, NoEvent, Commands
<1>. QED  BY <1>4, <1>5

(* Only a sound message under the key in use, written after all that were    *)
(* carried out, becomes a command.                                           *)
LEMMA DecodeService ==
  ASSUME IInv, ServiceInv, DecodeGarbage \/ DecodeBadLength \/ DecodeMessage
  PROVE  ServiceInv'
<1>1. /\ pc = "decode" /\ pc' = "wait" /\ evt' = NoEvent
      /\ UNCHANGED <<sent, Key, done, enc>>
      /\ Data' \in {Data, Overwritten(sent[enc].arg)}
  BY DEF DecodeGarbage, DecodeBadLength, DecodeMessage, FinishDecode, Finish,
         StoreData
<1>2. evt.type = "MSG_RECV" /\ enc \in 1..Len(sent) /\ Len(sent) \in Nat
  BY <1>1 DEF IInv, PcInv, IvInv, TypeOK, BLETypeOK
<1>3. queue # <<>> => queue[1].type = "MSG_RECV"
  BY <1>1, <1>2 DEF IInv, QueueInv, QueuedOk
<1>4. PICK t \in EventTypes :
        /\ Push(t, enc)
        /\ t \in Commands => DecodeMessage /\ ForThisLock
  <2>1. CASE DecodeGarbage \/ DecodeBadLength
    BY <2>1 DEF DecodeGarbage, DecodeBadLength, FinishDecode, Commands, EventTypes
  <2>2. CASE DecodeMessage
    <3>1. \A c : CommandOf(c) \in EventTypes
      BY CommandType DEF Commands, EventTypes
    <3>. QED  BY <2>2, <3>1 DEF DecodeMessage, FinishDecode, Commands, EventTypes
  <2>. QED  BY <2>1, <2>2
<1>5. \/ queue' = queue /\ queue # <<>>
      \/ queue = <<>> /\ queue' = <<[type |-> t, of |-> enc]>>
  BY <1>2, <1>4, PushQueue DEF IInv, TypeOK, BLETypeOK, QueueInv
<1>6. queue' # <<>> => CommandOk(queue[1])'
  <2>1. CASE queue' = queue /\ queue # <<>>
    BY <1>3, <2>1 DEF CommandOk, Commands
  <2>2. CASE t \notin Commands /\ queue' = <<[type |-> t, of |-> enc]>>
    BY <2>2 DEF CommandOk
  <2>3. CASE t \in Commands /\ queue' = <<[type |-> t, of |-> enc]>>
    <3>1. queue'[1] = [type |-> t, of |-> enc]
      BY <2>3
    <3>2. sent[enc].key = Key /\ sent[enc].body = "ok"
      BY <1>4, <2>3 DEF DecodeMessage, Readable, ForThisLock
    <3>3. \A d \in done : d < enc
      BY <1>1 DEF IInv, DoneInv
    <3>. QED  BY <1>1, <3>1, <3>2, <3>3 DEF CommandOk
  <2>. QED  BY <1>5, <2>1, <2>2, <2>3
<1>7. CommandOk(evt)' /\ BootInv'
  BY <1>1 DEF CommandOk, NoEvent, Commands, BootInv
<1>8. DataInv'
  <2>. DEFINE a == sent[enc].arg
  <2>1. CASE Data' = Data
    BY <1>1, <2>1, KeepData DEF ServiceInv
  <2>2. CASE Data' = Overwritten(a)
    <3>1. ASSUME NEW i \in 1..3, i \in DOMAIN a PROVE Data'[i] = a[i] /\ enc \in 1..enc
      BY <1>2, <2>2, <3>1 DEF Overwritten
    <3>2. ASSUME NEW i \in 1..3, i \notin DOMAIN a PROVE Data'[i] = Data[i]
      BY <2>2, <3>2 DEF Overwritten
    <3>. QED  BY <1>1, <3>1, <3>2 DEF ServiceInv, DataInv
  <2>. QED  BY <1>1, <2>1, <2>2
<1>. QED  BY <1>6, <1>7, <1>8 DEF ServiceInv

(* The callbacks queue received frames only; before the lock is up none can  *)
(* come.                                                                     *)
LEMMA CallbackService ==
  ASSUME IInv, ServiceInv, Callback PROVE ServiceInv'
<1>1. UNCHANGED mainVars
  BY DEF Callback, BtReady, Connected, Disconnected, WriteFrame, RepeatFrame,
         WriteAgain
<1>2. pc \notin BootPcs
  BY DEF Callback, BtReady, bt_ready, Connected, on_connected, Disconnected,
         on_disconnected, WriteFrame, RepeatFrame, WriteAgain, on_data_received, ServiceInv,
         BootInv
<1>3. BootInv'
  BY <1>1, <1>2 DEF BootInv
<1>4. CASE BtReady \/ Connected \/ Disconnected
  <2>1. UNCHANGED <<queue, sent>>
    BY <1>4 DEF BtReady, bt_ready, Connected, on_connected, Disconnected,
                on_disconnected
  <2>. QED  BY <1>1, <1>3, <2>1, QuietStep
<1>5. CASE WriteFrame \/ RepeatFrame \/ WriteAgain
  <2>0. /\ sent \in Seq(Contents)
        /\ \A n \in 1..Len(sent) : sent[n] \in Contents
        /\ \A c \in Contents : Append(sent, c) \in Seq(Contents)
    BY DEF IInv, TypeOK, BLETypeOK
  <2>1. sent' = sent \/ \E c \in Contents : sent' = Append(sent, c)
    BY <1>5, <2>0 DEF WriteFrame, RepeatFrame, WriteAgain
  <2>2. PICK f \in Nat : queue' = queue \/ Push("MSG_RECV", f)
    <3>1. sent \in Seq(Contents) /\ sent' \in Seq(Contents)
      BY <2>0, <2>1
    <3>2. Len(sent) \in Nat /\ Len(sent') \in Nat
      BY <3>1
    <3>. QED
      BY <1>5, <3>2 DEF WriteFrame, RepeatFrame, WriteAgain, on_data_received
  <2>3. \/ queue' = queue
        \/ queue = <<>> /\ queue' = <<[type |-> "MSG_RECV", of |-> f]>>
    BY <2>2, PushQueue DEF IInv, TypeOK, BLETypeOK, QueueInv, EventTypes
  <2>4. queue' # <<>> => \/ queue # <<>> /\ queue'[1] = queue[1]
                         \/ queue'[1].type \notin Commands
    BY <2>3 DEF Commands
  <2>. QED  BY <1>1, <1>3, <2>1, <2>4, QuietStep
<1>. QED  BY <1>4, <1>5 DEF Callback

(* ServiceInv is preserved by every step.                                    *)
LEMMA NextServiceInv ==
  ASSUME IInv, ServiceInv, [Next]_vars PROVE ServiceInv'
<1>1. CASE Crash
  BY <1>1 DEF Crash, BLEReset, ServiceInv, CommandOk, NoEvent, Commands,
              DataInv, ZeroData, BootInv, NoConn
<1>2. CASE UNCHANGED vars
  <2>1. BootInv'
    BY <1>2 DEF vars, ServiceInv, BootInv
  <2>. QED  BY <1>2, <2>1, QuietStep DEF vars
<1>3. CASE Move \/ Config \/ Parse
  BY <1>3, MainService, EndService, DecodeService DEF Move, Config, Parse
<1>. QED
  BY <1>1, <1>2, <1>3, BootService, MainService, CallbackService DEF Next, MainStep

(* A pending command is sound and was written after all that were carried    *)
(* out, and every byte in Data was sent, in every behaviour of the firmware  *)
(* (MSG_RECV of main.c).                                                     *)
THEOREM ServiceInvariance == Spec => []ServiceInv
BY InitServiceInv, NextServiceInv, Invariance, PTL DEF Spec

-----------------------------------------------------------------------------
(* The refinement.  Each lemma maps a group of steps.                        *)

(* The code of a command determines its type and the other way round.        *)
LEMMA CodeOf ==
  ASSUME NEW c
  PROVE  /\ CommandOf(c) = "LOCK" => c = <<1, 1>>
         /\ CommandOf(c) = "UNLOCK" => c = <<1, 2>>
         /\ CommandOf(c) = "LOCK_STATUS" => c = <<2, 1>>
         /\ CommandOf(c) = "BATTERY_LEVEL" => c = <<2, 2>>
         /\ CommandOf(c) = "SETTIMEDATE" => c = <<3, 17>>
         /\ CommandOf(c) = "SETENCRYPTKEY" => c = <<3, 33>>
         /\ CommandOf(c) = "GETTIMEDATE" => c = <<3, 18>>
         /\ CommandOf(c) = "GETENCRYPTKEY" => c = <<3, 34>>
BY DEF CommandOf

(* The initial states of the firmware are initial states of the service.     *)
LEMMA InitImplements == Init => LS!Init
BY DEF Init, FlashInit, BLEInit, LS!Init, Carried, BoltIn, LS!Locked

(* What the service sees of a command that is being handled.                 *)
LEMMA HandledIsValid ==
  ASSUME IInv, ServiceInv, evt.type \in Commands, pc \notin BootPcs \cup StorePcs
  PROVE  /\ evt.of \in 1..Len(sent)
         /\ LS!Valid(evt.of, sent[evt.of].code)
         /\ CommandOf(sent[evt.of].code) = evt.type
         /\ evt.of \notin Carried
<1>1. /\ evt.of \in 1..Len(sent) /\ CommandOf(sent[evt.of].code) = evt.type
      /\ evt.of \notin done
  BY DEF IInv, EventInv, EventOk, Commands
<1>2. Carried = done
  BY DEF Carried
<1>3. LS!Valid(evt.of, sent[evt.of].code)
  BY <1>1, <1>2 DEF ServiceInv, CommandOk, LS!Valid
<1>. QED  BY <1>1, <1>2, <1>3

(* Start-up is invisible until BootInit, which is the start of the service.  *)
LEMMA BootImplements ==
  ASSUME IInv, ServiceInv, Boot PROVE LS!Next \/ UNCHANGED LS!vars
<1>1. CASE BootInit
  <2>1. /\ pc \in BootPcs /\ pc' = "wait" /\ Carried' = Carried
        /\ UNCHANGED <<sent, bolt, clock, reply>>
    BY <1>1 DEF BootInit, BLEapp_init, Carried
  <2>2. FlashFaults \/ lockUnlockStatus' = LS!Locked
    BY <1>1 DEF BootInit, StatusRead, ServiceInv, BootInv, Locked, LS!Locked
  <2>3. FlashFaults \/ Key' = DefaultKey
    BY <1>1 DEF BootInit, ServiceInv, BootInv
  <2>4. LS!Start
    BY <2>1, <2>2, <2>3 DEF LS!Start
  <2>. QED  BY <2>4 DEF LS!Next
<1>2. CASE BootErasePage \/ BootWriteKey \/ BootReadKey
  BY <1>2 DEF BootErasePage, BootErase, BootWriteKey, BootProgram, BootReadKey,
              LS!vars, Carried
<1>. QED  BY <1>1, <1>2 DEF Boot

(* The loop, the parser and the queueing of an answer are invisible.         *)
LEMMA QuietImplements ==
  ASSUME IInv, ServiceInv,
         \/ Loop \/ StartMove \/ StoreStatus \/ RejectKey \/ AcceptKey \/ EraseKey
         \/ Parse
  PROVE  UNCHANGED LS!vars
<1>1. CASE Loop \/ StartMove
  BY <1>1 DEF Loop, TimedGet, AdvCheck, AdvRefresh, AdvWrite, Idle, StartMove,
              Handling, Finish, LS!vars, Carried
<1>2. CASE StoreStatus
  BY <1>2 DEF StoreStatus, LS!vars, Carried
<1>3. CASE RejectKey \/ AcceptKey \/ EraseKey
  BY <1>3 DEF RejectKey, AcceptKey, EraseKey, Handling, Finish, LS!vars, Carried
<1>4. CASE Parse
  BY <1>4 DEF Parse, StartParse, RejectEnvelope, CopyIvHi, CopyIvLo, RejectLength,
              CopyCipher, DropFrame, NextPc, DecodeGarbage, DecodeBadLength,
              DecodeMessage, FinishDecode, Handling, Finish, LS!vars, Carried
<1>. QED  BY <1>1, <1>2, <1>3, <1>4

(* The end of the bolt a LOCK or an UNLOCK wants.                            *)
LEMMA MoveTarget ==
  ASSUME IInv, ServiceInv, pc \in MotorPcs
  PROVE  \E code \in {LS!LockCode, LS!UnlockCode} :
            /\ LS!Valid(evt.of, code) /\ evt.of \in 1..Len(sent)
            /\ Target = LS!EndOf(code)
            /\ LS!EndOf(code) = (IF Forward THEN Locked ELSE Unlocked)
<1>1. evt.type \in {"LOCK", "UNLOCK"}
  BY DEF IInv, PcInv
<1>2. /\ evt.of \in 1..Len(sent) /\ LS!Valid(evt.of, sent[evt.of].code)
      /\ CommandOf(sent[evt.of].code) = evt.type
  BY <1>1, HandledIsValid DEF Commands, EventTypes
<1>3. sent[evt.of].code = IF Forward THEN LS!LockCode ELSE LS!UnlockCode
  BY <1>1, <1>2, CodeOf DEF Forward, LS!LockCode, LS!UnlockCode
<1>4. LS!LockCode # LS!UnlockCode
  BY DEF LS!LockCode, LS!UnlockCode
<1>. QED
  BY <1>2, <1>3, <1>4 DEF Target, Forward, LS!EndOf, BoltIn, BoltOut, Locked,
      Unlocked, LS!Locked, LS!Unlocked

(* A step of the motor turns the bolt, or changes nothing that is seen; the  *)
(* last one sets the status.                                                 *)
LEMMA MoveImplements ==
  ASSUME IInv, ServiceInv, RunMotor \/ Sleep \/ StopMotor
  PROVE  LS!Next \/ UNCHANGED LS!vars
<1>1. pc \in MotorPcs /\ UNCHANGED <<sent, clock, Key, reply, done, evt>>
  BY DEF RunMotor, Sleep, StopMotor, PwmStep
<1>2. PICK code \in {LS!LockCode, LS!UnlockCode} :
        /\ LS!Valid(evt.of, code) /\ evt.of \in 1..Len(sent)
        /\ Target = LS!EndOf(code)
        /\ LS!EndOf(code) = (IF Forward THEN Locked ELSE Unlocked)
  BY <1>1, MoveTarget
<1>3. CASE pc' \in MotorPcs
  <2>1. /\ Carried' = Carried /\ lockUnlockStatus' = lockUnlockStatus
        /\ (pc \notin BootPcs) /\ (pc' \notin BootPcs)
    BY <1>1, <1>3 DEF Carried, RunMotor, Sleep, StopMotor, PwmStep
  <2>2. bolt' \in {bolt, Between, Target}
    <3>1. CASE RunMotor \/ StopMotor
      BY <3>1 DEF RunMotor, StopMotor, SetLhs, SetRhs, BoltFollows
    <3>2. CASE Sleep
      <4>1. /\ lhs = (IF Forward THEN 0 ELSE FullSpeed)
            /\ rhs = (IF Forward THEN FullSpeed ELSE 0)
        BY <3>2 DEF Sleep, PwmStep, IInv, MotorInv
      <4>. QED
        BY <3>2, <4>1 DEF Sleep, BoltArrives, Drives, Target, BoltIn, BoltOut, FullSpeed
    <3>. QED  BY <1>3, <3>1, <3>2
  <2>3. CASE bolt' = bolt
    BY <1>1, <2>1, <2>3 DEF LS!vars
  <2>4. CASE bolt' \in {Between, Target}
    <3>1. LS!Turn
      BY <1>1, <1>2, <2>1, <2>4 DEF LS!Turn, Between, LS!Between
    <3>. QED  BY <3>1 DEF LS!Next
  <2>. QED  BY <2>2, <2>3, <2>4
<1>4. CASE pc' \notin MotorPcs
  <2>1. /\ pc = "stop_rhs" /\ pc' = "store_erase" /\ SetRhs(Forward, 0)
        /\ lockUnlockStatus' = IF Forward THEN Locked ELSE Unlocked
    BY <1>4 DEF RunMotor, Sleep, StopMotor, PwmStep
  <2>2. bolt = Target
    BY <2>1 DEF IInv, MotorInv
  <2>3. bolt' = bolt
    <3>1. lhs' = 0 /\ rhs' = 0
      BY <2>1 DEF SetRhs, IInv, MotorInv
    <3>. QED  BY <2>1, <3>1 DEF SetRhs, BoltFollows, Drives
  <2>4. Carried = done /\ Carried' = done \cup {evt.of}
    BY <1>1, <2>1 DEF Carried
  <2>5. LS!CarryMove
    BY <1>1, <1>2, <2>1, <2>2, <2>3, <2>4 DEF LS!CarryMove
  <2>. QED  BY <2>5 DEF LS!Next
<1>. QED  BY <1>3, <1>4

(* The ACK of a move is queued after it was carried out.                     *)
LEMMA PushAckImplements ==
  ASSUME PushAck PROVE UNCHANGED LS!vars
BY DEF PushAck, Finish, LS!vars, Carried

(* A date is carried out, spoils the clock or changes nothing.               *)
LEMMA DateImplements ==
  ASSUME IInv, ServiceInv, SetTimeDate PROVE LS!Next \/ UNCHANGED LS!vars
<1>1. /\ pc = "dispatch" /\ pc' = "wait" /\ evt.type = "SETTIMEDATE"
      /\ UNCHANGED <<sent, bolt, lockUnlockStatus, Key, reply>>
  BY DEF SetTimeDate, Handling, Finish
<1>2. evt.of \in 1..Len(sent) /\ LS!Valid(evt.of, <<3, 17>>)
  <2>1. /\ evt.of \in 1..Len(sent) /\ LS!Valid(evt.of, sent[evt.of].code)
        /\ CommandOf(sent[evt.of].code) = evt.type
    BY <1>1, HandledIsValid DEF Commands, EventTypes
  <2>. QED  BY <1>1, <2>1, CodeOf
<1>3. Carried = done /\ Carried' = done'
  BY <1>1 DEF Carried
<1>4. ASSUME Data \in Times \cup BadTimes PROVE LS!Assembled(evt.of, Data)
  <2>1. \A i \in (1..3) \cap DOMAIN sent[evt.of].arg : Data[i] = sent[evt.of].arg[i]
    BY <1>1 DEF IInv, EventInv, EventOk, UsesData, HoldsArgument
  <2>2. evt.of = enc
    BY <1>1 DEF IInv, EventInv, EventOk, Commands, EventTypes
  <2>3. \A i \in 1..3 : Data[i] # Zero
    <3>1. Data \in [1..3 -> Pieces \ {Zero}]
      BY <1>4
    <3>. QED  BY <3>1
  <2>. QED  BY <2>1, <2>2, <2>3 DEF LS!Assembled, ServiceInv, DataInv
<1>5. CASE Accepted
  <2>1. clock' = Data /\ Data \in Times /\ done' = done \cup {evt.of}
    BY <1>5 DEF Accepted, SetTimeDate
  <2>2. LS!CarryDate
    BY <1>1, <1>2, <1>3, <1>4, <2>1 DEF LS!CarryDate
  <2>. QED  BY <2>2 DEF LS!Next
<1>6. CASE WellFormed /\ ~Accepted
  <2>1. clock' = Data /\ Data \in BadTimes /\ done' = done
    BY <1>6 DEF Accepted, WellFormed, SetTimeDate
  <2>2. LS!SpoilDate
    BY <1>1, <1>2, <1>3, <1>4, <2>1 DEF LS!SpoilDate
  <2>. QED  BY <2>2 DEF LS!Next
<1>7. CASE ~WellFormed
  <2>1. clock' = clock /\ done' = done
    BY <1>7 DEF Accepted, SetTimeDate
  <2>. QED  BY <1>1, <1>3, <2>1 DEF LS!vars
<1>. QED  BY <1>5, <1>6, <1>7

(* A key is carried out, or a faulty flash loses it.                         *)
LEMMA KeyImplements ==
  ASSUME IInv, ServiceInv, IInv', WriteKey PROVE LS!Next \/ UNCHANGED LS!vars
<1>1. /\ pc = "key_write" /\ pc' = "wait" /\ evt.type = "SETENCRYPTKEY"
      /\ dataLen = 16 /\ KeyIn(Data) \in Keys
      /\ UNCHANGED <<sent, bolt, lockUnlockStatus, clock, reply>>
  BY DEF WriteKey, Finish, IInv, PcInv, KeyInv
<1>2. evt.of \in 1..Len(sent) /\ LS!Valid(evt.of, <<3, 33>>)
  <2>1. /\ evt.of \in 1..Len(sent) /\ LS!Valid(evt.of, sent[evt.of].code)
        /\ CommandOf(sent[evt.of].code) = evt.type
    BY <1>1, HandledIsValid DEF Commands, EventTypes
  <2>. QED  BY <1>1, <2>1, CodeOf
<1>3. Carried = done /\ Carried' = done'
  BY <1>1 DEF Carried
<1>4. sent[evt.of].arg = KeyIn(Data)
  <2>. DEFINE a == sent[evt.of].arg
  <2>1. a \in Args
    <3>1. sent \in Seq(Contents) /\ evt.of \in 1..Len(sent)
      BY <1>2 DEF IInv, TypeOK, BLETypeOK
    <3>. QED  BY <3>1 DEF ContentType
  <2>2. dataLen = ArgLen(a) /\ \A i \in (1..3) \cap DOMAIN a : Data[i] = a[i]
    BY <1>1 DEF IInv, EventInv, EventOk, UsesData, HoldsArgument
  <2>3. a \in Keys
    <3>. HIDE DEF a
    <3>. QED  BY <1>1, <2>1, <2>2, ArgPieces
  <2>4. a \in [1..2 -> Pieces] /\ \A i \in 1..2 : Data[i] = a[i]
    BY <2>2, <2>3
  <2>. QED  BY <2>4 DEF KeyIn
<1>5. CASE Key' = KeyIn(Data)
  <2>1. done' = done \cup {evt.of}
    BY <1>5 DEF WriteKey
  <2>2. LS!CarryKey
    BY <1>1, <1>2, <1>3, <1>4, <1>5, <2>1 DEF LS!CarryKey
  <2>. QED  BY <2>2 DEF LS!Next
<1>6. CASE Key' # KeyIn(Data)
  <2>1. done' = done /\ flashKey' = Key'
    BY <1>6 DEF WriteKey
  <2>2. FlashFaults
    <3>1. ASSUME ~FlashFaults PROVE FALSE
      <4>1. flashKey = Blank
        BY <1>1, <3>1 DEF IInv, KeyInv
      <4>2. flashKey' = KeyIn(Data)
        BY <3>1, <4>1 DEF WriteKey, ProgramKey, Programmed
      <4>. QED  BY <1>6, <2>1, <4>2
    <3>. QED  BY <3>1
  <2>3. Key' \in Keys \cup {Blank, Corrupt}
    BY DEF IInv, TypeOK, StoredKeys
  <2>4. LS!LoseKey
    BY <1>1, <1>2, <1>3, <2>1, <2>2, <2>3 DEF LS!LoseKey
  <2>. QED  BY <2>4 DEF LS!Next
<1>. QED  BY <1>5, <1>6

(* What an answer says is true.                                              *)
LEMMA AnswerImplements ==
  ASSUME IInv, ServiceInv, Answer PROVE LS!Next \/ UNCHANGED LS!vars
<1>1. PICK kind, val :
        /\ kind \in ReplyKinds \ {"none"}
        /\ Notify(kind, val)
        /\ \/ kind = "LOCK_STATUS" /\ val = lockUnlockStatus
           \/ kind = "BATTERY_LEVEL"
           \/ kind = "GETTIMEDATE" /\ val = clock
           \/ kind = "GETENCRYPTKEY" /\ val = Key
           \/ kind \in {"ACK", "NACK"} /\ val = {}
  BY DEF Answer, LockStatus, BatteryLevel, GetTimeDate, GetEncryptKey, Ack, Nack,
         ReplyKinds
<1>2. /\ pc = "dispatch" /\ pc' = "wait" /\ evt.type = kind
      /\ kind \in ReplyKinds \ {"none"}
      /\ UNCHANGED <<sent, done, bolt, lockUnlockStatus, Key, clock>>
  BY <1>1 DEF Notify, Handling, Finish
<1>3. Carried = done /\ Carried' = done
  BY <1>2 DEF Carried
<1>4. CASE reply' = reply
  BY <1>2, <1>3, <1>4 DEF LS!vars
<1>5. CASE reply' # reply
  <2>1. reply' = [kind |-> kind, of |-> evt.of, val |-> val]
    BY <1>1, <1>5 DEF Notify
  <2>2. LS!Tell(evt.of, kind, val)
    BY <1>2, <1>3, <2>1 DEF LS!Tell
  <2>3. evt.of \in 1..Len(sent)
    BY <1>2 DEF IInv, EventInv, EventOk, ReplyKinds
  <2>4. CASE kind \in {"LOCK_STATUS", "BATTERY_LEVEL", "GETTIMEDATE", "GETENCRYPTKEY"}
    <3>1. /\ LS!Valid(evt.of, sent[evt.of].code)
          /\ CommandOf(sent[evt.of].code) = kind
      BY <1>2, <2>4, HandledIsValid DEF Commands, EventTypes
    <3>2. LS!Answer
      <4>1. CASE kind = "BATTERY_LEVEL"
        <5>1. reply'.val = val
          BY <2>1
        <5>2. LS!Valid(evt.of, <<2, 2>>)
          BY <3>1, <4>1, CodeOf
        <5>. QED  BY <2>2, <2>3, <4>1, <5>1, <5>2 DEF LS!Answer
      <4>2. CASE kind # "BATTERY_LEVEL"
        BY <1>1, <2>2, <2>3, <2>4, <3>1, <4>2, CodeOf DEF LS!Answer
      <4>. QED  BY <4>1, <4>2
    <3>. QED  BY <3>2 DEF LS!Next
  <2>5. CASE kind = "ACK"
    <3>1. evt.of \in done \/ FlashFaults
      BY <1>2, <2>5 DEF IInv, EventInv, EventOk
    <3>2. LS!Answer
      BY <1>1, <1>2, <1>3, <2>2, <2>3, <2>5, <3>1 DEF LS!Answer
    <3>. QED  BY <3>2 DEF LS!Next
  <2>6. CASE kind = "NACK"
    <3>1. evt.of \notin done
      BY <1>2, <2>6 DEF IInv, EventInv, EventOk
    <3>2. LS!Answer
      BY <1>1, <1>2, <1>3, <2>2, <2>3, <2>6, <3>1 DEF LS!Answer
    <3>. QED  BY <3>2 DEF LS!Next
  <2>. QED  BY <1>2, <2>4, <2>5, <2>6 DEF ReplyKinds
<1>. QED  BY <1>4, <1>5

(* A client writes; the rest of the stack is invisible.                      *)
LEMMA CallbackImplements ==
  ASSUME IInv, Callback PROVE LS!Next \/ UNCHANGED LS!vars
<1>1. UNCHANGED mainVars /\ Carried' = Carried
  BY DEF Callback, BtReady, Connected, Disconnected, WriteFrame, RepeatFrame,
         WriteAgain, Carried
<1>2. CASE sent' = sent
  BY <1>1, <1>2 DEF LS!vars
<1>3. CASE sent' # sent
  <2>0. \A n \in 1..Len(sent) : sent[n] \in Contents
    BY DEF IInv, TypeOK, BLETypeOK
  <2>1. \E c \in Contents : sent' = Append(sent, c)
    BY <1>3, <2>0 DEF Callback, BtReady, bt_ready, Connected, on_connected, Disconnected,
                on_disconnected, WriteFrame, RepeatFrame, WriteAgain
  <2>2. LS!Write
    BY <1>1, <2>1 DEF LS!Write
  <2>. QED  BY <2>2 DEF LS!Next
<1>. QED  BY <1>2, <1>3

(* A reset of the processor is a restart of the service.                     *)
LEMMA CrashImplements ==
  ASSUME Crash PROVE LS!Next
<1>1. LS!Restart
  BY DEF Crash, BLEReset, LS!Restart, Carried
<1>. QED  BY <1>1 DEF LS!Next

(* Every step of the firmware is a step of the service or is invisible.      *)
LEMMA StepImplements ==
  ASSUME IInv, ServiceInv, IInv', [Next]_vars PROVE [LS!Next]_(LS!vars)
<1>1. CASE UNCHANGED vars
  BY <1>1 DEF vars, LS!vars, Carried
<1>2. CASE Move
  BY <1>2, QuietImplements, MoveImplements, PushAckImplements DEF Move
<1>3. CASE Config
  BY <1>3, QuietImplements, DateImplements, KeyImplements DEF Config
<1>. QED
  BY <1>1, <1>2, <1>3, BootImplements, QuietImplements, AnswerImplements,
     CallbackImplements, CrashImplements DEF Next, MainStep

(* The firmware implements the service: commands take effect only when they  *)
(* are valid, once for each write, in the order they were written, a date    *)
(* consists of bytes that were sent, and the answers are true (main.c).      *)
THEOREM ServiceImplemented == Spec => Implements
<1>1. IInv /\ ServiceInv /\ [Next]_vars => [LS!Next]_(LS!vars)
  BY NextIInv, StepImplements
<1>. QED
  BY <1>1, InitImplements, Invariance, ServiceInvariance, PTL
     DEF Spec, Implements, LS!Spec
=============================================================================
