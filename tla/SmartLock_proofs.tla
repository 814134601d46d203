-------------------------- MODULE SmartLock_proofs --------------------------
(* Proofs about SmartLock for every value of its constants.  IInv is shown   *)
(* inductive, with a lemma for each group of actions; the theorems at the    *)
(* end read the properties off it.                                           *)
EXTENDS SmartLockInvariant, SequenceTheorems, TLAPS

(* The groups of places and of variables are expanded in every proof.        *)
USE FlashAssumption, BLEAssumption, LockAssumption
    DEF BootPcs, ParsePcs, MotorPcs, StorePcs, KeyPcs, flashVars, motorVars,
        pwmVars, bleVars, radioVars, parseVars, dataVars, lockVars, mainVars,
        IvOf, Remembered

(* The initial states satisfy the invariant.                                 *)
LEMMA InitIInv == Init => IInv
<1> SUFFICES ASSUME Init PROVE IInv
  OBVIOUS
<1> USE DEF Init, FlashInit, BLEInit
<1>1. TypeOK
  <2>1. FlashTypeOK /\ MotorTypeOK
    BY DEF FlashTypeOK, MotorTypeOK, Byte, ErasedByte, StoredKeys, Speeds,
           BoltPositions, BoltIn
  <2>2. mfg \in MfgData /\ air \in MfgData
    BY DEF MfgData, MfgByte, StaticMfg, SilentAir, Mfg
  <2>3. BLETypeOK /\ evt \in Event
    BY <2>2 DEF BLETypeOK, Event, EventTypes, NoEvent, NoConn
  <2>4. /\ reply.kind \in ReplyKinds
        /\ reply \in [kind : {reply.kind}, of : 0..Len(sent), val : ReplyVals(reply.kind)]
    <3>1. {} \in ReplyVals("none")
      BY DEF ReplyVals, Byte
    <3>. QED  BY <3>1 DEF ReplyKinds
  <2>. QED
    BY <2>1, <2>3, <2>4 DEF TypeOK, Pcs, BootPcs, ZeroData, Clocks, StoredKeys, Byte
<1>2. PcInv /\ QueueInv
  BY DEF PcInv, QueueInv, QueuedOk, BootPcs, ParsePcs, MotorPcs, StorePcs,
         KeyPcs,
         NoEvent
<1>3. OriginInv /\ IvInv /\ DoneInv
  BY DEF OriginInv, IvInv, DoneInv
<1>4. EventInv
  BY DEF EventInv, EventOk, UsesData, Commands, NoEvent
<1>5. KeyInv /\ MotorInv
  BY DEF KeyInv, KeyMatchesFlash, BootPcs, MotorInv, MotorPcs, StorePcs,
         StatusTruth,
         HasMoved
<1>. QED  BY <1>1, <1>2, <1>3, <1>4, <1>5 DEF IInv

(* What Push does to a queue of at most one event.                           *)
LEMMA PushQueue ==
  ASSUME queue \in Seq(Event), Len(queue) <= 1,
         NEW t \in EventTypes, NEW f \in Nat, Push(t, f)
  PROVE  /\ queue' \in Seq(Event) /\ Len(queue') <= 1
         /\ \/ queue' = queue /\ queue # <<>>
            \/ queue = <<>> /\ queue' = <<[type |-> t, of |-> f]>>
<1> DEFINE e == [type |-> t, of |-> f]
<1>1. e \in Event
  BY DEF Event
<1>2. CASE queue = <<>>
  <2>1. queue' = <<e>>
    BY <1>2 DEF Push, APP_EVENT_QUEUE_SIZE
  <2>2. <<e>> \in Seq(Event) /\ Len(<<e>>) = 1
    BY <1>1
  <2>. QED  BY <1>2, <2>1, <2>2
<1>3. CASE queue # <<>>
  <2>1. Len(queue) = 1
    <3>1. Len(queue) \in Nat \ {0}
      BY <1>3, EmptySeq, Zenon
    <3>2. \A n \in Nat \ {0} : n <= 1 => n = 1
      OBVIOUS
    <3>. QED  BY <3>1, <3>2
  <2>2. queue' = queue
    BY <2>1 DEF Push, APP_EVENT_QUEUE_SIZE
  <2>. QED  BY <1>3, <2>1, <2>2
<1>. QED  BY <1>2, <1>3

(* What TimedGet takes from a queue of at most one event.                    *)
LEMMA QueueShape ==
  ASSUME queue \in Seq(Event), Len(queue) <= 1, queue # <<>>
  PROVE  Head(queue) = queue[1] /\ Tail(queue) = <<>> /\ queue[1] \in Event
<1>1. Len(queue) \in Nat \ {0}
  BY EmptySeq, Zenon
<1>2. \A n \in Nat \ {0} : n <= 1 => n = 1
  OBVIOUS
<1>3. Len(queue) = 1
  BY <1>1, <1>2
<1>4. Tail(queue) \in Seq(Event) /\ Len(Tail(queue)) = 0
  BY <1>3
<1>5. Tail(queue) = <<>>
  BY <1>4, EmptySeq, Zenon
<1>. QED  BY <1>3, <1>5

(* The page of the key may be erased while the lock boots, whatever it       *)
(* holds.                                                                    *)
LEMMA BootErasePageStep ==
  ASSUME IInv, BootErasePage PROVE IInv'
<1>. USE DEF IInv, BootErasePage, BootErase
<1>1. /\ flashKey' \in StoredKeys /\ flashStatus' \in Byte
      /\ UNCHANGED <<motorVars, bleVars, evt, parseVars, dataVars, lockVars,
                     reply, done, crashes>>
  BY DEF sys_flash_erase, StoredKeys, Byte, ErasedByte, TypeOK, FlashTypeOK
<1>2. pc \in BootPcs /\ pc' \in BootPcs
  OBVIOUS
<1>. HIDE DEF BootErasePage, BootErase
<1>3. TypeOK'
  BY <1>1, <1>2 DEF TypeOK, FlashTypeOK, MotorTypeOK, BLETypeOK, Pcs, Event,
                    EventTypes, NoEvent
<1>4. PcInv' /\ QueueInv'
  BY <1>1, <1>2 DEF PcInv, QueueInv, QueuedOk, NoEvent, TypeOK, BLETypeOK,
                    Event, EventTypes
<1>5. OriginInv' /\ IvInv' /\ DoneInv'
  BY <1>1, <1>2 DEF OriginInv, IvInv, DoneInv, PcInv, EventInv, EventOk, Commands,
                    EventTypes, TypeOK, BLETypeOK
<1>6. EventInv'
  BY <1>1, <1>2 DEF EventInv, EventOk, UsesData, HoldsArgument, Commands,
                    NoEvent, QueueInv, QueuedOk, TypeOK, BLETypeOK, PcInv,
                    IvInv, DoneInv, KeyInv, Event, EventTypes
<1>7. KeyInv' /\ MotorInv'
  BY <1>1, <1>2 DEF KeyInv, KeyMatchesFlash, MotorInv, StatusTruth, HasMoved,
                    Target, Forward, PcInv, TypeOK, FlashTypeOK, MotorTypeOK,
                    BLETypeOK, EventInv, EventOk, Commands, EventTypes
<1>. QED  BY <1>3, <1>4, <1>5, <1>6, <1>7

(* So may the default key be programmed.                                     *)
LEMMA BootWriteKeyStep ==
  ASSUME IInv, BootWriteKey PROVE IInv'
<1>. USE DEF IInv, BootWriteKey, BootProgram
<1>1. /\ flashKey' \in StoredKeys /\ UNCHANGED flashStatus
      /\ UNCHANGED <<motorVars, bleVars, evt, parseVars, dataVars, lockVars,
                     reply, done, crashes>>
  BY DEF ProgramKey, Programmed, StoredKeys, TypeOK, FlashTypeOK
<1>2. pc \in BootPcs /\ pc' \in BootPcs
  OBVIOUS
<1>. HIDE DEF BootWriteKey, BootProgram
<1>3. TypeOK'
  BY <1>1, <1>2 DEF TypeOK, FlashTypeOK, MotorTypeOK, BLETypeOK, Pcs, Event,
                    EventTypes, NoEvent
<1>4. PcInv' /\ QueueInv'
  BY <1>1, <1>2 DEF PcInv, QueueInv, QueuedOk, NoEvent, TypeOK, BLETypeOK,
                    Event, EventTypes
<1>5. OriginInv' /\ IvInv' /\ DoneInv'
  BY <1>1, <1>2 DEF OriginInv, IvInv, DoneInv, PcInv, EventInv, EventOk, Commands,
                    EventTypes, TypeOK, BLETypeOK
<1>6. EventInv'
  BY <1>1, <1>2 DEF EventInv, EventOk, UsesData, HoldsArgument, Commands,
                    NoEvent, QueueInv, QueuedOk, TypeOK, BLETypeOK, PcInv,
                    IvInv, DoneInv, KeyInv, Event, EventTypes
<1>7. KeyInv' /\ MotorInv'
  BY <1>1, <1>2 DEF KeyInv, KeyMatchesFlash, MotorInv, StatusTruth, HasMoved,
                    Target, Forward, PcInv, TypeOK, FlashTypeOK, MotorTypeOK,
                    BLETypeOK, EventInv, EventOk, Commands, EventTypes
<1>. QED  BY <1>3, <1>4, <1>5, <1>6, <1>7

(* The other steps up to the loop of main().                                 *)
LEMMA BootRestStep ==
  ASSUME IInv, BootReadKey \/ BootInit PROVE IInv'
<1>. USE DEF IInv
<1>1. /\ pc \in BootPcs /\ pc' \in BootPcs \cup {"wait"}
      /\ pc' = "wait" => Key' = flashKey
      /\ Key' \in {Key, flashKey} /\ lockUnlockStatus' \in Byte
      /\ lhs' \in {lhs, 0} /\ rhs' \in {rhs, 0}
      /\ mfg' \in MfgData /\ stack' \in {stack, "enabled"}
      /\ UNCHANGED <<flashVars, bolt, queue, BlemsgBuf, sent, origin, current_conn, conns, air,
                     evt, parseVars, dataVars, clock, reply, done, crashes>>
  <2>1. StatusRead(flashStatus) \in Byte /\ lockUnlockStatus \in Byte /\ mfg \in MfgData
    <3>1. Locked \in Byte
      BY DEF Locked, Byte
    <3>. QED  BY <3>1 DEF TypeOK, FlashTypeOK, BLETypeOK, StatusRead
  <2>2. CASE BootReadKey
    BY <2>1, <2>2 DEF BootReadKey
  <2>3. CASE BootInit
    BY <2>1, <2>3 DEF BootInit, BLEapp_init, mcapp_init, Mfg, MfgData,
                      MfgByte, Byte,
                      Battery99
  <2>. QED  BY <2>2, <2>3
<1>2. TypeOK'
  <2>1. FlashTypeOK' /\ MotorTypeOK' /\ BLETypeOK'
    BY <1>1 DEF TypeOK, FlashTypeOK, MotorTypeOK, BLETypeOK, Speeds
  <2>2. pc' \in Pcs /\ evt' \in Event
    BY <1>1 DEF TypeOK, Pcs, Event, EventTypes, NoEvent
  <2>. QED  BY <1>1, <2>1, <2>2 DEF TypeOK, FlashTypeOK
<1>3. PcInv' /\ QueueInv'
  BY <1>1 DEF PcInv, QueueInv, QueuedOk, NoEvent, TypeOK, BLETypeOK, Event,
              EventTypes
<1>4. OriginInv' /\ IvInv' /\ DoneInv'
  BY <1>1 DEF OriginInv, IvInv, DoneInv, PcInv, EventInv, EventOk, Commands, EventTypes,
              TypeOK, BLETypeOK
<1>5. EventInv'
  BY <1>1 DEF EventInv, EventOk, UsesData, HoldsArgument, Commands, NoEvent,
              QueueInv, QueuedOk, TypeOK, BLETypeOK, PcInv, IvInv, DoneInv,
              KeyInv, Event, EventTypes
<1>6. KeyInv' /\ MotorInv'
  BY <1>1 DEF KeyInv, KeyMatchesFlash, MotorInv, StatusTruth, HasMoved,
              Target, Forward, PcInv, TypeOK, FlashTypeOK, MotorTypeOK,
              BLETypeOK, EventInv, EventOk, Commands, EventTypes
<1>. QED  BY <1>2, <1>3, <1>4, <1>5, <1>6

(* The event taken from the queue is the one the invariant knows of.         *)
LEMMA TimedGetStep ==
  ASSUME IInv, TimedGet PROVE IInv'
<1>. USE DEF IInv
<1>1. /\ evt' \in Event /\ queue' \in Seq(Event)
      /\ \/ queue # <<>> /\ evt' = queue[1] /\ queue' = <<>>
         \/ queue = <<>> /\ evt' = NoEvent /\ queue' = queue
  <2>1. queue \in Seq(Event) /\ Len(queue) <= 1 /\ <<>> \in Seq(Event)
    BY DEF TypeOK, BLETypeOK, QueueInv
  <2>2. NoEvent \in Event
    BY DEF NoEvent, Event, EventTypes
  <2>. QED  BY <2>1, <2>2, QueueShape DEF TimedGet
<1>2. /\ pc = "wait" /\ pc' = "adv_check"
      /\ UNCHANGED <<flashVars, motorVars, radioVars, parseVars, dataVars,
                     lockVars, reply, done, crashes>>
  BY DEF TimedGet
<1>3. TypeOK'
  BY <1>1, <1>2 DEF TypeOK, FlashTypeOK, MotorTypeOK, BLETypeOK, Pcs, Event,
                    EventTypes, NoEvent
<1>4. PcInv' /\ QueueInv'
  BY <1>1, <1>2 DEF PcInv, QueueInv, QueuedOk, NoEvent, TypeOK, BLETypeOK,
                    Event, EventTypes
<1>5. OriginInv' /\ IvInv' /\ DoneInv'
  BY <1>1, <1>2 DEF OriginInv, IvInv, DoneInv, PcInv, EventInv, EventOk, Commands,
                    EventTypes, TypeOK, BLETypeOK
<1>6. EventInv'
  BY <1>1, <1>2 DEF EventInv, EventOk, UsesData, HoldsArgument, Commands,
                    NoEvent, QueueInv, QueuedOk, TypeOK, BLETypeOK, PcInv,
                    IvInv, DoneInv, KeyInv, Event, EventTypes
<1>7. KeyInv' /\ MotorInv'
  BY <1>1, <1>2 DEF KeyInv, KeyMatchesFlash, MotorInv, StatusTruth, HasMoved,
                    Target, Forward, PcInv, TypeOK, FlashTypeOK, MotorTypeOK,
                    BLETypeOK, EventInv, EventOk, Commands, EventTypes
<1>. QED  BY <1>3, <1>4, <1>5, <1>6, <1>7

(* The other steps of the loop change what is advertised at most.            *)
LEMMA LoopRestStep ==
  ASSUME IInv, AdvCheck \/ AdvRefresh \/ Idle \/ StartMove PROVE IInv'
<1>. USE DEF IInv
<1>1. /\ \/ pc \in {"adv_check", "adv_write"} /\ pc' \in {"adv_write", "dispatch"} /\ evt' = evt
         \/ pc = "dispatch" /\ pc' = "wait" /\ evt' = NoEvent
         \/ /\ pc = "dispatch" /\ pc' = "pwm_lhs" /\ evt' = evt
            /\ evt.type \in {"LOCK", "UNLOCK"}
      /\ mfg' \in MfgData /\ air' \in {air, mfg'}
      /\ UNCHANGED <<flashVars, motorVars, queue, BlemsgBuf, sent, origin, current_conn, conns,
                     stack, parseVars, dataVars, lockVars, reply, done, crashes>>
  <2>1. lockUnlockStatus \in MfgByte /\ Battery11 \in MfgByte /\ mfg \in MfgData
    BY DEF TypeOK, BLETypeOK, Byte, MfgByte, Battery11
  <2>2. CASE AdvRefresh
    BY <2>1, <2>2 DEF AdvRefresh, AdvWrite, Mfg, MfgData
  <2>3. CASE AdvCheck \/ Idle \/ StartMove
    BY <2>1, <2>3 DEF AdvCheck, Idle, StartMove, Handling, Finish
  <2>. QED  BY <2>2, <2>3
<1>2. TypeOK'
  <2>1. FlashTypeOK' /\ MotorTypeOK' /\ BLETypeOK'
    BY <1>1 DEF TypeOK, FlashTypeOK, MotorTypeOK, BLETypeOK
  <2>2. pc' \in Pcs /\ evt' \in Event
    BY <1>1 DEF TypeOK, Pcs, Event, EventTypes, NoEvent
  <2>. QED  BY <1>1, <2>1, <2>2 DEF TypeOK
<1>3. PcInv' /\ QueueInv'
  <2>1. CASE evt' = NoEvent
    BY <1>1, <2>1 DEF PcInv, QueueInv, NoEvent
  <2>2. CASE evt' = evt /\ pc \notin KeyPcs
    BY <1>1, <2>2 DEF PcInv, QueueInv, QueuedOk
  <2>. QED  BY <1>1, <2>1, <2>2
<1>4. OriginInv' /\ IvInv' /\ DoneInv'
  BY <1>1 DEF OriginInv, IvInv, DoneInv, PcInv, EventInv, EventOk, Commands, EventTypes,
              TypeOK, BLETypeOK
<1>5. EventInv'
  <2>1. ASSUME NEW e \in Event, EventOk(e) PROVE EventOk(e)'
    BY <1>1, <2>1 DEF EventOk, UsesData, HoldsArgument
  <2>2. EventOk(NoEvent)'
    BY DEF EventOk, NoEvent, UsesData, Commands
  <2>. QED  BY <1>1, <2>1, <2>2, QueueShape DEF EventInv, QueueInv, TypeOK,
      BLETypeOK
<1>6. KeyInv' /\ MotorInv'
  BY <1>1 DEF KeyInv, KeyMatchesFlash, MotorInv, StatusTruth, HasMoved,
              Target, Forward, PcInv, TypeOK, FlashTypeOK, MotorTypeOK,
              BLETypeOK, EventInv, EventOk, Commands, EventTypes
<1>. QED  BY <1>2, <1>3, <1>4, <1>5, <1>6

(* A step of a move touches the motor, the bolt and the status only.         *)
LEMMA PwmFrame ==
  ASSUME IInv, pc \in MotorPcs, pc' \in MotorPcs \/ pc' = "store_erase",
         lhs' \in Speeds, rhs' \in Speeds, bolt' \in BoltPositions,
         lockUnlockStatus' \in Byte, MotorInv',
         UNCHANGED <<flashVars, bleVars, evt, parseVars, dataVars, clock, Key,
                     reply, done, crashes>>
  PROVE  IInv'
<1>. USE DEF IInv
<1>1. TypeOK'
  BY DEF TypeOK, FlashTypeOK, MotorTypeOK, BLETypeOK, Pcs, Event, EventTypes,
         NoEvent
<1>2. PcInv' /\ QueueInv'
  BY DEF PcInv, QueueInv, QueuedOk, NoEvent, TypeOK, BLETypeOK, Event,
         EventTypes
<1>3. OriginInv' /\ IvInv' /\ DoneInv'
  BY DEF OriginInv, IvInv, DoneInv, PcInv, EventInv, EventOk, Commands, EventTypes,
         TypeOK, BLETypeOK
<1>4. EventInv'
  BY DEF EventInv, EventOk, UsesData, HoldsArgument, Commands, NoEvent,
         QueueInv, QueuedOk, TypeOK, BLETypeOK, PcInv, IvInv, DoneInv, KeyInv,
         Event, EventTypes
<1>5. KeyInv'
  BY DEF PcInv, KeyInv, KeyMatchesFlash
<1>. QED  BY <1>1, <1>2, <1>3, <1>4, <1>5

(* Starting the motor: one side, then the other.                             *)
LEMMA RunMotorStep ==
  ASSUME IInv, RunMotor PROVE IInv'
<1>. USE DEF PwmStep, SetLhs, SetRhs, BoltFollows, Drives, BoltIn, BoltOut,
             Between,
         BoltPositions, Speeds, FullSpeed
<1>1. lhs \in Speeds /\ rhs \in Speeds /\ bolt \in BoltPositions /\ lockUnlockStatus \in Byte
  BY DEF IInv, TypeOK, MotorTypeOK
<1>2. CASE PwmStep("pwm_lhs", "pwm_rhs") /\ SetLhs(Forward, FullSpeed)
  <2>1. lhs' = (IF Forward THEN 0 ELSE FullSpeed) /\ rhs = 0 /\ rhs' = 0
    BY <1>2 DEF IInv, MotorInv
  <2>2. bolt' \in BoltPositions
    BY <1>1, <1>2
  <2>3. MotorInv'
    BY <1>2, <2>1, RunMotor DEF IInv, RunMotor, MotorInv, StatusTruth,
                                Forward, Target
  <2>. QED  BY <1>1, <1>2, <2>1, <2>2, <2>3, PwmFrame, RunMotor DEF RunMotor
<1>3. CASE PwmStep("pwm_rhs", "sleep") /\ SetRhs(Forward, FullSpeed)
  <2>1. rhs' = (IF Forward THEN FullSpeed ELSE 0) /\ lhs' = lhs
    BY <1>3 DEF IInv, MotorInv
  <2>2. bolt' \in BoltPositions
    BY <1>1, <1>3
  <2>3. MotorInv'
    BY <1>3, <2>1, RunMotor DEF IInv, RunMotor, MotorInv, StatusTruth,
                                Forward, Target
  <2>. QED  BY <1>1, <1>3, <2>1, <2>2, <2>3, PwmFrame, RunMotor DEF RunMotor
<1>. QED  BY <1>2, <1>3, RunMotor DEF RunMotor

(* After the second under power the bolt is where the command wants it.      *)
LEMMA SleepStep ==
  ASSUME IInv, Sleep PROVE IInv'
<1>. USE DEF PwmStep, BoltPositions, Speeds, FullSpeed
<1>1. lhs \in Speeds /\ rhs \in Speeds /\ bolt \in BoltPositions /\ lockUnlockStatus \in Byte
  BY DEF IInv, TypeOK, MotorTypeOK
<1>2. /\ lhs' = (IF Forward THEN 0 ELSE FullSpeed) /\ lhs' = lhs
      /\ rhs' = (IF Forward THEN FullSpeed ELSE 0) /\ rhs' = rhs
  BY Sleep DEF IInv, Sleep, MotorInv, BoltArrives
<1>3. bolt' = Target
  <2>1. CASE Forward
    BY <1>2, <2>1, Sleep DEF Sleep, BoltArrives, Drives, BoltIn, BoltOut,
                             Target
  <2>2. CASE ~Forward
    BY <1>2, <2>2, Sleep DEF Sleep, BoltArrives, Drives, BoltIn, BoltOut,
                             Target
  <2>. QED  BY <2>1, <2>2
<1>4. MotorInv'
  BY <1>2, <1>3, Sleep DEF IInv, Sleep, MotorInv, StatusTruth, Forward, Target
<1>5. bolt' \in BoltPositions
  BY <1>3 DEF Target
<1>. QED  BY <1>1, <1>2, <1>4, <1>5, PwmFrame, Sleep DEF Sleep

(* Stopping the motor; the new status is where the bolt is.                  *)
LEMMA StopMotorStep ==
  ASSUME IInv, StopMotor PROVE IInv'
<1>. USE DEF PwmStep, BoltPositions, Speeds, FullSpeed
<1>1. lhs \in Speeds /\ rhs \in Speeds /\ bolt \in BoltPositions /\ lockUnlockStatus \in Byte
  BY DEF IInv, TypeOK, MotorTypeOK
<1>2. CASE PwmStep("stop_lhs", "stop_rhs") /\ SetLhs(Forward, 0) /\ UNCHANGED lockUnlockStatus
  <2>1. lhs' = 0 /\ rhs' = rhs /\ rhs = (IF Forward THEN FullSpeed ELSE 0) /\ bolt = Target
    BY <1>2 DEF IInv, MotorInv, SetLhs
  <2>2. bolt' = bolt
    BY <1>2, <2>1 DEF SetLhs, BoltFollows, Drives, BoltIn, BoltOut, Between,
                      Target
  <2>3. MotorInv'
    BY <1>2, <2>1, <2>2 DEF IInv, MotorInv, StatusTruth, Forward, Target
  <2>. QED  BY <1>1, <1>2, <2>1, <2>2, <2>3, PwmFrame
<1>3. CASE /\ PwmStep("stop_rhs", "store_erase")
           /\ SetRhs(Forward, 0)
           /\ lockUnlockStatus' = IF Forward THEN Locked ELSE Unlocked
  <2>1. lhs' = 0 /\ rhs' = 0 /\ bolt = Target
    BY <1>3 DEF IInv, MotorInv, SetRhs
  <2>2. bolt' = bolt
    BY <1>3, <2>1 DEF SetRhs, BoltFollows, Drives, BoltIn, BoltOut
  <2>3. lockUnlockStatus' = bolt' /\ lockUnlockStatus' \in Byte
    BY <1>3, <2>1, <2>2 DEF Target, Locked, Unlocked, BoltIn, BoltOut, Byte
  <2>4. MotorInv'
    BY <1>3, <2>1, <2>2, <2>3 DEF IInv, MotorInv, StatusTruth
  <2>. QED  BY <1>1, <1>3, <2>1, <2>2, <2>3, <2>4, PwmFrame
<1>. QED  BY <1>2, <1>3, StopMotor DEF StopMotor

(* Storing the status leaves the key on the same page alone: the erase that  *)
(* would wipe it is refused.                                                 *)
LEMMA StoreStatusStep ==
  ASSUME IInv, StoreStatus PROVE IInv'
<1>. USE DEF IInv
<1>1. /\ flashKey' = flashKey /\ flashStatus' \in Byte
      /\ pc \in StorePcs /\ pc' \in StorePcs
      /\ UNCHANGED <<motorVars, bleVars, evt, parseVars, dataVars, lockVars,
                     reply, done, crashes>>
  <2>1. lock_status_location % FLASH_PAGE_SIZE # 0
    BY DEF lock_status_location, FLASH_PAGE_SIZE
  <2>2. flashStatus \in Byte /\ lockUnlockStatus \in Byte
    BY DEF TypeOK, FlashTypeOK
  <2>3. CASE pc = "store_erase"
    BY <2>1, <2>2, <2>3 DEF StoreStatus, sys_flash_erase
  <2>4. CASE pc = "store_write"
    <3>1. flashStatus' \in Byte
      BY <2>2, <2>4 DEF StoreStatus, ProgramStatus, Byte
    <3>. QED  BY <2>4, <3>1 DEF StoreStatus, ProgramStatus
  <2>. QED  BY <2>3, <2>4 DEF StoreStatus
<1>2. TypeOK'
  BY <1>1 DEF TypeOK, FlashTypeOK, MotorTypeOK, BLETypeOK, Pcs, Event,
              EventTypes, NoEvent
<1>3. PcInv' /\ QueueInv'
  BY <1>1 DEF PcInv, QueueInv, QueuedOk, NoEvent, TypeOK, BLETypeOK, Event,
              EventTypes
<1>4. OriginInv' /\ IvInv' /\ DoneInv'
  BY <1>1 DEF OriginInv, IvInv, DoneInv, PcInv, EventInv, EventOk, Commands, EventTypes,
              TypeOK, BLETypeOK
<1>5. EventInv'
  BY <1>1 DEF EventInv, EventOk, UsesData, HoldsArgument, Commands, NoEvent,
              QueueInv, QueuedOk, TypeOK, BLETypeOK, PcInv, IvInv, DoneInv,
              KeyInv, Event, EventTypes
<1>6. KeyInv' /\ MotorInv'
  BY <1>1 DEF KeyInv, KeyMatchesFlash, MotorInv, StatusTruth, HasMoved,
              Target, Forward, PcInv, TypeOK, FlashTypeOK, MotorTypeOK,
              BLETypeOK, EventInv, EventOk, Commands, EventTypes
<1>. QED  BY <1>2, <1>3, <1>4, <1>5, <1>6

(* The ACK of a move is for a write that is carried out.                     *)
LEMMA PushAckStep ==
  ASSUME IInv, PushAck PROVE IInv'
<1>. USE DEF IInv
<1>1. /\ queue' \in Seq(Event) /\ Len(queue') <= 1
      /\ \/ queue' = queue /\ queue # <<>>
         \/ queue = <<>> /\ queue' = <<[type |-> "ACK", of |-> evt.of]>>
  BY PushQueue DEF PushAck, TypeOK, BLETypeOK, QueueInv, Event, EventTypes
<1>2. /\ pc = "push_ack" /\ pc' = "wait" /\ evt' = NoEvent
      /\ done' = done \cup {evt.of}
      /\ UNCHANGED <<flashVars, motorVars, radioVars, parseVars, dataVars,
                     lockVars, reply, crashes>>
  BY DEF PushAck, Finish
<1>3. /\ evt.type \in {"LOCK", "UNLOCK"} /\ evt.of \in 1..Len(sent)
      /\ evt.of = enc /\ Remembered(enc)
  BY <1>2 DEF PcInv, EventInv, EventOk, Commands, EventTypes
<1>4. TypeOK'
  BY <1>1, <1>2, <1>3 DEF TypeOK, FlashTypeOK, MotorTypeOK, BLETypeOK, Pcs,
                          Event, EventTypes, NoEvent
<1>5. PcInv' /\ QueueInv'
  <2>1. PcInv'
    BY <1>2 DEF PcInv, NoEvent
  <2>0. evt'.type = "NONE"
    BY <1>2 DEF NoEvent
  <2>2. CASE queue' = queue /\ queue # <<>>
    BY <2>0, <2>1, <2>2 DEF IInv, QueueInv
  <2>3. CASE queue' = <<[type |-> "ACK", of |-> evt.of]>>
    <3>1. queue'[1].type = "ACK" /\ evt'.type = "NONE"
      BY <1>2, <2>3 DEF NoEvent
    <3>. QED  BY <1>1, <2>1, <3>1 DEF QueueInv
  <2>. QED  BY <1>1, <2>1, <2>2, <2>3
<1>6. OriginInv' /\ IvInv' /\ DoneInv'
  BY <1>2, <1>3 DEF OriginInv, IvInv, DoneInv, PcInv, EventInv, EventOk, Commands,
                    EventTypes, TypeOK, BLETypeOK
<1>7. EventInv'
  <2>1. EventOk(evt)'
    BY <1>2 DEF EventOk, NoEvent, Commands, UsesData
  <2>2. CASE queue' = queue /\ queue # <<>>
    <3>1. queue[1].type = "MSG_RECV" /\ EventOk(queue[1])
      BY <1>2, <1>3, <2>2 DEF QueueInv, QueuedOk, EventInv
    <3>2. EventOk(queue[1])'
      BY <1>2, <2>2, <3>1 DEF EventOk, Commands, UsesData
    <3>. QED  BY <2>1, <3>2 DEF EventInv
  <2>3. CASE queue' = <<[type |-> "ACK", of |-> evt.of]>>
    <3>1. queue'[1] = [type |-> "ACK", of |-> evt.of]
      BY <2>3
    <3>2. EventOk(queue[1])'
      BY <1>2, <1>3, <3>1 DEF EventOk, Commands, UsesData
    <3>. QED  BY <2>1, <3>2 DEF EventInv
  <2>. QED  BY <1>1, <2>2, <2>3
<1>8. KeyInv' /\ MotorInv'
  BY <1>2, <1>3 DEF KeyInv, KeyMatchesFlash, MotorInv, StatusTruth, HasMoved,
                    Target, Forward, PcInv, TypeOK, FlashTypeOK, MotorTypeOK,
                    BLETypeOK, EventInv, EventOk, Commands, EventTypes
<1>. QED  BY <1>4, <1>5, <1>6, <1>7, <1>8

(* The commands whose code is that of a move.                                *)
LEMMA MoveCommands ==
  \A c \in {<<1, 1>>, <<1, 2>>} : CommandOf(c) \in {"LOCK", "UNLOCK"}
<1>1. CommandOf(<<1, 1>>) = "LOCK"
  BY DEF CommandOf
<1>2. CommandOf(<<1, 2>>) = "UNLOCK"
  BY DEF CommandOf
<1>. QED  BY <1>1, <1>2

(* A set-time or set-key command that ends with its answer.                  *)
LEMMA AnsweredFrame ==
  ASSUME IInv, NEW t \in {"ACK", "NACK"}, Push(t, evt.of),
         pc = "dispatch", UsesData(evt), evt.type # "NONE",
         pc' = "wait", evt' = NoEvent,
         clock' \in Clocks,
         done' = IF t = "ACK" THEN done \cup {evt.of} ELSE done,
         UNCHANGED <<flashVars, motorVars, radioVars, parseVars, dataVars, Key,
                     lockUnlockStatus, reply, crashes>>
  PROVE  IInv'
<1>. USE DEF IInv
<1>1. /\ queue' \in Seq(Event) /\ Len(queue') <= 1
      /\ \/ queue' = queue /\ queue # <<>>
         \/ queue = <<>> /\ queue' = <<[type |-> t, of |-> evt.of]>>
  BY PushQueue DEF TypeOK, BLETypeOK, QueueInv, Event, EventTypes
<1>2. /\ evt.type \in {"SETTIMEDATE", "SETENCRYPTKEY"} /\ evt.of \in 1..Len(sent)
      /\ evt.of = enc /\ Remembered(enc) /\ evt.of \notin done
      /\ evt.type = CommandOf(sent[evt.of].code)
  BY DEF EventInv, EventOk, Commands, EventTypes, UsesData
<1>3. TypeOK'
  BY <1>1, <1>2 DEF TypeOK, FlashTypeOK, MotorTypeOK, BLETypeOK, Pcs, Event,
                    EventTypes, NoEvent
<1>4. PcInv' /\ QueueInv'
  <2>1. PcInv'
    BY DEF PcInv, NoEvent
  <2>0. evt'.type = "NONE"
    BY DEF NoEvent
  <2>2. CASE queue' = queue /\ queue # <<>>
    BY <2>0, <2>1, <2>2 DEF IInv, QueueInv
  <2>3. CASE queue' = <<[type |-> t, of |-> evt.of]>>
    <3>1. queue'[1].type = t /\ evt'.type = "NONE"
      BY <2>3 DEF NoEvent
    <3>. QED  BY <1>1, <2>1, <3>1 DEF QueueInv
  <2>. QED  BY <1>1, <2>1, <2>2, <2>3
<1>5. OriginInv' /\ IvInv' /\ DoneInv'
  BY <1>2 DEF OriginInv, IvInv, DoneInv, PcInv, EventInv, EventOk, Commands, EventTypes,
              TypeOK, BLETypeOK
<1>6. EventInv'
  <2>1. EventOk(evt)'
    BY DEF EventOk, NoEvent, Commands, UsesData
  <2>2. CASE queue' = queue /\ queue # <<>>
    <3>1. queue[1].type = "MSG_RECV" /\ EventOk(queue[1])
      BY <1>2, <2>2 DEF QueueInv, QueuedOk, EventInv
    <3>2. EventOk(queue[1])'
      BY <2>2, <3>1 DEF EventOk, Commands, UsesData
    <3>. QED  BY <2>1, <3>2 DEF EventInv
  <2>3. CASE queue' = <<[type |-> t, of |-> evt.of]>>
    <3>1. queue'[1] = [type |-> t, of |-> evt.of]
      BY <2>3
    <3>2. EventOk(queue[1])'
      BY <1>2, <3>1 DEF EventOk, Commands, UsesData
    <3>. QED  BY <2>1, <3>2 DEF EventInv
  <2>. QED  BY <1>1, <2>2, <2>3
<1>7. HasMoved' => HasMoved
  BY <1>2, MoveCommands DEF HasMoved
<1>8. KeyInv' /\ MotorInv'
  BY <1>7 DEF KeyInv, KeyMatchesFlash, MotorInv, StatusTruth, Target, Forward
<1>. QED  BY <1>3, <1>4, <1>5, <1>6, <1>8

(* SETTIMEDATE ends with its answer.                                         *)
LEMMA SetTimeDateStep ==
  ASSUME IInv, SetTimeDate PROVE IInv'
<1>. DEFINE t == IF Accepted THEN "ACK" ELSE "NACK"
<1>1. clock' \in Clocks
  BY DEF SetTimeDate, WellFormed, IInv, TypeOK, Clocks
<1>2. /\ t \in {"ACK", "NACK"} /\ Push(t, evt.of)
      /\ done' = IF t = "ACK" THEN done \cup {evt.of} ELSE done
  BY DEF SetTimeDate
<1>3. UsesData(evt) /\ evt.type # "NONE"
  BY DEF SetTimeDate, Handling, UsesData
<1>. QED  BY <1>1, <1>2, <1>3, AnsweredFrame DEF SetTimeDate, Handling, Finish

(* So does SETENCRYPTKEY with a key of the wrong length.                     *)
LEMMA RejectKeyStep ==
  ASSUME IInv, RejectKey PROVE IInv'
<1>1. UsesData(evt) /\ evt.type # "NONE"
  BY DEF RejectKey, Handling, UsesData
<1>2. clock \in Clocks
  BY DEF IInv, TypeOK
<1>. QED  BY <1>1, <1>2, AnsweredFrame DEF RejectKey, Handling, Finish

(* The ACK of a key is queued while the command is still being handled.      *)
LEMMA AcceptKeyStep ==
  ASSUME IInv, AcceptKey PROVE IInv'
<1>. USE DEF IInv
<1>1. /\ queue' \in Seq(Event) /\ Len(queue') <= 1
      /\ \/ queue' = queue /\ queue # <<>>
         \/ queue = <<>> /\ queue' = <<[type |-> "ACK", of |-> evt.of]>>
  BY PushQueue DEF AcceptKey, TypeOK, BLETypeOK, QueueInv, Event, EventTypes
<1>2. /\ pc = "dispatch" /\ pc' = "key_erase" /\ dataLen = 16
      /\ evt.type = "SETENCRYPTKEY"
      /\ UNCHANGED <<flashVars, motorVars, radioVars, evt, parseVars, dataVars,
                     lockVars, reply, done, crashes>>
  BY DEF AcceptKey, Handling
<1>3. evt.of \in 1..Len(sent) /\ evt.of \notin done
  BY <1>2 DEF EventInv, EventOk, Commands, EventTypes
<1>4. TypeOK'
  BY <1>1, <1>2 DEF TypeOK, FlashTypeOK, MotorTypeOK, BLETypeOK, Pcs, Event,
                    EventTypes, NoEvent
<1>5. PcInv' /\ QueueInv'
  <2>1. PcInv'
    BY <1>2 DEF PcInv
  <2>2. CASE queue' = queue /\ queue # <<>>
    BY <1>2, <2>1, <2>2 DEF QueueInv, QueuedOk
  <2>3. CASE queue' = <<[type |-> "ACK", of |-> evt.of]>>
    <3>1. queue'[1] = [type |-> "ACK", of |-> evt.of]
      BY <2>3
    <3>. QED  BY <1>1, <1>2, <2>1, <3>1 DEF QueueInv, QueuedOk
  <2>. QED  BY <1>1, <2>2, <2>3
<1>6. OriginInv' /\ IvInv' /\ DoneInv'
  BY <1>2 DEF OriginInv, IvInv, DoneInv, PcInv, EventInv, EventOk, Commands, EventTypes,
              TypeOK, BLETypeOK
<1>7. EventInv'
  <2>1. EventOk(evt)'
    BY <1>2 DEF EventInv, EventOk, UsesData, HoldsArgument, Commands
  <2>2. CASE queue' = queue /\ queue # <<>>
    <3>1. queue[1].type = "MSG_RECV" /\ EventOk(queue[1])
      BY <1>2, <2>2 DEF QueueInv, QueuedOk, EventInv
    <3>2. EventOk(queue[1])'
      BY <1>2, <2>2, <3>1 DEF EventOk, Commands, UsesData
    <3>. QED  BY <2>1, <3>2 DEF EventInv
  <2>3. CASE queue' = <<[type |-> "ACK", of |-> evt.of]>>
    <3>1. queue'[1] = [type |-> "ACK", of |-> evt.of]
      BY <2>3
    <3>2. EventOk(queue[1])'
      BY <1>2, <1>3, <3>1 DEF EventOk, Commands, UsesData
    <3>. QED  BY <2>1, <3>2 DEF EventInv
  <2>. QED  BY <1>1, <2>2, <2>3
<1>8. KeyInv' /\ MotorInv'
  BY <1>2 DEF KeyInv, KeyMatchesFlash, MotorInv, StatusTruth, HasMoved,
              Target, Forward, PcInv, TypeOK, FlashTypeOK, MotorTypeOK,
              BLETypeOK, EventInv, EventOk, Commands, EventTypes
<1>. QED  BY <1>4, <1>5, <1>6, <1>7, <1>8

(* Without faults the page is blank after its erase.                         *)
LEMMA EraseKeyStep ==
  ASSUME IInv, EraseKey PROVE IInv'
<1>. USE DEF IInv
<1>1. /\ flashKey' \in StoredKeys /\ flashStatus' \in Byte
      /\ ~FlashFaults => flashKey' = Blank
  <2>1. Priv_key % FLASH_PAGE_SIZE = 0
    BY DEF Priv_key, FLASH_PAGE_SIZE
  <2>. QED
    BY <2>1 DEF EraseKey, sys_flash_erase, StoredKeys, Byte, ErasedByte,
                TypeOK,
                FlashTypeOK
<1>2. /\ pc = "key_erase" /\ pc' = "key_write"
      /\ UNCHANGED <<motorVars, bleVars, evt, parseVars, dataVars, lockVars,
                     reply, done, crashes>>
  BY DEF EraseKey
<1>3. TypeOK'
  BY <1>1, <1>2 DEF TypeOK, FlashTypeOK, MotorTypeOK, BLETypeOK, Pcs, Event,
                    EventTypes, NoEvent
<1>4. PcInv' /\ QueueInv'
  BY <1>2 DEF PcInv, QueueInv, QueuedOk, NoEvent, TypeOK, BLETypeOK, Event,
              EventTypes
<1>5. OriginInv' /\ IvInv' /\ DoneInv'
  BY <1>2 DEF OriginInv, IvInv, DoneInv, PcInv, EventInv, EventOk, Commands, EventTypes,
              TypeOK, BLETypeOK
<1>6. EventInv'
  BY <1>2 DEF EventInv, EventOk, UsesData, HoldsArgument, Commands, NoEvent,
              QueueInv, QueuedOk, TypeOK, BLETypeOK, PcInv, IvInv, DoneInv,
              KeyInv, Event, EventTypes
<1>7. KeyInv' /\ MotorInv'
  BY <1>1, <1>2 DEF KeyInv, KeyMatchesFlash, MotorInv, StatusTruth, HasMoved,
                    Target, Forward, PcInv, TypeOK, FlashTypeOK, MotorTypeOK,
                    BLETypeOK, EventInv, EventOk, Commands, EventTypes
<1>. QED  BY <1>3, <1>4, <1>5, <1>6, <1>7

(* The key in use is the one that was read back.                             *)
LEMMA WriteKeyStep ==
  ASSUME IInv, WriteKey PROVE IInv'
<1>. USE DEF IInv
<1>1. pc = "key_write" /\ evt.type = "SETENCRYPTKEY" /\ dataLen = 16 /\ KeyIn(Data) \in Keys
  BY DEF WriteKey, PcInv, KeyInv
<1>2. /\ evt.of \in 1..Len(sent) /\ evt.of \notin done
      /\ evt.of = enc /\ Remembered(enc)
      /\ CommandOf(sent[evt.of].code) = "SETENCRYPTKEY"
  BY <1>1 DEF EventInv, EventOk, Commands, EventTypes
<1>3. /\ flashKey' \in StoredKeys /\ Key' = flashKey'
      /\ done' = done \/ done' = done \cup {evt.of}
      /\ ~FlashFaults => evt.of \in done'
      /\ pc' = "wait" /\ evt' = NoEvent
      /\ UNCHANGED <<flashStatus, motorVars, bleVars, parseVars, dataVars, clock,
                     lockUnlockStatus, reply, crashes>>
  BY <1>1 DEF WriteKey, ProgramKey, Programmed, StoredKeys, Finish, KeyInv,
              TypeOK,
              FlashTypeOK
<1>4. TypeOK'
  BY <1>2, <1>3 DEF TypeOK, FlashTypeOK, MotorTypeOK, BLETypeOK, Pcs, Event,
                    EventTypes, NoEvent
<1>5. PcInv' /\ QueueInv'
  BY <1>3 DEF PcInv, QueueInv, QueuedOk, NoEvent, TypeOK, BLETypeOK, Event,
              EventTypes
<1>6. OriginInv' /\ IvInv' /\ DoneInv'
  BY <1>2, <1>3 DEF OriginInv, IvInv, DoneInv, PcInv, EventInv, EventOk, Commands,
                    EventTypes, TypeOK, BLETypeOK
<1>7. EventInv'
  <2>1. EventOk(evt)'
    BY <1>3 DEF EventOk, NoEvent, Commands, UsesData
  <2>2. ASSUME queue # <<>> PROVE EventOk(queue[1])'
    <3>1. \/ queue[1].type = "MSG_RECV"
          \/ queue[1].type = "ACK" /\ queue[1].of = evt.of
      BY <1>1, <2>2 DEF QueueInv, QueuedOk
    <3>2. EventOk(queue[1])
      BY <2>2 DEF EventInv
    <3>. QED  BY <1>3, <3>1, <3>2 DEF EventOk, Commands, UsesData
  <2>. QED  BY <1>3, <2>1, <2>2 DEF EventInv
<1>8. HasMoved' => HasMoved
  BY <1>2, <1>3, MoveCommands DEF HasMoved
<1>9. KeyInv' /\ MotorInv'
  BY <1>1, <1>3, <1>8 DEF KeyInv, KeyMatchesFlash, MotorInv, StatusTruth,
                          Target,
                          Forward
<1>. QED  BY <1>4, <1>5, <1>6, <1>7, <1>9

(* An answer changes nothing but the last notification.                      *)
LEMMA NotifyStep ==
  ASSUME IInv, NEW kind \in ReplyKinds \ {"none"}, NEW val \in ReplyVals(kind),
         Notify(kind, val)
  PROVE  IInv'
<1>. USE DEF IInv
<1>1. /\ pc = "dispatch" /\ pc' = "wait" /\ evt' = NoEvent /\ evt.type = kind
      /\ UNCHANGED <<flashVars, motorVars, bleVars, parseVars, dataVars, lockVars,
                     done, crashes>>
  BY DEF Notify, Handling, Finish
<1>2. /\ reply'.kind \in ReplyKinds
      /\ reply' \in [kind : {reply'.kind}, of : 0..Len(sent), val : ReplyVals(reply'.kind)]
  <2>1. evt.of \in 0..Len(sent)
    BY <1>1 DEF EventInv, EventOk, ReplyKinds
  <2>. QED  BY <2>1 DEF Notify, TypeOK
<1>3. TypeOK'
  BY <1>1, <1>2 DEF TypeOK, FlashTypeOK, MotorTypeOK, BLETypeOK, Pcs, Event,
                    EventTypes, NoEvent
<1>4. PcInv' /\ QueueInv'
  BY <1>1 DEF PcInv, QueueInv, QueuedOk, NoEvent, TypeOK, BLETypeOK, Event,
              EventTypes
<1>5. OriginInv' /\ IvInv' /\ DoneInv'
  BY <1>1 DEF OriginInv, IvInv, DoneInv, PcInv, EventInv, EventOk, Commands, EventTypes,
              TypeOK, BLETypeOK
<1>6. EventInv'
  BY <1>1 DEF EventInv, EventOk, UsesData, HoldsArgument, Commands, NoEvent,
              QueueInv, QueuedOk, TypeOK, BLETypeOK, PcInv, IvInv, DoneInv,
              KeyInv, Event, EventTypes
<1>7. KeyInv' /\ MotorInv'
  BY <1>1 DEF KeyInv, KeyMatchesFlash, MotorInv, StatusTruth, HasMoved,
              Target, Forward, PcInv, TypeOK, FlashTypeOK, MotorTypeOK,
              BLETypeOK, EventInv, EventOk, Commands, EventTypes
<1>. QED  BY <1>3, <1>4, <1>5, <1>6, <1>7

(* The six cases that answer.                                                *)
LEMMA AnswerStep ==
  ASSUME IInv, Answer PROVE IInv'
<1>1. /\ lockUnlockStatus \in ReplyVals("LOCK_STATUS")
      /\ Battery90 \in ReplyVals("BATTERY_LEVEL")
      /\ clock \in ReplyVals("GETTIMEDATE")
      /\ Key \in ReplyVals("GETENCRYPTKEY")
      /\ {} \in ReplyVals("ACK") /\ {} \in ReplyVals("NACK")
  BY DEF IInv, TypeOK, ReplyVals, Byte, Battery90
<1>2. {"LOCK_STATUS", "BATTERY_LEVEL", "GETTIMEDATE", "GETENCRYPTKEY", "ACK", "NACK"}
        \subseteq ReplyKinds \ {"none"}
  BY DEF ReplyKinds
<1>. QED
  BY <1>1, <1>2, NotifyStep DEF Answer, LockStatus, BatteryLevel, GetTimeDate,
                                GetEncryptKey, Ack, Nack

(* A frame whose envelope is rejected leaves the history as it is.           *)
LEMMA DropStep ==
  ASSUME IInv, RejectEnvelope \/ RejectLength PROVE IInv'
<1>. USE DEF IInv
<1>1. /\ pc \in ParsePcs /\ pc' = "wait" /\ evt' = NoEvent
      /\ UNCHANGED <<flashVars, motorVars, bleVars, parseVars, dataVars, lockVars,
                     reply, done, crashes>>
  BY DEF RejectEnvelope, RejectLength, DropFrame, Finish
<1>2. TypeOK'
  BY <1>1 DEF TypeOK, FlashTypeOK, MotorTypeOK, BLETypeOK, Pcs, Event,
              EventTypes, NoEvent
<1>3. PcInv' /\ QueueInv'
  BY <1>1 DEF PcInv, QueueInv, QueuedOk, NoEvent, TypeOK, BLETypeOK, Event,
              EventTypes
<1>4. OriginInv' /\ IvInv' /\ DoneInv'
  BY <1>1 DEF OriginInv, IvInv, DoneInv, PcInv, EventInv, EventOk, Commands, EventTypes,
              TypeOK, BLETypeOK
<1>5. EventInv'
  BY <1>1 DEF EventInv, EventOk, UsesData, HoldsArgument, Commands, NoEvent,
              QueueInv, QueuedOk, TypeOK, BLETypeOK, PcInv, IvInv, DoneInv,
              KeyInv, Event, EventTypes
<1>6. KeyInv' /\ MotorInv'
  BY <1>1 DEF KeyInv, KeyMatchesFlash, MotorInv, StatusTruth, HasMoved,
              Target, Forward, PcInv, TypeOK, FlashTypeOK, MotorTypeOK,
              BLETypeOK, EventInv, EventOk, Commands, EventTypes
<1>. QED  BY <1>2, <1>3, <1>4, <1>5, <1>6

(* Up to the second half of the IV: the receive buffer only ever moves on    *)
(* to newer frames.                                                          *)
LEMMA CopyIvStep ==
  ASSUME IInv, StartParse \/ CopyIvHi \/ CopyIvLo PROVE IInv'
<1>. USE DEF IInv
<1>1. /\ pc \in ParsePcs \cup {"dispatch"} /\ evt.type = "MSG_RECV"
      /\ pc' \in {"iv_hi", "iv_lo", "cipher"}
      /\ {lenOf', ivHi', ivLo'} \subseteq {lenOf, ivHi, ivLo, BlemsgBuf}
      /\ UNCHANGED <<flashVars, motorVars, bleVars, evt, prevIv, enc, dataVars,
                     lockVars, reply, done, crashes>>
  BY DEF StartParse, CopyIvHi, CopyIvLo, NextPc, Handling, PcInv
<1>2. TypeOK'
  BY <1>1 DEF TypeOK, FlashTypeOK, MotorTypeOK, BLETypeOK, Pcs, Event,
              EventTypes, NoEvent
<1>3. PcInv' /\ QueueInv'
  BY <1>1 DEF PcInv, QueueInv, QueuedOk, NoEvent, TypeOK, BLETypeOK, Event,
              EventTypes
<1>4. OriginInv' /\ IvInv' /\ DoneInv'
  <2>1. IvInv'
    <3>1. {BlemsgBuf, ivHi, ivLo, prevIv[1], prevIv[2], enc} \subseteq Nat
      BY DEF TypeOK, BLETypeOK
    <3>2. CASE StartParse
      BY <1>1, <3>1, <3>2 DEF StartParse, NextPc, IvInv
    <3>3. CASE CopyIvHi
      BY <1>1, <3>1, <3>3 DEF CopyIvHi, NextPc, IvInv
    <3>4. CASE CopyIvLo
      BY <1>1, <3>1, <3>4 DEF CopyIvLo, NextPc, IvInv
    <3>. QED  BY <3>2, <3>3, <3>4
  <2>2. OriginInv' /\ DoneInv'
    BY <1>1 DEF OriginInv, DoneInv
  <2>. QED  BY <2>1, <2>2
<1>5. EventInv'
  BY <1>1 DEF EventInv, EventOk, UsesData, HoldsArgument, Commands, NoEvent,
              QueueInv, QueuedOk, TypeOK, BLETypeOK, PcInv, IvInv, DoneInv,
              KeyInv, Event, EventTypes
<1>6. KeyInv' /\ MotorInv'
  BY <1>1 DEF KeyInv, KeyMatchesFlash, MotorInv, StatusTruth, HasMoved,
              Target, Forward, PcInv, TypeOK, FlashTypeOK, MotorTypeOK,
              BLETypeOK, EventInv, EventOk, Commands, EventTypes
<1>. QED  BY <1>2, <1>3, <1>4, <1>5, <1>6

(* A write that gets past the comparison of the IVs is newer than all that   *)
(* were carried out: were it the last of them, its IV would be remembered    *)
(* and would be the one that was just copied.                                *)
LEMMA CopyCipherStep ==
  ASSUME IInv, CopyCipher PROVE IInv'
<1>. USE DEF IInv
<1>1. /\ pc = "cipher" /\ enc' = BlemsgBuf /\ prevIv' = <<ivHi, ivLo>>
      /\ UNCHANGED <<flashVars, motorVars, bleVars, lenOf, ivHi, ivLo, dataVars, lockVars,
                     reply, done, crashes>>
  BY DEF CopyCipher, NextPc, DropFrame
<1>2. \/ pc' = "wait" /\ evt' = NoEvent
      \/ ~SameIv /\ pc' = "decode" /\ evt' = evt
  BY DEF CopyCipher, NextPc, DropFrame, Finish
<1>3. /\ BlemsgBuf \in Nat /\ ivHi \in Nat /\ ivLo \in Nat /\ Len(sent) \in Nat
      /\ enc \in Nat /\ prevIv \in Nat \X Nat /\ done \subseteq Nat
  BY DEF TypeOK, BLETypeOK
<1>4. /\ BlemsgBuf \in 1..Len(sent) /\ evt.type = "MSG_RECV"
      /\ enc <= ivHi /\ ivHi <= ivLo /\ ivLo <= BlemsgBuf
  BY <1>1, <1>3 DEF PcInv, IvInv, EventInv, EventOk, TypeOK, BLETypeOK
<1>5. TypeOK'
  BY <1>1, <1>2 DEF TypeOK, FlashTypeOK, MotorTypeOK, BLETypeOK, Pcs, Event,
                    EventTypes, NoEvent
<1>6. PcInv' /\ QueueInv'
  BY <1>1, <1>2 DEF PcInv, QueueInv, QueuedOk, NoEvent, TypeOK, BLETypeOK,
                    Event, EventTypes
<1>7. OriginInv' /\ IvInv'
  BY <1>1, <1>2, <1>3, <1>4 DEF OriginInv, IvInv
<1>8. DoneInv'
  <2>1. ASSUME NEW d \in done PROVE d <= BlemsgBuf
    BY <1>3, <1>4 DEF DoneInv
  <2>2. ASSUME NEW d \in done, d = BlemsgBuf
        PROVE  d = enc /\ ivHi = enc /\ ivLo = enc
    <3>1. d \in Nat /\ d <= enc
      BY <1>3 DEF DoneInv
    <3>. QED  BY <1>3, <1>4, <2>2, <3>1
  <2>3. ASSUME NEW d \in done, d = BlemsgBuf PROVE SameIv
    <3>1. Remembered(enc)
      BY <2>2, <2>3 DEF DoneInv
    <3>. QED  BY <2>2, <2>3, <3>1 DEF SameIv
  <2>4. ASSUME NEW d \in done, d = enc' PROVE Remembered(enc)'
    BY <1>1, <2>2, <2>4
  <2>5. ASSUME NEW d \in done, pc' = "decode" PROVE d < enc'
    BY <1>1, <1>2, <1>3, <2>1, <2>3, <2>5
  <2>. QED  BY <1>1, <2>1, <2>4, <2>5 DEF DoneInv
<1>9. EventInv'
  <2>1. ASSUME NEW e \in Event, EventOk(e), e.type = "MSG_RECV" PROVE EventOk(e)'
    BY <1>1, <2>1 DEF EventOk, UsesData, Commands
  <2>2. EventOk(NoEvent)'
    BY DEF EventOk, NoEvent, UsesData, Commands
  <2>3. EventOk(evt)'
    BY <1>2, <1>4, <2>1, <2>2 DEF EventInv, TypeOK
  <2>4. queue # <<>> => queue[1] \in Event /\ queue[1].type = "MSG_RECV"
    BY <1>1, <1>4, QueueShape DEF QueueInv, QueuedOk, TypeOK, BLETypeOK
  <2>. QED  BY <1>1, <2>1, <2>3, <2>4 DEF EventInv
<1>10. KeyInv' /\ MotorInv'
  BY <1>1, <1>2 DEF KeyInv, KeyMatchesFlash, MotorInv, StatusTruth, HasMoved,
                    Target, Forward, PcInv, TypeOK, FlashTypeOK, MotorTypeOK,
                    BLETypeOK, EventInv, EventOk, Commands, EventTypes
<1>. QED  BY <1>5, <1>6, <1>7, <1>8, <1>9, <1>10

(* What decoding a frame to an event of type t needs to preserve the         *)
(* invariant.                                                                *)
LEMMA DecodeFrame ==
  ASSUME IInv, NEW t \in Commands \cup {"NACK"}, Push(t, enc),
         pc = "decode", pc' = "wait", evt' = NoEvent,
         Data' \in [1..3 -> Pieces], dataTail' \in BOOLEAN,
         dataLen' \in {0, 8, 16, 17, 20, BadLength},
         dataLen' = 16 => KeyIn(Data') \in Keys,
         t \in Commands => /\ IvOf(ivHi) = IvOf(enc) /\ IvOf(ivLo) = IvOf(enc)
                          /\ t = CommandOf(sent[enc].code),
         t \in {"SETTIMEDATE", "SETENCRYPTKEY"} =>
           /\ \A i \in (1..3) \cap DOMAIN sent[enc].arg : Data'[i] = sent[enc].arg[i]
           /\ dataLen' = ArgLen(sent[enc].arg),
         UNCHANGED <<flashVars, motorVars, radioVars, parseVars, lockVars, reply,
                     done, crashes>>
  PROVE  IInv'
<1>. USE DEF IInv
<1>1. enc \in 1..Len(sent) /\ Len(sent) \in Nat /\ t \in EventTypes
  BY DEF IvInv, TypeOK, BLETypeOK, Commands, EventTypes
<1>2. /\ queue' \in Seq(Event) /\ Len(queue') <= 1
      /\ \/ queue' = queue /\ queue # <<>>
         \/ queue = <<>> /\ queue' = <<[type |-> t, of |-> enc]>>
  BY <1>1, PushQueue DEF TypeOK, BLETypeOK, QueueInv
<1>3. enc \notin done
  <2>1. enc \in Nat /\ \A d \in done : d < enc
    BY <1>1 DEF DoneInv
  <2>. QED  BY <2>1
<1>4. TypeOK'
  BY <1>2 DEF TypeOK, FlashTypeOK, MotorTypeOK, BLETypeOK, Pcs, Event,
              EventTypes, NoEvent
<1>5. PcInv' /\ QueueInv'
  <2>1. PcInv'
    BY DEF PcInv, NoEvent
  <2>2. evt'.type = "NONE"
    BY DEF NoEvent
  <2>3. CASE queue' = queue /\ queue # <<>>
    BY <2>1, <2>2, <2>3 DEF QueueInv
  <2>4. CASE queue' = <<[type |-> t, of |-> enc]>>
    <3>1. queue'[1].type = t /\ t # "NONE"
      BY <2>4 DEF Commands
    <3>. QED  BY <1>2, <2>1, <2>2, <3>1 DEF QueueInv
  <2>. QED  BY <1>2, <2>3, <2>4
<1>6. OriginInv' /\ IvInv' /\ DoneInv'
  BY DEF OriginInv, IvInv, DoneInv, PcInv, EventInv, EventOk, Commands, EventTypes,
         TypeOK, BLETypeOK
<1>7. EventInv'
  <2>1. EventOk(evt)'
    BY DEF EventOk, NoEvent, Commands, UsesData
  <2>2. CASE queue' = queue /\ queue # <<>>
    <3>1. queue[1].type = "MSG_RECV" /\ EventOk(queue[1])
      BY <2>2 DEF PcInv, QueueInv, QueuedOk, EventInv
    <3>2. EventOk(queue[1])'
      BY <2>2, <3>1 DEF EventOk, Commands, UsesData
    <3>. QED  BY <2>1, <3>2 DEF EventInv
  <2>3. CASE queue' = <<[type |-> t, of |-> enc]>>
    <3>1. queue'[1] = [type |-> t, of |-> enc]
      BY <2>3
    <3>2. t \in Commands => Remembered(enc)
      BY DEF IvInv
    <3>3. UsesData(queue[1])' => HoldsArgument(queue[1])'
      BY <3>1 DEF UsesData, HoldsArgument
    <3>4. EventOk(queue[1])'
      BY <1>1, <1>3, <3>1, <3>2, <3>3 DEF EventOk, Commands
    <3>. QED  BY <2>1, <3>4 DEF EventInv
  <2>. QED  BY <1>2, <2>2, <2>3
<1>8. KeyInv' /\ MotorInv'
  BY DEF KeyInv, KeyIn, KeyMatchesFlash, MotorInv, StatusTruth, HasMoved,
         Target, Forward
<1>. QED  BY <1>4, <1>5, <1>6, <1>7, <1>8

(* What the data of a message may be, piece by piece.                        *)
LEMMA ArgPieces ==
  ASSUME NEW a \in Args
  PROVE  /\ \A i \in (1..3) \cap DOMAIN a : a[i] \in Pieces
         /\ ArgLen(a) \in {0, 8, 16, 17, 20}
         /\ ArgLen(a) = 16 => a \in Keys
<1>1. ArgLen(a) \in {0, 8, 16, 17, 20} /\ (ArgLen(a) = 16 => a \in Keys)
  BY DEF ArgLen
<1>2. CASE a = NoArg
  BY <1>1, <1>2 DEF NoArg
<1>3. CASE a \in Shorts \cup Keys
  BY <1>1, <1>3
<1>4. CASE a \in Times \cup BadTimes \cup LongArgs
  BY <1>1, <1>4
<1>. QED  BY <1>2, <1>3, <1>4 DEF Args

(* What memcpy leaves in Data.                                               *)
LEMMA OverwrittenData ==
  ASSUME Data \in [1..3 -> Pieces], NEW a \in Args
  PROVE  /\ Overwritten(a) \in [1..3 -> Pieces]
         /\ \A i \in (1..3) \cap DOMAIN a : Overwritten(a)[i] = a[i]
         /\ a \in Keys => KeyIn(Overwritten(a)) = a
<1>1. Overwritten(a) \in [1..3 -> Pieces]
  BY ArgPieces DEF Overwritten
<1>2. \A i \in (1..3) \cap DOMAIN a : Overwritten(a)[i] = a[i]
  BY DEF Overwritten
<1>3. ASSUME a \in Keys PROVE KeyIn(Overwritten(a)) = a
  <2>1. a \in [1..2 -> Pieces]
    BY <1>3
  <2>2. \A i \in 1..2 : Overwritten(a)[i] = a[i]
    BY <1>2, <2>1
  <2>. QED  BY <2>1, <2>2 DEF KeyIn
<1>. QED  BY <1>1, <1>2, <1>3

(* The switch on the command yields a command or NACK.                       *)
LEMMA CommandType == \A c : CommandOf(c) \in Commands \cup {"NACK"}
  BY DEF CommandOf, Commands, EventTypes

(* The three ways a decoded frame ends.                                      *)
LEMMA DecodeStep ==
  ASSUME IInv, DecodeGarbage \/ DecodeBadLength \/ DecodeMessage PROVE IInv'
<1>1. /\ Data \in [1..3 -> Pieces] /\ dataTail \in BOOLEAN
      /\ dataLen \in {0, 8, 16, 17, 20, BadLength}
      /\ dataLen = 16 => KeyIn(Data) \in Keys
  BY DEF IInv, TypeOK, KeyInv
<1>2. "NACK" \notin Commands
  BY DEF Commands
<1>3. CASE DecodeGarbage
  BY <1>1, <1>2, <1>3, DecodeFrame DEF DecodeGarbage, FinishDecode, Finish
<1>4. CASE DecodeBadLength
  BY <1>1, <1>2, <1>4, DecodeFrame DEF DecodeBadLength, FinishDecode, Finish,
                                       BadLength
<1>5. CASE DecodeMessage
  <2>. DEFINE a == sent[enc].arg
              t == IF ForThisLock THEN CommandOf(sent[enc].code) ELSE "NACK"
  <2>1. a \in Args
    <3>1. enc \in 1..Len(sent) /\ sent \in Seq(Contents)
      BY <1>5 DEF DecodeMessage, IInv, IvInv, TypeOK, BLETypeOK
    <3>. QED  BY <3>1 DEF ContentType
  <2>2. Data' = Overwritten(a) /\ dataLen' = ArgLen(a) /\ dataTail' \in BOOLEAN
    BY <1>1, <1>5 DEF DecodeMessage, StoreData
  <2>3. /\ Data' \in [1..3 -> Pieces] /\ dataLen' \in {0, 8, 16, 17, 20, BadLength}
        /\ dataLen' = 16 => KeyIn(Data') \in Keys
        /\ \A i \in (1..3) \cap DOMAIN a : Data'[i] = a[i]
    <3>. HIDE DEF a
    <3>. QED  BY <1>1, <2>1, <2>2, ArgPieces, OverwrittenData
  <2>4. t \in Commands \cup {"NACK"} /\ (t \in Commands => t = CommandOf(sent[enc].code))
    BY <1>2, CommandType
  <2>5. /\ IvOf(ivHi) = IvOf(enc) /\ IvOf(ivLo) = IvOf(enc) /\ Push(t, enc)
        /\ pc = "decode" /\ pc' = "wait" /\ evt' = NoEvent
        /\ UNCHANGED <<flashVars, motorVars, radioVars, parseVars, lockVars, reply,
                       done, crashes>>
    BY <1>5 DEF DecodeMessage, Readable, FinishDecode, Finish
  <2>. QED  BY <2>2, <2>3, <2>4, <2>5, DecodeFrame
<1>. QED  BY <1>3, <1>4, <1>5

(* Connections come and go without the main thread.                          *)
LEMMA ConnectionStep ==
  ASSUME IInv, BtReady \/ Connected \/ Disconnected PROVE IInv'
<1>. USE DEF IInv
<1>1. /\ UNCHANGED <<queue, BlemsgBuf, sent, origin, mfg, mainVars>>
      /\ air' \in {air, mfg} /\ conns' \in Nat /\ current_conn' \in 0..conns'
      /\ stack' \in {"off", "enabled", "advertising"}
  <2>1. /\ conns \in Nat /\ current_conn \in 0..conns
        /\ stack \in {"off", "enabled", "advertising"}
    BY DEF TypeOK, BLETypeOK
  <2>2. CASE BtReady
    BY <2>1, <2>2 DEF BtReady, bt_ready
  <2>3. CASE Connected
    BY <2>1, <2>3 DEF Connected, on_connected
  <2>4. CASE Disconnected
    BY <2>1, <2>4 DEF Disconnected, on_disconnected, NoConn
  <2>. QED  BY <2>2, <2>3, <2>4
<1>2. TypeOK'
  <2>1. FlashTypeOK' /\ MotorTypeOK' /\ BLETypeOK'
    BY <1>1 DEF TypeOK, FlashTypeOK, MotorTypeOK, BLETypeOK
  <2>2. pc' \in Pcs /\ evt' \in Event
    BY <1>1 DEF TypeOK, Pcs, Event, EventTypes, NoEvent
  <2>. QED  BY <1>1, <2>1, <2>2 DEF TypeOK
<1>3. PcInv' /\ QueueInv'
  BY <1>1 DEF PcInv, QueueInv, QueuedOk, NoEvent, TypeOK, BLETypeOK, Event,
              EventTypes
<1>4. OriginInv' /\ IvInv' /\ DoneInv'
  BY <1>1 DEF OriginInv, IvInv, DoneInv, PcInv, EventInv, EventOk, Commands, EventTypes,
              TypeOK, BLETypeOK
<1>5. EventInv'
  BY <1>1 DEF EventInv, EventOk, UsesData, HoldsArgument, Commands, NoEvent,
              QueueInv, QueuedOk, TypeOK, BLETypeOK, PcInv, IvInv, DoneInv,
              KeyInv, Event, EventTypes
<1>6. KeyInv' /\ MotorInv'
  BY <1>1 DEF KeyInv, KeyMatchesFlash, MotorInv, StatusTruth, HasMoved,
              Target, Forward, PcInv, TypeOK, FlashTypeOK, MotorTypeOK,
              BLETypeOK, EventInv, EventOk, Commands, EventTypes
<1>. QED  BY <1>2, <1>3, <1>4, <1>5, <1>6

(* A frame may be written at any moment.  A number that is in use keeps its  *)
(* content and its IV.                                                       *)
LEMMA WriteStep ==
  ASSUME IInv, MayWrite, NEW c \in Contents, NEW o \in 1..Len(sent) + 1,
         o <= Len(sent) => sent[o] = c,
         sent' = Append(sent, c), origin' = Append(origin, o),
         on_data_received(Len(sent'), c.outer), UNCHANGED mainVars
  PROVE  IInv'
<1>. USE DEF IInv
<1>1. /\ origin \in Seq(Nat) /\ Len(origin) = Len(sent) /\ o \in Nat
      /\ origin' \in Seq(Nat) /\ Len(origin') = Len(sent) + 1
      /\ \A i \in 1..Len(sent) : origin'[i] = origin[i]
      /\ origin'[Len(sent) + 1] = o /\ sent'[Len(sent) + 1] = c
  <2>1. /\ origin \in Seq(Nat) /\ Len(origin) = Len(sent) /\ sent \in Seq(Contents)
    BY DEF TypeOK, BLETypeOK
  <2>2. o \in Nat
    BY <2>1
  <2>. QED  BY <2>1, <2>2
<1>2. /\ Len(sent) \in Nat /\ sent' \in Seq(Contents) /\ Len(sent') = Len(sent) + 1
      /\ \A i \in 1..Len(sent) : sent'[i] = sent[i]
  BY DEF TypeOK, BLETypeOK
<1>3. /\ BlemsgBuf' = Len(sent')
      /\ UNCHANGED <<current_conn, conns, stack, mfg, air, mainVars>>
  BY DEF on_data_received
<1>4. /\ queue' \in Seq(Event) /\ Len(queue') <= 1
      /\ \/ queue' = queue
         \/ queue = <<>> /\ queue' = <<[type |-> "MSG_RECV", of |-> Len(sent')]>>
  <2>1. Len(sent') \in Nat /\ "MSG_RECV" \in EventTypes
    BY <1>2 DEF EventTypes
  <2>. QED
    BY <2>1, PushQueue DEF on_data_received, QueueInv, TypeOK, BLETypeOK
<1>5. Patient => queue = <<>> /\ evt = NoEvent
  BY DEF MayWrite, LockIdle
<1>6. TypeOK'
  <2>1. 0..Len(sent) \subseteq 0..Len(sent') /\ 1..Len(sent) \subseteq 1..Len(sent')
    BY <1>2
  <2>2. FlashTypeOK' /\ MotorTypeOK' /\ BLETypeOK'
    BY <1>1, <1>2, <1>3, <1>4 DEF TypeOK, FlashTypeOK, MotorTypeOK, BLETypeOK
  <2>3. /\ reply'.kind \in ReplyKinds
        /\ reply' \in [kind : {reply'.kind}, of : 0..Len(sent'),
                       val : ReplyVals(reply'.kind)]
    BY <1>3, <2>1 DEF TypeOK
  <2>4. prevIv' \in (0..Len(sent')) \X (0..Len(sent'))
    BY <1>3, <2>1 DEF TypeOK
  <2>. QED  BY <1>3, <2>1, <2>2, <2>3, <2>4 DEF TypeOK
<1>7. PcInv' /\ QueueInv'
  <2>1. PcInv'
    BY <1>3 DEF PcInv
  <2>2. CASE queue' = queue
    BY <1>3, <2>1, <2>2 DEF QueueInv, QueuedOk
  <2>3. CASE queue' = <<[type |-> "MSG_RECV", of |-> Len(sent')]>>
    <3>1. queue'[1].type = "MSG_RECV"
      BY <2>3
    <3>. QED  BY <1>3, <1>4, <1>5, <2>1, <3>1 DEF QueueInv, QueuedOk, NoEvent
  <2>. QED  BY <1>4, <2>2, <2>3
<1>14. \A n \in 0..Len(sent) : IvOf(n)' = IvOf(n)
  BY <1>1
<1>15. OriginInv'
  <2>1. ASSUME NEW n \in 1..Len(sent) PROVE origin'[n] \in 1..n /\ sent'[origin'[n]] = sent'[n]
    <3>1. origin[n] \in 1..n /\ sent[origin[n]] = sent[n]
      BY DEF OriginInv
    <3>2. origin[n] \in 1..Len(sent)
      BY <1>2, <3>1
    <3>. QED  BY <1>1, <1>2, <3>1, <3>2
  <2>2. sent'[o] = c
    BY <1>1, <1>2
  <2>3. \A n \in 1..Len(sent') : n \in 1..Len(sent) \/ n = Len(sent) + 1
    BY <1>2
  <2>. QED  BY <1>1, <2>1, <2>2, <2>3 DEF OriginInv
<1>8. IvInv' /\ DoneInv'
  <2>1. /\ {BlemsgBuf, ivHi, ivLo, enc, prevIv[1], prevIv[2]} \subseteq Nat
        /\ {enc, prevIv[1], prevIv[2]} \subseteq 0..Len(sent)
    BY DEF TypeOK, BLETypeOK
  <2>2. BlemsgBuf <= BlemsgBuf' /\ BlemsgBuf' \in Nat
    <3>1. BlemsgBuf \in 0..Len(sent)
      BY DEF TypeOK, BLETypeOK
    <3>. QED  BY <1>2, <1>3, <3>1
  <2>3. IvInv'
    BY <1>3, <2>1, <2>2 DEF IvInv
  <2>4. Remembered(enc) => Remembered(enc)'
    <3>. HIDE DEF IvOf
    <3>. QED  BY <1>3, <1>14, <2>1
  <2>5. DoneInv'
    BY <1>3, <2>4 DEF DoneInv
  <2>. QED  BY <2>3, <2>4, <2>5
<1>9. BlemsgBuf' # 0
  BY <1>2, <1>3
<1>10. ASSUME NEW e \in Event, EventOk(e) PROVE EventOk(e)'
  <2>1. e.type # "NONE" => e.of \in 1..Len(sent) /\ e.of \in 1..Len(sent')
                           /\ sent'[e.of] = sent[e.of]
    BY <1>2, <1>10 DEF EventOk
  <2>2. Remembered(enc) => Remembered(enc)'
    <3>1. {enc, prevIv[1], prevIv[2]} \subseteq 0..Len(sent)
      BY DEF TypeOK
    <3>. HIDE DEF IvOf
    <3>. QED  BY <1>3, <1>14, <3>1
  <2>. QED
    BY <1>3, <1>9, <1>10, <2>1, <2>2 DEF EventOk, UsesData, HoldsArgument, Commands
<1>11. EventInv'
  <2>1. EventOk(evt)'
    BY <1>3, <1>10 DEF EventInv, TypeOK
  <2>2. CASE queue' = queue
    BY <1>10, <2>1, <2>2, QueueShape DEF EventInv, QueueInv, TypeOK, BLETypeOK
  <2>3. CASE queue' = <<[type |-> "MSG_RECV", of |-> Len(sent')]>>
    <3>1. queue'[1] = [type |-> "MSG_RECV", of |-> Len(sent')]
      BY <2>3
    <3>2. EventOk(queue[1])'
      BY <1>2, <1>9, <3>1 DEF EventOk, UsesData, Commands
    <3>. QED  BY <2>1, <3>2 DEF EventInv
  <2>. QED  BY <1>4, <2>2, <2>3
<1>12. HasMoved' => HasMoved
  BY <1>2, <1>3 DEF HasMoved, TypeOK
<1>13. KeyInv' /\ MotorInv'
  BY <1>3, <1>12 DEF KeyInv, KeyMatchesFlash, MotorInv, StatusTruth, Target,
                     Forward
<1>. QED  BY <1>6, <1>7, <1>8, <1>11, <1>13, <1>15

(* A new frame.                                                              *)
LEMMA WriteFrameStep ==
  ASSUME IInv, WriteFrame PROVE IInv'
<1>1. PICK c \in Contents : /\ sent' = Append(sent, c)
                            /\ on_data_received(Len(sent'), c.outer)
  BY DEF WriteFrame
<1>2. Len(sent') = Len(sent) + 1 /\ Len(sent) \in Nat
  BY <1>1 DEF IInv, TypeOK, BLETypeOK
<1>3. Len(sent') \in 1..Len(sent) + 1 /\ ~(Len(sent') <= Len(sent))
  BY <1>2
<1>. QED  BY <1>1, <1>3, WriteStep DEF WriteFrame

(* An older frame once more.                                                 *)
LEMMA WriteAgainStep ==
  ASSUME IInv, WriteAgain PROVE IInv'
<1>1. PICK f \in 1..Len(sent) : /\ sent' = Append(sent, sent[f])
                                /\ origin' = Append(origin, origin[f])
                                /\ on_data_received(Len(sent'), sent[f].outer)
  BY DEF WriteAgain
<1>2. sent[f] \in Contents /\ Len(sent) \in Nat
  BY DEF IInv, TypeOK, BLETypeOK
<1>3. origin[f] \in 1..Len(sent) + 1 /\ sent[origin[f]] = sent[f]
  BY <1>2 DEF IInv, OriginInv
<1>. QED  BY <1>1, <1>2, <1>3, WriteStep DEF WriteAgain

(* The last one once more, which changes no number.                          *)
LEMMA RepeatFrameStep ==
  ASSUME IInv, RepeatFrame PROVE IInv'
<1>. USE DEF IInv
<1>1. /\ BlemsgBuf' = Len(sent) /\ on_data_received(Len(sent), sent[Len(sent)].outer)
      /\ UNCHANGED <<sent, origin, current_conn, conns, stack, mfg, air, mainVars>>
  BY DEF RepeatFrame, on_data_received
<1>2. Len(sent) \in Nat /\ 1 <= Len(sent)
  <2>1. sent \in Seq(Contents) /\ sent # <<>>
    BY DEF RepeatFrame, TypeOK, BLETypeOK
  <2>2. Len(sent) \in Nat \ {0}
    BY <2>1, EmptySeq, Zenon
  <2>. QED  BY <2>2
<1>3. /\ queue' \in Seq(Event) /\ Len(queue') <= 1
      /\ \/ queue' = queue
         \/ queue = <<>> /\ queue' = <<[type |-> "MSG_RECV", of |-> Len(sent)]>>
  <2>1. "MSG_RECV" \in EventTypes
    BY DEF EventTypes
  <2>. QED
    BY <1>1, <1>2, <2>1, PushQueue DEF on_data_received, QueueInv, TypeOK,
                                       BLETypeOK
<1>4. Patient => queue = <<>> /\ evt = NoEvent
  BY DEF RepeatFrame, MayWrite, LockIdle
<1>5. TypeOK'
  BY <1>1, <1>2, <1>3 DEF TypeOK, FlashTypeOK, MotorTypeOK, BLETypeOK
<1>6. PcInv' /\ QueueInv'
  <2>1. PcInv'
    BY <1>1 DEF PcInv
  <2>2. CASE queue' = queue
    BY <1>1, <2>1, <2>2 DEF QueueInv, QueuedOk
  <2>3. CASE queue' = <<[type |-> "MSG_RECV", of |-> Len(sent)]>>
    <3>1. queue'[1].type = "MSG_RECV"
      BY <2>3
    <3>. QED  BY <1>1, <1>3, <1>4, <2>1, <3>1 DEF QueueInv, QueuedOk, NoEvent
  <2>. QED  BY <1>3, <2>2, <2>3
<1>7. OriginInv' /\ IvInv' /\ DoneInv'
  <2>1. {BlemsgBuf, ivHi, ivLo, enc, prevIv[1], prevIv[2]} \subseteq Nat
    BY DEF TypeOK, BLETypeOK
  <2>2. BlemsgBuf <= BlemsgBuf' /\ BlemsgBuf' \in Nat
    BY <1>1, <1>2 DEF IvInv, TypeOK, BLETypeOK
  <2>3. IvInv'
    BY <1>1, <2>1, <2>2 DEF IvInv
  <2>4. OriginInv' /\ DoneInv'
    BY <1>1 DEF OriginInv, DoneInv
  <2>. QED  BY <2>3, <2>4
<1>8. EventInv'
  <2>1. ASSUME NEW e \in Event, EventOk(e) PROVE EventOk(e)'
    BY <1>1, <1>2, <2>1 DEF EventOk, UsesData, HoldsArgument, Commands
  <2>2. EventOk(evt)'
    BY <1>1, <2>1 DEF EventInv, TypeOK
  <2>3. CASE queue' = queue
    BY <2>1, <2>2, <2>3, QueueShape DEF EventInv, QueueInv, TypeOK, BLETypeOK
  <2>4. CASE queue' = <<[type |-> "MSG_RECV", of |-> Len(sent)]>>
    <3>1. queue'[1] = [type |-> "MSG_RECV", of |-> Len(sent)]
      BY <2>4
    <3>2. EventOk(queue[1])'
      BY <1>1, <1>2, <3>1 DEF EventOk, UsesData, Commands
    <3>. QED  BY <2>2, <3>2 DEF EventInv
  <2>. QED  BY <1>3, <2>3, <2>4
<1>9. KeyInv' /\ MotorInv'
  BY <1>1 DEF KeyInv, KeyMatchesFlash, MotorInv, StatusTruth, HasMoved,
              Target, Forward
<1>. QED  BY <1>5, <1>6, <1>7, <1>8, <1>9

(* A reset forgets everything the invariant relates to the flash.            *)
LEMMA CrashStep ==
  ASSUME IInv, Crash PROVE IInv'
<1>. USE DEF IInv
<1>1. TypeOK'
  <2>1. FlashTypeOK' /\ MotorTypeOK'
    BY DEF Crash, TypeOK, FlashTypeOK, MotorTypeOK, Speeds
  <2>2. mfg' \in MfgData /\ air' \in MfgData
    BY DEF Crash, BLEReset, MfgData, MfgByte, StaticMfg, SilentAir, Mfg
  <2>3. BLETypeOK' /\ evt' \in Event
    BY <2>2 DEF Crash, BLEReset, TypeOK, BLETypeOK, Event, EventTypes,
                NoEvent, NoConn
  <2>4. /\ reply'.kind \in ReplyKinds
        /\ reply' \in [kind : {reply'.kind}, of : 0..Len(sent'),
                       val : ReplyVals(reply'.kind)]
    BY DEF Crash, BLEReset, TypeOK
  <2>5. Len(sent') \in Nat /\ {lenOf', ivHi', ivLo', enc'} \subseteq 0..Len(sent')
    BY DEF Crash, BLEReset, TypeOK, BLETypeOK
  <2>6. /\ pc' \in Pcs /\ Data' \in [1..3 -> Pieces] /\ Key' \in StoredKeys /\ crashes' \in Nat
        /\ lockUnlockStatus' \in Byte /\ clock' \in Clocks
    BY DEF Crash, TypeOK, Pcs, ZeroData, Clocks, StoredKeys, Byte
  <2>. QED
    BY <2>1, <2>3, <2>4, <2>5, <2>6 DEF Crash, TypeOK
<1>. USE DEF Crash, BLEReset
<1>2. PcInv' /\ QueueInv'
  BY DEF PcInv, QueueInv, NoEvent
<1>3. OriginInv' /\ IvInv' /\ DoneInv'
  BY DEF OriginInv, IvInv, DoneInv
<1>4. EventInv'
  BY DEF EventInv, EventOk, UsesData, Commands, NoEvent
<1>5. KeyInv' /\ MotorInv'
  BY DEF KeyInv, KeyMatchesFlash, MotorInv, StatusTruth, HasMoved
<1>. QED  BY <1>1, <1>2, <1>3, <1>4, <1>5

(* A step that changes nothing.                                              *)
LEMMA StutterStep ==
  ASSUME IInv, UNCHANGED vars
  PROVE  IInv'
<1>. USE DEF IInv, vars
<1>1. TypeOK'
  BY DEF TypeOK, FlashTypeOK, MotorTypeOK, BLETypeOK, Pcs, Event, EventTypes,
         NoEvent
<1>2. PcInv' /\ QueueInv'
  BY DEF PcInv, QueueInv, QueuedOk, NoEvent, TypeOK, BLETypeOK, Event,
         EventTypes
<1>3. OriginInv' /\ IvInv' /\ DoneInv'
  BY DEF OriginInv, IvInv, DoneInv, PcInv, EventInv, EventOk, Commands, EventTypes,
         TypeOK, BLETypeOK
<1>4. EventInv'
  BY DEF EventInv, EventOk, UsesData, HoldsArgument, Commands, NoEvent,
         QueueInv, QueuedOk, TypeOK, BLETypeOK, PcInv, IvInv, DoneInv, KeyInv,
         Event, EventTypes
<1>5. KeyInv' /\ MotorInv'
  BY DEF KeyInv, KeyMatchesFlash, MotorInv, StatusTruth, HasMoved, Target,
         Forward, PcInv, TypeOK, FlashTypeOK, MotorTypeOK, BLETypeOK,
         EventInv, EventOk, Commands, EventTypes
<1>. QED  BY <1>1, <1>2, <1>3, <1>4, <1>5

(* IInv is inductive.                                                        *)
LEMMA NextIInv ==
  ASSUME IInv, [Next]_vars
  PROVE  IInv'
<1>1. CASE Boot
  BY <1>1, BootErasePageStep, BootWriteKeyStep, BootRestStep DEF Boot
<1>2. CASE Loop
  BY <1>2, TimedGetStep, LoopRestStep DEF Loop
<1>3. CASE Move
  BY <1>3, LoopRestStep, RunMotorStep, SleepStep, StopMotorStep, StoreStatusStep,
     PushAckStep DEF Move
<1>4. CASE Config
  BY <1>4, SetTimeDateStep, RejectKeyStep, AcceptKeyStep, EraseKeyStep, WriteKeyStep
     DEF Config
<1>5. CASE Answer
  BY <1>5, AnswerStep DEF Answer
<1>6. CASE Parse
  BY <1>6, DropStep, CopyIvStep, CopyCipherStep, DecodeStep DEF Parse
<1>7. CASE Callback
  BY <1>7, ConnectionStep, WriteFrameStep, RepeatFrameStep, WriteAgainStep
     DEF Callback
<1>8. CASE Crash
  BY <1>8, CrashStep
<1>9. CASE UNCHANGED vars
  BY <1>9, StutterStep
<1>. QED
  BY <1>1, <1>2, <1>3, <1>4, <1>5, <1>6, <1>7, <1>8, <1>9 DEF Next, MainStep

(* The inductive invariant holds of every behaviour of the firmware, with    *)
(* any number of writes, new frames and older ones in any order, of          *)
(* connections, resets and flash faults.                                     *)
THEOREM Invariance == Spec => []IInv
BY InitIInv, NextIInv, PTL DEF Spec

(* Every variable has its type (TypeOK).                                     *)
THEOREM TypeCorrect == Spec => []TypeOK
<1>1. IInv => TypeOK
  BY DEF IInv
<1>. QED  BY <1>1, Invariance, PTL

(* The two sides of the H-bridge are never driven at once, whatever commands *)
(* follow each other and whenever the power fails (mcapp_speedDirection).    *)
THEOREM BridgeIsSafe == Spec => []BridgeSafe
<1>1. IInv => BridgeSafe
  BY DEF IInv, MotorInv, BridgeSafe, TypeOK, MotorTypeOK, Speeds, FullSpeed
<1>. QED  BY <1>1, Invariance, PTL

(* A pending set-time or set-key command still has its own argument in the   *)
(* shared Data buffer (main.c, MSG_RECV and the two handlers).               *)
THEOREM ArgumentCorrect == Spec => []ArgumentIsOwn
<1>1. ASSUME IInv PROVE ArgumentIsOwn
  <2>1. UsesData(evt) => HoldsArgument(evt)
    BY <1>1 DEF IInv, EventInv, EventOk
  <2>2. ASSUME NEW i \in 1..Len(queue), UsesData(queue[i]) PROVE HoldsArgument(queue[i])
    <3>1. queue \in Seq(Event) /\ Len(queue) <= 1
      BY <1>1 DEF IInv, QueueInv, TypeOK, BLETypeOK
    <3>2. i = 1 /\ queue # <<>>
      BY <3>1
    <3>. QED  BY <1>1, <2>2, <3>2 DEF IInv, EventInv, EventOk
  <2>. QED  BY <2>1, <2>2 DEF ArgumentIsOwn
<1>. QED  BY <1>1, Invariance, PTL

(* Once the motor has moved the bolt, the reported status is where the bolt  *)
(* is (the LOCK and UNLOCK handlers of main.c).                              *)
THEOREM StatusCorrect == Spec => []StatusTruth
<1>1. IInv => StatusTruth
  BY DEF IInv, MotorInv
<1>. QED  BY <1>1, Invariance, PTL

(* The key in use is the one in the flash, faults or not (SETENCRYPTKEY and  *)
(* sys_flash_write).                                                         *)
THEOREM KeyCorrect == Spec => []KeyMatchesFlash
<1>1. IInv => KeyMatchesFlash
  BY DEF IInv, KeyInv
<1>. QED  BY <1>1, Invariance, PTL

(* When clients wait for their answer the one-entry queue drops nothing      *)
(* (APP_EVENT_QUEUE_SIZE).                                                   *)
THEOREM NothingLost == ASSUME Patient PROVE Spec => []NothingDropped
<1>1. IInv => NothingDropped
  BY DEF IInv, QueueInv, PcInv, NothingDropped, UsesData
<1>. QED  BY <1>1, Invariance, PTL

(* What was written once is not started again after it was carried out,      *)
(* however often the client repeats it and whatever arrives while it is      *)
(* parsed (the comparison of the IVs in main.c).  A frame that is written    *)
(* again after another one counts as written anew.                           *)
THEOREM NoSecondStart == Spec => AtMostOnce
<1>1. ASSUME IInv, [Next]_vars, Starts PROVE evt.of \notin done
  <2>1. evt.type \in {"LOCK", "UNLOCK", "SETTIMEDATE", "SETENCRYPTKEY"}
    <3>. USE DEF Starts
    <3>1. CASE UNCHANGED vars
      BY <1>1, <3>1 DEF vars
    <3>2. CASE Boot
      BY <1>1, <3>2 DEF Boot, BootErasePage, BootErase, BootWriteKey,
                        BootProgram,
                        BootReadKey, BootInit
    <3>3. CASE Loop
      BY <1>1, <3>3 DEF Loop, TimedGet, AdvCheck, AdvRefresh, Idle, Finish
    <3>4. CASE Move
      BY <1>1, <3>4 DEF Move, StartMove, Handling, RunMotor, Sleep, StopMotor,
                        PwmStep,
                        StoreStatus, PushAck
    <3>5. CASE Config
      BY <1>1, <3>5 DEF Config, SetTimeDate, RejectKey, AcceptKey, EraseKey,
                        WriteKey,
                        Handling
    <3>6. CASE Answer
      BY <1>1, <3>6 DEF Answer, LockStatus, BatteryLevel, GetTimeDate,
                        GetEncryptKey,
                        Ack, Nack, Notify, Finish
    <3>7. CASE Parse
      BY <1>1, <3>7 DEF Parse, StartParse, NextPc, RejectEnvelope, CopyIvHi,
                        CopyIvLo,
                        RejectLength, CopyCipher, DecodeGarbage, DecodeBadLength,
                        DecodeMessage
    <3>8. CASE Callback
      BY <1>1, <3>8 DEF Callback, BtReady, Connected, Disconnected,
                        WriteFrame, RepeatFrame, WriteAgain
    <3>9. CASE Crash
      BY <1>1, <3>9 DEF Crash
    <3>. QED
      BY <1>1, <3>1, <3>2, <3>3, <3>4, <3>5, <3>6, <3>7, <3>8, <3>9 DEF Next,
          MainStep
  <2>. QED  BY <1>1, <2>1 DEF IInv, EventInv, EventOk, Commands, EventTypes
<1>. QED  BY <1>1, Invariance, PTL DEF Spec, AtMostOnce

(* Without flash faults an ACK that reaches a client is for a write that was *)
(* carried out, a NACK for one that was not (the pushes of main.c).          *)
THEOREM RepliesTrue == ASSUME ~FlashFaults PROVE Spec => ReplyIsTrue
<1>. DEFINE Truth == reply' # reply =>
                       /\ reply'.kind = "ACK" => reply'.of \in done
                       /\ reply'.kind = "NACK" => reply'.of \notin done
<1>1. ASSUME IInv, [Next]_vars PROVE Truth
  <2>1. ASSUME NEW kind \in ReplyKinds, NEW val, Notify(kind, val), reply' # reply
        PROVE  Truth
    <3>1. /\ reply' = [kind |-> kind, of |-> evt.of, val |-> val]
          /\ pc = "dispatch" /\ evt.type = kind
      BY <2>1 DEF Notify, Handling
    <3>2. EventOk(evt)
      BY <1>1 DEF IInv, EventInv
    <3>. QED  BY <3>1, <3>2 DEF EventOk
  <2>2. CASE Answer
    BY <2>1, <2>2 DEF Answer, LockStatus, BatteryLevel, GetTimeDate,
                      GetEncryptKey,
                      Ack, Nack, ReplyKinds
  <2>3. CASE UNCHANGED vars \/ Boot \/ Loop
    BY <2>3 DEF vars, Boot, BootErasePage, BootErase, BootWriteKey,
                BootProgram,
                BootReadKey, BootInit, Loop, TimedGet, AdvCheck, AdvRefresh, Idle
  <2>4. CASE Move \/ Config
    BY <2>4 DEF Move, StartMove, RunMotor, Sleep, StopMotor, PwmStep,
                StoreStatus,
                PushAck, Config, SetTimeDate, RejectKey, AcceptKey, EraseKey, WriteKey
  <2>5. CASE Parse
    BY <2>5 DEF Parse, StartParse, RejectEnvelope, CopyIvHi, CopyIvLo,
                RejectLength,
                CopyCipher, DropFrame, NextPc, DecodeGarbage, DecodeBadLength,
                DecodeMessage, FinishDecode
  <2>6. CASE Callback \/ Crash
    BY <2>6 DEF Callback, BtReady, Connected, Disconnected, WriteFrame,
                RepeatFrame, WriteAgain, Crash
  <2>. QED  BY <1>1, <2>2, <2>3, <2>4, <2>5, <2>6 DEF Next, MainStep
<1>. QED  BY <1>1, Invariance, PTL DEF Spec, ReplyIsTrue
=============================================================================
