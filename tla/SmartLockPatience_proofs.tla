----------------------- MODULE SmartLockPatience_proofs -----------------------
(* Proof that a lock whose clients wait for their answer accepts what checks *)
(* out.  PatienceInv is shown invariant with the help of IInv and            *)
(* ServiceInv; then only a pending NACK can be answered as one.              *)
EXTENDS SmartLockService_proofs

USE FlashAssumption, BLEAssumption, LockAssumption
    DEF BootPcs, ParsePcs, MotorPcs, StorePcs, KeyPcs, flashVars, motorVars,
        pwmVars, bleVars, radioVars, parseVars, dataVars, lockVars, mainVars,
        IvOf, Remembered

(* A pending NACK stays true while the key does not change, also when        *)
(* another frame is written.                                                 *)
LEMMA KeepNack ==
  ASSUME sent \in Seq(Contents), NEW e \in Event, EventOk(e), NackOk(e),
         UNCHANGED <<Key, dataTail>>,
         sent' = sent \/ \E c \in Contents : sent' = Append(sent, c)
  PROVE  NackOk(e)'
<1>1. e.type \in {"NACK", "SETTIMEDATE"} => e.of \in 1..Len(sent)
  BY DEF EventOk
<1>2. \A g \in 1..Len(sent) : sent'[g] = sent[g]
  OBVIOUS
<1>3. e.type \in {"NACK", "SETTIMEDATE"} => sent'[e.of] = sent[e.of]
  BY <1>1, <1>2
<1>4. ASSUME e.type \in {"NACK", "SETTIMEDATE"}, LongBefore(e.of) PROVE LongBefore(e.of)'
  <2>1. PICK g \in 1..e.of - 1 : 4 \in DOMAIN sent[g].arg
    BY <1>4 DEF LongBefore
  <2>2. g \in 1..Len(sent)
    BY <1>1, <1>4, <2>1
  <2>. QED  BY <1>2, <2>1, <2>2 DEF LongBefore
<1>. QED  BY <1>3, <1>4 DEF NackOk, ChecksOut, DateChecksOut

(* What has set byte 17 of Data stays a frame that was written.              *)
LEMMA KeepTail ==
  ASSUME IInv, PatienceInv, UNCHANGED dataTail,
         sent' = sent \/ \E c \in Contents : sent' = Append(sent, c),
         enc' \in Nat, enc <= enc', dataTail
  PROVE  \E g \in 1..enc' : 4 \in DOMAIN sent'[g].arg
<1>1. PICK g \in 1..enc : 4 \in DOMAIN sent[g].arg
  BY DEF PatienceInv
<1>2. sent \in Seq(Contents) /\ enc \in 0..Len(sent)
  BY DEF IInv, TypeOK, BLETypeOK
<1>3. g \in 1..Len(sent) /\ g \in 1..enc'
  BY <1>1, <1>2
<1>4. sent'[g] = sent[g]
  BY <1>2, <1>3
<1>. QED  BY <1>1, <1>3, <1>4

(* What is handled or queued after such a step was queued before, is no      *)
(* NACK, or is a NACK for a frame that does not check out.                   *)
LEMMA NacksKept ==
  ASSUME IInv, PatienceInv, UNCHANGED <<Key, dataTail>>,
         sent' = sent \/ \E c \in Contents : sent' = Append(sent, c),
         evt' \in {evt, NoEvent} \/ (queue # <<>> /\ evt' = queue[1]),
         queue' # <<>> => \/ queue # <<>> /\ queue'[1] = queue[1]
                          \/ NackOk(queue[1])'
  PROVE  /\ NackOk(evt)'
         /\ (queue # <<>> => NackOk(queue[1]))'
<1>1. sent \in Seq(Contents) /\ evt \in Event /\ EventOk(evt) /\ NackOk(evt)
  BY DEF IInv, TypeOK, BLETypeOK, EventInv, PatienceInv
<1>2. queue # <<>> => queue[1] \in Event /\ EventOk(queue[1]) /\ NackOk(queue[1])
  BY QueueShape DEF IInv, TypeOK, BLETypeOK, QueueInv, EventInv, PatienceInv
<1>3. ASSUME NEW e \in Event, EventOk(e), NackOk(e) PROVE NackOk(e)'
  BY <1>1, <1>3, KeepNack
<1>4. ASSUME NEW e, NackOk(e)', evt' = e PROVE NackOk(evt)'
  BY <1>4 DEF NackOk, ChecksOut, DateChecksOut, LongBefore
<1>5. ASSUME NEW e, NackOk(e)', queue'[1] = e PROVE NackOk(queue[1])'
  BY <1>5 DEF NackOk, ChecksOut, DateChecksOut, LongBefore
<1>6. NackOk(evt)'
  <2>1. CASE evt' = evt
    BY <1>1, <1>3, <1>4, <2>1
  <2>2. CASE evt' = NoEvent
    BY <2>2 DEF NackOk, NoEvent
  <2>3. CASE queue # <<>> /\ evt' = queue[1]
    BY <1>2, <1>3, <1>4, <2>3
  <2>. QED  BY <2>1, <2>2, <2>3
<1>7. queue' # <<>> => NackOk(queue[1])'
  <2>1. CASE NackOk(queue[1])'
    BY <2>1
  <2>2. CASE queue # <<>> /\ queue'[1] = queue[1]
    BY <1>2, <1>3, <1>5, <2>2
  <2>. QED  BY <2>1, <2>2
<1>. QED  BY <1>6, <1>7

(* Nothing else is needed of a step that parses nothing.                     *)
LEMMA PatienceKept ==
  ASSUME IInv, PatienceInv, UNCHANGED <<Key, dataTail, enc>>, pc' \notin ParsePcs,
         sent' = sent \/ \E c \in Contents : sent' = Append(sent, c),
         evt' \in {evt, NoEvent} \/ (queue # <<>> /\ evt' = queue[1]),
         queue' # <<>> => \/ queue # <<>> /\ queue'[1] = queue[1]
                          \/ NackOk(queue[1])'
  PROVE  PatienceInv'
<1>1. enc \in Nat
  BY DEF IInv, TypeOK, BLETypeOK
<1>2. dataTail' => \E g \in 1..enc' : 4 \in DOMAIN sent'[g].arg
  BY <1>1, KeepTail
<1>3. NackOk(evt)' /\ (queue # <<>> => NackOk(queue[1]))'
  BY NacksKept
<1>. QED  BY <1>2, <1>3 DEF PatienceInv

(* The initial states satisfy PatienceInv.                                   *)
LEMMA InitPatience == Init => PatienceInv
BY DEF Init, BLEInit, PatienceInv, NackOk, NoEvent

(* Outside of the parser and of the handlers that change the key or answer   *)
(* NACK, nothing is queued but an ACK.                                       *)
LEMMA QuietPatience ==
  ASSUME IInv, PatienceInv,
         \/ BootErasePage \/ BootWriteKey \/ BootReadKey \/ Loop \/ Move \/ AcceptKey
         \/ EraseKey \/ Answer
  PROVE  PatienceInv'
<1>1. pc' \notin ParsePcs /\ UNCHANGED <<Key, sent, dataTail, enc>>
  BY DEF BootErasePage, BootErase, BootWriteKey, BootProgram, BootReadKey, Loop,
         TimedGet, AdvCheck, AdvRefresh, AdvWrite, Idle, Move, StartMove, RunMotor,
         Sleep, StopMotor, PwmStep, StoreStatus, PushAck, AcceptKey, EraseKey, Answer,
         LockStatus, BatteryLevel, GetTimeDate, GetEncryptKey, Ack, Nack, Notify, Finish
<1>2. CASE PushAck \/ AcceptKey
  <2>1. evt \in Event /\ evt' \in {evt, NoEvent} /\ Push("ACK", evt.of)
    BY <1>2 DEF PushAck, AcceptKey, Finish, IInv, TypeOK
  <2>2. \/ queue' = queue /\ queue # <<>>
        \/ queue = <<>> /\ queue' = <<[type |-> "ACK", of |-> evt.of]>>
    BY <2>1, PushQueue DEF IInv, TypeOK, BLETypeOK, QueueInv, Event, EventTypes
  <2>3. queue' # <<>> => (queue # <<>> /\ queue'[1] = queue[1]) \/ NackOk(queue[1])'
    BY <2>2 DEF NackOk
  <2>. QED  BY <1>1, <2>1, <2>3, PatienceKept
<1>3. CASE TimedGet
  <2>1. \/ queue # <<>> /\ evt' = queue[1] /\ queue' = <<>>
        \/ queue = <<>> /\ evt' = NoEvent /\ queue' = queue
    BY <1>3, QueueShape DEF TimedGet, IInv, TypeOK, BLETypeOK, QueueInv
  <2>. QED  BY <1>1, <2>1, PatienceKept
<1>4. CASE ~(PushAck \/ AcceptKey \/ TimedGet)
  <2>1. evt' \in {evt, NoEvent} /\ UNCHANGED queue
    BY <1>4 DEF BootErasePage, BootErase, BootWriteKey, BootProgram, BootReadKey, Loop,
         AdvCheck, AdvRefresh, AdvWrite, Idle, Move, StartMove, RunMotor,
         Sleep, StopMotor, PwmStep, StoreStatus, EraseKey, Answer,
         LockStatus, BatteryLevel, GetTimeDate, GetEncryptKey, Ack, Nack, Notify, Finish
  <2>. QED  BY <1>1, <2>1, PatienceKept
<1>. QED  BY <1>2, <1>3, <1>4

(* A new event in the queue is as good as the frame it is for.               *)
LEMMA QueuedOkay ==
  ASSUME NEW t, NEW f, queue' = <<[type |-> t, of |-> f]>>, UNCHANGED <<Key, sent>>,
         t = "NACK" => ~ChecksOut(f) /\ (DateChecksOut(f) => LongBefore(f)),
         t = "SETTIMEDATE" /\ dataTail' /\ sent[f].arg \in Times => LongBefore(f)
  PROVE  NackOk(queue[1])'
<1>1. queue'[1].type = t /\ queue'[1].of = f
  OBVIOUS
<1>2. ChecksOut(f)' = ChecksOut(f) /\ DateChecksOut(f)' = DateChecksOut(f)
      /\ LongBefore(f)' = LongBefore(f)
  BY DEF ChecksOut, DateChecksOut, LongBefore
<1>. QED  BY <1>1, <1>2 DEF NackOk, ChecksOut, DateChecksOut, LongBefore

(* A NACK of set-time or set-key is for no LOCK or UNLOCK, and for a date in *)
(* range only if byte 17 of Data was set.                                    *)
LEMMA RejectPatience ==
  ASSUME IInv, PatienceInv, SetTimeDate \/ RejectKey PROVE PatienceInv'
<1>1. /\ pc' = "wait" /\ evt' = NoEvent /\ UNCHANGED <<Key, sent, dataTail, enc>>
      /\ evt.type \in {"SETTIMEDATE", "SETENCRYPTKEY"}
  BY DEF SetTimeDate, RejectKey, Handling, Finish
<1>2. PICK t \in {"ACK", "NACK"} :
         Push(t, evt.of) /\ (t = "NACK" /\ evt.type = "SETTIMEDATE" => ~Accepted)
  BY DEF SetTimeDate, RejectKey, Handling
<1>3. /\ evt \in Event
      /\ \/ queue' = queue /\ queue # <<>>
         \/ queue = <<>> /\ queue' = <<[type |-> t, of |-> evt.of]>>
  BY <1>2, PushQueue DEF IInv, TypeOK, BLETypeOK, QueueInv, Event, EventTypes
<1>4. evt.type = CommandOf(sent[evt.of].code)
  BY <1>1 DEF IInv, EventInv, EventOk, Commands, EventTypes
<1>5. sent[evt.of].code \notin {<<1, 1>>, <<1, 2>>}
  BY <1>1, <1>4, MoveCommands
<1>7. ASSUME t = "NACK", DateChecksOut(evt.of) PROVE LongBefore(evt.of)
  <2>1. evt.type = "SETTIMEDATE" /\ sent[evt.of].arg \in Times
    BY <1>1, <1>4, <1>7 DEF DateChecksOut, CommandOf
  <2>2. Data = sent[evt.of].arg
    <3>1. \A i \in (1..3) \cap DOMAIN sent[evt.of].arg : Data[i] = sent[evt.of].arg[i]
      BY <2>1 DEF IInv, EventInv, EventOk, UsesData, HoldsArgument
    <3>2. Data \in [1..3 -> Pieces] /\ sent[evt.of].arg \in [1..3 -> Pieces \ {Zero}]
      BY <2>1 DEF IInv, TypeOK
    <3>. QED  BY <3>1, <3>2
  <2>3. dataTail
    BY <1>2, <1>7, <2>1, <2>2 DEF Accepted, WellFormed
  <2>. QED  BY <2>1, <2>3 DEF PatienceInv, NackOk
<1>6. queue' # <<>> => (queue # <<>> /\ queue'[1] = queue[1]) \/ NackOk(queue[1])'
  <2>1. CASE queue' = queue /\ queue # <<>>
    BY <2>1
  <2>2. CASE queue' = <<[type |-> t, of |-> evt.of]>>
    <3>1. PICK f : f = evt.of
      OBVIOUS
    <3>2. t = "NACK" => ~ChecksOut(f) /\ (DateChecksOut(f) => LongBefore(f))
      BY <1>5, <1>7, <3>1 DEF ChecksOut
    <3>. QED  BY <1>1, <2>2, <3>1, <3>2, QueuedOkay
  <2>. QED  BY <1>3, <2>1, <2>2
<1>8. pc' \notin ParsePcs
  BY <1>1
<1>. QED  BY <1>1, <1>6, <1>8, PatienceKept

(* The key changes where no NACK is pending, and no date.                    *)
LEMMA KeyPatience ==
  ASSUME IInv, ServiceInv, PatienceInv, BootInit \/ WriteKey PROVE PatienceInv'
<1>1. pc' = "wait" /\ evt' = NoEvent /\ UNCHANGED <<queue, sent, dataTail, enc>>
  BY DEF BootInit, BLEapp_init, WriteKey, Finish, IInv, PcInv
<1>2. queue # <<>> => queue[1].type \notin {"NACK", "SETTIMEDATE"}
  <2>1. CASE BootInit
    BY <2>1 DEF BootInit, ServiceInv, BootInv
  <2>2. CASE WriteKey
    BY <2>2 DEF WriteKey, IInv, PcInv, QueueInv, QueuedOk
  <2>. QED  BY <2>1, <2>2
<1>3. dataTail' => \E g \in 1..enc' : 4 \in DOMAIN sent'[g].arg
  BY <1>1 DEF PatienceInv
<1>. QED  BY <1>1, <1>2, <1>3 DEF PatienceInv, NackOk, NoEvent

(* While a frame is parsed all that is copied is of the frame in the buffer. *)
LEMMA ParsePatience ==
  ASSUME IInv, PatienceInv,
         \/ StartParse \/ RejectEnvelope \/ CopyIvHi \/ CopyIvLo \/ RejectLength
         \/ CopyCipher
  PROVE  PatienceInv'
<1>1. evt' \in {evt, NoEvent} /\ UNCHANGED <<Key, sent, queue, BlemsgBuf, dataTail>>
  BY DEF StartParse, RejectEnvelope, CopyIvHi, CopyIvLo, RejectLength, CopyCipher,
         DropFrame, NextPc, Finish
<1>2. NackOk(evt)' /\ (queue # <<>> => NackOk(queue[1]))'
  BY <1>1, NacksKept
<1>3. /\ pc' \in ParsePcs => lenOf' = BlemsgBuf'
      /\ pc' \in {"iv_lo", "cipher", "decode"} => ivHi' = BlemsgBuf'
      /\ pc' \in {"cipher", "decode"} => ivLo' = BlemsgBuf'
      /\ pc' = "decode" => enc' = BlemsgBuf'
  BY DEF StartParse, RejectEnvelope, CopyIvHi, CopyIvLo, RejectLength, CopyCipher,
         DropFrame, NextPc, Finish, PatienceInv
<1>4. enc' \in Nat /\ enc <= enc'
  <2>1. enc \in Nat /\ BlemsgBuf \in Nat /\ enc <= BlemsgBuf
    BY DEF IInv, TypeOK, BLETypeOK, IvInv
  <2>2. enc' \in {enc, BlemsgBuf}
    BY DEF StartParse, RejectEnvelope, CopyIvHi, CopyIvLo, RejectLength, CopyCipher
  <2>. QED  BY <2>1, <2>2
<1>5. dataTail' => \E g \in 1..enc' : 4 \in DOMAIN sent'[g].arg
  BY <1>1, <1>4, KeepTail
<1>. QED  BY <1>2, <1>3, <1>5 DEF PatienceInv

(* A decoded frame is answered NACK only if it does not check out, and what  *)
(* byte 17 of Data is set by is older than a date that is decoded.           *)
LEMMA DecodePatience ==
  ASSUME Patient, IdHasNul, IInv, PatienceInv,
         DecodeGarbage \/ DecodeBadLength \/ DecodeMessage
  PROVE  PatienceInv'
<1>1. /\ pc = "decode" /\ pc' = "wait" /\ evt' = NoEvent
      /\ UNCHANGED <<sent, Key, enc>>
      /\ enc = lenOf /\ ivHi = enc /\ ivLo = enc
  BY DEF DecodeGarbage, DecodeBadLength, DecodeMessage, FinishDecode, Finish, PatienceInv
<1>2. enc \in Nat /\ 1 <= enc
  BY <1>1 DEF IInv, TypeOK, BLETypeOK, IvInv
<1>3. PICK t \in EventTypes :
         Push(t, enc) /\ (t = "NACK" => ~ChecksOut(enc) /\ ~DateChecksOut(enc))
  <2>1. CASE DecodeGarbage
    <3>1. Push("NACK", enc) /\ ~ChecksOut(enc) /\ ~DateChecksOut(enc)
      BY <1>1, <2>1 DEF DecodeGarbage, FinishDecode, Readable, ChecksOut, DateChecksOut
    <3>. QED  BY <3>1 DEF EventTypes
  <2>2. CASE DecodeBadLength
    <3>1. Push("NACK", enc) /\ ~ChecksOut(enc) /\ ~DateChecksOut(enc)
      BY <2>2 DEF DecodeBadLength, FinishDecode, ChecksOut, DateChecksOut
    <3>. QED  BY <3>1 DEF EventTypes
  <2>3. CASE DecodeMessage
    <3>1. CASE ~ForThisLock
      <4>1. Push("NACK", enc) /\ ~ChecksOut(enc) /\ ~DateChecksOut(enc)
        BY <2>3, <3>1 DEF DecodeMessage, FinishDecode, ForThisLock, ChecksOut, DateChecksOut
      <4>. QED  BY <4>1 DEF EventTypes
    <3>2. CASE ForThisLock
      <4>1. Push(CommandOf(sent[enc].code), enc)
        BY <2>3, <3>2 DEF DecodeMessage, FinishDecode
      <4>2. CommandOf(sent[enc].code) \in EventTypes
        BY CommandType DEF Commands, EventTypes
      <4>3. CommandOf(sent[enc].code) = "NACK" => ~ChecksOut(enc)
        BY MoveCommands DEF ChecksOut
      <4>4. CommandOf(sent[enc].code) = "NACK" => ~DateChecksOut(enc)
        BY DEF DateChecksOut, CommandOf
      <4>. QED  BY <4>1, <4>2, <4>3, <4>4
    <3>. QED  BY <3>1, <3>2
  <2>. QED  BY <2>1, <2>2, <2>3
<1>4. queue' = <<[type |-> t, of |-> enc]>>
  <2>1. queue = <<>>
    BY <1>1 DEF IInv, PcInv, QueueInv
  <2>. QED  BY <1>2, <1>3, <2>1, PushQueue DEF IInv, TypeOK, BLETypeOK, QueueInv
<1>5. ASSUME dataTail' PROVE \E g \in 1..enc : 4 \in DOMAIN sent[g].arg
  <2>1. CASE dataTail
    BY <1>2, <2>1 DEF PatienceInv
  <2>2. CASE ~dataTail
    <3>1. 4 \in DOMAIN sent[enc].arg
      BY <1>5, <2>2 DEF DecodeGarbage, DecodeBadLength, DecodeMessage, StoreData
    <3>. QED  BY <1>2, <3>1
  <2>. QED  BY <2>1, <2>2
<1>6. ASSUME dataTail', sent[enc].arg \in Times PROVE LongBefore(enc)
  <2>1. PICK g \in 1..enc : 4 \in DOMAIN sent[g].arg
    BY <1>5, <1>6
  <2>2. g # enc
    <3>1. sent[enc].arg \in [1..3 -> Pieces \ {Zero}]
      BY <1>6
    <3>2. 4 \notin DOMAIN sent[enc].arg
      BY <3>1
    <3>. QED  BY <2>1, <3>2
  <2>. QED  BY <1>2, <2>1, <2>2 DEF LongBefore
<1>7. NackOk(queue[1])'
  <2>1. PICK f : f = enc
    OBVIOUS
  <2>. QED  BY <1>1, <1>3, <1>4, <1>6, <2>1, QueuedOkay
<1>8. dataTail' => \E g \in 1..enc' : 4 \in DOMAIN sent'[g].arg
  BY <1>1, <1>2, <1>5
<1>. QED  BY <1>1, <1>7, <1>8 DEF PatienceInv, NackOk, NoEvent

(* A client that waits writes when nothing is being parsed.                  *)
LEMMA CallbackPatience ==
  ASSUME Patient, IInv, PatienceInv, Callback PROVE PatienceInv'
<1>1. UNCHANGED mainVars
  BY DEF Callback, BtReady, Connected, Disconnected, WriteFrame, RepeatFrame,
         WriteAgain
<1>2. CASE BtReady \/ Connected \/ Disconnected
  <2>1. UNCHANGED <<queue, sent, BlemsgBuf>>
    BY <1>2 DEF BtReady, bt_ready, Connected, on_connected, Disconnected,
                on_disconnected
  <2>2. NackOk(evt)' /\ (queue # <<>> => NackOk(queue[1]))'
    BY <1>1, <2>1, NacksKept
  <2>. QED  BY <1>1, <2>1, <2>2 DEF PatienceInv
<1>3. CASE WriteFrame \/ RepeatFrame \/ WriteAgain
  <2>1. queue = <<>> /\ evt = NoEvent
    BY <1>3 DEF WriteFrame, RepeatFrame, WriteAgain, MayWrite, LockIdle
  <2>2. pc' \notin ParsePcs
    BY <1>1, <2>1 DEF IInv, PcInv, NoEvent
  <2>3. sent' = sent \/ \E c \in Contents : sent' = Append(sent, c)
    <3>1. \A n \in 1..Len(sent) : sent[n] \in Contents
      BY DEF IInv, TypeOK, BLETypeOK
    <3>. QED  BY <1>3, <3>1 DEF WriteFrame, RepeatFrame, WriteAgain
  <2>4. queue' # <<>> => NackOk(queue[1])'
    <3>1. PICK f : queue' = queue \/ Push("MSG_RECV", f)
      BY <1>3 DEF WriteFrame, RepeatFrame, WriteAgain, on_data_received
    <3>2. queue' = <<>> \/ queue' = <<[type |-> "MSG_RECV", of |-> f]>>
      BY <2>1, <3>1 DEF Push, APP_EVENT_QUEUE_SIZE
    <3>. QED  BY <3>2 DEF NackOk
  <2>. QED  BY <1>1, <2>1, <2>2, <2>3, <2>4, PatienceKept
<1>. QED  BY <1>2, <1>3 DEF Callback

(* PatienceInv is preserved by every step.                                   *)
LEMMA NextPatience ==
  ASSUME Patient, IdHasNul, IInv, ServiceInv, PatienceInv, [Next]_vars
  PROVE  PatienceInv'
<1>1. CASE Crash
  BY <1>1 DEF Crash, BLEReset, PatienceInv, NackOk, NoEvent
<1>2. CASE UNCHANGED vars
  BY <1>2 DEF vars, PatienceInv, NackOk, ChecksOut, DateChecksOut, LongBefore
<1>3. CASE Boot
  BY <1>3, QuietPatience, KeyPatience DEF Boot
<1>4. CASE Config
  BY <1>4, QuietPatience, RejectPatience, KeyPatience DEF Config
<1>5. CASE Parse
  BY <1>5, ParsePatience, DecodePatience DEF Parse
<1>6. CASE Loop \/ Move \/ Answer
  BY <1>6, QuietPatience
<1>7. CASE Callback
  BY <1>7, CallbackPatience
<1>. QED
  BY <1>1, <1>2, <1>3, <1>4, <1>5, <1>6, <1>7 DEF Next, MainStep

(* A reply NACK is for a frame of which neither the command nor, unless      *)
(* longer data came before it, the date checks out.                          *)
LEMMA NackReply ==
  ASSUME PatienceInv, [Next]_vars, reply' # reply, reply'.kind = "NACK"
  PROVE  /\ ~ChecksOut(reply'.of)
         /\ DateChecksOut(reply'.of) => LongBefore(reply'.of)
<1>. DEFINE Refusable == /\ ~ChecksOut(reply'.of)
                         /\ DateChecksOut(reply'.of) => LongBefore(reply'.of)
<1>1. ASSUME NEW kind \in ReplyKinds, NEW val, Notify(kind, val) PROVE Refusable
  <2>1. reply' = [kind |-> kind, of |-> evt.of, val |-> val] /\ evt.type = kind
    BY <1>1 DEF Notify, Handling
  <2>2. NackOk(evt)
    BY DEF PatienceInv
  <2>3. kind = "NACK" /\ reply'.of = evt.of
    BY <2>1
  <2>. QED  BY <2>1, <2>2, <2>3 DEF NackOk, ChecksOut, DateChecksOut, LongBefore
<1>2. CASE Answer
  BY <1>1, <1>2 DEF Answer, LockStatus, BatteryLevel, GetTimeDate, GetEncryptKey,
                    Ack, Nack, ReplyKinds
<1>3. CASE ~Answer
  <2>1. CASE UNCHANGED vars \/ Boot \/ Loop
    BY <2>1 DEF vars, Boot, BootErasePage, BootErase, BootWriteKey, BootProgram,
                BootReadKey, BootInit, Loop, TimedGet, AdvCheck, AdvRefresh, Idle
  <2>2. CASE Move \/ Config
    BY <2>2 DEF Move, StartMove, RunMotor, Sleep, StopMotor, PwmStep, StoreStatus,
                PushAck, Config, SetTimeDate, RejectKey, AcceptKey, EraseKey, WriteKey
  <2>3. CASE Parse
    BY <2>3 DEF Parse, StartParse, RejectEnvelope, CopyIvHi, CopyIvLo, RejectLength,
                CopyCipher, DropFrame, NextPc, DecodeGarbage, DecodeBadLength,
                DecodeMessage, FinishDecode
  <2>4. CASE Callback \/ Crash
    BY <2>4 DEF Callback, BtReady, Connected, Disconnected, WriteFrame, RepeatFrame,
                WriteAgain, Crash
  <2>. QED  BY <1>3, <2>1, <2>2, <2>3, <2>4 DEF Next, MainStep
<1>. QED  BY <1>2, <1>3

(* With clients that wait and an id that has a zero byte, all copies made    *)
(* while a frame is parsed are of that frame, a pending NACK is for a frame  *)
(* that does not check out, and byte 17 of Data is set only by a frame with  *)
(* longer data (MSG_RECV of main.c, bib_parseInnerMsg).                      *)
THEOREM PatienceInvariance ==
  ASSUME Patient, IdHasNul PROVE Spec => []PatienceInv
BY InitPatience, NextPatience, Invariance, ServiceInvariance, PTL DEF Spec

(* With clients that wait and an id that has a zero byte, a sound LOCK or    *)
(* UNLOCK under the key in use is never answered NACK (main.c, MSG_RECV and  *)
(* the case NACK).                                                           *)
THEOREM SoundAccepted ==
  ASSUME Patient, IdHasNul PROVE Spec => SoundCommandAccepted
<1>1. ASSUME PatienceInv, [Next]_vars
      PROVE  reply' # reply /\ reply'.kind = "NACK" => ~ChecksOut(reply'.of)
  BY <1>1, NackReply
<1>. QED  BY <1>1, PatienceInvariance, PTL DEF Spec, SoundCommandAccepted

(* With the same clients and id, a sound SETTIMEDATE in range under the key  *)
(* in use is answered NACK only when data longer than a date were sent       *)
(* before it: nothing else can set byte 17 of Data (main.c, SETTIMEDATE;     *)
(* bib_parseInnerMsg).                                                       *)
THEOREM DateRefusals ==
  ASSUME Patient, IdHasNul PROVE Spec => DateRefusedAfterLong
<1>1. ASSUME PatienceInv, [Next]_vars
      PROVE  reply' # reply /\ reply'.kind = "NACK" /\ DateChecksOut(reply'.of)
               => LongBefore(reply'.of)
  BY <1>1, NackReply
<1>. QED  BY <1>1, PatienceInvariance, PTL DEF Spec, DateRefusedAfterLong
=============================================================================
