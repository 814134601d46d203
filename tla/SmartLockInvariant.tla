------------------------- MODULE SmartLockInvariant -------------------------
(* IInv, an inductive invariant of SmartLock strong enough for its safety    *)
(* properties: checked by TLC on the instances, proved in SmartLock_proofs.  *)
EXTENDS SmartLockProperties

Commands == EventTypes \ {"NONE", "ACK", "NACK", "MSG_RECV"}

(* What the value of pc says about the event being handled, and where the    *)
(* main thread has not got to yet.                                           *)
PcInv ==
    /\ pc \in BootPcs \cup {"wait"} => evt = NoEvent
    /\ pc \in ParsePcs => evt.type = "MSG_RECV"
    /\ pc \in MotorPcs \cup StorePcs => evt.type \in {"LOCK", "UNLOCK"}
    /\ pc \in KeyPcs => evt.type = "SETENCRYPTKEY" /\ dataLen = 16
    /\ pc \in BootPcs => done = {}

(* While an event is handled nothing but a received frame is queued, or the  *)
(* premature ACK of a new key.                                               *)
QueuedOk(q) ==
    \/ q.type = "MSG_RECV"
    \/ pc \in KeyPcs /\ q.type = "ACK" /\ q.of = evt.of
QueueInv ==
    /\ Len(queue) <= 1
    /\ queue # <<>> => queue[1].type # "NONE"
    /\ evt.type # "NONE" /\ queue # <<>> => QueuedOk(queue[1])
    /\ Patient /\ evt.type # "NONE" => queue = <<>> \/ pc \in KeyPcs

(* A write that repeats an older one has the same content.                   *)
OriginInv == \A n \in 1..Len(sent) : origin[n] \in 1..n /\ sent[origin[n]] = sent[n]

(* What is copied while parsing is from no earlier write than what was       *)
(* copied before.                                                            *)
IvInv ==
    /\ BlemsgBuf \in {0, Len(sent)}
    /\ prevIv[1] <= prevIv[2] /\ prevIv[2] <= enc /\ enc <= BlemsgBuf
    /\ pc = "iv_lo" => enc <= ivHi /\ ivHi <= BlemsgBuf
    /\ pc = "cipher" => enc <= ivHi /\ ivHi <= ivLo /\ ivLo <= BlemsgBuf
    /\ pc = "decode" => prevIv = <<ivHi, ivLo>> /\ 1 <= enc

(* The IV that is remembered is the one of write n.                          *)
Remembered(n) == IvOf(prevIv[1]) = IvOf(n) /\ IvOf(prevIv[2]) = IvOf(n)

(* The write parsed last is not older than the ones carried out; if it is    *)
(* the last one carried out, its IV is remembered, and nothing that passes   *)
(* the comparison of the IVs has been carried out.                           *)
DoneInv ==
    /\ \A d \in done : d <= enc /\ (d = enc => Remembered(enc))
    /\ pc = "decode" => \A d \in done : d < enc

(* What is known of a pending event.                                         *)
EventOk(e) ==
    /\ e.type # "NONE" => e.of \in 1..Len(sent)
    /\ e.type = "MSG_RECV" => BlemsgBuf # 0
    /\ e.type \in Commands => /\ e.type = CommandOf(sent[e.of].code)
                              /\ e.of \notin done
                              /\ e.of = enc
                              /\ Remembered(enc)
    /\ UsesData(e) => HoldsArgument(e)
    /\ e.type = "ACK" /\ ~FlashFaults =>
         e.of \in done \/ (pc \in KeyPcs /\ e.of = evt.of)
    /\ e.type = "NACK" => e.of \notin done
EventInv ==
    /\ EventOk(evt)
    /\ queue # <<>> => EventOk(queue[1])

(* Sixteen bytes are a key; without faults the page is blank for it.         *)
KeyInv ==
    /\ dataLen = 16 => KeyIn(Data) \in Keys
    /\ pc = "key_write" /\ ~FlashFaults => flashKey = Blank
    /\ KeyMatchesFlash

(* The motor and the bolt at every place of a move.                          *)
Target == IF Forward THEN BoltIn ELSE BoltOut
MotorInv ==
    /\ pc \notin MotorPcs \/ pc = "pwm_lhs" => lhs = 0 /\ rhs = 0
    /\ pc \in {"pwm_rhs", "sleep", "stop_lhs"} =>
         lhs = IF Forward THEN 0 ELSE FullSpeed
    /\ pc \in {"sleep", "stop_lhs", "stop_rhs"} =>
         rhs = IF Forward THEN FullSpeed ELSE 0
    /\ pc = "pwm_rhs" => rhs = 0
    /\ pc = "stop_rhs" => lhs = 0
    /\ pc \in {"stop_lhs", "stop_rhs"} => bolt = Target
    /\ pc \in StorePcs => lockUnlockStatus = bolt
    /\ StatusTruth

IInv == /\ TypeOK /\ PcInv /\ QueueInv /\ OriginInv /\ IvInv /\ DoneInv
        /\ EventInv /\ KeyInv /\ MotorInv
-----------------------------------------------------------------------------
(* With clients that wait, all copies are of the write in the receive buffer *)
(* while it is parsed, and a pending NACK is for a frame that does not check *)
(* out, or for a date that came after data longer than a date.  Checked and  *)
(* proved for a lock whose id has a zero byte.                               *)
NackOk(e) ==
    /\ e.type = "NACK" => /\ ~ChecksOut(e.of)
                          /\ DateChecksOut(e.of) => LongBefore(e.of)
    /\ e.type = "SETTIMEDATE" /\ dataTail /\ sent[e.of].arg \in Times => LongBefore(e.of)
PatienceInv ==
    /\ dataTail => \E g \in 1..enc : 4 \in DOMAIN sent[g].arg
    /\ pc \in ParsePcs => lenOf = BlemsgBuf
    /\ pc \in {"iv_lo", "cipher", "decode"} => ivHi = BlemsgBuf
    /\ pc \in {"cipher", "decode"} => ivLo = BlemsgBuf
    /\ pc = "decode" => enc = BlemsgBuf
    /\ NackOk(evt)
    /\ queue # <<>> => NackOk(queue[1])
=============================================================================
