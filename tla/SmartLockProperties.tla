------------------------- MODULE SmartLockProperties -------------------------
(* What the firmware of SmartLock must and must not do.  The properties that *)
(* hold come first, then the ones a comment or a document of the project     *)
(* states and the code does not keep.                                        *)
EXTENDS SmartLock

(* The argument of a set-time or set-key command is in the shared Data       *)
(* buffer from the moment its event is queued (main.c:867-967) until it is   *)
(* handled (main.c:439-473), although other frames are parsed into the same  *)
(* buffer: every byte the command brought is in its place, and its length    *)
(* with it.                                                                  *)
UsesData(e) == e.type \in {"SETTIMEDATE", "SETENCRYPTKEY"}
HoldsArgument(e) ==
    LET a == sent[e.of].arg IN
    /\ \A i \in (1..3) \cap DOMAIN a : Data[i] = a[i]
    /\ dataLen = ArgLen(a)
ArgumentIsOwn ==
    /\ \A i \in 1..Len(queue) : UsesData(queue[i]) => HoldsArgument(queue[i])
    /\ UsesData(evt) => HoldsArgument(evt)

(* What was written once is carried out once, however often the client       *)
(* repeats it and whatever arrives while it is parsed (the IV check of       *)
(* main.c:839-841).  Only a frame that is written again after another one    *)
(* counts as a new write: the lock remembers the IV of one frame, and        *)
(* carries the older frame out again.                                        *)
Starts ==
    /\ pc = "dispatch"
    /\ \/ pc' \in {"pwm_lhs", "key_erase"}
       \/ evt.type = "SETTIMEDATE"
AtMostOnce == [][Starts => evt.of \notin done]_vars

(* An ACK that reaches a client is for a write the lock has carried out to   *)
(* the end, a NACK for one it has not (main.c:252, 264, 446-450, 462-469).   *)
(* Each write is answered for itself: a new key whose frame is written again *)
(* after another one no longer decrypts, and this write is refused.          *)
ReplyIsTrue ==
    [][reply' # reply =>
         /\ reply'.kind = "ACK" => reply'.of \in done
         /\ reply'.kind = "NACK" => reply'.of \notin done]_vars

(* Once the motor has moved the bolt since the last reset, the status the    *)
(* lock answers and advertises is where the bolt is, except during a move    *)
(* (main.c:242-264).                                                         *)
HasMoved == \E f \in done : sent[f].code \in {<<1, 1>>, <<1, 2>>}
StatusTruth == HasMoved /\ pc \notin MotorPcs => lockUnlockStatus = bolt

(* The key in use is the one in the flash, although the status byte on the   *)
(* same page is rewritten with an erase on every move (main.c:249, 261,      *)
(* sys_flash.c:54).                                                          *)
KeyMatchesFlash == pc \notin BootPcs \cup KeyPcs => Key = flashKey

(* When clients wait for their answer, no event is lost to the one-entry     *)
(* queue (BLEapp.h:14): wherever the main thread queues one it is empty.    *)
NothingDropped ==
    (pc \in {"push_ack", "decode"} \/ (pc = "dispatch" /\ UsesData(evt)))
        => queue = <<>>

(* A motor that was started is stopped (main.c:245-247, 257-259).            *)
MotorStops == lhs + rhs > 0 ~> lhs + rhs = 0

(* When clients wait for their answer, a frame with a sound envelope and an  *)
(* IV that is not the last one is answered once its event is queued          *)
(* (BLEapp.c:115-118), unless the connection goes down first: no path        *)
(* through the handlers forgets the answer.                                  *)
Arrived(f) ==
    /\ queue = <<[type |-> "MSG_RECV", of |-> f]>>
    /\ sent[f].outer = "ok"
    /\ IvOf(prevIv[1]) # IvOf(f) \/ IvOf(prevIv[2]) # IvOf(f)
Answered ==
    \A f \in 1..MaxFrames + MaxWrites :
        (f <= Len(sent) /\ Arrived(f)) ~> (reply.of = f \/ current_conn = NoConn)

(* "Lock processes the encrypted data check everything and if everything     *)
(* checksout sends an Encrypted ACK" (SmartLock application side.drawio:308): *)
(* when clients wait for their answer, a sound LOCK or UNLOCK for this lock,  *)
(* encrypted with its key, is never answered NACK.                           *)
ChecksOut(f) ==
    /\ sent[f].outer = "ok" /\ sent[f].body = "ok" /\ sent[f].key = Key
    /\ sent[f].code \in {<<1, 1>>, <<1, 2>>}
SoundCommandAccepted ==
    [][reply' # reply /\ reply'.kind = "NACK" => ~ChecksOut(reply'.of)]_vars

(* A sound SETTIMEDATE with a date in range is answered NACK only if data     *)
(* longer than a date were sent before it: nothing else a client can send    *)
(* leaves a byte in Data behind a date (main.c:439-455, bib.c:124, 134).      *)
DateChecksOut(f) ==
    /\ sent[f].outer = "ok" /\ sent[f].body = "ok" /\ sent[f].key = Key
    /\ sent[f].code = <<3, 17>> /\ sent[f].arg \in Times
LongBefore(f) == \E g \in 1..f - 1 : 4 \in DOMAIN sent[g].arg
DateRefusedAfterLong ==
    [][reply' # reply /\ reply'.kind = "NACK" /\ DateChecksOut(reply'.of)
        => LongBefore(reply'.of)]_vars

(* If clients stay away, the lock ends up advertising its status             *)
(* (BLEapp_loop, called on every turn of the loop, main.c:237).              *)
AdvertTruth ==
    <>[](current_conn = NoConn) => <>[](air.status = lockUnlockStatus)
-----------------------------------------------------------------------------
(* "Lock processes the encrypted data check everything and if everything     *)
(* checksout sends an Encrypted ACK" (SmartLock application side.drawio:308): *)
(* the ACK of a finished move finds room in the queue.                       *)
AckNeverDropped == pc = "push_ack" => queue = <<>>

(* "Lock processes the encrypted data check everything and if everything     *)
(* checksout sends an Encrypted ACK" (SmartLock application side.drawio:308): *)
(* a sound SETTIMEDATE for this lock, encrypted with its key and with a date  *)
(* in range, is never answered NACK, whatever was sent before it.            *)
SoundDateAccepted ==
    [][reply' # reply /\ reply'.kind = "NACK" => ~DateChecksOut(reply'.of)]_vars

(* "Shows Status of Lock weather it is open or close" (Smart Lock Complete   *)
(* System.docx, Advertise Packet): the status byte is stored to be read back *)
(* by the next start (main.c:175, 249, 261), so after a restart too a bolt   *)
(* whose last move was acknowledged is reported where it is.                 *)
StatusSurvivesRestart ==
    (/\ pc = "wait"
     /\ reply.kind = "ACK" /\ reply.of = Len(sent)
     /\ sent[reply.of].code \in {<<1, 1>>, <<1, 2>>}
     /\ bolt # Between) => lockUnlockStatus = bolt
=============================================================================
