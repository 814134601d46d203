----------------------------- MODULE MessagePath -----------------------------
(* The bytes of one exchange after another: a client writes a frame, the     *)
(* lock parses and decrypts it, and its answer is built, encrypted and       *)
(* notified (main.c, the answers and MSG_RECV).  SmartLock models what the   *)
(* commands do and what happens when clients do not wait; here a client      *)
(* waits, and what the buffers still hold from the exchanges before and what *)
(* fails in the crypto library is followed byte by byte.                     *)
EXTENDS Bib, Cryptoapp

CONSTANTS
    uniqueId,                \* the id of the lock
    FirstKey,                \* its key at the start
    Requests,                \* what clients may ask
    Statuses, Levels, Dates, \* what the lock may have to answer with
    ClientIvs,               \* the IVs of the clients' frames, in order
    MaxFrames                \* bound: frames written in a behaviour

(* What a message says; one without data carries a NUL and announces none.   *)
Message(id, type, msgid, data, n, announced) ==
    [id |-> id, type |-> type, msgid |-> msgid, data |-> data, n |-> n,
     announced |-> announced]
NoData == [i \in {0} |-> NUL]

(* What is wrong with a frame: one of its marks is another byte, or one of   *)
(* its two lengths is 256 and more.  The parsers look at all the marks but   *)
(* those that close data and ciphertext; they refuse a length only if it is  *)
(* not below the one of the whole, so that "announced" and "surplus" may     *)
(* exceed what is there.                                                     *)
OuterNoticed == {"soh", "em", "length", "eot"}
Noticed      == OuterNoticed \cup {"stx", "inner_em1", "inner_em2", "inner_em3",
                                  "inner_length", "inner_eot"}
Defects      == Noticed \cup {"none", "last_em", "inner_last_em", "etx"}

ASSUME MessageAssumption ==
    /\ FirstKey \in Keys /\ Keys \subseteq [IvIdx -> Octet]
    /\ uniqueId \in [IdIdx -> Octet]
    /\ \E i \in IdIdx : uniqueId[i] = 0
    /\ \A r \in Requests :
          /\ r.n \in 1..BufSize - 41 /\ r.announced \in 0..r.n + 18
          /\ r.surplus \in 0..21 /\ r.n + 37 + r.surplus <= BufSize
          /\ r.surplus > 0 => r.defect = "none"
          /\ r.data \in [0..r.n - 1 -> Octet]
          /\ r.type \in Octet /\ r.msgid \in Octet
          /\ r.id \in [IdIdx -> Octet]
          /\ r.key \in Keys /\ r.defect \in Defects
    /\ Statuses \subseteq Octet /\ Levels \subseteq Octet
    /\ Dates \subseteq [0..16 -> Octet]

(* No IV is drawn twice, nor is it what the buffers hold after a reset.      *)
ZeroIv == [i \in IvIdx |-> 0]
Fresh(ivs) == /\ ivs \in [1..MaxFrames -> [IvIdx -> Octet]]
              /\ \A n \in 1..MaxFrames : ivs[n] # ZeroIv
              /\ \A m, n \in 1..MaxFrames : ivs[m] = ivs[n] => m = n

ASSUME IvAssumption ==
    MaxFrames \in Nat /\ Fresh(ClientIvs) /\ Fresh(LockIvs)

(* AES-CTR undoes itself.                                                    *)
ASSUME CtrAssumption ==
    \A k \in Keys, i \in 0..BufSize - 1, b \in Octet, n \in 1..MaxFrames :
        \A iv \in {ClientIvs[n], LockIvs[n]} :
            /\ Ctr(k, iv, i, b) \in Octet
            /\ Ctr(k, iv, i, Ctr(k, iv, i, b)) = b

VARIABLES
    pc, frames,              \* frames: how many were written
    asked,                   \* the request of this exchange
    rightKey,                \* history: it was encrypted with the key in use
    verdict,                 \* what became of it
    faulted,                 \* history: a library call of this exchange failed
    Key,                     \* the key in use
    BlemsgBuf, BlemsgLength, BLEivBuf, BLEPrevivBuf,
    BLEencryptBuf, BLEencryptBufLen, BLEdecryptBuf,
    fields,                  \* BLEuniqueId, datatype, msgid, Data, dataLen
    answer,                  \* what the answer is to say
    msgBuf, TxivBuf, TxEnCryptMsg, TxCpltMsg, TxCpltMsgLen,
    wire                     \* history: IV and ciphertext of the notifications
rxVars   == <<BlemsgBuf, BlemsgLength, BLEivBuf, BLEPrevivBuf, BLEencryptBuf,
              BLEencryptBufLen, BLEdecryptBuf, fields>>
txVars   == <<answer, msgBuf, TxivBuf, TxEnCryptMsg, TxCpltMsg, TxCpltMsgLen, wire>>
askVars  == <<frames, asked, rightKey>>
vars     == <<pc, askVars, verdict, faulted, Key, rxVars, txVars, cryptoVars>>

Init ==
    /\ CryptoInit
    /\ pc = "idle" /\ frames = 0 /\ asked = {} /\ verdict = "none"
    /\ rightKey = FALSE /\ faulted = FALSE /\ Key = FirstKey
    /\ BlemsgBuf = ZeroBuffer /\ BlemsgLength = 0
    /\ BLEivBuf = ZeroIv /\ BLEPrevivBuf = ZeroIv
    /\ BLEencryptBuf = ZeroBuffer /\ BLEencryptBufLen = 0 /\ BLEdecryptBuf = ZeroBuffer
    /\ fields = [id |-> [i \in IdIdx |-> 0], type |-> 0, msgid |-> 0,
                 data |-> ZeroBuffer, dataLen |-> 0]
    /\ answer = {} /\ msgBuf = ZeroBuffer /\ TxivBuf = ZeroIv
    /\ TxEnCryptMsg = ZeroBuffer /\ TxCpltMsg = ZeroBuffer /\ TxCpltMsgLen = 0
    /\ wire = {}
-----------------------------------------------------------------------------
(* The client builds its frame with the documented layout.  A mark that is   *)
(* missing is SOH, as the one of the inner message is in the example of the  *)
(* documents, and the SOH is a NUL; the lengths fit into their low bytes.    *)
Spoilt(f, at) ==
    [i \in DOMAIN f |-> IF i = at THEN IF f[i] = SOH THEN NUL ELSE SOH ELSE f[i]]

InnerSpot(r) ==
    CASE r.defect = "stx"           -> 0
      [] r.defect = "inner_em1"     -> 9
      [] r.defect = "inner_em2"     -> 11
      [] r.defect = "inner_em3"     -> 13
      [] r.defect = "inner_last_em" -> 14 + r.n
      [] r.defect = "inner_length"  -> 15 + r.n
      [] r.defect = "etx"           -> 17 + r.n
      [] r.defect = "inner_eot"     -> 18 + r.n
      [] OTHER                      -> -1

InnerOf(r) ==
    Spoilt(InnerFrame(r.id, r.type, r.msgid, r.data, r.n, r.announced), InnerSpot(r))

OuterSpot(r) ==
    CASE r.defect = "soh"     -> 0
      [] r.defect = "em"      -> 17
      [] r.defect = "last_em" -> 18 + InnerLen(r.n)
      [] r.defect = "length"  -> 19 + InnerLen(r.n)
      [] r.defect = "eot"     -> 21 + InnerLen(r.n)
      [] OTHER                -> -1

FrameOf(r, iv) ==
    LET n == InnerLen(r.n)
        f == OuterFrame(iv, [i \in 0..n - 1 |-> Ctr(r.key, iv, i, InnerOf(r)[i])], n)
    IN Spoilt([f EXCEPT ![20 + n] = n + r.surplus], OuterSpot(r))

(* on_data_received copies the frame over the one before and puts a zero     *)
(* behind it.                                                                *)
Received(buf, frame, len) ==
    [i \in DOMAIN buf |-> IF i < len THEN frame[i] ELSE IF i = len THEN 0 ELSE buf[i]]

Write ==
    /\ pc = "idle"
    /\ frames < MaxFrames
    /\ frames' = frames + 1
    /\ \E r \in Requests :
          /\ asked' = r /\ rightKey' = (r.key = Key)
          /\ BlemsgLength' = OuterLen(InnerLen(r.n))
          /\ BlemsgBuf' = Received(BlemsgBuf, FrameOf(r, ClientIvs[frames']), BlemsgLength')
    /\ verdict' = "none" /\ faulted' = FALSE
    /\ pc' = "received"
    /\ UNCHANGED <<Key, BLEivBuf, BLEPrevivBuf, BLEencryptBuf, BLEencryptBufLen,
                   BLEdecryptBuf, fields, txVars, cryptoVars>>

(* bib_parseMainMsg and the comparison of the IV with the last one.          *)
ParseMain ==
    /\ pc = "received"
    /\ LET m == bib_parseMainMsg(BlemsgBuf, BlemsgLength, BLEivBuf, BLEencryptBuf,
                                 BLEencryptBufLen)
           accepted == m.ok /\ m.iv # BLEPrevivBuf
       IN /\ BLEivBuf' = m.iv
          /\ BLEencryptBuf' = m.cipher
          /\ BLEencryptBufLen' = m.cipherLen
          /\ BLEPrevivBuf' = IF accepted THEN m.iv ELSE BLEPrevivBuf
          /\ pc' = IF accepted THEN "rx_import" ELSE "idle"
          /\ verdict' = IF accepted THEN "none" ELSE "dropped"
    /\ UNCHANGED <<askVars, faulted, Key, BlemsgBuf, BlemsgLength, BLEdecryptBuf, fields,
                   txVars, cryptoVars>>

(* cryptoapp_run, for decryption and for encryption.  Its result is ignored. *)
CryptoStep(to) ==
    /\ pc' = to
    /\ UNCHANGED <<askVars, verdict, Key>>
CallFailed == faults' # faults \/ key_id' = NoKey

ImportKey ==
    /\ pc \in {"rx_import", "tx_import"}
    /\ cryptoapp_importKey(Key, 16)
    /\ faulted' = (faulted \/ CallFailed)
    /\ CryptoStep(IF pc = "rx_import" THEN "rx_cipher" ELSE "tx_cipher")
    /\ UNCHANGED <<rxVars, txVars>>

Decrypt ==
    /\ pc = "rx_cipher"
    /\ cryptoapp_decryptMsg(BLEencryptBuf, BLEencryptBufLen, BLEdecryptBuf,
                            BLEdecryptBuf', BLEivBuf)
    /\ faulted' = (faulted \/ CallFailed)
    /\ CryptoStep("rx_finish")
    /\ UNCHANGED <<BlemsgBuf, BlemsgLength, BLEivBuf, BLEPrevivBuf, BLEencryptBuf,
                   BLEencryptBufLen, fields, txVars>>

Encrypt ==
    /\ pc = "tx_cipher"
    /\ cryptoapp_encryptMsg(msgBuf, InnerLen(answer.n), TxEnCryptMsg, TxEnCryptMsg',
                            TxivBuf, TxivBuf')
    /\ faulted' = (faulted \/ CallFailed)
    /\ CryptoStep("tx_finish")
    /\ UNCHANGED <<rxVars, answer, msgBuf, TxCpltMsg, TxCpltMsgLen, wire>>

DestroyKey ==
    /\ pc \in {"rx_finish", "key_finish", "tx_finish"}
    /\ cryptoapp_finish
    /\ CryptoStep(CASE pc = "rx_finish"  -> "parse_inner"
                    [] pc = "key_finish" -> "answer"
                    [] pc = "tx_finish"  -> "notify")
    /\ UNCHANGED <<faulted, rxVars, txVars>>

(* bib_parseInnerMsg, strcmp of the ids and the switch on the command.  The  *)
(* fields lie one behind the other in memory.                                *)
Commands == {<<1, 1>>, <<1, 2>>, <<2, 1>>, <<2, 2>>, <<3, 17>>, <<3, 33>>,
             <<3, 18>>, <<3, 34>>}

SetKeyCode == <<3, 33>>

MemoryFrom(f) ==
    [i \in 0..BufSize + 17 |->
        CASE i \in 0..7  -> f.id[i]
          [] i \in 8..15 -> uniqueId[i - 8]
          [] i = 16      -> f.type
          [] i = 17      -> f.msgid
          [] OTHER       -> f.data[i - 18]]

ParseInner ==
    /\ pc = "parse_inner"
    /\ LET m == bib_parseInnerMsg(BLEdecryptBuf, BLEencryptBufLen, fields.id, fields.type,
                                  fields.msgid, fields.data, fields.dataLen)
       IN /\ fields' = [id |-> m.id, type |-> m.type, msgid |-> m.msgid,
                         data |-> m.data, dataLen |-> m.dataLen]
          /\ verdict' = IF /\ m.ok /\ SameString(MemoryFrom(m), 0, 8)
                           /\ <<m.type, m.msgid>> \in Commands
                        THEN "command" ELSE "nack"
    /\ pc' = IF verdict' = "command" /\ <<fields'.type, fields'.msgid>> = SetKeyCode
             THEN "key_import" ELSE "answer"
    /\ UNCHANGED <<askVars, faulted, Key, BlemsgBuf, BlemsgLength, BLEivBuf, BLEPrevivBuf,
                   BLEencryptBuf, BLEencryptBufLen, BLEdecryptBuf, txVars, cryptoVars>>

(* SETENCRYPTIONKEY tries the key out before it takes it.  (Sixteen bytes    *)
(* are a key in circulation.)                                                *)
KeyIn(data) == [i \in IvIdx |-> data[i]]

TryKey ==
    /\ pc = "key_import"
    /\ fields.dataLen = 16 => KeyIn(fields.data) \in Keys
    /\ cryptoapp_importKey(KeyIn(fields.data), fields.dataLen)
    /\ IF key_id' # NoKey
       THEN Key' = KeyIn(fields.data) /\ UNCHANGED verdict
       ELSE UNCHANGED Key /\ verdict' = "nack"
    /\ faulted' = (faulted \/ faults' # faults \/ live = Slots)
    /\ pc' = "key_finish"
    /\ UNCHANGED <<askVars, rxVars, txVars>>

-----------------------------------------------------------------------------
(* The answers.  GETENCRYPTIONKEY announces one byte more than it carries.   *)
AckNack(kind)   == Message(uniqueId, 4, kind, NoData, 1, 0)
StatusMsg(k, b) == Message(uniqueId, 2, k, [i \in {0} |-> b], 1, 1)
DateMsg(d)      == Message(uniqueId, 3, 18, d, 17, 17)
KeyMsg          == Message(uniqueId, 3, 34, Key, 16, 17)
ACK  == 6
NACK == 21

AnswersTo(code) ==
    CASE verdict = "nack"  -> {AckNack(NACK)}
      [] code = <<2, 1>>   -> {StatusMsg(1, b) : b \in Statuses}
      [] code = <<2, 2>>   -> {StatusMsg(2, b) : b \in Levels}
      [] code = <<3, 18>>  -> {DateMsg(d) : d \in Dates}
      [] code = <<3, 34>>  -> {KeyMsg}
      [] code = <<3, 17>>  -> {AckNack(ACK), AckNack(NACK)}
      [] OTHER             -> {AckNack(ACK)}

(* The message is written over the one before.                               *)
BuildAnswer ==
    /\ pc = "answer"
    /\ \E a \in AnswersTo(<<fields.type, fields.msgid>>) :
          /\ answer' = a
          /\ msgBuf' = Copied(msgBuf, InnerFrame(a.id, a.type, a.msgid, a.data, a.n,
                                                 a.announced), 0, InnerLen(a.n))
    /\ pc' = "tx_import"
    /\ UNCHANGED <<askVars, verdict, faulted, Key, rxVars, TxivBuf, TxEnCryptMsg, TxCpltMsg,
                   TxCpltMsgLen, wire, cryptoVars>>

(* Faulty variant of Notify: the loop that copies the ciphertext ends one    *)
(* byte early.                                                               *)
Notify_OneShort ==
    /\ pc = "notify"
    /\ LET n == InnerLen(answer.n)
           f == OuterFrame(TxivBuf, TxEnCryptMsg, n)
       IN /\ TxCpltMsgLen' = OuterLen(n)
          /\ TxCpltMsg' = Copied(TxCpltMsg, [f EXCEPT ![17 + n] = TxCpltMsg[17 + n]], 0,
                                 OuterLen(n))
          /\ wire' = wire \cup {[iv |-> [i \in IvIdx |-> TxCpltMsg'[i + 1]], len |-> n,
                                 cipher |-> [i \in 0..n - 1 |-> TxCpltMsg'[i + 18]]]}
    /\ pc' = "idle"
    /\ UNCHANGED <<askVars, verdict, faulted, Key, rxVars, answer, msgBuf, TxivBuf,
                   TxEnCryptMsg, cryptoVars>>

(* send_lock_notification_text of the framed ciphertext.                     *)
Notify ==
    /\ pc = "notify"
    /\ LET n == InnerLen(answer.n) IN
          /\ TxCpltMsgLen' = OuterLen(n)
          /\ TxCpltMsg' = Copied(TxCpltMsg, OuterFrame(TxivBuf, TxEnCryptMsg, n), 0, OuterLen(n))
          /\ wire' = wire \cup {[iv |-> [i \in IvIdx |-> TxCpltMsg'[i + 1]], len |-> n,
                                 cipher |-> [i \in 0..n - 1 |-> TxCpltMsg'[i + 18]]]}
    /\ pc' = "idle"
    /\ UNCHANGED <<askVars, verdict, faulted, Key, rxVars, answer, msgBuf, TxivBuf,
                   TxEnCryptMsg, cryptoVars>>

Next == \/ Write \/ ParseMain \/ ImportKey \/ Decrypt \/ Encrypt \/ DestroyKey
        \/ ParseInner \/ TryKey \/ BuildAnswer \/ Notify

Spec == Init /\ [][Next]_vars
-----------------------------------------------------------------------------
(* What a message under the key of the lock says is understood as it was     *)
(* meant, whatever earlier frames have left in the buffers, if all is right  *)
(* that the parsers look at; if a mark or length they look at is wrong, it   *)
(* is not taken for a command.  A frame that announces more ciphertext than  *)
(* it holds may be taken for a command, but for no other than its own        *)
(* (bib_parseMainMsg, bib_parseInnerMsg and MSG_RECV of main.c).             *)
Sound(r) == r.defect \notin Noticed /\ r.surplus = 0 /\ rightKey
SaysWho(f, r)  == f.id = r.id /\ f.type = r.type /\ f.msgid = r.msgid
SaysWhat(f, r) ==
    /\ SaysWho(f, r)
    /\ f.dataLen = r.announced
    /\ \A i \in 0..r.announced - 1 : i < r.n => f.data[i] = r.data[i]

(* To strcmp an id is over at its first zero byte.                           *)
SameId(a, b) == \E k \in IdIdx : a[k] = 0 /\ \A j \in 0..k : a[j] = b[j]
IsCommand(r) ==
    /\ SameId(r.id, uniqueId) /\ <<r.type, r.msgid>> \in Commands
    /\ <<r.type, r.msgid>> = SetKeyCode => r.announced = 16

FrameUnderstood ==
    /\ pc = "answer" /\ ~faulted /\ Sound(asked) =>
         /\ SaysWhat(fields, asked)
         /\ verdict = IF IsCommand(asked) THEN "command" ELSE "nack"
    /\ pc = "answer" /\ ~faulted /\ rightKey =>
         /\ asked.defect \in Noticed => verdict = "nack"
         /\ verdict = "command" => SaysWho(fields, asked)
    /\ verdict = "dropped" => asked.defect \in OuterNoticed

(* Who parses a notification the way the lock parses a frame learns what the *)
(* lock had to say, whatever it said before (the answers of main.c).  The    *)
(* key is read with the byte too many that is announced behind it.           *)
ClientReads ==
    LET o == bib_parseMainMsg(TxCpltMsg, TxCpltMsgLen, ZeroIv, ZeroBuffer, 0)
        p == Ciphered(Key, o.iv, o.cipher, o.cipherLen, ZeroBuffer)
    IN bib_parseInnerMsg(p, o.cipherLen, [i \in IdIdx |-> 0], 0, 0, ZeroBuffer, 0)
Answered == pc = "idle" /\ verdict \in {"command", "nack"}

AnswerUnderstood ==
    Answered /\ ~faulted => ClientReads.ok /\ SaysWhat(ClientReads, answer)

(* The lock never encrypts two messages with the same IV under its key,      *)
(* whatever library call fails (cryptoapp_encryptMsg): what two              *)
(* notifications with the same IV carry is the same ciphertext.              *)
NoKeystreamReuse ==
    \A a, b \in wire :
        a.iv = b.iv => \A i \in 0..a.len - 1 : i < b.len => a.cipher[i] = b.cipher[i]

(* No key slot of the library is lost unless the library fails to destroy a  *)
(* key: between two messages none is in use (cryptoapp_finish).              *)
KeysReleased == pc \in {"idle", "answer"} => live = lost

(* "Lock processes the encrypted data check everything and if everything     *)
(* checksout sends an Encrypted ACK" (SmartLock application side.drawio:308):*)
(* a command that is carried out is the one the frame holds.                 *)
CommandIsFromFrame == verdict = "command" => SaysWho(fields, asked)
=============================================================================
