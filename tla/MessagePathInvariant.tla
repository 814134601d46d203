------------------------ MODULE MessagePathInvariant ------------------------
(* The inductive invariant behind the properties of MessagePath.             *)
EXTENDS MessagePath

RxPcs     == {"rx_import", "rx_cipher", "rx_finish", "parse_inner"}
KeyPcs    == {"key_import", "key_finish"}
TxPcs     == {"tx_import", "tx_cipher", "tx_finish", "notify"}
HandlePcs == {"rx_cipher", "rx_finish", "key_finish", "tx_cipher", "tx_finish"}

Types ==
    /\ pc \in {"idle", "received", "answer"} \cup RxPcs \cup KeyPcs \cup TxPcs
    /\ frames \in 0..MaxFrames
    /\ pc # "idle" => frames > 0 /\ asked \in Requests
    /\ rightKey \in BOOLEAN /\ faulted \in BOOLEAN
    /\ verdict \in {"none", "dropped", "command", "nack"}
    /\ pc \in {"received"} \cup RxPcs => verdict = "none"
    /\ pc \in {"answer"} \cup KeyPcs \cup TxPcs => verdict \in {"command", "nack"}
    /\ Key \in Keys
    /\ BlemsgBuf \in Buffer /\ BLEencryptBuf \in Buffer /\ BLEdecryptBuf \in Buffer
    /\ BLEivBuf \in [IvIdx -> Octet] /\ BLEPrevivBuf \in [IvIdx -> Octet]
    /\ BLEencryptBufLen \in Nat
    /\ fields \in [id : [IdIdx -> Octet], type : Octet, msgid : Octet,
                   data : Buffer, dataLen : Nat]
    /\ msgBuf \in Buffer /\ TxEnCryptMsg \in Buffer /\ TxCpltMsg \in Buffer
    /\ TxivBuf \in [IvIdx -> Octet]

(* What is handed to the library comes back, and without a failing call the  *)
(* handle names the key in use.                                              *)
HandleInv ==
    /\ key_id \in Keys \cup {NoKey} /\ live \in Nat /\ lost \in Nat /\ faults \in Nat
    /\ live = lost + (IF pc \in HandlePcs /\ key_id # NoKey THEN 1 ELSE 0)
    /\ pc \in {"rx_cipher", "tx_cipher"} /\ ~faulted => key_id = Key

(* The IVs the lock has used are drawn ones or the one of the reset, and what *)
(* went out with the IV in use is the ciphertext at hand.                    *)
UsedIvs == {ZeroIv} \cup {LockIvs[m] : m \in 1..drawn}
IvInv ==
    /\ drawn \in 0..frames
    /\ pc \notin {"idle", "tx_finish", "notify"} => drawn < frames
    /\ TxivBuf \in UsedIvs
    /\ \A w \in wire :
          /\ w.iv \in UsedIvs
          /\ w.len \in Nat
          /\ w.iv = TxivBuf => \A i \in 0..w.len - 1 : w.cipher[i] = TxEnCryptMsg[i]
    /\ NoKeystreamReuse

(* What the buffers of the receiving side hold of the frame.                 *)
Holds(buf, n, f) == \A i \in 0..n - 1 : buf[i] = f[i]
AskedLen == InnerLen(asked.n)
OldIvs == {ZeroIv} \cup {ClientIvs[m] : m \in 1..(IF pc = "received" THEN frames - 1 ELSE frames)}
RxInv ==
    /\ BLEPrevivBuf \in OldIvs
    /\ pc \in {"received"} \cup RxPcs => rightKey = (asked.key = Key)
    /\ pc = "received" =>
         /\ BlemsgLength = OuterLen(AskedLen)
         /\ Holds(BlemsgBuf, BlemsgLength, FrameOf(asked, ClientIvs[frames]))
    /\ pc \in RxPcs =>
         BLEencryptBufLen = AskedLen + asked.surplus /\ asked.defect \notin OuterNoticed
    /\ pc \in {"rx_import", "rx_cipher"} =>
         /\ BLEivBuf = ClientIvs[frames]
         /\ \A i \in 0..AskedLen - 1 :
               BLEencryptBuf[i] = Ctr(asked.key, ClientIvs[frames], i, InnerOf(asked)[i])
    /\ pc \in {"rx_finish", "parse_inner"} /\ ~faulted /\ rightKey =>
         Holds(BLEdecryptBuf, AskedLen, InnerOf(asked))
    /\ verdict = "dropped" => asked.defect \in OuterNoticed

(* What is known of the frame once it is parsed.                             *)
ParsedInv ==
    /\ pc \in {"answer"} \cup KeyPcs /\ ~faulted /\ Sound(asked) => SaysWhat(fields, asked)
    /\ pc = "key_import" => verdict = "command"
    /\ pc = "key_import" /\ ~faulted /\ Sound(asked) =>
         SameId(asked.id, uniqueId) /\ <<asked.type, asked.msgid>> = SetKeyCode
    /\ pc \in {"answer", "key_finish"} /\ ~faulted /\ Sound(asked) =>
         verdict = IF IsCommand(asked) THEN "command" ELSE "nack"
    /\ pc \in {"answer"} \cup KeyPcs /\ ~faulted /\ rightKey =>
         /\ asked.defect \in Noticed => pc = "answer" /\ verdict = "nack"
         /\ verdict = "command" => SaysWho(fields, asked)

(* What the buffers of the sending side hold of the answer.                  *)
AnswerFrame == InnerFrame(answer.id, answer.type, answer.msgid, answer.data, answer.n,
                          answer.announced)
AnswerLen == InnerLen(answer.n)
AnswerOk ==
    /\ answer.n \in 1..17
    /\ answer.id = uniqueId /\ answer.type \in Octet /\ answer.msgid \in Octet
    /\ answer.data \in [0..answer.n - 1 -> Octet]
    /\ answer.announced \in 0..17
    /\ answer.announced > answer.n => answer = KeyMsg
TxInv ==
    /\ pc \in TxPcs \/ Answered => AnswerOk
    /\ pc \in {"tx_import", "tx_cipher"} => Holds(msgBuf, AnswerLen, AnswerFrame)
    /\ (pc \in {"tx_finish", "notify"} \/ Answered) /\ ~faulted =>
         /\ \E m \in 1..drawn : TxivBuf = LockIvs[m]
         /\ \A i \in 0..AnswerLen - 1 :
               TxEnCryptMsg[i] = Ctr(Key, TxivBuf, i, AnswerFrame[i])
    /\ Answered =>
         /\ TxCpltMsgLen = OuterLen(AnswerLen)
         /\ Holds(TxCpltMsg, TxCpltMsgLen, OuterFrame(TxivBuf, TxEnCryptMsg, AnswerLen))

MPInv == Types /\ HandleInv /\ IvInv /\ RxInv /\ ParsedInv /\ TxInv
=============================================================================
