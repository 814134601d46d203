--------------------------------- MODULE Bib ---------------------------------
(* The layout of the messages and their parsers (System/bib.c), byte by      *)
(* byte.  A C array is a function from its indices.                          *)
EXTENDS Integers

CONSTANT BufSize       \* the size of the message buffers, 255 in the code

ASSUME BibAssumption == BufSize \in 64..256

NUL == 0
SOH == 1
STX == 2
ETX == 3
EOT == 4
EM  == 25

Octet  == 0..255
IvIdx  == 0..15
IdIdx  == 0..7
Buffer == [0..BufSize - 1 -> Octet]
ZeroBuffer == [i \in 0..BufSize - 1 |-> 0]

(* memcpy(dst, &src[from], n).                                               *)
Copied(dst, src, from, n) ==
    [i \in DOMAIN dst |-> IF i < n THEN src[from + i] ELSE dst[i]]

(* Faulty variant of ReadLength: the low byte first.                         *)
ReadLength_LittleEndian(msg, at) == 256 * msg[at + 1] + msg[at]

(* Two bytes of a message, the high one first.                               *)
ReadLength(msg, at) == 256 * msg[at] + msg[at + 1]

(* The frame that is written to the lock or notified by it: SOH, IV, EM, n   *)
(* bytes of ciphertext, EM, their number, EOT.                               *)
OuterLen(n) == n + 22
OuterFrame(iv, cipher, n) ==
    [i \in 0..n + 21 |->
        CASE i = 0             -> SOH
          [] i \in 1..16       -> iv[i - 1]
          [] i = 17            -> EM
          [] i \in 18..17 + n  -> cipher[i - 18]
          [] i = 18 + n        -> EM
          [] i = 19 + n        -> n \div 256
          [] i = 20 + n        -> n % 256
          [] i = 21 + n        -> EOT]

(* The message in it: STX, id, EM, data type, EM, message id, EM, n bytes of *)
(* data, EM, the number announced for them, ETX, EOT.                        *)
InnerLen(n) == n + 19
InnerFrame(id, type, msgid, data, n, announced) ==
    [i \in 0..n + 18 |->
        CASE i = 0                       -> STX
          [] i \in 1..8                  -> id[i - 1]
          [] i \in {9, 11, 13, 14 + n}   -> EM
          [] i = 10                      -> type
          [] i = 12                      -> msgid
          [] i \in 14..13 + n            -> data[i - 14]
          [] i = 15 + n                  -> announced \div 256
          [] i = 16 + n                  -> announced % 256
          [] i = 17 + n                  -> ETX
          [] i = 18 + n                  -> EOT]

(* The outer parser, with what it leaves in its output arguments.            *)
bib_parseMainMsg(msg, len, iv, cipher, cipherLen) ==
    LET announced == ReadLength(msg, len - 3)
        framed    == msg[0] = SOH /\ msg[len - 1] = EOT
        separated == framed /\ msg[17] = EM
        fits      == separated /\ announced < len
    IN [ok        |-> fits,
        iv        |-> IF framed THEN Copied(iv, msg, 1, 16) ELSE iv,
        cipherLen |-> IF separated THEN announced ELSE cipherLen,
        cipher    |-> IF fits THEN Copied(cipher, msg, 18, announced) ELSE cipher]

(* Faulty variant of bib_parseInnerMsg: the data are taken from the          *)
(* separator before them.                                                    *)
bib_parseInnerMsg_FromSeparator(msg, len, id, type, msgid, data, dataLen) ==
    LET announced == ReadLength(msg, len - 4)
        framed    == msg[0] = STX /\ msg[len - 1] = EOT
        afterId   == framed /\ msg[9] = EM
        afterType == afterId /\ msg[11] = EM
        afterMsg  == afterType /\ msg[13] = EM
        fits      == afterMsg /\ announced < len
    IN [ok      |-> fits,
        id      |-> IF framed THEN Copied(id, msg, 1, 8) ELSE id,
        type    |-> IF afterId THEN msg[10] ELSE type,
        msgid   |-> IF afterType THEN msg[12] ELSE msgid,
        dataLen |-> IF afterMsg THEN announced ELSE dataLen,
        data    |-> IF fits THEN Copied(data, msg, 13, announced) ELSE data]

(* The inner parser.  Each field is stored before the separator behind it is *)
(* looked at.                                                                *)
bib_parseInnerMsg(msg, len, id, type, msgid, data, dataLen) ==
    LET announced == ReadLength(msg, len - 4)
        framed    == msg[0] = STX /\ msg[len - 1] = EOT
        afterId   == framed /\ msg[9] = EM
        afterType == afterId /\ msg[11] = EM
        afterMsg  == afterType /\ msg[13] = EM
        fits      == afterMsg /\ announced < len
    IN [ok      |-> fits,
        id      |-> IF framed THEN Copied(id, msg, 1, 8) ELSE id,
        type    |-> IF afterId THEN msg[10] ELSE type,
        msgid   |-> IF afterType THEN msg[12] ELSE msgid,
        dataLen |-> IF afterMsg THEN announced ELSE dataLen,
        data    |-> IF fits THEN Copied(data, msg, 14, announced) ELSE data]

(* strcmp(&memory[p], &memory[q]) = 0.                                       *)
SameString(memory, p, q) ==
    \E k \in DOMAIN memory :
        /\ p + k \in DOMAIN memory /\ q + k \in DOMAIN memory
        /\ memory[p + k] = 0
        /\ \A j \in 0..k : memory[p + j] = memory[q + j]
=============================================================================
