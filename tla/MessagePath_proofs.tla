------------------------- MODULE MessagePath_proofs -------------------------
(* Proofs about MessagePath: what the parsers make of documented frames, the  *)
(* inductive invariant MPInv, and the properties it implies.  They hold for   *)
(* every buffer size, id, key, IV and request the assumptions allow, and for  *)
(* any cipher that undoes itself.                                            *)
EXTENDS MessagePathInvariant, TLAPS

-----------------------------------------------------------------------------
(* Messages and their parsers: round trips.                                *)

(* The bytes of a frame by position.                                         *)
LEMMA OuterAt ==
    ASSUME NEW n \in Nat, n > 0, NEW iv, NEW cipher
    PROVE  LET f == OuterFrame(iv, cipher, n) IN
           /\ f[0] = SOH /\ f[17] = EM /\ f[n + 21] = EOT
           /\ f[n + 19] = n \div 256 /\ f[n + 20] = n % 256
           /\ \A i \in IvIdx : f[i + 1] = iv[i]
           /\ \A i \in 0..n - 1 : f[i + 18] = cipher[i]
<1> DEFINE f == OuterFrame(iv, cipher, n)
<1>1. f[0] = SOH /\ f[17] = EM
  BY DEF OuterFrame
<1>2. f[n + 21] = EOT /\ f[n + 19] = n \div 256 /\ f[n + 20] = n % 256
  BY DEF OuterFrame
<1>3. ASSUME NEW i \in IvIdx  PROVE f[i + 1] = iv[i]
  <2> DEFINE j == i + 1
  <2>1. /\ j \in 1..16 /\ j \in 0..n + 21 /\ j - 1 = i
        /\ j \notin {0, 17, 18 + n, 19 + n, 20 + n, 21 + n} /\ j \notin 18..17 + n
    BY DEF IvIdx
  <2> HIDE DEF j
  <2>2. f[j] = iv[j - 1]
    BY <2>1 DEF OuterFrame
  <2> QED
    BY <2>1, <2>2 DEF j
<1>4. ASSUME NEW i \in 0..n - 1  PROVE f[i + 18] = cipher[i]
  <2> DEFINE j == i + 18
  <2>1. /\ j \in 18..17 + n /\ j \in 0..n + 21 /\ j - 18 = i
        /\ j \notin {0, 17, 18 + n, 19 + n, 20 + n, 21 + n} /\ j \notin 1..16
    OBVIOUS
  <2> HIDE DEF j
  <2>2. f[j] = cipher[j - 18]
    BY <2>1 DEF OuterFrame
  <2> QED
    BY <2>1, <2>2 DEF j
<1> QED
  BY <1>1, <1>2, <1>3, <1>4
(* The bytes of a message by position.                                       *)
LEMMA InnerAt ==
    ASSUME NEW n \in Nat, n > 0, NEW id, NEW type, NEW msgid, NEW data, NEW announced
    PROVE  LET f == InnerFrame(id, type, msgid, data, n, announced) IN
           /\ f[0] = STX /\ f[9] = EM /\ f[11] = EM /\ f[13] = EM
           /\ f[10] = type /\ f[12] = msgid
           /\ f[n + 15] = announced \div 256 /\ f[n + 16] = announced % 256
           /\ f[n + 18] = EOT
           /\ \A i \in IdIdx : f[i + 1] = id[i]
           /\ \A i \in 0..n : i < n => f[i + 14] = data[i]
<1> DEFINE f == InnerFrame(id, type, msgid, data, n, announced)
<1>1. f[0] = STX /\ f[9] = EM /\ f[11] = EM /\ f[13] = EM
  BY DEF InnerFrame
<1>2. f[10] = type /\ f[12] = msgid
  BY DEF InnerFrame
<1>3. f[n + 15] = announced \div 256 /\ f[n + 16] = announced % 256 /\ f[n + 18] = EOT
  BY DEF InnerFrame
<1>4. ASSUME NEW i \in IdIdx  PROVE f[i + 1] = id[i]
  <2> DEFINE j == i + 1
  <2>1. /\ j \in 1..8 /\ j \in 0..n + 18 /\ j - 1 = i
        /\ j \notin {0, 9, 11, 13, 14 + n, 10, 12, 15 + n, 16 + n, 17 + n, 18 + n}
        /\ j \notin 14..13 + n
    BY DEF IdIdx
  <2> HIDE DEF j
  <2>2. f[j] = id[j - 1]
    BY <2>1 DEF InnerFrame
  <2> QED
    BY <2>1, <2>2 DEF j
<1>5. ASSUME NEW i \in 0..n - 1  PROVE f[i + 14] = data[i]
  <2> DEFINE j == i + 14
  <2>1. /\ j \in 14..13 + n /\ j \in 0..n + 18 /\ j - 14 = i
        /\ j \notin {0, 9, 11, 13, 14 + n, 10, 12, 15 + n, 16 + n, 17 + n, 18 + n}
        /\ j \notin 1..8
    OBVIOUS
  <2> HIDE DEF j
  <2>2. f[j] = data[j - 14]
    BY <2>1 DEF InnerFrame
  <2> QED
    BY <2>1, <2>2 DEF j
<1> QED
  BY <1>1, <1>2, <1>3, <1>4, <1>5
(* A length below 256 sits in the low byte.                                  *)
LEMMA OctetLength == \A n \in Octet : n \div 256 = 0 /\ n % 256 = n
  BY DEF Octet

(* The outer parser finds IV and ciphertext of a documented frame.           *)
LEMMA MainRoundTrip ==
    ASSUME NEW n \in 1..BufSize - 22, NEW iv \in [IvIdx -> Octet], NEW cipher,
           NEW msg \in Buffer, Holds(msg, n + 22, OuterFrame(iv, cipher, n)),
           NEW iv0 \in [IvIdx -> Octet], NEW c0 \in Buffer, NEW l0,
           NEW p, p = bib_parseMainMsg(msg, n + 22, iv0, c0, l0)
    PROVE  p.ok /\ p.iv = iv /\ p.cipherLen = n /\ Holds(p.cipher, n, cipher)
<1> DEFINE f == OuterFrame(iv, cipher, n)
<1>0. n \in Nat /\ n > 0 /\ n \in Octet /\ n <= BufSize - 22 /\ BufSize \in Nat
  BY BibAssumption DEF Octet
<1>1. /\ f[0] = SOH /\ f[17] = EM /\ f[n + 21] = EOT
      /\ f[n + 19] = 0 /\ f[n + 20] = n
      /\ \A i \in IvIdx : f[i + 1] = iv[i]
      /\ \A i \in 0..n - 1 : f[i + 18] = cipher[i]
  BY <1>0, OuterAt, OctetLength
<1> HIDE DEF f
<1>h. \A i \in 0..n + 21 : msg[i] = f[i]
  BY <1>0 DEF Holds, f
<1>a. msg[0] = SOH /\ msg[17] = EM /\ msg[n + 21] = EOT
  BY <1>0, <1>1, <1>h
<1>b. \A i \in IvIdx : msg[i + 1] = iv[i]
  BY <1>0, <1>1, <1>h DEF IvIdx
<1>c. \A i \in 0..n - 1 : msg[i + 18] = cipher[i]
  BY <1>0, <1>1, <1>h
<1>d. msg[n + 19] = 0 /\ msg[n + 20] = n
  BY <1>0, <1>1, <1>h
<1>e. (n + 22) - 3 = n + 19 /\ (n + 19) + 1 = n + 20 /\ (n + 22) - 1 = n + 21 /\ n < n + 22
  BY <1>0
<1>2. ReadLength(msg, (n + 22) - 3) = n
  BY <1>0, <1>d, <1>e DEF ReadLength
<1>3. p.ok /\ p.cipherLen = n
  BY <1>a, <1>e, <1>2 DEF bib_parseMainMsg
<1>4. p.iv = Copied(iv0, msg, 1, 16)
  BY <1>a, <1>e DEF bib_parseMainMsg
<1>5. p.iv = iv
  BY <1>b, <1>4 DEF Copied, IvIdx
<1>6. p.cipher = Copied(c0, msg, 18, n)
  BY <1>a, <1>e, <1>2 DEF bib_parseMainMsg
<1>7. Holds(p.cipher, n, cipher)
  BY <1>0, <1>c, <1>6 DEF Holds, Copied, Buffer
<1> QED
  BY <1>3, <1>5, <1>7

(* The inner parser finds the fields of a documented message.                *)
LEMMA InnerRoundTrip ==
    ASSUME NEW n \in 1..BufSize - 41, NEW id \in [IdIdx -> Octet], NEW type, NEW msgid,
           NEW data, NEW announced \in Octet, announced < n + 19,
           NEW msg \in Buffer,
           Holds(msg, n + 19, InnerFrame(id, type, msgid, data, n, announced)),
           NEW id0 \in [IdIdx -> Octet], NEW t0, NEW m0, NEW d0 \in Buffer, NEW l0,
           NEW p, p = bib_parseInnerMsg(msg, n + 19, id0, t0, m0, d0, l0)
    PROVE  /\ p.ok /\ p.id = id /\ p.type = type /\ p.msgid = msgid
           /\ p.dataLen = announced
           /\ \A i \in 0..announced - 1 : i < n => p.data[i] = data[i]
<1> DEFINE f == InnerFrame(id, type, msgid, data, n, announced)
<1>0. /\ n \in Nat /\ n > 0 /\ n <= BufSize - 41 /\ BufSize \in Nat
      /\ announced \in Nat
  BY BibAssumption DEF Octet
<1>1. /\ f[0] = STX /\ f[9] = EM /\ f[11] = EM /\ f[13] = EM
      /\ f[10] = type /\ f[12] = msgid
      /\ f[n + 15] = 0 /\ f[n + 16] = announced
      /\ f[n + 18] = EOT
      /\ \A i \in IdIdx : f[i + 1] = id[i]
      /\ \A i \in 0..n - 1 : f[i + 14] = data[i]
  BY <1>0, InnerAt, OctetLength
<1> HIDE DEF f
<1>h. \A i \in 0..n + 18 : msg[i] = f[i]
  BY <1>0 DEF Holds, f
<1>a. /\ msg[0] = STX /\ msg[9] = EM /\ msg[11] = EM /\ msg[13] = EM
      /\ msg[10] = type /\ msg[12] = msgid /\ msg[n + 18] = EOT
  BY <1>0, <1>1, <1>h
<1>b. \A i \in IdIdx : msg[i + 1] = id[i]
  BY <1>0, <1>1, <1>h DEF IdIdx
<1>c. \A i \in 0..n - 1 : msg[i + 14] = data[i]
  BY <1>0, <1>1, <1>h
<1>d. msg[n + 15] = 0 /\ msg[n + 16] = announced
  BY <1>0, <1>1, <1>h
<1>e. (n + 19) - 4 = n + 15 /\ (n + 15) + 1 = n + 16 /\ (n + 19) - 1 = n + 18
  BY <1>0
<1>2. ReadLength(msg, (n + 19) - 4) = announced
  BY <1>0, <1>d, <1>e DEF ReadLength
<1>3. p.ok /\ p.type = type /\ p.msgid = msgid /\ p.dataLen = announced
  BY <1>a, <1>e, <1>2 DEF bib_parseInnerMsg
<1>4. p.id = Copied(id0, msg, 1, 8)
  BY <1>a, <1>e DEF bib_parseInnerMsg
<1>5. p.id = id
  BY <1>b, <1>4 DEF Copied, IdIdx
<1>6. p.data = Copied(d0, msg, 14, announced)
  BY <1>a, <1>e, <1>2 DEF bib_parseInnerMsg
<1>7. ASSUME NEW i \in 0..announced - 1, i < n  PROVE p.data[i] = data[i]
  <2>1. i \in 0..BufSize - 1 /\ i \in 0..n - 1 /\ i < announced /\ 14 + i = i + 14
    BY <1>0, <1>7
  <2>2. p.data[i] = msg[14 + i]
    BY <2>1, <1>6 DEF Copied, Buffer
  <2> QED
    BY <2>1, <2>2, <1>c
<1> QED
  BY <1>3, <1>5, <1>7

(* A frame consists of bytes.                                                *)
LEMMA OuterTyped ==
    ASSUME NEW n \in 1..BufSize - 22, NEW iv \in [IvIdx -> Octet], NEW cipher,
           \A i \in 0..n - 1 : cipher[i] \in Octet
    PROVE  \A i \in 0..n + 21 : OuterFrame(iv, cipher, n)[i] \in Octet
<1> DEFINE f == OuterFrame(iv, cipher, n)
<1>0. n \in Nat /\ n > 0 /\ n \in Octet
  BY BibAssumption DEF Octet
<1>1. /\ f[0] = SOH /\ f[17] = EM /\ f[n + 21] = EOT
      /\ f[n + 19] = 0 /\ f[n + 20] = n
      /\ \A i \in IvIdx : f[i + 1] = iv[i]
      /\ \A i \in 0..n - 1 : f[i + 18] = cipher[i]
  BY <1>0, OuterAt, OctetLength
<1>2. f[n + 18] = EM
  BY <1>0 DEF OuterFrame
<1>3. {SOH, EM, EOT} \subseteq Octet /\ 0 \in Octet
  BY DEF SOH, EM, EOT, Octet
<1> HIDE DEF f
<1>4. ASSUME NEW i \in 0..n + 21 PROVE f[i] \in Octet
  <2>1. CASE i \in {0, 17, n + 18, n + 19, n + 20, n + 21}
    BY <2>1, <1>0, <1>1, <1>2, <1>3
  <2>2. CASE i \in 1..16
    <3>1. i - 1 \in IvIdx /\ (i - 1) + 1 = i
      BY <2>2 DEF IvIdx
    <3>2. f[i] = iv[i - 1]
      BY <3>1, <1>1
    <3> QED
      BY <3>1, <3>2
  <2>3. CASE i \in 18..n + 17
    <3>1. i - 18 \in 0..n - 1 /\ (i - 18) + 18 = i
      BY <2>3, <1>0
    <3>2. f[i] = cipher[i - 18]
      BY <3>1, <1>1
    <3> QED
      BY <3>1, <3>2
  <2> QED
    BY <1>0, <2>1, <2>2, <2>3
<1> QED
  BY <1>4 DEF f

(* A message consists of bytes.                                              *)
LEMMA InnerTyped ==
    ASSUME NEW n \in 1..BufSize - 41, NEW id \in [IdIdx -> Octet], NEW type \in Octet,
           NEW msgid \in Octet, NEW data \in [0..n - 1 -> Octet], NEW announced \in Octet
    PROVE  \A i \in 0..n + 18 : InnerFrame(id, type, msgid, data, n, announced)[i] \in Octet
<1> DEFINE f == InnerFrame(id, type, msgid, data, n, announced)
<1>0. n \in Nat /\ n > 0
  BY BibAssumption DEF Octet
<1>1. /\ f[0] = STX /\ f[9] = EM /\ f[11] = EM /\ f[13] = EM
      /\ f[10] = type /\ f[12] = msgid
      /\ f[n + 15] = 0 /\ f[n + 16] = announced
      /\ f[n + 18] = EOT
      /\ \A i \in IdIdx : f[i + 1] = id[i]
      /\ \A i \in 0..n - 1 : f[i + 14] = data[i]
  BY <1>0, InnerAt, OctetLength
<1>2. f[n + 14] = EM /\ f[n + 17] = ETX
  BY <1>0 DEF InnerFrame
<1>3. {STX, EM, EOT, ETX} \subseteq Octet /\ 0 \in Octet
  BY DEF STX, EM, EOT, ETX, Octet
<1> HIDE DEF f
<1>4. ASSUME NEW i \in 0..n + 18 PROVE f[i] \in Octet
  <2>1. CASE i \in {0, 9, 10, 11, 12, 13, n + 14, n + 15, n + 16, n + 17, n + 18}
    BY <2>1, <1>0, <1>1, <1>2, <1>3
  <2>2. CASE i \in 1..8
    <3>1. i - 1 \in IdIdx /\ (i - 1) + 1 = i
      BY <2>2 DEF IdIdx
    <3>2. f[i] = id[i - 1]
      BY <3>1, <1>1
    <3> QED
      BY <3>1, <3>2
  <2>3. CASE i \in 14..n + 13
    <3>1. i - 14 \in 0..n - 1 /\ (i - 14) + 14 = i
      BY <2>3, <1>0
    <3>2. f[i] = data[i - 14]
      BY <3>1, <1>1
    <3> QED
      BY <3>1, <3>2
  <2> QED
    BY <1>0, <2>1, <2>2, <2>3
<1> QED
  BY <1>4 DEF f

(* The arithmetic of the buffer size.                                        *)
LEMMA OctetBound == BufSize - 41 \in Nat /\ BufSize \in Nat /\ BufSize - 41 < 256 /\ BufSize >= 64
  BY BibAssumption

(* The lengths a request allows.                                             *)
LEMMA LengthBound ==
    ASSUME NEW n \in 1..BufSize - 41, NEW a \in 0..n + 18, NEW x \in 0..21,
           n + 37 + x <= BufSize
    PROVE  /\ n \in Nat /\ n + 41 <= BufSize /\ a \in Octet
           /\ n + 19 \in 20..BufSize - 22 /\ n + 19 + x \in 20..BufSize - 18
<1>1. BufSize \in Nat /\ BufSize <= 256
  BY BibAssumption
<1>2. /\ n \in Nat /\ n + 41 <= BufSize /\ a \in 0..255
      /\ n + 19 \in 20..BufSize - 22 /\ n + 19 + x \in 20..BufSize - 18
  BY <1>1
<1> QED
  BY <1>2 DEF Octet

LEMMA ZeroOne == 0 \in Octet /\ 1 \in Octet
  BY DEF Octet

(* A spoilt mark is another byte, the others stay.                           *)
LEMMA SpoiltAt ==
    ASSUME NEW f, NEW at, NEW i \in DOMAIN f
    PROVE  /\ Spoilt(f, at)[i] \in {f[i], 0, 1}
           /\ i # at => Spoilt(f, at)[i] = f[i]
           /\ i = at => Spoilt(f, at)[i] # f[i]
           /\ i = at /\ f[i] # SOH => Spoilt(f, at)[i] = SOH
  BY DEF Spoilt, SOH, NUL

(* What a client may ask.                                                    *)
LEMMA RequestFacts ==
    ASSUME NEW r \in Requests
    PROVE  /\ r.n \in 1..BufSize - 41 /\ r.announced \in 0..r.n + 18
           /\ r.announced \in Octet
           /\ r.surplus \in 0..21 /\ r.n + 37 + r.surplus <= BufSize
           /\ r.surplus > 0 => r.defect = "none"
           /\ r.data \in [0..r.n - 1 -> Octet]
           /\ r.type \in Octet /\ r.msgid \in Octet
           /\ r.id \in [IdIdx -> Octet] /\ r.key \in Keys /\ r.defect \in Defects
           /\ InnerLen(r.n) = r.n + 19 /\ InnerLen(r.n) \in 20..BufSize - 22
           /\ InnerLen(r.n) + r.surplus \in 20..BufSize - 18
           /\ \A i \in 0..InnerLen(r.n) - 1 : InnerOf(r)[i] \in Octet
<1>1. /\ r.n \in 1..BufSize - 41 /\ r.announced \in 0..r.n + 18
      /\ r.surplus \in 0..21 /\ r.n + 37 + r.surplus <= BufSize
      /\ r.surplus > 0 => r.defect = "none"
      /\ r.data \in [0..r.n - 1 -> Octet]
      /\ r.type \in Octet /\ r.msgid \in Octet
      /\ r.id \in [IdIdx -> Octet] /\ r.key \in Keys /\ r.defect \in Defects
  BY MessageAssumption
<1>2. r.announced \in Octet
  BY <1>1, LengthBound
<1>3. /\ InnerLen(r.n) = r.n + 19 /\ InnerLen(r.n) \in 20..BufSize - 22
      /\ InnerLen(r.n) + r.surplus \in 20..BufSize - 18
  BY <1>1, LengthBound DEF InnerLen
<1> DEFINE m == InnerFrame(r.id, r.type, r.msgid, r.data, r.n, r.announced)
<1>4. \A i \in 0..r.n + 18 : m[i] \in Octet
  BY <1>1, <1>2, InnerTyped
<1>5. DOMAIN m = 0..r.n + 18
  BY DEF InnerFrame
<1>6. InnerLen(r.n) - 1 = r.n + 18 /\ r.n \in Nat
  BY <1>1, <1>3, OctetBound
<1>7. \A i \in 0..r.n + 18 : InnerOf(r)[i] \in {m[i], 0, 1}
  <2> HIDE DEF m
  <2>1. InnerOf(r) = Spoilt(m, InnerSpot(r))
    BY DEF InnerOf, m
  <2> QED
    BY <2>1, <1>5, SpoiltAt
<1>8. \A i \in 0..InnerLen(r.n) - 1 : InnerOf(r)[i] \in Octet
  BY <1>4, <1>6, <1>7 DEF Octet
<1> QED
  BY <1>1, <1>2, <1>3, <1>8

(* What the outer parser insists on.                                         *)
LEMMA MainDemands ==
    ASSUME NEW msg, NEW len, NEW iv0, NEW c0, NEW l0,
           bib_parseMainMsg(msg, len, iv0, c0, l0).ok
    PROVE  msg[0] = SOH /\ msg[17] = EM /\ msg[len - 1] = EOT /\ ReadLength(msg, len - 3) < len
  BY DEF bib_parseMainMsg

(* Whatever bytes it is given, the outer parser yields an IV and a length.   *)
LEMMA MainTypes ==
    ASSUME NEW msg \in Buffer, NEW len \in 22..BufSize,
           NEW iv0 \in [IvIdx -> Octet], NEW c0, NEW l0 \in Nat,
           NEW p, p = bib_parseMainMsg(msg, len, iv0, c0, l0)
    PROVE  /\ p.iv \in [IvIdx -> Octet] /\ p.cipherLen \in Nat
           /\ ~p.ok => p.cipher = c0
<1>0. BufSize \in Nat /\ BufSize >= 64 /\ len \in Nat /\ len >= 22 /\ len <= BufSize
  BY BibAssumption
<1>1. \A i \in 0..BufSize - 1 : msg[i] \in Octet
  BY DEF Buffer
<1>2. ReadLength(msg, len - 3) \in Nat
  <2>1. len - 3 \in 0..BufSize - 1 /\ (len - 3) + 1 \in 0..BufSize - 1
    BY <1>0
  <2> DEFINE a == msg[len - 3]
             b == msg[(len - 3) + 1]
  <2>2. a \in 0..255 /\ b \in 0..255
    BY <2>1, <1>1 DEF Octet
  <2> HIDE DEF a, b
  <2>3. 256 * a + b \in Nat
    BY <2>2
  <2> QED
    BY <2>3 DEF ReadLength, a, b
<1>3. Copied(iv0, msg, 1, 16) \in [IvIdx -> Octet]
  <2>1. \A i \in IvIdx : 1 + i \in 0..BufSize - 1
    BY <1>0 DEF IvIdx
  <2> QED
    BY <2>1, <1>1 DEF Copied
<1> QED
  BY <1>2, <1>3 DEF bib_parseMainMsg

(* The outer parser on a client's frame.                                     *)
LEMMA FrameFacts ==
    ASSUME NEW r \in Requests, NEW iv \in [IvIdx -> Octet],
           \A i \in 0..BufSize - 1, b \in Octet : Ctr(r.key, iv, i, b) \in Octet,
           NEW len, len = OuterLen(InnerLen(r.n))
    PROVE  /\ len \in Nat /\ len <= BufSize
           /\ \A i \in 0..len - 1 : FrameOf(r, iv)[i] \in Octet
           /\ \A msg \in Buffer, iv0 \in [IvIdx -> Octet], c0 \in Buffer, l0 \in Nat :
                Holds(msg, len, FrameOf(r, iv)) =>
                  LET p == bib_parseMainMsg(msg, len, iv0, c0, l0) IN
                  /\ p.ok <=> r.defect \notin OuterNoticed
                  /\ p.iv \in [IvIdx -> Octet] /\ p.cipherLen \in Nat /\ p.cipher \in Buffer
                  /\ p.ok =>
                       /\ p.iv = iv
                       /\ p.cipherLen = InnerLen(r.n) + r.surplus
                       /\ \A i \in 0..InnerLen(r.n) - 1 :
                             p.cipher[i] = Ctr(r.key, iv, i, InnerOf(r)[i])
<1> DEFINE n == InnerLen(r.n)
           s == r.surplus
           at == OuterSpot(r)
           c == [i \in 0..n - 1 |-> Ctr(r.key, iv, i, InnerOf(r)[i])]
           f == OuterFrame(iv, c, n)
           h == [f EXCEPT ![20 + n] = n + s]
           g == FrameOf(r, iv)
<1>1. n \in 20..BufSize - 22 /\ s \in 0..21 /\ n + s \in 20..BufSize - 18
  BY RequestFacts
<1>o. \A i \in 0..n - 1 : InnerOf(r)[i] \in Octet
  BY RequestFacts
<1>i. \A i \in 0..n - 1 : c[i] = Ctr(r.key, iv, i, InnerOf(r)[i])
  OBVIOUS
<1>g. g = Spoilt(h, at)
  BY DEF FrameOf
<1>t. at = CASE r.defect = "soh"     -> 0
             [] r.defect = "em"      -> 17
             [] r.defect = "last_em" -> 18 + n
             [] r.defect = "length"  -> 19 + n
             [] r.defect = "eot"     -> 21 + n
             [] OTHER                -> -1
  BY DEF OuterSpot
<1> HIDE DEF n, s, c, at
<1>2. /\ n \in Nat /\ n > 0 /\ n \in 1..BufSize - 22 /\ n < 256 /\ n \in Octet
      /\ s \in Nat /\ n + s \in Octet /\ n + s < n + 22 /\ n + s + 18 <= BufSize
  <2>1. BufSize \in Nat /\ BufSize <= 256
    BY BibAssumption
  <2>2. /\ n \in Nat /\ n > 0 /\ n \in 1..BufSize - 22 /\ n < 256
        /\ s \in Nat /\ n + s < n + 22 /\ n + s + 18 <= BufSize
    BY <1>1, <2>1
  <2>3. n \in 0..255 /\ n + s \in 0..255
    BY <2>1, <2>2
  <2> QED
    BY <2>2, <2>3 DEF Octet
<1>3. len = n + 22 /\ len \in Nat /\ len <= BufSize /\ len >= 22
  BY <1>1, <1>2, BibAssumption DEF OuterLen, n
<1>5. \A i \in 0..n - 1 : c[i] \in Octet
  <2>1. \A i \in 0..n - 1 : i \in 0..BufSize - 1
    BY <1>1, BibAssumption
  <2> QED
    BY <2>1, <1>o, <1>i
<1>6. \A i \in 0..n + 21 : f[i] \in Octet
  BY <1>2, <1>5, OuterTyped
<1>7. DOMAIN f = 0..n + 21
  BY DEF OuterFrame
<1>8. /\ f[0] = SOH /\ f[17] = EM /\ f[n + 21] = EOT
      /\ f[n + 19] = 0
      /\ \A i \in IvIdx : f[i + 1] = iv[i]
      /\ \A i \in 0..n - 1 : f[i + 18] = c[i]
  BY <1>2, OuterAt, OctetLength
<1> HIDE DEF f
<1>p. /\ 0 \in 0..n + 21 /\ 17 \in 0..n + 21 /\ n + 19 \in 0..n + 21 /\ n + 20 \in 0..n + 21
      /\ n + 21 \in 0..n + 21
      /\ n + 19 # 20 + n /\ n + 21 # 20 + n /\ 17 # 20 + n /\ 0 # 20 + n
      /\ n + 20 = 20 + n /\ n + 19 = 19 + n /\ n + 21 = 21 + n
  BY <1>2
<1>h. /\ DOMAIN h = 0..n + 21
      /\ \A i \in 0..n + 21 : i # 20 + n => h[i] = f[i]
      /\ h[n + 20] = n + s
  BY <1>7, <1>p
<1> HIDE DEF h, g
<1>9. ASSUME NEW i \in 0..n + 21
      PROVE  /\ g[i] \in {h[i], 0, 1}
             /\ i # at => g[i] = h[i]
             /\ i = at => g[i] # h[i] /\ (h[i] # SOH => g[i] = SOH)
  <2>1. i \in DOMAIN h
    BY <1>h
  <2> QED
    BY <2>1, <1>g, SpoiltAt
<1>10. \A i \in 0..len - 1 : g[i] \in Octet
  <2>1. 0 \in Octet /\ 1 \in Octet
    BY ZeroOne
  <2>2. len - 1 = n + 21
    BY <1>2, <1>3
  <2>3. ASSUME NEW i \in 0..n + 21 PROVE h[i] \in Octet
    <3>1. CASE i = 20 + n
      BY <3>1, <1>h, <1>p, <1>2
    <3>2. CASE i # 20 + n
      BY <3>2, <1>h, <1>6
    <3> QED
      BY <3>1, <3>2
  <2> QED
    BY <2>1, <2>2, <2>3, <1>9
<1>11. ASSUME NEW msg \in Buffer, NEW iv0 \in [IvIdx -> Octet], NEW c0 \in Buffer,
              NEW l0 \in Nat, Holds(msg, len, g),
              NEW p, p = bib_parseMainMsg(msg, len, iv0, c0, l0)
       PROVE  /\ p.ok <=> r.defect \notin OuterNoticed
              /\ p.iv \in [IvIdx -> Octet] /\ p.cipherLen \in Nat /\ p.cipher \in Buffer
              /\ p.ok =>
                   /\ p.iv = iv
                   /\ p.cipherLen = n + s
                   /\ \A i \in 0..n - 1 : p.cipher[i] = c[i]
  <2>1. \A i \in 0..n + 21 : msg[i] = g[i]
    BY <1>2, <1>3, <1>11 DEF Holds
  <2>2. len - 1 = n + 21 /\ len - 3 = n + 19 /\ (n + 19) + 1 = n + 20 /\ len \in 22..BufSize
    BY <1>2, <1>3, BibAssumption
  <2>3. p.iv \in [IvIdx -> Octet] /\ p.cipherLen \in Nat /\ (~p.ok => p.cipher = c0)
    BY <2>2, <1>11, MainTypes
  <2>4. ASSUME p.ok
        PROVE  msg[0] = SOH /\ msg[17] = EM /\ msg[n + 21] = EOT
               /\ ReadLength(msg, n + 19) < n + 22
    BY <2>2, <2>4, <1>3, <1>11, MainDemands
  <2>5. ASSUME r.defect \in {"soh", "em", "eot"} PROVE ~p.ok
    <3>1. CASE r.defect = "soh"
      <4>1. at = 0
        BY <1>t, <3>1
      <4>2. msg[0] # SOH
        BY <4>1, <2>1, <1>8, <1>9, <1>h, <1>p
      <4> QED
        BY <4>2, <2>4
    <3>2. CASE r.defect = "em"
      <4>1. at = 17
        BY <1>t, <3>2
      <4>2. msg[17] # EM
        BY <4>1, <2>1, <1>8, <1>9, <1>h, <1>p
      <4> QED
        BY <4>2, <2>4
    <3>3. CASE r.defect = "eot"
      <4>1. at = n + 21
        BY <1>t, <1>p, <3>3
      <4>2. msg[n + 21] # EOT
        BY <4>1, <2>1, <1>8, <1>9, <1>h, <1>p
      <4> QED
        BY <4>2, <2>4
    <3> QED
      BY <2>5, <3>1, <3>2, <3>3
  <2>6. ASSUME r.defect = "length" PROVE ~p.ok
    <3>1. at = n + 19
      BY <1>t, <1>p, <2>6
    <3>2. msg[n + 19] = 1
      BY <3>1, <2>1, <1>8, <1>9, <1>h, <1>p DEF SOH
    <3>3. n + 20 # at
      BY <3>1, <1>2
    <3>4. msg[n + 20] = n + s
      BY <3>3, <2>1, <1>9, <1>h, <1>p
    <3>5. ReadLength(msg, n + 19) = 256 + (n + s)
      BY <3>2, <3>4, <2>2, <1>2 DEF ReadLength
    <3>6. ~(256 + (n + s) < n + 22)
      BY <1>2
    <3> QED
      BY <3>5, <3>6, <2>4
  <2>7. ASSUME r.defect \notin OuterNoticed
        PROVE  /\ p.ok /\ p.iv = iv /\ p.cipherLen = n + s /\ p.cipher \in Buffer
               /\ \A i \in 0..n - 1 : p.cipher[i] = c[i]
    <3>1. at = -1 \/ at = n + 18
      BY <1>t, <2>7, <1>2 DEF OuterNoticed
    <3>2. \A i \in 0..n + 21 : i # n + 18 => msg[i] = h[i]
      BY <3>1, <2>1, <1>9, <1>2
    <3>3. /\ msg[0] = SOH /\ msg[17] = EM /\ msg[n + 21] = EOT
          /\ msg[n + 19] = 0 /\ msg[n + 20] = n + s
      <4>1. 0 # n + 18 /\ 17 # n + 18 /\ n + 21 # n + 18 /\ n + 19 # n + 18 /\ n + 20 # n + 18
        BY <1>2
      <4> QED
        BY <4>1, <3>2, <1>8, <1>h, <1>p
    <3>4. \A i \in IvIdx : msg[i + 1] = iv[i]
      <4> SUFFICES ASSUME NEW i \in IvIdx PROVE msg[i + 1] = iv[i]
        OBVIOUS
      <4>1. i + 1 \in 0..n + 21 /\ i + 1 # n + 18 /\ i + 1 # 20 + n
        BY <1>1 DEF IvIdx
      <4> QED
        BY <4>1, <3>2, <1>8, <1>h
    <3>5. \A i \in 0..n - 1 : msg[i + 18] = c[i]
      <4> SUFFICES ASSUME NEW i \in 0..n - 1 PROVE msg[i + 18] = c[i]
        OBVIOUS
      <4>1. i + 18 \in 0..n + 21 /\ i + 18 # n + 18 /\ i + 18 # 20 + n
        BY <1>2
      <4> QED
        BY <4>1, <3>2, <1>8, <1>h
    <3>6. ReadLength(msg, len - 3) = n + s
      BY <3>3, <2>2, <1>2 DEF ReadLength
    <3>7. n + s < len /\ msg[len - 1] = EOT
      BY <3>3, <2>2, <1>2, <1>3
    <3>8. /\ p.ok /\ p.cipherLen = n + s
          /\ p.iv = Copied(iv0, msg, 1, 16) /\ p.cipher = Copied(c0, msg, 18, n + s)
      BY <3>3, <3>6, <3>7, <1>11 DEF bib_parseMainMsg
    <3>9. p.iv = iv
      BY <3>4, <3>8 DEF Copied, IvIdx
    <3>10. p.cipher \in Buffer
      <4>1. \A i \in 0..BufSize - 1 : i < n + s => 18 + i \in 0..BufSize - 1
        BY <1>2, BibAssumption
      <4> QED
        BY <4>1, <3>8 DEF Copied, Buffer
    <3>11. ASSUME NEW i \in 0..n - 1 PROVE p.cipher[i] = c[i]
      <4>1. i \in 0..BufSize - 1 /\ i < n + s /\ 18 + i = i + 18
        BY <1>2, BibAssumption
      <4>2. p.cipher[i] = msg[18 + i]
        BY <4>1, <3>8 DEF Copied, Buffer
      <4> QED
        BY <4>1, <4>2, <3>5
    <3> QED
      BY <3>8, <3>9, <3>10, <3>11
  <2> QED
    BY <2>3, <2>5, <2>6, <2>7 DEF OuterNoticed
<1>12. ASSUME NEW msg \in Buffer, NEW iv0 \in [IvIdx -> Octet], NEW c0 \in Buffer,
              NEW l0 \in Nat, Holds(msg, len, FrameOf(r, iv))
       PROVE  LET p == bib_parseMainMsg(msg, len, iv0, c0, l0) IN
              /\ p.ok <=> r.defect \notin OuterNoticed
              /\ p.iv \in [IvIdx -> Octet] /\ p.cipherLen \in Nat /\ p.cipher \in Buffer
              /\ p.ok =>
                   /\ p.iv = iv
                   /\ p.cipherLen = InnerLen(r.n) + r.surplus
                   /\ \A i \in 0..InnerLen(r.n) - 1 :
                         p.cipher[i] = Ctr(r.key, iv, i, InnerOf(r)[i])
  <2> DEFINE q == bib_parseMainMsg(msg, len, iv0, c0, l0)
  <2>1. Holds(msg, len, g)
    BY <1>12 DEF g
  <2> HIDE DEF q
  <2>2. /\ q.ok <=> r.defect \notin OuterNoticed
        /\ q.iv \in [IvIdx -> Octet] /\ q.cipherLen \in Nat /\ q.cipher \in Buffer
        /\ q.ok => q.iv = iv /\ q.cipherLen = n + s /\ \A i \in 0..n - 1 : q.cipher[i] = c[i]
    BY <1>11, <1>12, <2>1 DEF q
  <2>3. \A i \in 0..InnerLen(r.n) - 1 : c[i] = Ctr(r.key, iv, i, InnerOf(r)[i])
    BY <1>i DEF n
  <2>4. n = InnerLen(r.n) /\ s = r.surplus
    BY DEF n, s
  <2>5. /\ q.ok <=> r.defect \notin OuterNoticed
        /\ q.iv \in [IvIdx -> Octet] /\ q.cipherLen \in Nat /\ q.cipher \in Buffer
        /\ q.ok =>
             /\ q.iv = iv
             /\ q.cipherLen = InnerLen(r.n) + r.surplus
             /\ \A i \in 0..InnerLen(r.n) - 1 :
                   q.cipher[i] = Ctr(r.key, iv, i, InnerOf(r)[i])
    BY <2>2, <2>3, <2>4
  <2> QED
    BY <2>5 DEF q
<1>13. \A i \in 0..len - 1 : FrameOf(r, iv)[i] \in Octet
  BY <1>10 DEF g
<1> QED
  BY <1>3, <1>12, <1>13

(* What the inner parser insists on, and what it then yields.                *)
LEMMA InnerDemands ==
    ASSUME NEW msg, NEW len, NEW id0, NEW t0, NEW m0, NEW d0, NEW l0,
           NEW p, p = bib_parseInnerMsg(msg, len, id0, t0, m0, d0, l0), p.ok
    PROVE  /\ msg[0] = STX /\ msg[9] = EM /\ msg[11] = EM /\ msg[13] = EM
           /\ msg[len - 1] = EOT /\ ReadLength(msg, len - 4) < len
           /\ p.id = Copied(id0, msg, 1, 8) /\ p.type = msg[10] /\ p.msgid = msg[12]
<1>1. /\ msg[0] = STX /\ msg[9] = EM /\ msg[11] = EM /\ msg[13] = EM
      /\ msg[len - 1] = EOT /\ ReadLength(msg, len - 4) < len
  BY DEF bib_parseInnerMsg
<1> QED
  BY <1>1 DEF bib_parseInnerMsg

(* What it insists on is all that it insists on.                             *)
LEMMA InnerAccepts ==
    ASSUME NEW msg, NEW len, NEW id0, NEW t0, NEW m0, NEW d0, NEW l0,
           NEW p, p = bib_parseInnerMsg(msg, len, id0, t0, m0, d0, l0),
           msg[0] = STX, msg[9] = EM, msg[11] = EM, msg[13] = EM, msg[len - 1] = EOT,
           NEW announced, ReadLength(msg, len - 4) = announced, announced < len
    PROVE  p.ok /\ p.dataLen = announced /\ p.data = Copied(d0, msg, 14, announced)
<1>1. p.ok /\ p.dataLen = announced
  BY DEF bib_parseInnerMsg
<1>2. p.data = Copied(d0, msg, 14, announced)
  BY DEF bib_parseInnerMsg
<1> QED
  BY <1>1, <1>2

(* The inner parser on what a client has put into its frame.                 *)
LEMMA InnerFacts ==
    ASSUME NEW r \in Requests, NEW msg \in Buffer,
           Holds(msg, InnerLen(r.n), InnerOf(r)),
           NEW id0 \in [IdIdx -> Octet], NEW t0, NEW m0, NEW d0 \in Buffer, NEW l0,
           NEW p, p = bib_parseInnerMsg(msg, InnerLen(r.n) + r.surplus, id0, t0, m0, d0, l0)
    PROVE  /\ r.defect \in Noticed \ OuterNoticed => ~p.ok
           /\ p.ok => SaysWho(p, r)
           /\ r.defect \notin Noticed /\ r.surplus = 0 => p.ok /\ SaysWhat(p, r)
<1> DEFINE n == r.n
           s == r.surplus
           at == InnerSpot(r)
           m == InnerFrame(r.id, r.type, r.msgid, r.data, n, r.announced)
           g == InnerOf(r)
<1>1. /\ n \in 1..BufSize - 41 /\ r.announced \in 0..n + 18 /\ r.announced \in Octet
      /\ r.id \in [IdIdx -> Octet] /\ InnerLen(n) = n + 19
      /\ s \in 0..21 /\ (s > 0 => r.defect = "none")
  BY RequestFacts
<1>g. g = Spoilt(m, at)
  BY DEF InnerOf
<1>t. at = CASE r.defect = "stx"           -> 0
             [] r.defect = "inner_em1"     -> 9
             [] r.defect = "inner_em2"     -> 11
             [] r.defect = "inner_em3"     -> 13
             [] r.defect = "inner_last_em" -> 14 + n
             [] r.defect = "inner_length"  -> 15 + n
             [] r.defect = "etx"           -> 17 + n
             [] r.defect = "inner_eot"     -> 18 + n
             [] OTHER                      -> -1
  BY DEF InnerSpot
<1>d. DOMAIN m = 0..n + 18
  BY DEF InnerFrame
<1>3. Holds(msg, n + 19, g)
  BY <1>1
<1>4. p = bib_parseInnerMsg(msg, (n + 19) + s, id0, t0, m0, d0, l0)
  BY <1>1
<1> HIDE DEF n, s, at, m, g
<1>2. n \in Nat /\ n > 0 /\ n + 41 <= BufSize /\ BufSize \in Nat
  BY <1>1, BibAssumption
<1>5. /\ m[0] = STX /\ m[9] = EM /\ m[11] = EM /\ m[13] = EM
      /\ m[10] = r.type /\ m[12] = r.msgid
      /\ m[n + 15] = 0 /\ m[n + 16] = r.announced
      /\ m[n + 18] = EOT
      /\ \A i \in IdIdx : m[i + 1] = r.id[i]
      /\ \A i \in 0..n - 1 : m[i + 14] = r.data[i]
  BY <1>1, <1>2, InnerAt, OctetLength DEF m
<1>6. ASSUME NEW i \in 0..n + 18
      PROVE  /\ i # at => g[i] = m[i]
             /\ i = at => g[i] # m[i] /\ (m[i] # SOH => g[i] = SOH)
  <2>1. i \in DOMAIN m
    BY <1>d
  <2> QED
    BY <2>1, <1>g, SpoiltAt
<1>7. \A i \in 0..n + 18 : msg[i] = g[i]
  BY <1>2, <1>3 DEF Holds
<1>8. /\ 0..13 \subseteq 0..n + 18 /\ n + 15 \in 0..n + 18 /\ n + 16 \in 0..n + 18
      /\ n + 18 \in 0..n + 18 /\ n + 15 = 15 + n /\ n + 18 = 18 + n
      /\ n + 15 # n + 16
  BY <1>2
<1>p. 0 \in 0..13 /\ 9 \in 0..13 /\ 10 \in 0..13 /\ 11 \in 0..13 /\ 12 \in 0..13 /\ 13 \in 0..13
  OBVIOUS
<1>9. ASSUME r.defect \in Noticed \ OuterNoticed PROVE ~p.ok
  <2>1. s = 0 /\ (n + 19) + s = n + 19
    BY <1>1, <1>2, <1>9 DEF Noticed
  <2>2. (n + 19) - 1 = n + 18 /\ (n + 19) - 4 = n + 15 /\ (n + 15) + 1 = n + 16
    BY <1>2
  <2>3. ASSUME p.ok
        PROVE  /\ msg[0] = STX /\ msg[9] = EM /\ msg[11] = EM /\ msg[13] = EM
               /\ msg[n + 18] = EOT /\ ReadLength(msg, n + 15) < n + 19
    BY <2>1, <2>2, <2>3, <1>4, InnerDemands
  <2>4. r.defect \in {"stx", "inner_em1", "inner_em2", "inner_em3", "inner_length", "inner_eot"}
    BY <1>9 DEF Noticed
  <2>5. CASE r.defect = "stx"
    <3>1. at = 0
      BY <1>t, <2>5
    <3> QED
      BY <3>1, <2>3, <1>5, <1>6, <1>7, <1>8, <1>p
  <2>6. CASE r.defect = "inner_em1"
    <3>1. at = 9
      BY <1>t, <2>6
    <3> QED
      BY <3>1, <2>3, <1>5, <1>6, <1>7, <1>8, <1>p
  <2>7. CASE r.defect = "inner_em2"
    <3>1. at = 11
      BY <1>t, <2>7
    <3> QED
      BY <3>1, <2>3, <1>5, <1>6, <1>7, <1>8, <1>p
  <2>8. CASE r.defect = "inner_em3"
    <3>1. at = 13
      BY <1>t, <2>8
    <3> QED
      BY <3>1, <2>3, <1>5, <1>6, <1>7, <1>8, <1>p
  <2>9. CASE r.defect = "inner_eot"
    <3>1. at = n + 18
      BY <1>t, <1>8, <2>9
    <3> QED
      BY <3>1, <2>3, <1>5, <1>6, <1>7, <1>8
  <2>10. CASE r.defect = "inner_length"
    <3>1. at = n + 15
      BY <1>t, <1>8, <2>10
    <3>2. msg[n + 15] = 1
      BY <3>1, <1>5, <1>6, <1>7, <1>8 DEF SOH
    <3>3. msg[n + 16] = r.announced
      BY <3>1, <1>5, <1>6, <1>7, <1>8
    <3>4. r.announced \in Nat
      BY <1>1 DEF Octet
    <3>5. ReadLength(msg, n + 15) = 256 + r.announced
      BY <3>2, <3>3, <3>4, <2>2 DEF ReadLength
    <3>6. ~(256 + r.announced < n + 19)
      BY <3>4, <1>2, BibAssumption
    <3> QED
      BY <3>5, <3>6, <2>3
  <2> QED
    BY <2>4, <2>5, <2>6, <2>7, <2>8, <2>9, <2>10
<1>10. ASSUME r.defect \notin Noticed \ OuterNoticed
       PROVE  at \in {-1, n + 14, n + 17}
  BY <1>t, <1>2, <1>10 DEF Noticed, OuterNoticed
<1>11. ASSUME p.ok PROVE SaysWho(p, r)
  <2>1. at \in {-1, n + 14, n + 17}
    BY <1>9, <1>10, <1>11
  <2>2. \A i \in 0..13 : i # at
    BY <2>1, <1>2
  <2>3. \A i \in 0..13 : msg[i] = m[i]
    BY <2>2, <1>6, <1>7, <1>8
  <2>4. p.id = Copied(id0, msg, 1, 8) /\ p.type = msg[10] /\ p.msgid = msg[12]
    BY <1>4, <1>11, InnerDemands
  <2>5. p.type = r.type /\ p.msgid = r.msgid
    BY <2>3, <2>4, <1>5, <1>p
  <2>6. \A i \in IdIdx : msg[1 + i] = r.id[i]
    <3> SUFFICES ASSUME NEW i \in IdIdx PROVE msg[1 + i] = r.id[i]
      OBVIOUS
    <3>1. i + 1 \in 0..13 /\ 1 + i = i + 1
      BY DEF IdIdx
    <3> QED
      BY <3>1, <2>3, <1>5
  <2>7. p.id = r.id
    BY <2>4, <2>6, <1>1 DEF Copied, IdIdx
  <2> QED
    BY <2>5, <2>7 DEF SaysWho
<1>12. ASSUME r.defect \notin Noticed, s = 0 PROVE p.ok /\ SaysWhat(p, r)
  <2>1. at \in {-1, n + 14, n + 17}
    BY <1>10, <1>12
  <2>2. (n + 19) + s = n + 19 /\ (n + 19) - 1 = n + 18 /\ (n + 19) - 4 = n + 15
        /\ (n + 15) + 1 = n + 16
    BY <1>2, <1>12
  <2>3. \A i \in 0..13 : msg[i] = m[i]
    <3>1. \A i \in 0..13 : i # at
      BY <2>1, <1>2
    <3> QED
      BY <3>1, <1>6, <1>7, <1>8
  <2>4. msg[0] = STX /\ msg[9] = EM /\ msg[11] = EM /\ msg[13] = EM
    BY <2>3, <1>5, <1>p
  <2>5. msg[n + 15] = 0 /\ msg[n + 16] = r.announced /\ msg[n + 18] = EOT
    <3>1. n + 15 # at /\ n + 16 # at /\ n + 18 # at
      BY <2>1, <1>2
    <3> QED
      BY <3>1, <1>5, <1>6, <1>7, <1>8
  <2>6. r.announced \in Nat /\ r.announced < n + 19
    BY <1>1, <1>2
  <2>7. ReadLength(msg, (n + 19) - 4) = r.announced /\ msg[(n + 19) - 1] = EOT
    BY <2>2, <2>5, <2>6 DEF ReadLength
  <2>8. p = bib_parseInnerMsg(msg, n + 19, id0, t0, m0, d0, l0)
    BY <2>2, <1>4
  <2>9. p.ok /\ p.dataLen = r.announced /\ p.data = Copied(d0, msg, 14, r.announced)
    BY <2>4, <2>6, <2>7, <2>8, InnerAccepts
  <2>10. ASSUME NEW i \in 0..r.announced - 1, i < n PROVE p.data[i] = r.data[i]
    <3>1. /\ i \in 0..BufSize - 1 /\ i \in 0..n - 1 /\ i < r.announced /\ 14 + i = i + 14
          /\ i + 14 \in 0..n + 18
      BY <2>6, <2>10, <1>2
    <3>2. i + 14 # at
      BY <3>1, <2>1, <1>2
    <3>3. p.data[i] = msg[14 + i]
      BY <3>1, <2>9 DEF Copied, Buffer
    <3>4. msg[i + 14] = m[i + 14]
      BY <3>1, <3>2, <1>6, <1>7
    <3> QED
      BY <3>1, <3>3, <3>4, <1>5
  <2>11. SaysWho(p, r)
    BY <2>9, <1>11
  <2> QED
    BY <2>9, <2>10, <2>11 DEF SaysWhat, n
<1> QED
  BY <1>9, <1>11, <1>12 DEF s

(* Whatever bytes it is given, the inner parser stays within the buffer.     *)
LEMMA InnerTypes ==
    ASSUME NEW msg \in Buffer, NEW len \in 20..BufSize - 18,
           NEW id0 \in [IdIdx -> Octet], NEW t0 \in Octet, NEW m0 \in Octet,
           NEW d0 \in Buffer, NEW l0 \in Nat,
           NEW p, p = bib_parseInnerMsg(msg, len, id0, t0, m0, d0, l0)
    PROVE  /\ p.id \in [IdIdx -> Octet] /\ p.type \in Octet /\ p.msgid \in Octet
           /\ p.data \in Buffer /\ p.dataLen \in Nat
<1>0. BufSize \in Nat /\ BufSize >= 64 /\ len \in Nat /\ len >= 20 /\ len <= BufSize - 18
  BY BibAssumption
<1>1. \A i \in 0..BufSize - 1 : msg[i] \in Octet
  BY DEF Buffer
<1>2. ReadLength(msg, len - 4) \in Nat
  <2>1. len - 4 \in 0..BufSize - 1 /\ (len - 4) + 1 \in 0..BufSize - 1
    BY <1>0
  <2>2. msg[len - 4] \in Octet /\ msg[(len - 4) + 1] \in Octet
    BY <2>1, <1>1
  <2> QED
    <3> DEFINE a == msg[len - 4]
               b == msg[(len - 4) + 1]
    <3>1. a \in 0..255 /\ b \in 0..255
      BY <2>2 DEF Octet
    <3> HIDE DEF a, b
    <3>2. 256 * a + b \in Nat
      BY <3>1
    <3> QED
      BY <3>2 DEF ReadLength, a, b
<1>3. Copied(id0, msg, 1, 8) \in [IdIdx -> Octet]
  <2>1. \A i \in IdIdx : 1 + i \in 0..BufSize - 1
    BY <1>0 DEF IdIdx
  <2> QED
    BY <2>1, <1>1 DEF Copied
<1>4. msg[10] \in Octet /\ msg[12] \in Octet
  <2>1. 10 \in 0..BufSize - 1 /\ 12 \in 0..BufSize - 1
    BY <1>0
  <2> QED
    BY <2>1, <1>1
<1>5. ASSUME NEW a \in Nat, a < len PROVE Copied(d0, msg, 14, a) \in Buffer
  <2>1. \A i \in 0..BufSize - 1 : i < a => 14 + i \in 0..BufSize - 1
    BY <1>0, <1>5
  <2> QED
    BY <2>1, <1>1 DEF Copied, Buffer
<1>6. p.id \in [IdIdx -> Octet]
  BY <1>3 DEF bib_parseInnerMsg
<1>7. p.type \in Octet /\ p.msgid \in Octet /\ p.dataLen \in Nat
  BY <1>2, <1>4 DEF bib_parseInnerMsg
<1>8. p.data \in Buffer
  BY <1>2, <1>5 DEF bib_parseInnerMsg
<1> QED
  BY <1>6, <1>7, <1>8

(* strcmp decides whether the id is the one of the lock, as far as it looks: *)
(* the id of the lock, which lies behind the one received, ends in time.     *)
LEMMA IdCompared ==
    ASSUME NEW r \in Requests, NEW f, f.id = r.id, NEW mem, mem = MemoryFrom(f)
    PROVE  SameString(mem, 0, 8) <=> SameId(r.id, uniqueId)
<1>1. /\ r.id \in [IdIdx -> Octet] /\ uniqueId \in [IdIdx -> Octet]
      /\ \E i \in IdIdx : uniqueId[i] = 0
  BY RequestFacts, MessageAssumption
<1>3. DOMAIN mem = 0..BufSize + 17 /\ BufSize \in Nat
  <2>1. DOMAIN mem = 0..BufSize + 17
    BY DEF MemoryFrom
  <2> QED
    BY <2>1, OctetBound
<1>4. ASSUME NEW i \in 0..7 PROVE mem[0 + i] = r.id[i] /\ mem[8 + i] = uniqueId[i]
  <2>1. 0 + i = i /\ i \in 0..BufSize + 17
    BY <1>3
  <2>2. mem[i] = f.id[i]
    BY <2>1 DEF MemoryFrom
  <2> DEFINE j == 8 + i
  <2>3. j \in 8..15 /\ j \in 0..BufSize + 17 /\ j - 8 = i /\ j \notin 0..7 /\ j # 16 /\ j # 17
    BY BibAssumption
  <2> HIDE DEF j
  <2>4. mem[j] = uniqueId[j - 8]
    BY <2>3 DEF MemoryFrom
  <2> QED
    BY <2>1, <2>2, <2>3, <2>4 DEF j
<1>5. ASSUME SameId(r.id, uniqueId) PROVE SameString(mem, 0, 8)
  <2>1. PICK k \in 0..7 : r.id[k] = 0 /\ \A j \in 0..k : r.id[j] = uniqueId[j]
    BY <1>5 DEF SameId, IdIdx
  <2>2. k \in DOMAIN mem /\ 0 + k \in DOMAIN mem /\ 8 + k \in DOMAIN mem
    <3>1. k \in 0..BufSize + 17 /\ 0 + k \in 0..BufSize + 17 /\ 8 + k \in 0..BufSize + 17
      BY BibAssumption
    <3> QED
      BY <3>1, <1>3
  <2>3. mem[0 + k] = 0
    BY <2>1, <1>4
  <2>4. \A j \in 0..k : mem[0 + j] = mem[8 + j]
    BY <1>4, <2>1
  <2> QED
    BY <2>2, <2>3, <2>4 DEF SameString
<1>6. ASSUME SameString(mem, 0, 8) PROVE SameId(r.id, uniqueId)
  <2>1. PICK k \in DOMAIN mem : mem[0 + k] = 0 /\ \A j \in 0..k : mem[0 + j] = mem[8 + j]
    BY <1>6 DEF SameString
  <2>2. k \in Nat
    BY <1>3
  <2>3. CASE k <= 7
    <3>1. k \in 0..7 /\ r.id[k] = 0
      BY <2>1, <2>2, <2>3, <1>4
    <3>2. \A j \in 0..k : r.id[j] = uniqueId[j]
      BY <2>1, <2>2, <2>3, <1>4
    <3> QED
      BY <3>1, <3>2 DEF SameId, IdIdx
  <2>4. CASE k > 7
    <3>1. \A j \in 0..7 : r.id[j] = uniqueId[j]
      BY <2>1, <2>2, <2>4, <1>4
    <3>2. PICK z \in 0..7 : uniqueId[z] = 0
      BY <1>1 DEF IdIdx
    <3>3. r.id[z] = 0 /\ \A j \in 0..z : r.id[j] = uniqueId[j]
      BY <3>1, <3>2
    <3> QED
      BY <3>3 DEF SameId, IdIdx
  <2> QED
    BY <2>2, <2>3, <2>4
<1> QED
  BY <1>5, <1>6

-----------------------------------------------------------------------------
(* One lemma for each action.                                              *)

(* IVs are fresh.                                                            *)
LEMMA IvFacts ==
    /\ MaxFrames \in Nat
    /\ \A n \in 1..MaxFrames :
         /\ ClientIvs[n] \in [IvIdx -> Octet] /\ ClientIvs[n] # ZeroIv
         /\ LockIvs[n] \in [IvIdx -> Octet] /\ LockIvs[n] # ZeroIv
    /\ \A m, n \in 1..MaxFrames :
         /\ ClientIvs[m] = ClientIvs[n] => m = n
         /\ LockIvs[m] = LockIvs[n] => m = n
    /\ ZeroIv \in [IvIdx -> Octet]
<1>1. ZeroIv \in [IvIdx -> Octet]
  <2>1. 0 \in Octet
    BY DEF Octet
  <2> QED
    BY <2>1 DEF ZeroIv
<1> QED
  BY <1>1, IvAssumption DEF Fresh

(* Positions in a part of a buffer.                                          *)
LEMMA IndexBound ==
    ASSUME NEW n \in Nat, n <= BufSize
    PROVE  /\ \A i \in 0..BufSize - 1 : i < n => i \in 0..n - 1
           /\ \A i \in 0..n - 1 : i \in 0..BufSize - 1 /\ i < n
  BY OctetBound

(* A frame is received.                                                      *)
LEMMA WriteStep == MPInv /\ Write => MPInv'
<1> SUFFICES ASSUME MPInv, Write PROVE MPInv'
  OBVIOUS
<1> USE DEF askVars, rxVars, txVars, cryptoVars
<1>1. Types /\ HandleInv /\ IvInv /\ RxInv
  BY DEF MPInv
<1>2. /\ pc = "idle" /\ pc' = "received" /\ frames < MaxFrames /\ frames' = frames + 1
      /\ verdict' = "none" /\ faulted' = FALSE
      /\ UNCHANGED <<Key, BLEivBuf, BLEPrevivBuf, BLEencryptBuf, BLEencryptBufLen,
                     BLEdecryptBuf, fields, answer, msgBuf, TxivBuf, TxEnCryptMsg,
                     TxCpltMsg, TxCpltMsgLen, wire, key_id, live, lost, drawn, faults>>
  BY DEF Write
<1>3. PICK r \in Requests :
         /\ asked' = r /\ rightKey' = (r.key = Key)
         /\ BlemsgLength' = OuterLen(InnerLen(r.n))
         /\ BlemsgBuf' = Received(BlemsgBuf, FrameOf(r, ClientIvs[frames']), BlemsgLength')
  BY DEF Write
<1>4. frames \in Nat /\ frames' \in 1..MaxFrames /\ frames' - 1 = frames
  BY <1>1, <1>2, IvFacts DEF Types
<1>5. \A i \in 0..BufSize - 1, b \in Octet : Ctr(r.key, ClientIvs[frames'], i, b) \in Octet
  BY <1>4, RequestFacts, CtrAssumption
<1>6. /\ BlemsgLength' \in Nat /\ BlemsgLength' <= BufSize
      /\ \A i \in 0..BlemsgLength' - 1 : FrameOf(r, ClientIvs[frames'])[i] \in Octet
  BY <1>3, <1>4, <1>5, FrameFacts, IvFacts
<1>l. BlemsgLength' \in Nat /\ BlemsgLength' <= BufSize
  BY <1>6
<1>7. BlemsgBuf' \in Buffer
  <2>1. DOMAIN BlemsgBuf = 0..BufSize - 1 /\ \A i \in 0..BufSize - 1 : BlemsgBuf[i] \in Octet
    BY <1>1 DEF Types, Buffer
  <2>2. 0 \in Octet
    BY DEF Octet
  <2>3. \A i \in 0..BufSize - 1 : i < BlemsgLength' => i \in 0..BlemsgLength' - 1
    BY <1>l, IndexBound
  <2> QED
    BY <1>3, <1>6, <2>1, <2>2, <2>3 DEF Received, Buffer
<1>8. Types'
  <2>1. frames' \in 0..MaxFrames /\ frames' > 0 /\ rightKey' \in BOOLEAN
    BY <1>3, <1>4
  <2>2. pc' \notin {"answer"} \cup KeyPcs \cup TxPcs
    BY <1>2 DEF KeyPcs, TxPcs
  <2> QED
    BY <2>1, <2>2, <1>1, <1>2, <1>3, <1>7 DEF Types
<1>9. HandleInv'
  BY <1>1, <1>2 DEF HandleInv, HandlePcs
<1>10. IvInv'
  <2>1. drawn' \in 0..frames' /\ drawn' < frames'
    BY <1>1, <1>2, <1>4 DEF IvInv
  <2> QED
    BY <2>1, <1>1, <1>2 DEF IvInv, UsedIvs, NoKeystreamReuse
<1>11. RxInv'
  <2>1. BLEPrevivBuf' \in OldIvs'
    BY <1>1, <1>2, <1>4 DEF RxInv, OldIvs
  <2>2. Holds(BlemsgBuf, BlemsgLength, FrameOf(asked, ClientIvs[frames]))'
    <3>1. DOMAIN BlemsgBuf = 0..BufSize - 1
      BY <1>1 DEF Types, Buffer
    <3>2. \A i \in 0..BlemsgLength' - 1 : i \in 0..BufSize - 1 /\ i < BlemsgLength'
      BY <1>l, IndexBound
    <3> QED
      BY <1>3, <3>1, <3>2 DEF Received, Holds
  <2>3. BlemsgLength' = OuterLen(AskedLen)' /\ rightKey' = (asked.key = Key)'
    BY <1>2, <1>3 DEF AskedLen
  <2> QED
    BY <2>1, <2>2, <2>3, <1>2 DEF RxInv, RxPcs
<1>12. ParsedInv'
  BY <1>2 DEF ParsedInv, KeyPcs
<1>13. TxInv'
  BY <1>2 DEF TxInv, TxPcs, Answered
<1> QED
  BY <1>8, <1>9, <1>10, <1>11, <1>12, <1>13 DEF MPInv

(* A frame is taken apart.                                                   *)
LEMMA ParseMainStep == MPInv /\ ParseMain => MPInv'
<1> SUFFICES ASSUME MPInv, ParseMain PROVE MPInv'
  OBVIOUS
<1> USE DEF askVars, rxVars, txVars, cryptoVars
<1>1. Types /\ HandleInv /\ IvInv /\ RxInv
  BY DEF MPInv
<1> DEFINE m == bib_parseMainMsg(BlemsgBuf, BlemsgLength, BLEivBuf, BLEencryptBuf,
                                 BLEencryptBufLen)
           accepted == m.ok /\ m.iv # BLEPrevivBuf
<1>2. /\ pc = "received"
      /\ BLEivBuf' = m.iv /\ BLEencryptBuf' = m.cipher /\ BLEencryptBufLen' = m.cipherLen
      /\ BLEPrevivBuf' = IF accepted THEN m.iv ELSE BLEPrevivBuf
      /\ pc' = IF accepted THEN "rx_import" ELSE "idle"
      /\ verdict' = IF accepted THEN "none" ELSE "dropped"
      /\ UNCHANGED <<frames, asked, rightKey, faulted, Key, BlemsgBuf, BlemsgLength,
                     BLEdecryptBuf, fields, answer, msgBuf, TxivBuf, TxEnCryptMsg,
                     TxCpltMsg, TxCpltMsgLen, wire, key_id, live, lost, drawn, faults>>
  BY DEF ParseMain
<1> HIDE DEF m
<1>3. /\ asked \in Requests /\ frames \in 1..MaxFrames
      /\ ClientIvs[frames] \in [IvIdx -> Octet]
      /\ BlemsgBuf \in Buffer /\ BLEivBuf \in [IvIdx -> Octet] /\ BLEencryptBuf \in Buffer
      /\ BLEencryptBufLen \in Nat
  BY <1>1, <1>2, IvFacts DEF Types
<1>4. /\ BlemsgLength = OuterLen(AskedLen)
      /\ Holds(BlemsgBuf, BlemsgLength, FrameOf(asked, ClientIvs[frames]))
      /\ rightKey = (asked.key = Key)
  BY <1>1, <1>2 DEF RxInv
<1>5. \A i \in 0..BufSize - 1, b \in Octet : Ctr(asked.key, ClientIvs[frames], i, b) \in Octet
  BY <1>3, RequestFacts, CtrAssumption
<1>6. /\ m.ok <=> asked.defect \notin OuterNoticed
      /\ m.iv \in [IvIdx -> Octet] /\ m.cipherLen \in Nat /\ m.cipher \in Buffer
      /\ m.ok => /\ m.iv = ClientIvs[frames]
                 /\ m.cipherLen = AskedLen + asked.surplus
                 /\ \A i \in 0..AskedLen - 1 :
                       m.cipher[i] = Ctr(asked.key, ClientIvs[frames], i, InnerOf(asked)[i])
  BY <1>3, <1>4, <1>5, FrameFacts DEF AskedLen, m
<1>7. m.ok => m.iv # BLEPrevivBuf
  <2>1. BLEPrevivBuf \in {ZeroIv} \cup {ClientIvs[k] : k \in 1..frames - 1}
    BY <1>1, <1>2 DEF RxInv, OldIvs
  <2>2. \A k \in 1..frames - 1 : k \in 1..MaxFrames /\ k # frames
    BY <1>3, IvFacts
  <2> QED
    BY <2>1, <2>2, <1>3, <1>6, IvFacts
<1>8. Types'
  BY <1>1, <1>2, <1>3, <1>6 DEF Types, RxPcs, KeyPcs, TxPcs
<1>9. HandleInv'
  BY <1>1, <1>2 DEF HandleInv, HandlePcs
<1>10. IvInv'
  BY <1>1, <1>2 DEF IvInv, UsedIvs, NoKeystreamReuse
<1>11. RxInv'
  <2>1. BLEPrevivBuf' \in OldIvs'
    <3>1. OldIvs' = {ZeroIv} \cup {ClientIvs[k] : k \in 1..frames}
      BY <1>2 DEF OldIvs
    <3>2. BLEPrevivBuf \in {ZeroIv} \cup {ClientIvs[k] : k \in 1..frames - 1}
      BY <1>1, <1>2 DEF RxInv, OldIvs
    <3>3. \A k \in 1..frames - 1 : k \in 1..frames
      BY <1>3
    <3>4. frames \in 1..frames
      BY <1>3
    <3>5. BLEPrevivBuf' \in {ClientIvs[frames], BLEPrevivBuf}
      BY <1>2, <1>6, <1>7
    <3> QED
      BY <3>1, <3>2, <3>3, <3>4, <3>5
  <2>2. accepted <=> asked.defect \notin OuterNoticed
    BY <1>6, <1>7
  <2>3. CASE accepted
    BY <2>1, <2>2, <2>3, <1>2, <1>4, <1>6 DEF RxInv, RxPcs, AskedLen
  <2>4. CASE ~accepted
    BY <2>1, <2>2, <2>4, <1>2 DEF RxInv, RxPcs
  <2> QED
    BY <2>3, <2>4
<1>12. ParsedInv'
  BY <1>2 DEF ParsedInv, KeyPcs
<1>13. TxInv'
  BY <1>2 DEF TxInv, TxPcs, Answered
<1> QED
  BY <1>8, <1>9, <1>10, <1>11, <1>12, <1>13 DEF MPInv

(* The key is handed to the library.                                         *)
LEMMA ImportKeyStep == MPInv /\ ImportKey => MPInv'
<1> SUFFICES ASSUME MPInv, ImportKey PROVE MPInv'
  OBVIOUS
<1> USE DEF askVars, rxVars, txVars, cryptoVars
<1>1. Types /\ HandleInv /\ IvInv /\ RxInv /\ TxInv
  BY DEF MPInv
<1>2. /\ pc \in {"rx_import", "tx_import"}
      /\ pc' = IF pc = "rx_import" THEN "rx_cipher" ELSE "tx_cipher"
      /\ UNCHANGED <<frames, asked, rightKey, verdict, Key, BlemsgBuf, BlemsgLength,
                     BLEivBuf, BLEPrevivBuf, BLEencryptBuf, BLEencryptBufLen,
                     BLEdecryptBuf, fields, answer, msgBuf, TxivBuf, TxEnCryptMsg,
                     TxCpltMsg, TxCpltMsgLen, wire, lost, drawn>>
  BY DEF ImportKey, CryptoStep, cryptoapp_importKey
<1>3. /\ faulted' \in BOOLEAN
      /\ ~faulted' => ~faulted /\ faults' = faults /\ key_id' # NoKey
  BY DEF ImportKey, CallFailed
<1>4. \/ live' = live + 1 /\ key_id' = Key /\ faults' = faults
      \/ key_id' = NoKey /\ live' = live /\ faults' \in {faults, faults + 1}
  BY DEF ImportKey, cryptoapp_importKey, Fails
<1>5. Key \in Keys /\ Key # NoKey
  BY <1>1, CryptoAssumption DEF Types
<1>8. Types'
  BY <1>1, <1>2, <1>3 DEF Types, RxPcs, KeyPcs, TxPcs
<1>9. HandleInv'
  <2>1. /\ pc \notin HandlePcs /\ pc' \in HandlePcs
        /\ live \in Nat /\ lost \in Nat /\ faults \in Nat /\ live = lost
    BY <1>1, <1>2 DEF HandleInv, HandlePcs
  <2>2. CASE live' = live + 1 /\ key_id' = Key /\ faults' = faults
    BY <2>1, <2>2, <1>2, <1>5 DEF HandleInv
  <2>3. CASE key_id' = NoKey /\ live' = live /\ faults' \in {faults, faults + 1}
    BY <2>1, <2>3, <1>2, <1>3 DEF HandleInv
  <2> QED
    BY <2>2, <2>3, <1>4
<1>10. IvInv'
  BY <1>1, <1>2 DEF IvInv, UsedIvs, NoKeystreamReuse
<1>11. RxInv'
  <2>1. BLEPrevivBuf' \in OldIvs'
    BY <1>1, <1>2 DEF RxInv, OldIvs
  <2> QED
    BY <2>1, <1>1, <1>2 DEF RxInv, RxPcs, AskedLen
<1>12. ParsedInv'
  BY <1>2 DEF ParsedInv, KeyPcs
<1>13. TxInv'
  BY <1>1, <1>2 DEF TxInv, TxPcs, Answered, AnswerOk, AnswerLen, AnswerFrame, KeyMsg
<1> QED
  BY <1>8, <1>9, <1>10, <1>11, <1>12, <1>13 DEF MPInv

(* The cipher undoes itself.                                                 *)
LEMMA CtrFacts ==
    ASSUME NEW k \in Keys, NEW n \in 1..MaxFrames, NEW i \in 0..BufSize - 1, NEW b \in Octet
    PROVE  /\ Ctr(k, ClientIvs[n], i, b) \in Octet /\ Ctr(k, LockIvs[n], i, b) \in Octet
           /\ Ctr(k, ClientIvs[n], i, Ctr(k, ClientIvs[n], i, b)) = b
           /\ Ctr(k, LockIvs[n], i, Ctr(k, LockIvs[n], i, b)) = b
  BY CtrAssumption

(* The key is taken back.                                                    *)
LEMMA DestroyKeyStep == MPInv /\ DestroyKey => MPInv'
<1> SUFFICES ASSUME MPInv, DestroyKey PROVE MPInv'
  OBVIOUS
<1> USE DEF askVars, rxVars, txVars, cryptoVars
<1>1. Types /\ HandleInv /\ IvInv /\ RxInv /\ ParsedInv /\ TxInv
  BY DEF MPInv
<1>2. /\ UNCHANGED <<frames, asked, rightKey, verdict, faulted, Key, BlemsgBuf,
                     BlemsgLength, BLEivBuf, BLEPrevivBuf, BLEencryptBuf,
                     BLEencryptBufLen, BLEdecryptBuf, fields, answer, msgBuf, TxivBuf,
                     TxEnCryptMsg, TxCpltMsg, TxCpltMsgLen, wire, drawn>>
      /\ key_id' = NoKey
  BY DEF DestroyKey, CryptoStep, cryptoapp_finish
<1>3. \/ pc = "rx_finish" /\ pc' = "parse_inner"
      \/ pc = "key_finish" /\ pc' = "answer"
      \/ pc = "tx_finish" /\ pc' = "notify"
  BY DEF DestroyKey, CryptoStep
<1>4. \/ key_id # NoKey /\ live' = live - 1 /\ lost' = lost /\ faults' = faults
      \/ key_id # NoKey /\ lost' = lost + 1 /\ live' = live /\ faults' = faults + 1
      \/ key_id = NoKey /\ live' = live /\ lost' = lost /\ faults' = faults
  BY DEF DestroyKey, cryptoapp_finish, Fails
<1>8. Types'
  BY <1>1, <1>2, <1>3 DEF Types, RxPcs, KeyPcs, TxPcs
<1>9. HandleInv'
  <2>1. /\ pc \in HandlePcs /\ pc' \notin HandlePcs
        /\ live \in Nat /\ lost \in Nat /\ faults \in Nat
        /\ live = lost + (IF key_id # NoKey THEN 1 ELSE 0)
    BY <1>1, <1>3 DEF HandleInv, HandlePcs
  <2>2. live' \in Nat /\ lost' \in Nat /\ faults' \in Nat /\ live' = lost' + 0
    BY <2>1, <1>4
  <2>3. pc' \notin {"rx_cipher", "tx_cipher"}
    BY <1>3
  <2> QED
    BY <2>1, <2>2, <2>3, <1>2 DEF HandleInv
<1>10. IvInv'
  <2>1. pc' \notin {"idle", "tx_finish", "notify"} => drawn' < frames'
    BY <1>1, <1>2, <1>3 DEF IvInv
  <2> QED
    BY <2>1, <1>1, <1>2 DEF IvInv, UsedIvs, NoKeystreamReuse
<1>11. RxInv'
  <2>1. BLEPrevivBuf' \in OldIvs'
    BY <1>1, <1>2, <1>3 DEF RxInv, OldIvs
  <2> QED
    BY <2>1, <1>1, <1>2, <1>3 DEF RxInv, RxPcs, AskedLen
<1>12. ParsedInv'
  BY <1>1, <1>2, <1>3 DEF ParsedInv, KeyPcs, Sound
<1>13. TxInv'
  BY <1>1, <1>2, <1>3 DEF TxInv, TxPcs, Answered, AnswerOk, AnswerLen, AnswerFrame, KeyMsg
<1> QED
  BY <1>8, <1>9, <1>10, <1>11, <1>12, <1>13 DEF MPInv

(* Decryption, or its failure.                                               *)
LEMMA DecryptStep == MPInv /\ Decrypt => MPInv'
<1> SUFFICES ASSUME MPInv, Decrypt PROVE MPInv'
  OBVIOUS
<1> USE DEF askVars, rxVars, txVars, cryptoVars
<1>1. Types /\ HandleInv /\ IvInv /\ RxInv
  BY DEF MPInv
<1>2. /\ pc = "rx_cipher" /\ pc' = "rx_finish"
      /\ UNCHANGED <<frames, asked, rightKey, verdict, Key, BlemsgBuf, BlemsgLength,
                     BLEivBuf, BLEPrevivBuf, BLEencryptBuf, BLEencryptBufLen, fields,
                     answer, msgBuf, TxivBuf, TxEnCryptMsg, TxCpltMsg, TxCpltMsgLen, wire,
                     key_id, live, lost, drawn>>
  BY DEF Decrypt, CryptoStep, cryptoapp_decryptMsg
<1>3. /\ faulted' \in BOOLEAN
      /\ ~faulted' => ~faulted /\ faults' = faults /\ key_id # NoKey
  BY <1>2 DEF Decrypt, CallFailed
<1> DEFINE new == Ciphered(key_id, BLEivBuf, BLEencryptBuf, BLEencryptBufLen, BLEdecryptBuf)
<1>4. \/ key_id # NoKey /\ BLEdecryptBuf' = new /\ faults' = faults
      \/ key_id = NoKey /\ BLEdecryptBuf' = BLEdecryptBuf /\ faults' = faults
      \/ BLEdecryptBuf' = BLEdecryptBuf /\ faults' = faults + 1
  BY DEF Decrypt, cryptoapp_decryptMsg, Fails
<1>5. /\ asked \in Requests /\ frames \in 1..MaxFrames /\ faults \in Nat
      /\ key_id \in Keys \cup {NoKey}
      /\ BLEencryptBuf \in Buffer /\ BLEdecryptBuf \in Buffer
  BY <1>1, <1>2 DEF Types, HandleInv
<1>6. /\ BLEivBuf = ClientIvs[frames] /\ BLEencryptBufLen = AskedLen + asked.surplus
      /\ \A i \in 0..AskedLen - 1 :
            BLEencryptBuf[i] = Ctr(asked.key, ClientIvs[frames], i, InnerOf(asked)[i])
      /\ rightKey = (asked.key = Key)
  BY <1>1, <1>2 DEF RxInv, RxPcs
<1>7. /\ AskedLen \in Nat /\ AskedLen <= BufSize /\ asked.surplus \in Nat
      /\ \A i \in 0..AskedLen - 1 : InnerOf(asked)[i] \in Octet
  <2>1. /\ AskedLen \in 20..BufSize - 22 /\ asked.surplus \in 0..21
        /\ \A i \in 0..AskedLen - 1 : InnerOf(asked)[i] \in Octet
    BY <1>5, RequestFacts DEF AskedLen
  <2> QED
    BY <2>1, OctetBound
<1>a. key_id # NoKey => new \in Buffer
  <2> SUFFICES ASSUME key_id # NoKey PROVE new \in Buffer
    OBVIOUS
  <2>1. \A i \in 0..BufSize - 1 : Ctr(key_id, BLEivBuf, i, BLEencryptBuf[i]) \in Octet
    BY <1>5, <1>6, CtrFacts DEF Buffer
  <2> QED
    BY <2>1, <1>5 DEF Ciphered, Buffer
<1>b. BLEdecryptBuf' \in Buffer
  BY <1>4, <1>5, <1>a
<1>8. Types'
  BY <1>1, <1>2, <1>3, <1>b DEF Types, RxPcs, KeyPcs, TxPcs
<1>9. HandleInv'
  <2>1. faults' \in Nat
    BY <1>4, <1>5
  <2> QED
    BY <2>1, <1>1, <1>2 DEF HandleInv, HandlePcs
<1>10. IvInv'
  BY <1>1, <1>2 DEF IvInv, UsedIvs, NoKeystreamReuse
<1>11. RxInv'
  <2>1. BLEPrevivBuf' \in OldIvs'
    BY <1>1, <1>2 DEF RxInv, OldIvs
  <2>2. ASSUME ~faulted', rightKey PROVE Holds(BLEdecryptBuf', AskedLen, InnerOf(asked))
    <3>1. key_id = Key /\ asked.key = Key /\ Key \in Keys
      BY <2>2, <1>1, <1>2, <1>3, <1>6 DEF HandleInv, Types
    <3>2. faults' # faults + 1
      BY <2>2, <1>3, <1>5
    <3>3. BLEdecryptBuf' = new
      BY <2>2, <3>2, <1>3, <1>4
    <3>4. ASSUME NEW i \in 0..AskedLen - 1
          PROVE  BLEdecryptBuf'[i] = InnerOf(asked)[i]
      <4>1. i \in 0..BufSize - 1 /\ i < BLEencryptBufLen
        BY <1>6, <1>7, IndexBound
      <4>2. BLEdecryptBuf'[i] = Ctr(key_id, BLEivBuf, i, BLEencryptBuf[i])
        BY <4>1, <3>3, <1>5 DEF Ciphered, Buffer
      <4>3. @ = Ctr(Key, ClientIvs[frames], i, Ctr(Key, ClientIvs[frames], i, InnerOf(asked)[i]))
        BY <3>1, <1>6
      <4>4. @ = InnerOf(asked)[i]
        BY <4>1, <3>1, <1>5, <1>7, CtrFacts
      <4> QED
        BY <4>2, <4>3, <4>4
    <3> QED
      BY <3>4 DEF Holds
  <2> QED
    BY <2>1, <2>2, <1>1, <1>2 DEF RxInv, RxPcs, AskedLen
<1>12. ParsedInv'
  BY <1>2 DEF ParsedInv, KeyPcs
<1>13. TxInv'
  BY <1>2 DEF TxInv, TxPcs, Answered
<1> QED
  BY <1>8, <1>9, <1>10, <1>11, <1>12, <1>13 DEF MPInv

(* A message is understood or refused.                                       *)
LEMMA ParseInnerStep == MPInv /\ ParseInner => MPInv'
<1> SUFFICES ASSUME MPInv, ParseInner PROVE MPInv'
  OBVIOUS
<1> USE DEF askVars, rxVars, txVars, cryptoVars
<1>1. Types /\ HandleInv /\ IvInv /\ RxInv
  BY DEF MPInv
<1> DEFINE m == bib_parseInnerMsg(BLEdecryptBuf, BLEencryptBufLen, fields.id, fields.type,
                                  fields.msgid, fields.data, fields.dataLen)
           mine == SameString(MemoryFrom(m), 0, 8)
           known == <<m.type, m.msgid>> \in Commands
<1>2. /\ pc = "parse_inner"
      /\ fields' = [id |-> m.id, type |-> m.type, msgid |-> m.msgid, data |-> m.data,
                    dataLen |-> m.dataLen]
      /\ verdict' = IF m.ok /\ mine /\ known THEN "command" ELSE "nack"
      /\ pc' = IF verdict' = "command" /\ <<fields'.type, fields'.msgid>> = SetKeyCode
               THEN "key_import" ELSE "answer"
      /\ UNCHANGED <<frames, asked, rightKey, faulted, Key, BlemsgBuf, BlemsgLength,
                     BLEivBuf, BLEPrevivBuf, BLEencryptBuf, BLEencryptBufLen,
                     BLEdecryptBuf, answer, msgBuf, TxivBuf, TxEnCryptMsg, TxCpltMsg,
                     TxCpltMsgLen, wire, key_id, live, lost, drawn, faults>>
  BY DEF ParseInner
<1> HIDE DEF m
<1>3. /\ asked \in Requests /\ BLEdecryptBuf \in Buffer
      /\ fields \in [id : [IdIdx -> Octet], type : Octet, msgid : Octet,
                     data : Buffer, dataLen : Nat]
  BY <1>1, <1>2 DEF Types
<1>4. /\ BLEencryptBufLen = AskedLen + asked.surplus /\ asked.defect \notin OuterNoticed
      /\ ~faulted /\ rightKey => Holds(BLEdecryptBuf, AskedLen, InnerOf(asked))
  BY <1>1, <1>2 DEF RxInv, RxPcs
<1>5. AskedLen + asked.surplus \in 20..BufSize - 18 /\ asked.surplus \in 0..21
  BY <1>3, RequestFacts DEF AskedLen
<1>6. /\ m.id \in [IdIdx -> Octet] /\ m.type \in Octet /\ m.msgid \in Octet
      /\ m.data \in Buffer /\ m.dataLen \in Nat
  BY <1>3, <1>4, <1>5, InnerTypes DEF m
<1>7. ASSUME ~faulted, rightKey
      PROVE  /\ asked.defect \in Noticed => ~m.ok
             /\ m.ok => SaysWho(m, asked)
             /\ Sound(asked) => m.ok /\ SaysWhat(m, asked)
  <2>1. m = bib_parseInnerMsg(BLEdecryptBuf, InnerLen(asked.n) + asked.surplus, fields.id,
                              fields.type, fields.msgid, fields.data, fields.dataLen)
    BY <1>4 DEF AskedLen, m
  <2>2. Holds(BLEdecryptBuf, InnerLen(asked.n), InnerOf(asked))
    BY <1>4, <1>7 DEF AskedLen
  <2>3. fields.id \in [IdIdx -> Octet] /\ fields.data \in Buffer
    BY <1>3
  <2>4. asked \in Requests /\ BLEdecryptBuf \in Buffer
    BY <1>3
  <2> QED
    BY <2>1, <2>2, <2>3, <2>4, <1>4, InnerFacts DEF Sound
<1>a. pc' \in {"key_import", "answer"} /\ verdict' \in {"command", "nack"}
  BY <1>2
<1>b. /\ fields'.id = m.id /\ fields'.type = m.type /\ fields'.msgid = m.msgid
      /\ fields'.data = m.data /\ fields'.dataLen = m.dataLen
  BY <1>2
<1>8. Types'
  BY <1>1, <1>2, <1>6, <1>a DEF Types, RxPcs, KeyPcs, TxPcs
<1>9. HandleInv'
  BY <1>1, <1>2, <1>a DEF HandleInv, HandlePcs
<1>10. IvInv'
  <2>1. pc' \notin {"idle", "tx_finish", "notify"} => drawn' < frames'
    BY <1>1, <1>2 DEF IvInv
  <2> QED
    BY <2>1, <1>1, <1>2 DEF IvInv, UsedIvs, NoKeystreamReuse
<1>11. RxInv'
  <2>1. BLEPrevivBuf' \in OldIvs'
    BY <1>1, <1>2, <1>a DEF RxInv, OldIvs
  <2> QED
    BY <2>1, <1>2, <1>a DEF RxInv, RxPcs
<1>12. ParsedInv'
  <2>1. pc' = "key_import" <=>
          verdict' = "command" /\ <<m.type, m.msgid>> = SetKeyCode
    BY <1>2, <1>b
  <2>2. ASSUME ~faulted, Sound(asked)
        PROVE  /\ SaysWhat(fields', asked)
               /\ verdict' = "command" <=>
                    SameId(asked.id, uniqueId) /\ <<asked.type, asked.msgid>> \in Commands
               /\ m.type = asked.type /\ m.msgid = asked.msgid
    <3>1. m.ok /\ m.id = asked.id /\ SaysWhat(m, asked)
      BY <2>2, <1>7 DEF Sound, SaysWhat, SaysWho
    <3>2. mine <=> SameId(asked.id, uniqueId)
      BY <3>1, <1>3, IdCompared
    <3>3. m.type = asked.type /\ m.msgid = asked.msgid
      BY <3>1 DEF SaysWhat, SaysWho
    <3>4. SaysWhat(fields', asked)
      BY <3>1, <1>b DEF SaysWhat, SaysWho
    <3> QED
      BY <3>1, <3>2, <3>3, <3>4, <1>2
  <2>3. ASSUME ~faulted, rightKey
        PROVE  /\ asked.defect \in Noticed => pc' = "answer" /\ verdict' = "nack"
               /\ verdict' = "command" => SaysWho(fields', asked)
    <3>1. asked.defect \in Noticed => pc' = "answer" /\ verdict' = "nack"
      BY <2>3, <1>2, <1>7
    <3>2. ASSUME verdict' = "command" PROVE SaysWho(fields', asked)
      <4>1. SaysWho(m, asked)
        BY <2>3, <3>2, <1>2, <1>7
      <4> QED
        BY <4>1, <1>b DEF SaysWho
    <3> QED
      BY <3>1, <3>2
  <2>4. ASSUME ~faulted, Sound(asked), pc' = "answer"
        PROVE  verdict' = IF IsCommand(asked) THEN "command" ELSE "nack"
    BY <2>1, <2>2, <2>4, <1>a DEF IsCommand
  <2>5. ASSUME ~faulted, Sound(asked), pc' = "key_import"
        PROVE  SameId(asked.id, uniqueId) /\ <<asked.type, asked.msgid>> = SetKeyCode
    BY <2>1, <2>2, <2>5
  <2> QED
    BY <2>1, <2>2, <2>3, <2>4, <2>5, <1>2, <1>a DEF ParsedInv, KeyPcs, Sound, IsCommand
<1>13. TxInv'
  BY <1>2, <1>a DEF TxInv, TxPcs, Answered
<1> QED
  BY <1>8, <1>9, <1>10, <1>11, <1>12, <1>13 DEF MPInv

(* A new key is tried.                                                       *)
LEMMA TryKeyStep == MPInv /\ TryKey => MPInv'
<1> SUFFICES ASSUME MPInv, TryKey PROVE MPInv'
  OBVIOUS
<1> USE DEF askVars, rxVars, txVars, cryptoVars
<1>1. Types /\ HandleInv /\ IvInv /\ RxInv /\ ParsedInv
  BY DEF MPInv
<1> DEFINE key == KeyIn(fields.data)
<1>2. /\ pc = "key_import" /\ pc' = "key_finish"
      /\ fields.dataLen = 16 => key \in Keys
      /\ IF key_id' # NoKey THEN Key' = key /\ verdict' = verdict
                            ELSE Key' = Key /\ verdict' = "nack"
      /\ UNCHANGED <<frames, asked, rightKey, BlemsgBuf, BlemsgLength,
                     BLEivBuf, BLEPrevivBuf, BLEencryptBuf, BLEencryptBufLen,
                     BLEdecryptBuf, fields, answer, msgBuf, TxivBuf, TxEnCryptMsg,
                     TxCpltMsg, TxCpltMsgLen, wire, lost, drawn>>
  BY DEF TryKey, cryptoapp_importKey
<1>3. /\ faulted' \in BOOLEAN
      /\ ~faulted' => ~faulted /\ faults' = faults /\ live # Slots
  BY DEF TryKey
<1>4. \/ fields.dataLen = 16 /\ live' = live + 1 /\ key_id' = key /\ faults' = faults
      \/ /\ fields.dataLen # 16 \/ live = Slots
         /\ key_id' = NoKey /\ live' = live /\ faults' = faults
      \/ key_id' = NoKey /\ live' = live /\ faults' = faults + 1
  BY DEF TryKey, cryptoapp_importKey, Fails
<1> HIDE DEF key
<1>5. NoKey \notin Keys /\ Key \in Keys /\ verdict = "command"
  BY <1>1, <1>2, CryptoAssumption DEF Types, ParsedInv
<1>6. Key' \in Keys /\ verdict' \in {"command", "nack"}
  BY <1>2, <1>4, <1>5
<1>8. Types'
  BY <1>1, <1>2, <1>3, <1>6 DEF Types, RxPcs, KeyPcs, TxPcs
<1>9. HandleInv'
  <2>1. /\ pc \notin HandlePcs /\ pc' \in HandlePcs /\ pc' \notin {"rx_cipher", "tx_cipher"}
        /\ live \in Nat /\ lost \in Nat /\ faults \in Nat /\ live = lost
    BY <1>1, <1>2 DEF HandleInv, HandlePcs
  <2>2. \/ key_id' \in Keys /\ live' = live + 1 /\ faults' = faults
        \/ key_id' = NoKey /\ live' = live /\ faults' \in {faults, faults + 1}
    BY <1>2, <1>4
  <2>3. CASE key_id' \in Keys /\ live' = live + 1 /\ faults' = faults
    BY <2>1, <2>3, <1>2, <1>5 DEF HandleInv
  <2>4. CASE key_id' = NoKey /\ live' = live /\ faults' \in {faults, faults + 1}
    BY <2>1, <2>4, <1>2 DEF HandleInv
  <2> QED
    BY <2>2, <2>3, <2>4
<1>10. IvInv'
  <2>1. drawn' < frames'
    BY <1>1, <1>2 DEF IvInv
  <2> QED
    BY <2>1, <1>1, <1>2 DEF IvInv, UsedIvs, NoKeystreamReuse
<1>11. RxInv'
  <2>1. BLEPrevivBuf' \in OldIvs'
    BY <1>1, <1>2 DEF RxInv, OldIvs
  <2> QED
    BY <2>1, <1>2, <1>6 DEF RxInv, RxPcs
<1>12. ParsedInv'
  <2>1. ASSUME ~faulted', Sound(asked)
        PROVE  /\ SaysWhat(fields, asked)
               /\ verdict' = IF IsCommand(asked) THEN "command" ELSE "nack"
    <3>1. /\ SaysWhat(fields, asked)
          /\ SameId(asked.id, uniqueId) /\ <<asked.type, asked.msgid>> = SetKeyCode
      BY <2>1, <1>1, <1>2, <1>3 DEF ParsedInv, KeyPcs
    <3>2. fields.dataLen = asked.announced
      BY <3>1 DEF SaysWhat
    <3>3. IsCommand(asked) <=> fields.dataLen = 16
      BY <3>1, <3>2 DEF IsCommand, Commands, SetKeyCode
    <3>4. faults' # faults + 1
      BY <2>1, <1>1, <1>3 DEF HandleInv
    <3>5. CASE fields.dataLen = 16
      <4>1. key_id' = key /\ key \in Keys
        BY <2>1, <3>4, <3>5, <1>2, <1>3, <1>4
      <4> QED
        BY <4>1, <3>1, <3>3, <3>5, <1>2, <1>5
    <3>6. CASE fields.dataLen # 16
      BY <3>1, <3>3, <3>6, <1>2, <1>4
    <3> QED
      BY <3>5, <3>6
  <2>2. ASSUME ~faulted', rightKey
        PROVE  asked.defect \notin Noticed /\ SaysWho(fields, asked)
    BY <2>2, <1>1, <1>2, <1>3, <1>5 DEF ParsedInv, KeyPcs
  <2> QED
    BY <2>1, <2>2, <1>2 DEF ParsedInv, KeyPcs, Sound, IsCommand
<1>13. TxInv'
  BY <1>2 DEF TxInv, TxPcs, Answered
<1> QED
  BY <1>8, <1>9, <1>10, <1>11, <1>12, <1>13 DEF MPInv

(* What the answers are made of.                                             *)
LEMMA AnswerFacts ==
    ASSUME Key \in Keys, NEW code, NEW a \in AnswersTo(code)
    PROVE  /\ a.n \in 1..17 /\ a.announced \in 0..17
           /\ a.id = uniqueId /\ a.type \in Octet /\ a.msgid \in Octet
           /\ a.data \in [0..a.n - 1 -> Octet]
           /\ a.announced > a.n => a = KeyMsg
<1> DEFINE Good(b) == /\ b.n \in 1..17 /\ b.announced \in 0..17
                      /\ b.id = uniqueId /\ b.type \in Octet /\ b.msgid \in Octet
                      /\ b.data \in [0..b.n - 1 -> Octet]
                      /\ b.announced > b.n => b = KeyMsg
<1>0. {0, 1, 2, 3, 4, 6, 18, 21, 34} \subseteq Octet
  BY DEF Octet
<1>1. ASSUME NEW k \in {ACK, NACK} PROVE Good(AckNack(k))
  <2>1. NoData \in [0..1 - 1 -> Octet]
    BY <1>0 DEF NoData, NUL
  <2> QED
    BY <2>1, <1>0 DEF AckNack, Message, ACK, NACK
<1>2. ASSUME NEW k \in {1, 2}, NEW b \in Octet PROVE Good(StatusMsg(k, b))
  <2>1. [i \in {0} |-> b] \in [0..1 - 1 -> Octet]
    OBVIOUS
  <2> QED
    BY <2>1, <1>0 DEF StatusMsg, Message
<1>3. ASSUME NEW d \in Dates PROVE Good(DateMsg(d))
  <2>1. d \in [0..17 - 1 -> Octet]
    BY MessageAssumption
  <2> QED
    BY <2>1, <1>0 DEF DateMsg, Message
<1>4. Good(KeyMsg)
  <2>1. Key \in [0..16 - 1 -> Octet]
    BY MessageAssumption DEF IvIdx
  <2> QED
    BY <2>1, <1>0 DEF KeyMsg, Message
<1> HIDE DEF Good
<1>5. \/ \E k \in {ACK, NACK} : a = AckNack(k)
      \/ \E k \in {1, 2}, b \in Octet : a = StatusMsg(k, b)
      \/ \E d \in Dates : a = DateMsg(d)
      \/ a = KeyMsg
  <2>1. Statuses \subseteq Octet /\ Levels \subseteq Octet
    BY MessageAssumption
  <2>2. \/ a \in {AckNack(NACK)}
        \/ a \in {StatusMsg(1, b) : b \in Statuses}
        \/ a \in {StatusMsg(2, b) : b \in Levels}
        \/ a \in {DateMsg(d) : d \in Dates}
        \/ a \in {KeyMsg}
        \/ a \in {AckNack(ACK), AckNack(NACK)}
        \/ a \in {AckNack(ACK)}
    BY DEF AnswersTo
  <2> QED
    BY <2>1, <2>2
<1> QED
  BY <1>1, <1>2, <1>3, <1>4, <1>5 DEF Good

(* An answer fits the buffer.                                                *)
LEMMA AnswerFrameFacts ==
    ASSUME NEW a, a.n \in 1..17, a.announced \in 0..17,
           a.id = uniqueId, a.type \in Octet, a.msgid \in Octet,
           a.data \in [0..a.n - 1 -> Octet]
    PROVE  /\ InnerLen(a.n) = a.n + 19 /\ a.n \in 1..BufSize - 41 /\ a.announced \in Octet
           /\ InnerLen(a.n) \in 1..BufSize - 22
           /\ \A i \in 0..InnerLen(a.n) - 1 :
                InnerFrame(a.id, a.type, a.msgid, a.data, a.n, a.announced)[i] \in Octet
<1> DEFINE n == a.n
<1>1. n \in 1..17
  OBVIOUS
<1> HIDE DEF n
<1>2. InnerLen(n) = n + 19 /\ n \in 1..BufSize - 41 /\ InnerLen(n) \in 1..BufSize - 22
      /\ InnerLen(n) - 1 = n + 18
  BY <1>1, OctetBound DEF InnerLen
<1>3. a.announced \in Octet
  BY DEF Octet
<1>4. uniqueId \in [IdIdx -> Octet]
  BY MessageAssumption
<1>5. \A i \in 0..n + 18 :
         InnerFrame(a.id, a.type, a.msgid, a.data, n, a.announced)[i] \in Octet
  BY <1>2, <1>3, <1>4, InnerTyped DEF n
<1> QED
  BY <1>2, <1>3, <1>5 DEF n

(* An answer is written.                                                     *)
LEMMA BuildAnswerStep == MPInv /\ BuildAnswer => MPInv'
<1> SUFFICES ASSUME MPInv, BuildAnswer PROVE MPInv'
  OBVIOUS
<1> USE DEF askVars, rxVars, txVars, cryptoVars
<1>1. Types /\ HandleInv /\ IvInv /\ RxInv
  BY DEF MPInv
<1>2. /\ pc = "answer" /\ pc' = "tx_import"
      /\ UNCHANGED <<frames, asked, rightKey, verdict, faulted, Key, BlemsgBuf,
                     BlemsgLength, BLEivBuf, BLEPrevivBuf, BLEencryptBuf,
                     BLEencryptBufLen, BLEdecryptBuf, fields, TxivBuf, TxEnCryptMsg,
                     TxCpltMsg, TxCpltMsgLen, wire, key_id, live, lost, drawn, faults>>
      /\ answer' \in AnswersTo(<<fields.type, fields.msgid>>)
      /\ msgBuf' = Copied(msgBuf, AnswerFrame', 0, AnswerLen')
  BY DEF BuildAnswer, AnswerFrame, AnswerLen
<1>3. Key \in Keys /\ msgBuf \in Buffer
  BY <1>1 DEF Types
<1>4. AnswerOk'
  BY <1>2, <1>3, AnswerFacts DEF AnswerOk, KeyMsg
<1>5. /\ AnswerLen' \in 1..BufSize - 22
      /\ \A i \in 0..AnswerLen' - 1 : AnswerFrame'[i] \in Octet
  BY <1>4, AnswerFrameFacts DEF AnswerOk, AnswerFrame, AnswerLen
<1>6. AnswerLen' \in Nat /\ AnswerLen' <= BufSize
  BY <1>5, OctetBound
<1>7. msgBuf' \in Buffer /\ Holds(msgBuf, AnswerLen, AnswerFrame)'
  <2> DEFINE n == AnswerLen'
             f == AnswerFrame'
  <2>1. n \in Nat /\ n <= BufSize /\ \A i \in 0..n - 1 : f[i] \in Octet
    BY <1>5, <1>6
  <2>2. msgBuf' = Copied(msgBuf, f, 0, n)
    BY <1>2
  <2> HIDE DEF n, f
  <2>3. \A i \in 0..BufSize - 1 : i < n => i \in 0..n - 1 /\ 0 + i = i
    BY <2>1, IndexBound
  <2>4. msgBuf' \in Buffer
    BY <2>1, <2>2, <2>3, <1>3 DEF Copied, Buffer
  <2>5. \A i \in 0..n - 1 : msgBuf'[i] = f[i]
    <3>1. \A i \in 0..n - 1 : i \in 0..BufSize - 1 /\ i < n /\ 0 + i = i
      BY <2>1, IndexBound
    <3> QED
      BY <3>1, <2>2, <1>3 DEF Copied, Buffer
  <2> QED
    BY <2>4, <2>5 DEF Holds, n, f
<1>8. Types'
  BY <1>1, <1>2, <1>7 DEF Types, RxPcs, KeyPcs, TxPcs
<1>9. HandleInv'
  BY <1>1, <1>2 DEF HandleInv, HandlePcs
<1>10. IvInv'
  <2>1. drawn' < frames'
    BY <1>1, <1>2 DEF IvInv
  <2> QED
    BY <2>1, <1>1, <1>2 DEF IvInv, UsedIvs, NoKeystreamReuse
<1>11. RxInv'
  <2>1. BLEPrevivBuf' \in OldIvs'
    BY <1>1, <1>2 DEF RxInv, OldIvs
  <2> QED
    BY <2>1, <1>1, <1>2 DEF RxInv, RxPcs
<1>12. ParsedInv'
  BY <1>2 DEF ParsedInv, KeyPcs
<1>13. TxInv'
  BY <1>2, <1>4, <1>7 DEF TxInv, TxPcs, Answered
<1> QED
  BY <1>8, <1>9, <1>10, <1>11, <1>12, <1>13 DEF MPInv

(* Encryption, or its failure.                                               *)
LEMMA EncryptStep == MPInv /\ Encrypt => MPInv'
<1> SUFFICES ASSUME MPInv, Encrypt PROVE MPInv'
  OBVIOUS
<1> USE DEF askVars, rxVars, txVars, cryptoVars
<1>1. Types /\ HandleInv /\ IvInv /\ RxInv /\ TxInv
  BY DEF MPInv
<1> DEFINE New(iv) == Ciphered(key_id, iv, msgBuf, AnswerLen, TxEnCryptMsg)
<1>2. /\ pc = "tx_cipher" /\ pc' = "tx_finish"
      /\ UNCHANGED <<frames, asked, rightKey, verdict, Key, BlemsgBuf,
                     BlemsgLength, BLEivBuf, BLEPrevivBuf, BLEencryptBuf,
                     BLEencryptBufLen, BLEdecryptBuf, fields, answer, msgBuf,
                     TxCpltMsg, TxCpltMsgLen, wire, key_id, live, lost>>
  BY DEF Encrypt, CryptoStep, cryptoapp_encryptMsg
<1>3. /\ faulted' \in BOOLEAN
      /\ ~faulted' => ~faulted /\ faults' = faults /\ key_id # NoKey
  BY <1>2 DEF Encrypt, CallFailed
<1>4. \/ /\ key_id # NoKey /\ TxivBuf' = LockIvs[drawn + 1] /\ drawn' = drawn + 1
         /\ TxEnCryptMsg' = New(TxivBuf') /\ faults' = faults
      \/ /\ key_id = NoKey /\ TxEnCryptMsg' = TxEnCryptMsg /\ TxivBuf' = TxivBuf
         /\ drawn' = drawn /\ faults' = faults
      \/ /\ TxEnCryptMsg' = TxEnCryptMsg /\ TxivBuf' = TxivBuf /\ drawn' = drawn
         /\ faults' = faults + 1
      \/ /\ TxEnCryptMsg' = TxEnCryptMsg /\ TxivBuf' = LockIvs[drawn + 1]
         /\ drawn' = drawn + 1 /\ faults' = faults + 1
  BY DEF Encrypt, cryptoapp_encryptMsg, Fails, AnswerLen
<1>5. /\ key_id \in Keys \cup {NoKey} /\ Key \in Keys /\ faults \in Nat
      /\ msgBuf \in Buffer /\ TxEnCryptMsg \in Buffer /\ TxivBuf \in [IvIdx -> Octet]
      /\ ~faulted => key_id = Key
  BY <1>1, <1>2 DEF Types, HandleInv
<1>6. /\ drawn + 1 \in 1..MaxFrames /\ drawn \in Nat /\ drawn < frames /\ frames \in Nat
      /\ drawn + 1 \in 1..drawn + 1
  BY <1>1, <1>2, IvFacts DEF IvInv, Types
<1>7. /\ LockIvs[drawn + 1] \in [IvIdx -> Octet]
      /\ LockIvs[drawn + 1] # ZeroIv
      /\ \A m \in 1..drawn : LockIvs[m] # LockIvs[drawn + 1]
  <2>1. \A m \in 1..drawn : m \in 1..MaxFrames /\ m # drawn + 1
    BY <1>6, IvFacts
  <2> QED
    BY <2>1, <1>6, IvFacts
<1>a. AnswerOk /\ Holds(msgBuf, AnswerLen, AnswerFrame)
  BY <1>1, <1>2 DEF TxInv, TxPcs
<1>b. /\ AnswerLen \in 1..BufSize - 22
      /\ \A i \in 0..AnswerLen - 1 : AnswerFrame[i] \in Octet
  BY <1>a, AnswerFrameFacts DEF AnswerOk, AnswerFrame, AnswerLen
<1>c. AnswerLen \in Nat /\ AnswerLen <= BufSize
  BY <1>b, OctetBound
<1>d. key_id # NoKey => New(LockIvs[drawn + 1]) \in Buffer
  <2> SUFFICES ASSUME key_id # NoKey PROVE New(LockIvs[drawn + 1]) \in Buffer
    OBVIOUS
  <2>1. \A i \in 0..BufSize - 1 : Ctr(key_id, LockIvs[drawn + 1], i, msgBuf[i]) \in Octet
    BY <1>5, <1>6, CtrFacts DEF Buffer
  <2> QED
    BY <2>1, <1>5 DEF Ciphered, Buffer
<1>e. /\ TxEnCryptMsg' \in Buffer /\ TxivBuf' \in [IvIdx -> Octet]
      /\ faults' \in Nat /\ drawn' \in {drawn, drawn + 1}
  BY <1>4, <1>5, <1>7, <1>d
<1>8. Types'
  BY <1>1, <1>2, <1>3, <1>e DEF Types, RxPcs, KeyPcs, TxPcs
<1>9. HandleInv'
  BY <1>1, <1>2, <1>e DEF HandleInv, HandlePcs
<1>10. IvInv'
  <2>1. drawn' \in 0..frames'
    BY <1>2, <1>6, <1>e
  <2>2. UsedIvs \subseteq UsedIvs' /\ TxivBuf' \in UsedIvs'
    <3>1. \A m \in 1..drawn : m \in 1..drawn'
      BY <1>6, <1>e
    <3>2. UsedIvs \subseteq UsedIvs'
      BY <3>1 DEF UsedIvs
    <3>3. \/ TxivBuf' = TxivBuf
          \/ TxivBuf' = LockIvs[drawn + 1] /\ drawn' = drawn + 1
      BY <1>4
    <3>4. CASE TxivBuf' = TxivBuf
      BY <3>2, <3>4, <1>1 DEF IvInv
    <3>5. CASE TxivBuf' = LockIvs[drawn + 1] /\ drawn' = drawn + 1
      <4>1. LockIvs[drawn + 1] \in {LockIvs[m] : m \in 1..drawn + 1}
        BY <1>6
      <4> QED
        BY <4>1, <3>2, <3>5 DEF UsedIvs
    <3> QED
      BY <3>2, <3>3, <3>4, <3>5
  <2>3. ASSUME NEW w \in wire
        PROVE  /\ w.iv \in UsedIvs' /\ w.len \in Nat
               /\ w.iv = TxivBuf' => \A i \in 0..w.len - 1 : w.cipher[i] = TxEnCryptMsg'[i]
    <3>1. /\ w.iv \in UsedIvs /\ w.len \in Nat
          /\ w.iv = TxivBuf => \A i \in 0..w.len - 1 : w.cipher[i] = TxEnCryptMsg[i]
      BY <1>1 DEF IvInv
    <3>2. w.iv # LockIvs[drawn + 1]
      BY <3>1, <1>7 DEF UsedIvs
    <3> QED
      BY <3>1, <3>2, <2>2, <1>4
  <2> QED
    BY <2>1, <2>2, <2>3, <1>1, <1>2 DEF IvInv, NoKeystreamReuse
<1>11. RxInv'
  <2>1. BLEPrevivBuf' \in OldIvs'
    BY <1>1, <1>2 DEF RxInv, OldIvs
  <2> QED
    BY <2>1, <1>1, <1>2 DEF RxInv, RxPcs
<1>12. ParsedInv'
  BY <1>2 DEF ParsedInv, KeyPcs
<1>13. TxInv'
  <2>1. AnswerOk'
    BY <1>2, <1>a DEF AnswerOk, KeyMsg
  <2>2. ASSUME ~faulted'
        PROVE  /\ \E m \in 1..drawn' : TxivBuf' = LockIvs[m]
               /\ \A i \in 0..AnswerLen - 1 :
                     TxEnCryptMsg'[i] = Ctr(Key, TxivBuf', i, AnswerFrame[i])
    <3>1. key_id # NoKey /\ key_id = Key /\ faults' # faults + 1
      BY <2>2, <1>3, <1>5
    <3>2. /\ TxivBuf' = LockIvs[drawn + 1] /\ drawn' = drawn + 1
          /\ TxEnCryptMsg' = New(TxivBuf')
      BY <3>1, <1>4
    <3>3. \A i \in 0..AnswerLen - 1 : i \in 0..BufSize - 1 /\ i < AnswerLen
      BY <1>c, IndexBound
    <3>4. \A i \in 0..AnswerLen - 1 : msgBuf[i] = AnswerFrame[i]
      BY <1>a DEF Holds
    <3>5. \A i \in 0..AnswerLen - 1 :
             TxEnCryptMsg'[i] = Ctr(Key, TxivBuf', i, AnswerFrame[i])
      BY <3>1, <3>2, <3>3, <3>4, <1>5 DEF Ciphered, Buffer
    <3> QED
      BY <3>2, <3>5, <1>6
  <2>3. AnswerLen' = AnswerLen /\ AnswerFrame' = AnswerFrame /\ Key' = Key
    BY <1>2 DEF AnswerLen, AnswerFrame
  <2>4. pc' = "tx_finish" /\ ~Answered'
    BY <1>2 DEF Answered
  <2> QED
    BY <2>1, <2>2, <2>3, <2>4 DEF TxInv, TxPcs
<1> QED
  BY <1>8, <1>9, <1>10, <1>11, <1>12, <1>13 DEF MPInv

(* An answer goes out.                                                       *)
LEMMA NotifyStep == MPInv /\ Notify => MPInv'
<1> SUFFICES ASSUME MPInv, Notify PROVE MPInv'
  OBVIOUS
<1> USE DEF askVars, rxVars, txVars, cryptoVars
<1>1. Types /\ HandleInv /\ IvInv /\ RxInv /\ TxInv
  BY DEF MPInv
<1> DEFINE f == OuterFrame(TxivBuf, TxEnCryptMsg, AnswerLen)
           w0 == [iv |-> [i \in IvIdx |-> TxCpltMsg'[i + 1]], len |-> AnswerLen,
                  cipher |-> [i \in 0..AnswerLen - 1 |-> TxCpltMsg'[i + 18]]]
<1>2. /\ pc = "notify" /\ pc' = "idle"
      /\ UNCHANGED <<frames, asked, rightKey, verdict, faulted, Key, BlemsgBuf,
                     BlemsgLength, BLEivBuf, BLEPrevivBuf, BLEencryptBuf,
                     BLEencryptBufLen, BLEdecryptBuf, fields, answer, msgBuf, TxivBuf,
                     TxEnCryptMsg, key_id, live, lost, drawn, faults>>
      /\ TxCpltMsgLen' = OuterLen(AnswerLen)
      /\ TxCpltMsg' = Copied(TxCpltMsg, f, 0, OuterLen(AnswerLen))
      /\ wire' = wire \cup {w0}
  BY DEF Notify, AnswerLen
<1>3. /\ TxCpltMsg \in Buffer /\ TxEnCryptMsg \in Buffer /\ TxivBuf \in [IvIdx -> Octet]
      /\ Key \in Keys
  BY <1>1 DEF Types
<1>4. AnswerOk
  BY <1>1, <1>2 DEF TxInv, TxPcs
<1>5. AnswerLen \in 1..BufSize - 22
  BY <1>4, AnswerFrameFacts DEF AnswerOk, AnswerLen
<1>6. /\ OuterLen(AnswerLen) = AnswerLen + 22 /\ OuterLen(AnswerLen) \in Nat
      /\ OuterLen(AnswerLen) <= BufSize /\ AnswerLen \in Nat /\ AnswerLen > 0
      /\ OuterLen(AnswerLen) - 1 = AnswerLen + 21
  BY <1>5, OctetBound DEF OuterLen
<1>7. \A i \in 0..AnswerLen + 21 : f[i] \in Octet
  <2>1. \A i \in 0..AnswerLen - 1 : TxEnCryptMsg[i] \in Octet
    <3>1. \A i \in 0..AnswerLen - 1 : i \in 0..BufSize - 1
      BY <1>5, OctetBound
    <3> QED
      BY <3>1, <1>3 DEF Buffer
  <2> QED
    BY <2>1, <1>3, <1>5, OuterTyped
<1> HIDE DEF f
<1>a. TxCpltMsg' \in Buffer /\ \A i \in 0..AnswerLen + 21 : TxCpltMsg'[i] = f[i]
  <2> DEFINE n == OuterLen(AnswerLen)
  <2>1. n \in Nat /\ n <= BufSize /\ n - 1 = AnswerLen + 21
    BY <1>6
  <2>2. TxCpltMsg' = Copied(TxCpltMsg, f, 0, n)
    BY <1>2
  <2> HIDE DEF n
  <2>3. \A i \in 0..BufSize - 1 : i < n => i \in 0..n - 1 /\ 0 + i = i
    BY <2>1, IndexBound
  <2>4. \A i \in 0..n - 1 : i \in 0..BufSize - 1 /\ i < n /\ 0 + i = i
    BY <2>1, IndexBound
  <2>5. TxCpltMsg' \in Buffer
    BY <2>1, <2>2, <2>3, <1>3, <1>7 DEF Copied, Buffer
  <2>6. \A i \in 0..n - 1 : TxCpltMsg'[i] = f[i]
    BY <2>2, <2>4, <1>3 DEF Copied, Buffer
  <2> QED
    BY <2>1, <2>5, <2>6
<1>b. /\ \A i \in IvIdx : f[i + 1] = TxivBuf[i]
      /\ \A i \in 0..AnswerLen - 1 : f[i + 18] = TxEnCryptMsg[i]
  BY <1>6, OuterAt DEF f
<1>c. w0.iv = TxivBuf /\ w0.len = AnswerLen
      /\ \A i \in 0..AnswerLen - 1 : w0.cipher[i] = TxEnCryptMsg[i]
  <2>1. \A i \in IvIdx : i + 1 \in 0..AnswerLen + 21
    BY <1>6 DEF IvIdx
  <2>2. \A i \in 0..AnswerLen - 1 : i + 18 \in 0..AnswerLen + 21
    BY <1>6
  <2>3. \A i \in IvIdx : TxCpltMsg'[i + 1] = TxivBuf[i]
    BY <2>1, <1>a, <1>b
  <2>4. \A i \in 0..AnswerLen - 1 : TxCpltMsg'[i + 18] = TxEnCryptMsg[i]
    BY <2>2, <1>a, <1>b
  <2>5. w0.iv = TxivBuf
    BY <2>3, <1>3
  <2> QED
    BY <2>4, <2>5
<1> HIDE DEF w0
<1>8. Types'
  BY <1>1, <1>2, <1>a DEF Types, RxPcs, KeyPcs, TxPcs
<1>9. HandleInv'
  BY <1>1, <1>2 DEF HandleInv, HandlePcs
<1>10. IvInv'
  <2>1. UsedIvs' = UsedIvs /\ TxivBuf' \in UsedIvs' /\ drawn' \in 0..frames'
    BY <1>1, <1>2 DEF IvInv, UsedIvs
  <2>2. \A w \in wire' :
           /\ w.iv \in UsedIvs /\ w.len \in Nat
           /\ w.iv = TxivBuf => \A i \in 0..w.len - 1 : w.cipher[i] = TxEnCryptMsg[i]
    <3>1. \A w \in wire :
             /\ w.iv \in UsedIvs /\ w.len \in Nat
             /\ w.iv = TxivBuf => \A i \in 0..w.len - 1 : w.cipher[i] = TxEnCryptMsg[i]
      BY <1>1 DEF IvInv
    <3>2. TxivBuf \in UsedIvs
      BY <1>1 DEF IvInv
    <3> QED
      BY <3>1, <3>2, <1>2, <1>6, <1>c
  <2>3. NoKeystreamReuse'
    <3> SUFFICES ASSUME NEW a \in wire', NEW b \in wire', a.iv = b.iv,
                        NEW i \in 0..a.len - 1, i < b.len
                 PROVE  a.cipher[i] = b.cipher[i]
      BY DEF NoKeystreamReuse
    <3>1. a.len \in Nat /\ b.len \in Nat
      BY <2>2
    <3>2. i \in 0..b.len - 1
      BY <3>1
    <3>3. CASE a \in wire /\ b \in wire
      BY <3>3, <1>1 DEF IvInv, NoKeystreamReuse
    <3>4. CASE a = w0 \/ b = w0
      <4>1. a.iv = TxivBuf /\ b.iv = TxivBuf
        BY <3>4, <1>c
      <4> QED
        BY <4>1, <3>2, <2>2
    <3> QED
      BY <3>3, <3>4, <1>2
  <2> QED
    BY <2>1, <2>2, <2>3, <1>2 DEF IvInv
<1>11. RxInv'
  <2>1. BLEPrevivBuf' \in OldIvs'
    BY <1>1, <1>2 DEF RxInv, OldIvs
  <2> QED
    BY <2>1, <1>1, <1>2 DEF RxInv, RxPcs
<1>12. ParsedInv'
  BY <1>2 DEF ParsedInv, KeyPcs
<1>13. TxInv'
  <2>1. AnswerOk'
    BY <1>2, <1>4 DEF AnswerOk, KeyMsg
  <2>2. AnswerLen' = AnswerLen /\ AnswerFrame' = AnswerFrame
    BY <1>2 DEF AnswerLen, AnswerFrame
  <2>3. ~faulted' =>
         /\ \E m \in 1..drawn' : TxivBuf' = LockIvs[m]
         /\ \A i \in 0..AnswerLen - 1 :
               TxEnCryptMsg'[i] = Ctr(Key', TxivBuf', i, AnswerFrame[i])
    BY <1>1, <1>2 DEF TxInv
  <2>4. Holds(TxCpltMsg, TxCpltMsgLen, OuterFrame(TxivBuf, TxEnCryptMsg, AnswerLen))'
    <3>1. OuterFrame(TxivBuf, TxEnCryptMsg, AnswerLen)' = f
      BY <1>2, <2>2 DEF f
    <3>2. TxCpltMsgLen' - 1 = AnswerLen + 21
      BY <1>2, <1>6
    <3> QED
      BY <3>1, <3>2, <1>a DEF Holds
  <2> QED
    BY <2>1, <2>2, <2>3, <2>4, <1>2 DEF TxInv, TxPcs
<1> QED
  BY <1>8, <1>9, <1>10, <1>11, <1>12, <1>13 DEF MPInv

-----------------------------------------------------------------------------
(* The start, stuttering, and the theorems.                                *)

(* The invariant holds at the start.                                         *)
LEMMA InitInvariant == Init => MPInv
<1> SUFFICES ASSUME Init PROVE MPInv
  OBVIOUS
<1> USE DEF Init, CryptoInit
<1>1. 0 \in Octet /\ ZeroBuffer \in Buffer /\ [i \in IdIdx |-> 0] \in [IdIdx -> Octet]
  <2>1. 0 \in Octet
    BY DEF Octet
  <2> QED
    BY <2>1 DEF ZeroBuffer, Buffer
<1>2. FirstKey \in Keys
  BY MessageAssumption
<1>3. Types
  <2>1. fields \in [id : [IdIdx -> Octet], type : Octet, msgid : Octet,
                    data : Buffer, dataLen : Nat]
    BY <1>1
  <2>2. pc = "idle" /\ frames \in 0..MaxFrames
    BY IvFacts
  <2>3. pc \notin {"answer", "received"} \cup RxPcs \cup KeyPcs \cup TxPcs
    BY <2>2 DEF RxPcs, KeyPcs, TxPcs
  <2> QED
    BY <2>1, <2>2, <2>3, <1>1, <1>2, IvFacts DEF Types
<1>4. HandleInv
  BY DEF HandleInv, HandlePcs
<1>5. IvInv
  BY DEF IvInv, UsedIvs, NoKeystreamReuse
<1>6. RxInv
  BY DEF RxInv, RxPcs, OldIvs
<1>7. ParsedInv
  BY DEF ParsedInv, KeyPcs
<1>8. TxInv
  BY DEF TxInv, TxPcs, Answered
<1> QED
  BY <1>3, <1>4, <1>5, <1>6, <1>7, <1>8 DEF MPInv

(* Nothing changes.                                                          *)
LEMMA StutterStep == MPInv /\ UNCHANGED vars => MPInv'
<1> SUFFICES ASSUME MPInv, UNCHANGED vars PROVE MPInv'
  OBVIOUS
<1> USE DEF vars, askVars, rxVars, txVars, cryptoVars
<1>1. Types'
  BY DEF MPInv, Types
<1>2. HandleInv'
  BY DEF MPInv, HandleInv
<1>3. IvInv'
  BY DEF MPInv, IvInv, UsedIvs, NoKeystreamReuse
<1>4. RxInv'
  BY DEF MPInv, RxInv, OldIvs, AskedLen
<1>5. ParsedInv'
  BY DEF MPInv, ParsedInv, Sound
<1>6. TxInv'
  BY DEF MPInv, TxInv, Answered, AnswerOk, AnswerLen, AnswerFrame, KeyMsg
<1> QED
  BY <1>1, <1>2, <1>3, <1>4, <1>5, <1>6 DEF MPInv

(* Whatever requests, keys, IVs and answers there are, the invariant holds.  *)
THEOREM MessageInvariance == Spec => []MPInv
<1>1. MPInv /\ [Next]_vars => MPInv'
  <2> SUFFICES ASSUME MPInv, [Next]_vars PROVE MPInv'
    OBVIOUS
  <2> QED
    BY WriteStep, ParseMainStep, ImportKeyStep, DecryptStep, EncryptStep, DestroyKeyStep,
       ParseInnerStep, TryKeyStep, BuildAnswerStep, NotifyStep, StutterStep DEF Next
<1> QED
  BY <1>1, InitInvariant, PTL DEF Spec

(* What went out under one IV is one ciphertext: no failing call of the      *)
(* library makes cryptoapp_encryptMsg use an IV for two messages.            *)
THEOREM IvsAreFresh == Spec => []NoKeystreamReuse
<1>1. MPInv => NoKeystreamReuse
  BY DEF MPInv, IvInv
<1> QED
  BY <1>1, MessageInvariance, PTL

(* Between messages no key slot is in use but those the library itself       *)
(* failed to free (cryptoapp_run, cryptoapp_finish).                         *)
THEOREM SlotsComeBack == Spec => []KeysReleased
<1>1. MPInv => KeysReleased
  <2> SUFFICES ASSUME MPInv, pc \in {"idle", "answer"} PROVE live = lost
    BY DEF KeysReleased
  <2>1. pc \notin HandlePcs
    BY DEF HandlePcs
  <2> QED
    BY <2>1 DEF MPInv, HandleInv
<1> QED
  BY <1>1, MessageInvariance, PTL

(* What a message under the key of the lock says is understood as it was     *)
(* meant, whatever the buffers held before, if all is right that the parsers *)
(* look at (of the marks, all but the EM behind data and ciphertext and the  *)
(* ETX); if a mark or length they look at is wrong, it is no command; and a  *)
(* frame that announces too much ciphertext is no other command than its own *)
(* (bib.c, MSG_RECV of main.c).                                              *)
THEOREM FramesAreUnderstood == Spec => []FrameUnderstood
<1>1. MPInv => FrameUnderstood
  BY DEF MPInv, ParsedInv, RxInv, FrameUnderstood, Sound
<1> QED
  BY <1>1, MessageInvariance, PTL

(* A client that parses a notification as the lock parses frames reads what  *)
(* the lock had to say (the answers of main.c).                              *)
THEOREM AnswersAreUnderstood == Spec => []AnswerUnderstood
<1>1. MPInv => AnswerUnderstood
  <2> SUFFICES ASSUME MPInv, Answered, ~faulted
               PROVE  ClientReads.ok /\ SaysWhat(ClientReads, answer)
    BY DEF AnswerUnderstood
  <2>1. Types /\ IvInv /\ TxInv
    BY DEF MPInv
  <2> DEFINE n == AnswerLen
             o == bib_parseMainMsg(TxCpltMsg, TxCpltMsgLen, ZeroIv, ZeroBuffer, 0)
             q == Ciphered(Key, o.iv, o.cipher, o.cipherLen, ZeroBuffer)
             c == ClientReads
  <2>2. /\ AnswerOk
        /\ TxCpltMsgLen = n + 22
        /\ Holds(TxCpltMsg, n + 22, OuterFrame(TxivBuf, TxEnCryptMsg, n))
        /\ \A i \in 0..n - 1 : TxEnCryptMsg[i] = Ctr(Key, TxivBuf, i, AnswerFrame[i])
    BY <2>1 DEF TxInv, OuterLen
  <2>3. PICK m \in 1..MaxFrames : TxivBuf = LockIvs[m]
    <3>1. PICK m \in 1..drawn : TxivBuf = LockIvs[m]
      BY <2>1 DEF TxInv
    <3>2. m \in 1..MaxFrames
      BY <2>1, IvFacts DEF IvInv, Types
    <3> QED
      BY <3>1, <3>2
  <2>4. /\ n = answer.n + 19 /\ answer.n \in 1..BufSize - 41 /\ answer.announced \in Octet
        /\ n \in 1..BufSize - 22 /\ n \in Nat /\ n <= BufSize
        /\ \A i \in 0..n - 1 : AnswerFrame[i] \in Octet
    BY <2>2, AnswerFrameFacts, OctetBound DEF AnswerOk, AnswerLen, AnswerFrame
  <2>5. ZeroBuffer \in Buffer /\ ZeroIv \in [IvIdx -> Octet]
        /\ [i \in IdIdx |-> 0] \in [IdIdx -> Octet]
    <3>1. 0 \in Octet
      BY DEF Octet
    <3> QED
      BY <3>1, IvFacts DEF ZeroBuffer, Buffer
  <2>6. o.iv = TxivBuf /\ o.cipherLen = n /\ Holds(o.cipher, n, TxEnCryptMsg)
    <3>1. TxCpltMsg \in Buffer /\ TxivBuf \in [IvIdx -> Octet]
      BY <2>1 DEF Types
    <3> QED
      BY <3>1, <2>2, <2>4, <2>5, MainRoundTrip
  <2>7. o.cipher \in Buffer
    <3>1. o.cipher \in {ZeroBuffer, Copied(ZeroBuffer, TxCpltMsg, 18, n)}
      <4>1. o.cipherLen = ReadLength(TxCpltMsg, TxCpltMsgLen - 3) \/ o.cipher = ZeroBuffer
        BY DEF bib_parseMainMsg
      <4> QED
        BY <4>1, <2>6 DEF bib_parseMainMsg
    <3>2. \A i \in 0..BufSize - 1 : i < n => 18 + i \in 0..BufSize - 1
      BY <2>4, OctetBound
    <3>3. TxCpltMsg \in Buffer
      BY <2>1 DEF Types
    <3>4. Copied(ZeroBuffer, TxCpltMsg, 18, n) \in Buffer
      BY <3>2, <3>3, <2>5 DEF Copied, Buffer
    <3> QED
      BY <3>1, <3>4, <2>5
  <2> HIDE DEF n, o
  <2>8. q \in Buffer /\ Holds(q, n, AnswerFrame)
    <3>1. Key \in Keys
      BY <2>1 DEF Types
    <3>2. \A i \in 0..BufSize - 1 : Ctr(Key, TxivBuf, i, o.cipher[i]) \in Octet
      BY <3>1, <2>3, <2>7, CtrFacts DEF Buffer
    <3>3. q = [i \in 0..BufSize - 1 |->
                 IF i < n THEN Ctr(Key, TxivBuf, i, o.cipher[i]) ELSE ZeroBuffer[i]]
      BY <2>6 DEF Ciphered, ZeroBuffer
    <3>4. q \in Buffer
      BY <3>2, <3>3, <2>5 DEF Buffer
    <3>5. ASSUME NEW i \in 0..n - 1 PROVE q[i] = AnswerFrame[i]
      <4>1. i \in 0..BufSize - 1 /\ i < n
        BY <2>4, IndexBound
      <4>2. q[i] = Ctr(Key, TxivBuf, i, o.cipher[i])
        BY <4>1, <3>3
      <4>3. @ = Ctr(Key, LockIvs[m], i, Ctr(Key, LockIvs[m], i, AnswerFrame[i]))
        BY <2>2, <2>3, <2>6 DEF Holds, n
      <4>4. @ = AnswerFrame[i]
        BY <4>1, <3>1, <2>3, <2>4, CtrFacts
      <4> QED
        BY <4>2, <4>3, <4>4
    <3> QED
      BY <3>4, <3>5 DEF Holds
  <2>9. c = bib_parseInnerMsg(q, answer.n + 19, [i \in IdIdx |-> 0], 0, 0, ZeroBuffer, 0)
    BY <2>4, <2>6 DEF ClientReads, o
  <2>10. /\ uniqueId \in [IdIdx -> Octet] /\ answer.id = uniqueId
         /\ answer.announced < answer.n + 19
         /\ Holds(q, answer.n + 19, AnswerFrame)
    <3>1. answer.id = uniqueId /\ answer.announced \in 0..17 /\ answer.n \in 1..17
      BY <2>2 DEF AnswerOk
    <3>2. answer.announced < answer.n + 19
      BY <3>1
    <3>3. Holds(q, answer.n + 19, AnswerFrame)
      BY <2>4, <2>8
    <3> QED
      BY <3>1, <3>2, <3>3, MessageAssumption
  <2> HIDE DEF q, c
  <2>11. /\ c.ok /\ c.id = answer.id /\ c.type = answer.type /\ c.msgid = answer.msgid
         /\ c.dataLen = answer.announced
         /\ \A i \in 0..answer.announced - 1 : i < answer.n => c.data[i] = answer.data[i]
    BY <2>4, <2>5, <2>8, <2>9, <2>10, InnerRoundTrip DEF AnswerFrame
  <2> QED
    BY <2>11 DEF SaysWhat, SaysWho, c
<1> QED
  BY <1>1, MessageInvariance, PTL
=============================================================================
