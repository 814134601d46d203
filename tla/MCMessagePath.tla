--------------------------- MODULE MCMessagePath ---------------------------
(* Instances of MessagePath for the model checker, with the IV, key and id   *)
(* sizes of the code.  IVs, ids and data contain the bytes EM, EOT and SOH.  *)
EXTENDS MessagePathInvariant

K0 == [i \in IvIdx |-> 3 * i]
K1 == [i \in IvIdx |-> 25]
Id == [i \in IdIdx |-> IF i = 5 THEN 0 ELSE 25 - i]
OtherId == [Id EXCEPT ![4] = 7]
NearId == [Id EXCEPT ![7] = 200]    \* differs behind the zero byte only
MCKeys == {K0, K1}
DateBytes == [i \in 0..16 |-> IF i \in {2, 5} THEN 58 ELSE IF i \in {8, 11, 14} THEN 47 ELSE 48 + (i % 3)]
MCIvs(salt) == [n \in 1..MaxFrames |-> [i \in IvIdx |-> IF i = 15 THEN n ELSE salt + i]]
MCClientIvs == MCIvs(4)
MCLockIvs == MCIvs(20)
MCCtr(k, iv, i, b) == (k[i % 16] + 3 * iv[15] + 5 * iv[i % 16] + 7 * i + 90 - b) % 256

MCDates == {DateBytes}
Ask(id, code, data, n, announced, key) ==
    [id |-> id, type |-> code[1], msgid |-> code[2], data |-> data, n |-> n,
     announced |-> announced, surplus |-> 0, key |-> key, defect |-> "none"]
Plain(code) == Ask(Id, code, NoData, 1, 0, K0)
SetKey(n, announced) == Ask(Id, <<3, 33>>, [i \in 0..n - 1 |-> 25], n, announced, K0)

MCRequests ==
    {Plain(c) : c \in {<<1, 1>>, <<2, 1>>, <<2, 2>>, <<3, 18>>, <<3, 34>>, <<3, 33>>, <<1, 9>>}}
    \cup {Ask(Id, <<3, 17>>, DateBytes, 17, 17, K0),
          Ask(Id, <<3, 17>>, DateBytes, 17, 20, K0),
          SetKey(16, 16), SetKey(15, 16),
          Ask(OtherId, <<1, 1>>, NoData, 1, 0, K0),
          Ask(NearId, <<1, 1>>, NoData, 1, 0, K0),
          Ask(Id, <<1, 1>>, NoData, 1, 0, K1)}
    \cup {[Plain(<<1, 1>>) EXCEPT !.surplus = s] : s \in {1, 5}}
    \cup {[Plain(<<1, 1>>) EXCEPT !.defect = d] :
             d \in {"soh", "eot", "stx", "inner_em1", "inner_em3", "inner_eot", "etx"}}
    \cup {[SetKey(16, 16) EXCEPT !.defect = d] :
             d \in {"em", "length", "last_em", "inner_em2", "inner_length", "inner_last_em"}}
=============================================================================
