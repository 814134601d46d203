----------------------------- MODULE MCSmartLock -----------------------------
(* Instances of SmartLock for the model checker.                             *)
EXTENDS SmartLockService

(* The pieces of data.  A short time of day makes the date t2 of the rest of *)
(* t1, and so does the key k1 for a command without data after it.           *)
MCPieces == {"0", "h", "i", "x", "m", "n", "y", "z"}
MCZero   == "0"
short == <<"i">>
k0 == <<"0", "n">>
k1 == <<"i", "m">>
t1 == <<"h", "m", "y">>
t2 == <<"i", "m", "y">>
bad1 == <<"x", "m", "y">>
long == <<"h", "m", "y", "z">>
MCShorts   == {short}
MCTimes    == {t1, t2}
MCBadTimes == {bad1}
MCLongArgs == {long}

Msg(code, key, arg) ==
    [outer |-> "ok", body |-> "ok", code |-> code, key |-> key, arg |-> arg]
BadOuter(o) == [Msg(<<1, 1>>, k0, NoArg) EXCEPT !.outer = o]
BadBody(b, arg) == [Msg(<<1, 1>>, k0, arg) EXCEPT !.body = b]

MCKeys == {k0, k1}
Lock    == Msg(<<1, 1>>, k0, NoArg)
Unlock  == Msg(<<1, 2>>, k0, NoArg)
Status  == Msg(<<2, 1>>, k0, NoArg)
SetTime(t) == Msg(<<3, 17>>, k0, t)
SetKey(k)  == Msg(<<3, 33>>, k0, k)

(* Every command and every defect of a frame.                                *)
AllContents ==
    {Lock, Unlock, Status, Msg(<<2, 2>>, k0, NoArg), SetTime(t1), SetTime(bad1), SetTime(short),
     SetTime(long), SetTime(NoArg), SetKey(k1), SetKey(long), Msg(<<3, 18>>, k0, NoArg),
     Msg(<<3, 34>>, k1, NoArg), Msg(<<3, 34>>, k0, NoArg), Msg(<<1, 9>>, k0, NoArg)}
    \cup {BadOuter(o) : o \in {"nosoh", "noeot", "nolen"}}
    \cup {BadBody(b, k1) : b \in {"malformed", "badlen", "otherid"}}

(* The commands that change something, for longer histories.                 *)
ActingContents == {Lock, Unlock, SetTime(t1), SetTime(short), SetKey(k1)}

(* A date, and data that are too long for one.                               *)
DateContents == {SetTime(t1), SetTime(long)}

(* The commands that move the bolt or set something, for runs with faults.    *)
FewContents == {Lock, Unlock, SetKey(k1), SetTime(t1)}
=============================================================================
