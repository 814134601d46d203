----------------------------- MODULE LockService -----------------------------
(* What the lock promises to whoever writes frames to it, without queue,     *)
(* buffers, threads or flash: a command has an effect only if it is sound    *)
(* and written after every command carried out before it since the last      *)
(* start, and what the lock answers is true.  A frame is one write here,     *)
(* however often it is repeated; a write may bring again what was written    *)
(* before the last one, and the lock does not promise to notice.             *)
EXTENDS Naturals, Sequences

CONSTANTS Contents, Keys, Times, BadTimes, ZeroTime, DefaultKey, Blank, Corrupt,
          FlashFaults     \* TRUE iff a key may fail to be stored

VARIABLES
    sent,      \* what was written, write by write
    up,        \* whether the lock has started
    done,      \* the writes carried out since
    bolt, status, key, clock,
    reply      \* the last answer
vars == <<sent, up, done, bolt, status, key, clock, reply>>

Locked   == {0}
Unlocked == {1}
Between  == {}

LockCode   == <<1, 1>>
UnlockCode == <<1, 2>>
EndOf(code) == IF code = LockCode THEN Locked ELSE Unlocked

Init ==
    /\ sent = <<>>
    /\ up = FALSE
    /\ done = {}
    /\ bolt = Locked
    /\ status = {}
    /\ key = Blank
    /\ clock = ZeroTime
    /\ reply = [kind |-> "none", of |-> 0, val |-> {}]

Write ==
    /\ \E c \in Contents : sent' = Append(sent, c)
    /\ UNCHANGED <<up, done, bolt, status, key, clock, reply>>

(* Write f is a command for this lock, under its key, and newer than all     *)
(* that were carried out.                                                    *)
Valid(f, code) ==
    /\ up
    /\ f \in 1..Len(sent)
    /\ sent[f].body = "ok"
    /\ sent[f].key = key
    /\ sent[f].code = code
    /\ \A d \in done : d < f

(* The bolt moves for a valid command only, and only its way.                *)
Turn ==
    /\ \E f \in 1..Len(sent), code \in {LockCode, UnlockCode} :
          Valid(f, code) /\ bolt' \in {Between, EndOf(code)}
    /\ UNCHANGED <<sent, up, done, status, key, clock, reply>>

(* A move is carried out once the bolt is where the command wants it.        *)
CarryMove ==
    /\ \E f \in 1..Len(sent), code \in {LockCode, UnlockCode} :
          /\ Valid(f, code)
          /\ bolt = EndOf(code)
          /\ status' = EndOf(code)
          /\ done' = done \cup {f}
    /\ UNCHANGED <<sent, up, bolt, key, clock, reply>>

(* The date begins with the data of the command.  What these leave open is   *)
(* taken from data sent before.                                              *)
Assembled(f, date) ==
    /\ \A i \in (1..3) \cap DOMAIN sent[f].arg : date[i] = sent[f].arg[i]
    /\ \A i \in 1..3 : \E g \in 1..f :
          i \in DOMAIN sent[g].arg /\ date[i] = sent[g].arg[i]

CarryDate ==
    /\ \E f \in 1..Len(sent) :
          /\ Valid(f, <<3, 17>>)
          /\ clock' \in Times
          /\ Assembled(f, clock')
          /\ done' = done \cup {f}
    /\ UNCHANGED <<sent, up, bolt, status, key, reply>>

(* A date out of range is not carried out, but it replaces the clock.        *)
SpoilDate ==
    /\ \E f \in 1..Len(sent) :
          /\ Valid(f, <<3, 17>>)
          /\ clock' \in BadTimes
          /\ Assembled(f, clock')
    /\ UNCHANGED <<sent, up, done, bolt, status, key, reply>>

CarryKey ==
    /\ \E f \in 1..Len(sent) :
          /\ Valid(f, <<3, 33>>)
          /\ sent[f].arg \in Keys
          /\ key' = sent[f].arg
          /\ done' = done \cup {f}
    /\ UNCHANGED <<sent, up, bolt, status, clock, reply>>

(* A faulty flash leaves the lock with another key than it was given.        *)
LoseKey ==
    /\ FlashFaults
    /\ \E f \in 1..Len(sent) : Valid(f, <<3, 33>>)
    /\ key' \in Keys \cup {Blank, Corrupt}
    /\ UNCHANGED <<sent, up, done, bolt, status, clock, reply>>

(* The answers: a value is the one of this moment, an ACK is for a command   *)
(* carried out, a NACK for one that was not.                                 *)
Tell(f, kind, val) ==
    /\ reply' = [kind |-> kind, of |-> f, val |-> val]
    /\ UNCHANGED <<sent, up, done, bolt, status, key, clock>>

Answer ==
    \E f \in 1..Len(sent) :
        \/ Valid(f, <<2, 1>>) /\ Tell(f, "LOCK_STATUS", status)
        \/ Valid(f, <<2, 2>>) /\ Tell(f, "BATTERY_LEVEL", reply'.val)
        \/ Valid(f, <<3, 18>>) /\ Tell(f, "GETTIMEDATE", clock)
        \/ Valid(f, <<3, 34>>) /\ Tell(f, "GETENCRYPTKEY", key)
        \/ up /\ (f \in done \/ FlashFaults) /\ Tell(f, "ACK", {})
        \/ up /\ f \notin done /\ Tell(f, "NACK", {})

(* A restart forgets the key, the date, the status and what was carried out. *)
Restart ==
    /\ up' = FALSE
    /\ done' = {}
    /\ status' = {}
    /\ key' = Blank
    /\ clock' = ZeroTime
    /\ UNCHANGED <<sent, bolt, reply>>

Start ==
    /\ ~up
    /\ up' = TRUE
    /\ FlashFaults \/ status' = Locked
    /\ FlashFaults \/ key' = DefaultKey
    /\ UNCHANGED <<sent, done, bolt, clock, reply>>

Next == \/ Write \/ Turn \/ CarryMove \/ CarryDate \/ SpoilDate \/ CarryKey
        \/ LoseKey \/ Answer \/ Restart \/ Start

Spec == Init /\ [][Next]_vars
=============================================================================
