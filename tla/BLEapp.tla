------------------------------- MODULE BLEapp -------------------------------
(* The Bluetooth side of the lock (BLE/BLEapp.c): the one-entry event queue  *)
(* to the main thread, the receive buffer, the connection and the advertised *)
(* data.  The callbacks run in threads of the stack that preempt the main    *)
(* thread anywhere and are not preempted by it: each one is a single step.   *)
(*                                                                           *)
(* What the receive buffer holds is named by the number of the write that    *)
(* put it there (0: the zeroed buffer).  Writing again what was written last *)
(* changes no byte and gets no number of its own.  A client, or whoever has  *)
(* recorded its frames, may also write an older frame again: origin says     *)
(* which write was the first of the same frame, and stands for its bytes and *)
(* its IV, which the sender draws anew for every frame.                      *)
EXTENDS Naturals, Sequences

CONSTANTS
    Contents,      \* what a client may write (see SmartLock)
    MaxFrames,     \* bound: new frames are written up to this write
    MaxWrites,     \* bound: writes in a behaviour, repetitions not counted
    MaxConns,      \* bound: connections made in a behaviour
    IdHasNul       \* TRUE iff one of the lock's eight id bytes is 0x00 (the first
                   \* byte of an id without one is taken not to be a data type)

ASSUME BLEAssumption ==
    /\ MaxFrames \in Nat
    /\ MaxWrites \in Nat
    /\ MaxConns \in Nat
    /\ IdHasNul \in BOOLEAN

VARIABLES
    queue,         \* app_event_msq
    BlemsgBuf,     \* the write the receive buffer is from
    sent,          \* history: what was written, write by write
    origin,        \* history: the first write of the same frame
    current_conn,  \* the number of the connection, or NoConn
    conns,         \* how many connections were made
    stack,         \* where bt_enable and bt_ready have brought the stack
    mfg,           \* status and battery bytes of mfg_data
    air            \* the same bytes in the advertisements on the air
radioVars == <<BlemsgBuf, sent, origin, current_conn, conns, stack, mfg, air>>
bleVars   == <<queue, radioVars>>

(* The frame, and its IV, that write n wrote.                                *)
IvOf(n) == IF n = 0 THEN 0 ELSE origin[n]

NoConn == 0
APP_EVENT_QUEUE_SIZE_Two == 2      \* faulty variant: one event more
APP_EVENT_QUEUE_SIZE == 1

EventTypes ==
    {"NONE", "LOCK", "UNLOCK", "LOCK_STATUS", "BATTERY_LEVEL", "SETTIMEDATE",
     "SETENCRYPTKEY", "GETTIMEDATE", "GETENCRYPTKEY", "ACK", "NACK", "MSG_RECV"}

(* An event, with the write it is about (a history the code does not keep).  *)
Event   == [type : EventTypes, of : Nat]
NoEvent == [type |-> "NONE", of |-> 0]

MfgByte == SUBSET (0..7)
MfgData == [status : MfgByte, battery : MfgByte]
Mfg(status, battery) == [status |-> status, battery |-> battery]
StaticMfg == Mfg({0}, {1, 2, 4})           \* 0x01 and 0x16, as compiled in
SilentAir == Mfg({}, {})

BLETypeOK ==
    /\ queue \in Seq(Event)
    /\ BlemsgBuf \in 0..Len(sent)
    /\ sent \in Seq(Contents)
    /\ origin \in Seq(Nat) /\ Len(origin) = Len(sent)
    /\ current_conn \in 0..conns
    /\ conns \in Nat
    /\ stack \in {"off", "enabled", "advertising"}
    /\ mfg \in MfgData
    /\ air \in MfgData

BLEInit ==
    /\ queue = <<>>
    /\ BlemsgBuf = 0
    /\ sent = <<>>
    /\ origin = <<>>
    /\ current_conn = NoConn
    /\ conns = 0
    /\ stack = "off"
    /\ mfg = StaticMfg
    /\ air = SilentAir

(* A reset of the processor: the memory of this module starts over.          *)
BLEReset ==
    /\ queue' = <<>>
    /\ BlemsgBuf' = 0
    /\ current_conn' = NoConn
    /\ stack' = "off"
    /\ mfg' = StaticMfg
    /\ air' = SilentAir
    /\ UNCHANGED <<sent, origin, conns>>

(* BLEapp_event_manager_push with K_NO_WAIT, its result ignored: an event    *)
(* that does not fit is gone.                                                *)
Push(type, write) ==
    queue' = IF Len(queue) < APP_EVENT_QUEUE_SIZE
             THEN Append(queue, [type |-> type, of |-> write])
             ELSE queue

(* BLEapp_init copies the advertised bytes with strncpy, which stops copying *)
(* at a zero byte of the id and fills with zeros, and enables Bluetooth.     *)
BLEapp_init(status, battery) ==
    /\ mfg' = IF IdHasNul THEN Mfg({}, {}) ELSE Mfg(status, battery)
    /\ stack' = "enabled"
    /\ UNCHANGED <<queue, BlemsgBuf, sent, origin, current_conn, conns, air>>

(* The stack calls bt_ready once it is up: advertising starts.               *)
bt_ready ==
    /\ stack = "enabled"
    /\ stack' = "advertising"
    /\ air' = mfg
    /\ UNCHANGED <<queue, BlemsgBuf, sent, origin, current_conn, conns, mfg>>

on_connected ==
    /\ stack = "advertising"
    /\ current_conn = NoConn
    /\ conns < MaxConns
    /\ conns' = conns + 1
    /\ current_conn' = conns'
    /\ UNCHANGED <<queue, BlemsgBuf, sent, origin, stack, mfg, air>>

on_disconnected ==
    /\ current_conn # NoConn
    /\ current_conn' = NoConn
    /\ UNCHANGED <<queue, BlemsgBuf, sent, origin, conns, stack, mfg, air>>

(* The stack passes a written frame to on_data_received through on_write.    *)
(* The buffer is overwritten whatever the main thread is doing; the event is *)
(* raised for a frame that starts with SOH only.                             *)
on_data_received(write, outer) ==
    /\ current_conn # NoConn
    /\ BlemsgBuf' = write
    /\ IF outer # "nosoh" THEN Push("MSG_RECV", write) ELSE UNCHANGED queue
    /\ UNCHANGED <<current_conn, conns, stack, mfg, air>>

(* The second half of BLEapp_loop, after it found no connection: the bytes   *)
(* are stored and handed to the stack, which refuses them unless it is       *)
(* advertising at that moment.                                               *)
AdvWrite(status, battery) ==
    /\ mfg' = Mfg(status, battery)
    /\ air' = IF stack = "advertising" /\ current_conn = NoConn THEN mfg' ELSE air
    /\ UNCHANGED <<queue, BlemsgBuf, sent, origin, current_conn, conns, stack>>
=============================================================================
