--------------------------- MODULE SmartLockService ---------------------------
(* SmartLock implements LockService: the refinement mapping, and the part of *)
(* its argument that IInv does not contain.                                  *)
EXTENDS SmartLockInvariant

(* A move counts as carried out from the moment its status is set.           *)
Carried == IF pc \in StorePcs THEN done \cup {evt.of} ELSE done

LS == INSTANCE LockService WITH
        up     <- pc \notin BootPcs,
        done   <- Carried,
        status <- lockUnlockStatus,
        key    <- Key

(* The lock does what LockService allows: the bolt moves, the status, the    *)
(* date and the key change for a valid command only, in the order in which   *)
(* the commands were written and once for each write, a date consists of     *)
(* bytes that were sent for it, and every answer is true (main.c:242-264,    *)
(* 439-473, 832-997; BLEapp.c:105-122).                                      *)
Implements == LS!Spec

(* A command that is pending or handled is sound and newer than all carried  *)
(* out.                                                                      *)
CommandOk(e) ==
    e.type \in Commands =>
        /\ sent[e.of].body = "ok"
        /\ sent[e.of].key = Key
        /\ \A d \in done : d < e.of

(* Every byte in Data was brought by a message that has been parsed.         *)
DataInv ==
    \A i \in 1..3 : \/ Data[i] = Zero
                    \/ \E g \in 1..enc : i \in DOMAIN sent[g].arg /\ sent[g].arg[i] = Data[i]

(* Before the lock is up nothing is pending; without faults the start finds  *)
(* the page erased and leaves the default key on it.                         *)
BootInv ==
    /\ pc \in BootPcs => queue = <<>> /\ stack = "off" /\ current_conn = NoConn
    /\ pc \in BootPcs => lockUnlockStatus = {} /\ Key = Blank /\ clock = ZeroTime
    /\ ~FlashFaults =>
         /\ pc \in {"boot_write_erase", "boot_write"} =>
              flashKey = Blank /\ flashStatus = ErasedByte
         /\ pc \in {"boot_key", "boot_init"} =>
              flashKey = DefaultKey /\ flashStatus = ErasedByte
         /\ pc \notin {"boot_again_erase", "boot_again"}

ServiceInv ==
    /\ CommandOk(evt)
    /\ queue # <<>> => CommandOk(queue[1])
    /\ DataInv
    /\ BootInv
=============================================================================
