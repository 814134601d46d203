-------------------------------- MODULE Mcapp --------------------------------
(* The motor driver (motorcontrol/mcapp.c): two PWM outputs that drive the   *)
(* two sides of the H-bridge, and the bolt the motor moves.  The outputs are *)
(* written one after the other, so a speed change is two steps.              *)
EXTENDS Integers

VARIABLES
    lhs, rhs,   \* pulse widths of the PWM channels, in microseconds
    bolt        \* where the bolt is (mechanics, outside the program)
pwmVars   == <<lhs, rhs>>
motorVars == <<lhs, rhs, bolt>>

FullSpeed == 800
Speeds    == {0, FullSpeed}

BoltIn  == {0}      \* the bolt positions carry the status byte that
BoltOut == {1}      \* describes them: 0x01 locked, 0x02 unlocked
Between == {}
BoltPositions == {BoltIn, BoltOut, Between}

MotorTypeOK ==
    /\ lhs \in Speeds
    /\ rhs \in Speeds
    /\ bolt \in BoltPositions

(* The end the motor drives the bolt to; none when it is stopped or when     *)
(* both sides of the bridge are driven at once.                              *)
Drives(l, r, end) ==
    \/ end = BoltIn  /\ l = 0 /\ r > 0
    \/ end = BoltOut /\ l > 0 /\ r = 0

(* A driven bolt leaves the opposite end at once.                            *)
BoltFollows ==
    bolt' = IF \E end \in {BoltIn, BoltOut} \ {bolt} : Drives(lhs', rhs', end)
            THEN Between ELSE bolt

mcapp_init == lhs' = 0 /\ rhs' = 0

(* Faulty variant of SetLhs: an unlock only starts the left side, the stop   *)
(* of a forward run is what leaves it on.                                    *)
SetLhs_KeepsRunning(forward, speed) ==
    /\ lhs' = IF forward \/ speed = 0 THEN lhs ELSE speed
    /\ UNCHANGED rhs
    /\ BoltFollows

(* The first and the second pwm_set_dt of mcapp_speedDirection.              *)
SetLhs(forward, speed) ==
    /\ lhs' = IF forward THEN 0 ELSE speed
    /\ UNCHANGED rhs
    /\ BoltFollows

SetRhs(forward, speed) ==
    /\ rhs' = IF forward THEN speed ELSE 0
    /\ UNCHANGED lhs
    /\ BoltFollows

(* A second under power brings the bolt to the end it is driven to.          *)
BoltArrives ==
    /\ bolt' = CASE Drives(lhs, rhs, BoltIn)  -> BoltIn
                 [] Drives(lhs, rhs, BoltOut) -> BoltOut
                 [] OTHER                     -> bolt
    /\ UNCHANGED pwmVars

(* The two sides of the H-bridge are never driven against each other.        *)
BridgeSafe == lhs = 0 \/ rhs = 0
=============================================================================
