--------------------------------- MODULE Rtc ---------------------------------
(* The driver of the clock chip (modules/RTCmcp7940) and its use by main().  *)
(* The chip counts on its own between the accesses of the driver and across  *)
(* restarts; every access may fail, and a restart may fall between two.      *)
(*                                                                           *)
(* The civil calendar is that of the library, the calendar of the chip its   *)
(* own: the two differ in their leap years.  Control, trim and battery bits  *)
(* are left out.                                                             *)
EXTENDS Integers

CONSTANTS
    SetTimes,       \* what main may set: 1734521409 in the code, at main.c:210
    ChipTimes,      \* what the chip may show at first
    MaxSeconds,     \* bound: seconds in a behaviour
    MaxDays,        \* bound: whole days in a behaviour
    MaxFaults,      \* bound: failing accesses
    MaxCrashes,     \* bound: restarts
    NoTime          \* a time_t that nothing was assigned to

(* The times fit in 32 bits: RTCmcp7940_set_time refuses others at once.     *)
ASSUME RtcAssumption ==
    /\ SetTimes \subseteq Nat /\ ChipTimes \subseteq Nat
    /\ MaxSeconds \in Nat /\ MaxDays \in Nat
    /\ MaxFaults \in Nat /\ MaxCrashes \in Nat
    /\ NoTime \notin Nat

VARIABLES
    pc, lock,       \* where the driver is; its semaphore
    registers,      \* the driver's copy of the registers
    chip,           \* the registers of the chip
    unix_time,      \* what the last read returned
    expected,       \* history: the time set last and the seconds since
    ahead,          \* history: DaysAhead when it was set
    setOk,          \* history: it was set in this start
    inited,         \* history: 24 hour time was set in this start
    seconds, days, faults, crashes
bounds  == <<seconds, days, faults, crashes>>
history == <<expected, ahead, setOk, inited>>
vars    == <<pc, lock, registers, chip, unix_time, history, bounds>>

(* Two BCD digits, ten and one.                                              *)
Bcd(n)       == [ten |-> n \div 10, one |-> n % 10]
BcdDecode(r) == r.one + r.ten * 10

(* The civil calendar counts years from March, so that a leap day is the     *)
(* last of its year.  In the years of the chip each fourth is a leap year.   *)
MarchYear(y, m) == IF m > 2 THEN y ELSE y - 1
MarchMonth(m)   == IF m > 2 THEN m - 3 ELSE m + 9
BeforeMonth(k)  == (153 * k + 2) \div 5

(* timeutil_timegm: the days since 1 January 1970; 29 February of a year     *)
(* without one is 1 March.                                                   *)
DayNumber(y, m, d) ==
    LET my == MarchYear(y, m)
    IN 365 * my + my \div 4 + BeforeMonth(MarchMonth(m)) + d - 719484

(* gmtime_r.                                                                 *)
CivilDate(day) ==
    LET z  == day + 719483
        my == (4 * z + 3) \div 1461
        k  == z - 365 * my - my \div 4
        mm == (5 * k + 2) \div 153
        m  == IF mm < 10 THEN mm + 3 ELSE mm - 9
    IN [year |-> IF m > 2 THEN my ELSE my + 1, month |-> m,
        date |-> k - BeforeMonth(mm) + 1]

(* 1 January 1970 was a Thursday.                                            *)
Weekday(t) == (t \div 86400 + 4) % 7

UNIX_YEAR_OFFSET == 69

DayShown(r) == DayNumber(1900 + BcdDecode(r.year) + UNIX_YEAR_OFFSET,
                         BcdDecode(r.month), BcdDecode(r.date))

(* Faulty variant of decode_rtc: the tens of the minutes are forgotten.      *)
decode_rtc_NoTens(r) ==
    BcdDecode(r.sec) + 60 * r.min.one + 3600 * BcdDecode(r.hour) + 86400 * DayShown(r)

decode_rtc(r) ==
    BcdDecode(r.sec) + 60 * BcdDecode(r.min) + 3600 * BcdDecode(r.hour)
        + 86400 * DayShown(r)

(* gmtime_r and encode_rtc of all but the oscillator: the mode of the hours  *)
(* stays as the copy has it.                                                 *)
Encoded(r, t) ==
    LET c == CivilDate(t \div 86400)
    IN [r EXCEPT !.sec  = Bcd(t % 60), !.min = Bcd((t \div 60) % 60),
                 !.hour = Bcd((t \div 3600) % 24), !.wday = Weekday(t),
                 !.date = Bcd(c.date), !.month = Bcd(c.month),
                 !.year = Bcd(c.year - 1900 - UNIX_YEAR_OFFSET)]

(* Faulty variant of encode_rtc: the oscillator is left as it is.            *)
encode_rtc_KeepsOsc(r, t) == Encoded(r, t)

encode_rtc(r, t) == [Encoded(r, t) EXCEPT !.start_osc = TRUE]

ZeroRegisters ==
    [start_osc |-> FALSE, sec |-> Bcd(0), min |-> Bcd(0), hour |-> Bcd(0),
     twelve_hr |-> FALSE, wday |-> 0, date |-> Bcd(0), month |-> Bcd(0),
     year |-> Bcd(0)]

(* The fields in the order of their registers on the chip.                   *)
RegisterOf == [start_osc |-> 0, sec |-> 0, min |-> 1, hour |-> 2, twelve_hr |-> 2,
               wday |-> 3, date |-> 4, month |-> 5, year |-> 6]
(* The first n registers of a, the others of b.                              *)
FirstOf(a, b, n) == [r \in DOMAIN RegisterOf |-> IF RegisterOf[r] < n THEN a[r] ELSE b[r]]

Init ==
    /\ pc = "init" /\ lock = 0
    /\ registers = ZeroRegisters
    /\ \E t \in ChipTimes, osc, twelve \in BOOLEAN, day \in 0..6 :
          chip = [encode_rtc(ZeroRegisters, t) EXCEPT !.start_osc = osc,
                                         !.twelve_hr = twelve, !.wday = day]
    /\ unix_time = NoTime
    /\ expected = 0 /\ ahead = 0 /\ setOk = FALSE /\ inited = FALSE
    /\ seconds = 0 /\ days = 0 /\ faults = 0 /\ crashes = 0
-----------------------------------------------------------------------------
(* From March after a leap day of the chip to March after the next civil one *)
(* the chip has counted one leap day more than the civil calendar.           *)
DaysAhead(c) ==
    LET m  == BcdDecode(c.month)
        my == MarchYear(1900 + BcdDecode(c.year) + UNIX_YEAR_OFFSET, m)
    IN IF my % 4 = 0 \/ (m = 2 /\ BcdDecode(c.date) = 29) THEN 0 ELSE 1

(* The two digits of the year last till 2068: before its 31 December, day    *)
(* 36159, a chip that is a day ahead shows its date too.                     *)
LastDay  == 36159
Dated(t) == t \div 86400 < LastDay

(* Accesses over I2C; one that fails may have transferred some registers.    *)
Works == UNCHANGED faults
Fails == faults < MaxFaults /\ faults' = faults + 1

ReadAll == registers' = chip /\ Works
ReadFails == Fails /\ \E n \in 0..7 : registers' = FirstOf(chip, registers, n)

WriteAll == chip' = registers' /\ Works
WriteFails == Fails /\ \E n \in 0..7 : chip' = FirstOf(registers', chip, n)

(* write_register of one register, of fields fs.                             *)
WriteOne(fs) == chip' = [r \in DOMAIN chip |-> IF r \in fs THEN registers'[r] ELSE chip[r]]
WriteOneFails == Fails /\ UNCHANGED chip

Go(to) == pc' = to
Rest == UNCHANGED <<unix_time, expected, ahead, setOk, seconds, days, crashes>>

(* mcp7940n_init: the lock is created taken.  Each failure leads to the end. *)
InitBus ==
    /\ pc = "init"
    /\ lock' = 0
    /\ \/ Works /\ Go("init_read")
       \/ Fails /\ Go("init_out")
    /\ UNCHANGED <<registers, chip, inited>> /\ Rest

InitRead ==
    /\ pc = "init_read"
    /\ \/ ReadAll /\ Go("init_weekday")
       \/ ReadFails /\ Go("init_out")
    /\ UNCHANGED <<lock, chip, inited>> /\ Rest

InitWeekday ==
    /\ pc = "init_weekday"
    /\ registers' = [registers EXCEPT !.wday = Weekday(decode_rtc(registers))]
    /\ \/ WriteOne({"wday"}) /\ Works /\ Go("init_hours")
       \/ WriteOneFails /\ Go("init_out")
    /\ UNCHANGED <<lock, inited>> /\ Rest

(* Faulty variant of InitHours: the copy keeps the mode that was read.       *)
InitHours_ChipOnly ==
    /\ pc = "init_hours"
    /\ UNCHANGED registers
    /\ \/ /\ chip' = [chip EXCEPT !.twelve_hr = FALSE, !.hour = registers.hour]
          /\ Works /\ Go("init_start") /\ inited' = TRUE
       \/ WriteOneFails /\ Go("init_out") /\ UNCHANGED inited
    /\ UNCHANGED lock /\ Rest

(* The hours are written back as they were read.                             *)
InitHours ==
    /\ pc = "init_hours"
    /\ registers' = [registers EXCEPT !.twelve_hr = FALSE]
    /\ \/ WriteOne({"hour", "twelve_hr"}) /\ Works /\ Go("init_start") /\ inited' = TRUE
       \/ WriteOneFails /\ Go("init_out") /\ UNCHANGED inited
    /\ UNCHANGED lock /\ Rest

(* mcp7940n_counter_start: the seconds too, and the result is ignored.       *)
InitStart ==
    /\ pc = "init_start"
    /\ registers' = [registers EXCEPT !.start_osc = TRUE]
    /\ \/ WriteOne({"start_osc", "sec"}) /\ Works
       \/ WriteOneFails
    /\ Go("init_out")
    /\ UNCHANGED <<lock, inited>> /\ Rest

(* k_sem_give of a semaphore with the limit 1.                               *)
GiveLock == lock' = 1
TakeLock == lock > 0 /\ lock' = lock - 1

InitOut ==
    /\ pc = "init_out"
    /\ GiveLock /\ Go("main_set")
    /\ UNCHANGED <<registers, chip, inited, faults>> /\ Rest

(* RTCmcp7940_set_time, once, before the loop of main; its result and that   *)
(* of the initialisation are not looked at.                                  *)
SetTake ==
    /\ pc = "main_set"
    /\ TakeLock /\ Go("set")
    /\ UNCHANGED <<registers, chip, inited, faults>> /\ Rest

SetTime ==
    /\ pc = "set"
    /\ \E t \in SetTimes :
          /\ registers' = encode_rtc(registers, t)
          /\ \/ /\ WriteAll
                /\ expected' = t /\ ahead' = DaysAhead(registers') /\ setOk' = TRUE
             \/ WriteFails /\ UNCHANGED <<expected, ahead, setOk>>
    /\ Go("set_out")
    /\ UNCHANGED <<lock, unix_time, inited, seconds, days, crashes>>

(* Faulty variant of SetOut: a failed write returns with the lock taken.     *)
SetOut_ReturnsEarly ==
    /\ pc = "set_out"
    /\ IF setOk THEN GiveLock ELSE UNCHANGED lock
    /\ Go("loop")
    /\ UNCHANGED <<registers, chip, inited, faults>> /\ Rest

SetOut ==
    /\ pc = "set_out"
    /\ GiveLock /\ Go("loop")
    /\ UNCHANGED <<registers, chip, inited, faults>> /\ Rest

(* RTCmcp7940_get_time, on every turn of the loop, into a new variable.      *)
GetTake ==
    /\ pc = "loop"
    /\ TakeLock /\ Go("get")
    /\ unix_time' = NoTime
    /\ UNCHANGED <<registers, chip, history, bounds>>

GetTime ==
    /\ pc = "get"
    /\ \/ ReadAll /\ unix_time' = decode_rtc(registers')
       \/ ReadFails /\ UNCHANGED unix_time
    /\ Go("get_out")
    /\ UNCHANGED <<lock, chip, history, seconds, days, crashes>>

GetOut ==
    /\ pc = "get_out"
    /\ GiveLock /\ Go("loop")
    /\ UNCHANGED <<registers, chip, inited, faults>> /\ Rest

Main == \/ InitBus \/ InitRead \/ InitWeekday \/ InitHours \/ InitStart \/ InitOut
        \/ SetTake \/ SetTime \/ SetOut \/ GetTake \/ GetTime \/ GetOut
-----------------------------------------------------------------------------
(* The chip: a leap year has a register divisible by four, which is a year   *)
(* after that of the civil calendar.                                         *)
LastDate(y, m) == IF m = 2 THEN IF y % 4 = 0 THEN 29 ELSE 28
                  ELSE IF m \in {4, 6, 9, 11} THEN 30 ELSE 31

NextDate(c) ==
    LET d == BcdDecode(c.date)
        m == BcdDecode(c.month)
        y == BcdDecode(c.year)
        n == IF d < LastDate(y, m) THEN [date |-> d + 1, month |-> m, carry |-> 0]
             ELSE [date |-> 1, month |-> (m % 12) + 1, carry |-> m \div 12]
    IN [c EXCEPT !.date = Bcd(n.date), !.month = Bcd(n.month),
                 !.year = Bcd((y + n.carry) % 100),
                 !.wday = (@ + 1) % 7]

(* It counts with carries; what it shows for an hour in 12 hour mode is not  *)
(* followed.                                                                 *)
CountUp(c) ==
    LET s == BcdDecode(c.sec) + 1
        m == BcdDecode(c.min) + s \div 60
        h == BcdDecode(c.hour) + m \div 60
        e == [c EXCEPT !.sec = Bcd(s % 60), !.min = Bcd(m % 60), !.hour = Bcd(h % 24)]
    IN IF h < 24 THEN e ELSE NextDate(e)

Second ==
    /\ seconds < MaxSeconds
    /\ seconds' = seconds + 1
    /\ expected' = expected + 1
    /\ IF ~chip.start_osc THEN UNCHANGED chip
       ELSE IF chip.twelve_hr /\ BcdDecode(chip.min) = 59 /\ BcdDecode(chip.sec) = 59
            THEN \E h \in 0..23 : chip' = [CountUp(chip) EXCEPT !.hour = Bcd(h)]
            ELSE chip' = CountUp(chip)
    /\ UNCHANGED <<pc, lock, registers, unix_time, ahead, setOk, inited, days, faults, crashes>>

(* The seconds of a day in one step, with no access of the driver between.   *)
Day ==
    /\ days < MaxDays
    /\ days' = days + 1
    /\ expected' = expected + 86400
    /\ chip' = IF chip.start_osc THEN NextDate(chip) ELSE chip
    /\ UNCHANGED <<pc, lock, registers, unix_time, ahead, setOk, inited, seconds, faults, crashes>>

(* A restart clears the memory of the driver; the battery keeps the chip.    *)
Crash ==
    /\ crashes < MaxCrashes
    /\ crashes' = crashes + 1
    /\ pc' = "init" /\ lock' = 0
    /\ registers' = ZeroRegisters /\ unix_time' = NoTime
    /\ setOk' = FALSE /\ inited' = FALSE
    /\ UNCHANGED <<chip, expected, ahead, seconds, days, faults>>

Next == Main \/ Second \/ Day \/ Crash

Spec == Init /\ [][Next]_vars
-----------------------------------------------------------------------------
(* A read that succeeds after the time was set, while the chip counts 24     *)
(* hours and its two digits of the year last.                                *)
ReadOf(time) == time # unix_time /\ time # NoTime /\ setOk
                /\ ~chip.twelve_hr /\ Dated(expected)

(* Once the time is set the oscillator runs, also when the initialisation    *)
(* has failed, and a read that succeeds returns the time that was set and    *)
(* the seconds since (RTCmcp7940.c:226-279), but for the day by which the    *)
(* leap years of the chip differ between then and now (RTCmcp7940.c:34).     *)
TimeKept ==
    [][ReadOf(unix_time') =>
         unix_time' = expected + 86400 * (ahead - DaysAhead(registers'))]_vars

(* "unix_time pointer to time_t value that will contain unix time if         *)
(* successful" (RTCmcp7940.c:219).                                           *)
ReadsUnixTime == [][ReadOf(unix_time') => unix_time' = expected]_vars

(* "Set 24-hour time" (RTCmcp7940.c:312): after an initialisation that got   *)
(* there the chip counts 24 hours, whatever the driver writes to it later.   *)
TwentyFourHours == inited => ~chip.twelve_hr

(* No call of the driver waits for its semaphore, so each one returns: it is *)
(* given back on every path (RTCmcp7940.c:240, 276, 323).                    *)
NeverWaits == pc \in {"main_set", "loop"} => lock = 1
-----------------------------------------------------------------------------
(* A time of the day and a weekday; a date, d days after 1 January 1970 as   *)
(* the chip counts them.                                                     *)
ShowsTime(c, t) ==
    /\ c.sec = Bcd(t % 60) /\ c.min = Bcd((t \div 60) % 60)
    /\ c.hour = Bcd((t \div 3600) % 24) /\ c.wday = Weekday(t)
IsDate(y, m, d) == m \in 1..12 /\ d \in 1..(IF m = 2 THEN 29 ELSE LastDate(y, m))
ShowsDay(c, d) ==
    /\ IsDate(BcdDecode(c.year), BcdDecode(c.month), BcdDecode(c.date))
    /\ DayShown(c) + DaysAhead(c) = d
Shows(c, t, a) == ShowsTime(c, t) /\ ShowsDay(c, t \div 86400 + a)

Digits    == [ten : Nat, one : Nat]
Registers == [start_osc : BOOLEAN, sec : Digits, min : Digits, hour : Digits,
              twelve_hr : BOOLEAN, wday : Int, date : Digits, month : Digits,
              year : Digits]

RtcTypes ==
    /\ registers \in Registers /\ chip \in Registers
    /\ expected \in Nat /\ ahead \in 0..1 /\ setOk \in BOOLEAN /\ inited \in BOOLEAN

(* The semaphore is free wherever the driver is about to take it.            *)
LockInv == lock = IF pc \in {"main_set", "loop"} THEN 1 ELSE 0

(* A chip that counts 24 hours shows the time expected, weekday included,    *)
(* and has counted as many days as there were since the time was set.        *)
ClockInv ==
    setOk => /\ pc \in {"set_out", "loop", "get", "get_out"}
             /\ chip.start_osc
             /\ ~chip.twelve_hr /\ Dated(expected) => Shows(chip, expected, ahead)

(* Neither the chip nor the copy goes back to 12 hour mode.                  *)
HoursInv ==
    inited => /\ pc \notin {"init", "init_read", "init_weekday", "init_hours"}
              /\ ~chip.twelve_hr /\ ~registers.twelve_hr

(* The inductive invariant: at any place of the driver its semaphore, the    *)
(* chip and the copy are as the rest of the driver needs them                *)
(* (RTCmcp7940.c:226-326).                                                   *)
RtcInv == RtcTypes /\ LockInv /\ ClockInv /\ HoursInv
=============================================================================
