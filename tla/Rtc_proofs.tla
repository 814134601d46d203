------------------------------ MODULE Rtc_proofs ------------------------------
(* What the clock driver keeps, for all times, faults and restarts.          *)
EXTENDS Rtc, TLAPS

(* Two digits stand for their number.                                        *)
LEMMA BcdRoundTrip ==
    ASSUME NEW n \in Nat
    PROVE  Bcd(n) \in Digits /\ BcdDecode(Bcd(n)) = n
  BY SMT DEF Bcd, BcdDecode, Digits

(* A number of seconds is made of its seconds, minutes, hours and days.      *)
LEMMA Parts ==
    ASSUME NEW t \in Nat
    PROVE  /\ t % 60 \in Nat /\ (t \div 60) % 60 \in Nat /\ (t \div 3600) % 24 \in Nat
           /\ t \div 86400 \in Nat
           /\ t = (t % 60) + 60 * ((t \div 60) % 60) + 3600 * ((t \div 3600) % 24)
                    + 86400 * (t \div 86400)
<1>1. /\ t \div 60 \in Nat /\ t = (t % 60) + 60 * (t \div 60) /\ t % 60 \in 0..59
      BY SMT
<1>2. t \div 3600 = (t \div 60) \div 60 /\ t \div 86400 = (t \div 3600) \div 24
      BY SMT
<1>3. /\ t \div 3600 \in Nat
      /\ t \div 60 = ((t \div 60) % 60) + 60 * (t \div 3600) /\ (t \div 60) % 60 \in 0..59
      BY <1>1, <1>2, SMT
<1>4. /\ t \div 86400 \in Nat
      /\ t \div 3600 = ((t \div 3600) % 24) + 24 * (t \div 86400) /\ (t \div 3600) % 24 \in 0..23
      BY <1>2, <1>3, SMT
<1> QED
  BY <1>1, <1>3, <1>4, SMT

(* The date of a day number is a date, and has that number.                  *)
LEMMA CivilRoundTrip ==
    ASSUME NEW day \in Nat
    PROVE  /\ CivilDate(day).year \in Nat /\ CivilDate(day).year >= 1970
           /\ CivilDate(day).month \in 1..12 /\ CivilDate(day).date \in 1..31
           /\ CivilDate(day).month = 2 => CivilDate(day).date \in 1..29
           /\ CivilDate(day).month \in {4, 6, 9, 11} => CivilDate(day).date \in 1..30
           /\ DayNumber(CivilDate(day).year, CivilDate(day).month, CivilDate(day).date) = day
<1> DEFINE z  == day + 719483
           my == (4 * z + 3) \div 1461
           k  == z - 365 * my - my \div 4
           mm == (5 * k + 2) \div 153
           b  == BeforeMonth(mm)
           m  == IF mm < 10 THEN mm + 3 ELSE mm - 9
<1>1. z \in Nat /\ z >= 719483
  OBVIOUS
<1>2. my \in Nat /\ my >= 1969 /\ k \in 0..365
  <2> HIDE DEF z
  <2> QED BY <1>1, SMT
<1>3. mm \in 0..11 /\ b \in Nat /\ k - b + 1 \in 1..31
      /\ (mm = 11 => k - b + 1 <= 29) /\ (mm \in {1, 3, 6, 8} => k - b + 1 <= 30)
  <2> HIDE DEF k
  <2> QED BY <1>2, SMT DEF BeforeMonth
<1>4. CivilDate(day) = [year |-> IF m > 2 THEN my ELSE my + 1, month |-> m, date |-> k - b + 1]
  BY DEF CivilDate
<1> HIDE DEF z, my, k, mm, b
<1>5. /\ m \in 1..12 /\ (m > 2 <=> mm < 10) /\ MarchMonth(m) = mm
      /\ (m = 2 <=> mm = 11) /\ (m = 1 <=> mm = 10)
      /\ (m \in {4, 6, 9, 11} <=> mm \in {1, 3, 6, 8})
  BY <1>3, SMT DEF MarchMonth
<1>6. MarchYear(IF m > 2 THEN my ELSE my + 1, m) = my
  BY <1>2, <1>5, SMT DEF MarchYear
<1> HIDE DEF m
<1>7. DayNumber(CivilDate(day).year, CivilDate(day).month, CivilDate(day).date)
        = 365 * my + my \div 4 + b + (k - b + 1) - 719484
  BY <1>4, <1>5, <1>6 DEF DayNumber, b
<1>8. 365 * my + my \div 4 + b + (k - b + 1) - 719484 = day
  BY <1>1, <1>2, <1>3, SMT DEF k, z
<1>9. (m = 1 => mm = 10) /\ CivilDate(day).year >= 1970
  <2>1. m <= 2 => my + 1 >= 1970
    BY <1>2
  <2>2. my = 1969 => m <= 2
    <3>1. my = 1969 => k >= 306
      BY <1>1, SMT DEF k
    <3>2. k >= 306 => mm >= 10
      BY <1>2, SMT DEF mm
    <3> QED BY <3>1, <3>2, <1>3, <1>5
  <2> QED BY <2>1, <2>2, <1>2, <1>4, <1>5
<1> QED
  BY <1>2, <1>3, <1>4, <1>5, <1>7, <1>8, <1>9

(* The days counted by the chip until the date, from a date with the same    *)
(* leap years before it.                                                     *)
DayCounted(y, m, d) ==
    DayNumber(1969 + y, m, d)
      + (IF MarchYear(1969 + y, m) % 4 = 0 \/ (m = 2 /\ d = 29) THEN 0 ELSE 1)

(* The next date of the chip counts one day more, for every date that the    *)
(* chip can show, and the year fits in two digits up to the last day.        *)
LEMMA NextDay ==
    ASSUME NEW y \in Nat, NEW m, NEW d, IsDate(y, m, d)
    PROVE  LET date  == IF d < LastDate(y, m) THEN d + 1 ELSE 1
               month == IF d < LastDate(y, m) THEN m ELSE (m % 12) + 1
               carry == IF d < LastDate(y, m) THEN 0 ELSE m \div 12
           IN /\ IsDate(y + carry, month, date)
              /\ DayCounted(y + carry, month, date) = DayCounted(y, m, d) + 1
              /\ DayCounted(y, m, d) < LastDay => (y + carry) % 100 = y + carry
<1> DEFINE last  == LastDate(y, m)
           date  == IF d < last THEN d + 1 ELSE 1
           month == IF d < last THEN m ELSE (m % 12) + 1
           carry == IF d < last THEN 0 ELSE m \div 12
<1>0. /\ m \in 1..12 /\ d \in Nat /\ d \in 1..(IF m = 2 THEN 29 ELSE last)
      /\ last = IF m = 2 THEN IF y % 4 = 0 THEN 29 ELSE 28
                ELSE IF m \in {4, 6, 9, 11} THEN 30 ELSE 31
  BY DEF IsDate, LastDate
<1> HIDE DEF last
<1> USE <1>0 DEF DayCounted, DayNumber, MarchYear, MarchMonth, BeforeMonth
<1>1. d < last => DayCounted(y, m, d + 1) = DayCounted(y, m, d) + 1
  BY SMT
<1>2. d >= last => DayCounted(y + m \div 12, (m % 12) + 1, 1) = DayCounted(y, m, d) + 1
  <2>1. CASE m = 1
    BY <2>1, SMT
  <2>2. CASE m = 2
    BY <2>2, SMT
  <2>3. CASE m \in 3..6
    BY <2>3, SMT
  <2>4. CASE m \in 7..9
    BY <2>4, SMT
  <2>5. CASE m \in 10..11
    BY <2>5, SMT
  <2>6. CASE m = 12
    BY <2>6, SMT
  <2> QED
    BY <2>1, <2>2, <2>3, <2>4, <2>5, <2>6
<1>3. DayCounted(y, m, d) < LastDay => y + carry < 100
  BY SMT DEF LastDay
<1>4. /\ month \in 1..12 /\ carry \in 0..1 /\ date >= 1 /\ date \in Nat
      /\ d < last => month = m /\ date <= last /\ carry = 0
      /\ ~(d < last) => date = 1
  BY SMT
<1>5. LastDate(y + carry, month) >= 28 /\ (carry = 0 /\ month = m => LastDate(y + carry, month) = last)
  <2>1. LastDate(y + carry, month) >= 28
    BY DEF LastDate
  <2>2. carry = 0 => y + carry = y
    OBVIOUS
  <2> QED BY <2>1, <2>2 DEF last
<1>6. IsDate(y + carry, month, date)
  <2>1. CASE d < last
    <3>1. y + carry = y
      BY <1>4, <2>1
    <3> HIDE DEF month, date, carry
    <3>2. month = m /\ date = d + 1 /\ (m = 2 => date <= 29) /\ date <= last
      BY <1>4, <2>1, SMT DEF date
    <3> QED
      BY <1>4, <1>5, <2>1, <3>1, <3>2 DEF IsDate, last
  <2>2. CASE ~(d < last)
    <3>1. date = 1
      BY <1>4, <2>2
    <3> HIDE DEF month, date, carry
    <3>2. LastDate(y + carry, month) \in Int
      BY <1>4 DEF LastDate
    <3> QED
      BY <1>4, <1>5, <3>1, <3>2 DEF IsDate
  <2> QED BY <2>1, <2>2
<1>7. DayCounted(y + carry, month, date) = DayCounted(y, m, d) + 1
  <2>1. CASE d < last
    <3>1. y + carry = y /\ month = m /\ date = d + 1
      BY <1>4, <2>1
    <3> HIDE DEF month, date, carry, DayCounted
    <3> QED BY <1>1, <2>1, <3>1
  <2>2. CASE ~(d < last)
    <3>1. carry = m \div 12 /\ month = (m % 12) + 1 /\ date = 1 /\ d >= last
      BY <1>0, <2>2
    <3> HIDE DEF month, date, carry, DayCounted
    <3> QED BY <1>2, <3>1
  <2> QED BY <2>1, <2>2
<1>8. y + carry < 100 => (y + carry) % 100 = y + carry
  <2> HIDE DEF carry
  <2> QED BY <1>4, SMT
<1> HIDE DEF DayCounted, month, date, carry
<1> QED
  BY <1>3, <1>6, <1>7, <1>8 DEF month, date, carry, last

(* The numbers in the registers.                                             *)
LEMMA Decoded ==
    ASSUME NEW c \in Registers
    PROVE  /\ BcdDecode(c.sec) \in Nat /\ BcdDecode(c.min) \in Nat /\ BcdDecode(c.hour) \in Nat
           /\ BcdDecode(c.date) \in Nat /\ BcdDecode(c.month) \in Nat /\ BcdDecode(c.year) \in Nat
           /\ DayShown(c) \in Int /\ DaysAhead(c) \in 0..1
           /\ DayShown(c) + DaysAhead(c)
                = DayCounted(BcdDecode(c.year), BcdDecode(c.month), BcdDecode(c.date))
<1>1. \A x \in Digits : BcdDecode(x) \in Nat
  BY SMT DEF Digits, BcdDecode
<1>2. /\ BcdDecode(c.sec) \in Nat /\ BcdDecode(c.min) \in Nat /\ BcdDecode(c.hour) \in Nat
      /\ BcdDecode(c.date) \in Nat /\ BcdDecode(c.month) \in Nat /\ BcdDecode(c.year) \in Nat
  BY <1>1 DEF Registers
<1> DEFINE y == BcdDecode(c.year)
           m == BcdDecode(c.month)
           d == BcdDecode(c.date)
<1>3. 1900 + y + UNIX_YEAR_OFFSET = 1969 + y
  BY <1>2, SMT DEF UNIX_YEAR_OFFSET
<1>4. DayShown(c) = DayNumber(1969 + y, m, d)
  BY <1>3 DEF DayShown
<1>5. DaysAhead(c) = IF MarchYear(1969 + y, m) % 4 = 0 \/ (m = 2 /\ d = 29) THEN 0 ELSE 1
  BY <1>3 DEF DaysAhead
<1> HIDE DEF y, m, d
<1>6. DayNumber(1969 + y, m, d) \in Int
  BY <1>2, SMT DEF DayNumber, MarchYear, MarchMonth, BeforeMonth, y, m, d
<1> QED
  BY <1>2, <1>4, <1>5, <1>6 DEF DayCounted, y, m, d

(* encode_rtc shows the time it is given.                                    *)
LEMMA EncodeShows ==
    ASSUME NEW r \in Registers, NEW t \in Nat
    PROVE  /\ encode_rtc(r, t) \in Registers
           /\ DaysAhead(encode_rtc(r, t)) \in 0..1
           /\ Shows(encode_rtc(r, t), t, DaysAhead(encode_rtc(r, t)))
           /\ encode_rtc(r, t).start_osc
           /\ encode_rtc(r, t).twelve_hr = r.twelve_hr
<1> DEFINE e == encode_rtc(r, t)
           c == CivilDate(t \div 86400)
           s == t % 60
           n == (t \div 60) % 60
           h == (t \div 3600) % 24
           w == Weekday(t)
           y == c.year - 1900 - UNIX_YEAR_OFFSET
<1>1. s \in Nat /\ n \in Nat /\ h \in Nat /\ t \div 86400 \in Nat
  BY Parts
<1>2. /\ c.year \in Nat /\ c.year >= 1970 /\ c.month \in 1..12 /\ c.date \in 1..31
      /\ c.month = 2 => c.date \in 1..29
      /\ c.month \in {4, 6, 9, 11} => c.date \in 1..30
      /\ DayNumber(c.year, c.month, c.date) = t \div 86400
  BY <1>1, CivilRoundTrip
<1>3. w \in Int
  BY SMT DEF Weekday
<1>4. y \in Nat /\ 1900 + y + UNIX_YEAR_OFFSET = c.year
  BY <1>2, SMT DEF UNIX_YEAR_OFFSET
<1>5. e = [r EXCEPT !.sec = Bcd(s), !.min = Bcd(n), !.hour = Bcd(h), !.wday = w,
                    !.date = Bcd(c.date), !.month = Bcd(c.month), !.year = Bcd(y),
                    !.start_osc = TRUE]
  BY DEF encode_rtc, Encoded, Registers
<1> HIDE DEF e, c, s, n, h, w, y
<1>6. /\ Bcd(s) \in Digits /\ Bcd(n) \in Digits /\ Bcd(h) \in Digits
      /\ Bcd(c.date) \in Digits /\ Bcd(c.month) \in Digits /\ Bcd(y) \in Digits
      /\ BcdDecode(Bcd(c.date)) = c.date /\ BcdDecode(Bcd(c.month)) = c.month
      /\ BcdDecode(Bcd(y)) = y
  BY <1>1, <1>2, <1>4, BcdRoundTrip
<1>7. /\ e \in Registers /\ e.start_osc /\ e.twelve_hr = r.twelve_hr
      /\ e.sec = Bcd(s) /\ e.min = Bcd(n) /\ e.hour = Bcd(h) /\ e.wday = w
      /\ e.date = Bcd(c.date) /\ e.month = Bcd(c.month) /\ e.year = Bcd(y)
  BY <1>3, <1>5, <1>6 DEF Registers
<1>8. ShowsTime(e, t)
  BY <1>7 DEF ShowsTime, s, n, h, w
<1>9. DayShown(e) = t \div 86400
  BY <1>2, <1>4, <1>6, <1>7 DEF DayShown
<1>10. ShowsDay(e, t \div 86400 + DaysAhead(e))
  <2>1. BcdDecode(e.month) \in 1..12
    BY <1>2, <1>6, <1>7
  <2>2. IsDate(BcdDecode(e.year), BcdDecode(e.month), BcdDecode(e.date))
    BY <1>2, <1>6, <1>7, <2>1 DEF IsDate, LastDate
  <2> QED
    BY <1>9, <2>2 DEF ShowsDay
<1>11. DaysAhead(e) \in 0..1
  BY <1>7, Decoded
<1> QED
  BY <1>7, <1>8, <1>10, <1>11 DEF Shows, e

(* decode_rtc reads the time, less the days by which the chip is ahead.      *)
LEMMA DecodeShown ==
    ASSUME NEW c \in Registers, NEW t \in Nat, NEW a \in 0..1, Shows(c, t, a)
    PROVE  decode_rtc(c) = t + 86400 * (a - DaysAhead(c))
<1>1. /\ BcdDecode(c.sec) = t % 60 /\ BcdDecode(c.min) = (t \div 60) % 60
      /\ BcdDecode(c.hour) = (t \div 3600) % 24
  BY Parts, BcdRoundTrip DEF Shows, ShowsTime
<1>2. DayShown(c) = t \div 86400 + a - DaysAhead(c) /\ DaysAhead(c) \in 0..1
  <2>1. DayShown(c) + DaysAhead(c) = t \div 86400 + a
    BY DEF Shows, ShowsDay
  <2> QED
    BY <2>1, Decoded, Parts
<1> DEFINE s == t % 60
           n == (t \div 60) % 60
           h == (t \div 3600) % 24
           d == t \div 86400
           q == DaysAhead(c)
<1>3. /\ s \in Nat /\ n \in Nat /\ h \in Nat /\ d \in Nat /\ q \in 0..1
      /\ t = s + 60 * n + 3600 * h + 86400 * d
  BY <1>2, Parts
<1>4. decode_rtc(c) = s + 60 * n + 3600 * h + 86400 * (d + a - q)
  BY <1>1, <1>2 DEF decode_rtc
<1> HIDE DEF s, n, h, d, q
<1>5. s + 60 * n + 3600 * h + 86400 * (d + a - q) = t + 86400 * (a - q)
  BY <1>3, SMT
<1> QED
  BY <1>4, <1>5 DEF q

(* The next date, written out.                                               *)
LEMMA NextDateIs ==
    ASSUME NEW c \in Registers
    PROVE  LET y == BcdDecode(c.year)
               m == BcdDecode(c.month)
               d == BcdDecode(c.date)
               n == NextDate(c)
           IN /\ n \in Registers
              /\ n.sec = c.sec /\ n.min = c.min /\ n.hour = c.hour
              /\ n.start_osc = c.start_osc /\ n.twelve_hr = c.twelve_hr
              /\ n.wday = (c.wday + 1) % 7
              /\ BcdDecode(n.date) = IF d < LastDate(y, m) THEN d + 1 ELSE 1
              /\ BcdDecode(n.month) = IF d < LastDate(y, m) THEN m ELSE (m % 12) + 1
              /\ BcdDecode(n.year) = (y + (IF d < LastDate(y, m) THEN 0 ELSE m \div 12)) % 100
<1> DEFINE y == BcdDecode(c.year)
           m == BcdDecode(c.month)
           d == BcdDecode(c.date)
           date  == IF d < LastDate(y, m) THEN d + 1 ELSE 1
           month == IF d < LastDate(y, m) THEN m ELSE (m % 12) + 1
           carry == IF d < LastDate(y, m) THEN 0 ELSE m \div 12
           year  == (y + carry) % 100
           wday  == (c.wday + 1) % 7
<1>1. y \in Nat /\ m \in Nat /\ d \in Nat
  BY Decoded
<1>2. NextDate(c) = [c EXCEPT !.date = Bcd(date), !.month = Bcd(month), !.year = Bcd(year),
                              !.wday = wday]
  BY DEF NextDate, Registers
<1> HIDE DEF y, m, d
<1>3. date \in Nat /\ month \in Nat /\ carry \in Nat
  BY <1>1, SMT
<1>4. year \in Nat
  <2> HIDE DEF carry
  <2> QED BY <1>1, <1>3, SMT
<1>5. wday \in Int
  BY SMT DEF Registers
<1> HIDE DEF date, month, year, wday
<1>6. /\ Bcd(date) \in Digits /\ Bcd(month) \in Digits /\ Bcd(year) \in Digits
      /\ BcdDecode(Bcd(date)) = date /\ BcdDecode(Bcd(month)) = month
      /\ BcdDecode(Bcd(year)) = year
  BY <1>3, <1>4, BcdRoundTrip
<1>7. /\ NextDate(c) \in Registers
      /\ NextDate(c).sec = c.sec /\ NextDate(c).min = c.min /\ NextDate(c).hour = c.hour
      /\ NextDate(c).start_osc = c.start_osc /\ NextDate(c).twelve_hr = c.twelve_hr
      /\ NextDate(c).wday = wday /\ NextDate(c).date = Bcd(date)
      /\ NextDate(c).month = Bcd(month) /\ NextDate(c).year = Bcd(year)
  BY <1>2, <1>5, <1>6 DEF Registers
<1> QED
  BY <1>6, <1>7 DEF date, month, year, wday, carry, y, m, d

(* The chip that shows a day shows the next one after it.                    *)
LEMMA NextDateShows ==
    ASSUME NEW c \in Registers, NEW k \in Int, k < LastDay, ShowsDay(c, k)
    PROVE  ShowsDay(NextDate(c), k + 1)
<1> DEFINE y == BcdDecode(c.year)
           m == BcdDecode(c.month)
           d == BcdDecode(c.date)
           n == NextDate(c)
           date  == IF d < LastDate(y, m) THEN d + 1 ELSE 1
           month == IF d < LastDate(y, m) THEN m ELSE (m % 12) + 1
           carry == IF d < LastDate(y, m) THEN 0 ELSE m \div 12
<1>1. y \in Nat /\ IsDate(y, m, d) /\ DayCounted(y, m, d) = k
  BY Decoded DEF ShowsDay
<1>2. /\ n \in Registers /\ BcdDecode(n.date) = date /\ BcdDecode(n.month) = month
      /\ BcdDecode(n.year) = (y + carry) % 100
  BY NextDateIs
<1> HIDE DEF y, m, d, n
<1>3. /\ IsDate(y + carry, month, date)
      /\ DayCounted(y + carry, month, date) = DayCounted(y, m, d) + 1
      /\ DayCounted(y, m, d) < LastDay => (y + carry) % 100 = y + carry
  BY <1>1, NextDay
<1> HIDE DEF date, month, carry
<1>4. BcdDecode(n.year) = y + carry
  BY <1>1, <1>2, <1>3
<1>5. DayShown(n) + DaysAhead(n) = DayCounted(y + carry, month, date)
  BY <1>2, <1>4, Decoded
<1> QED
  BY <1>1, <1>2, <1>3, <1>4, <1>5 DEF ShowsDay, n

(* Counting on keeps the registers registers.                                *)
LEMMA CountTypes ==
    ASSUME NEW c \in Registers
    PROVE  /\ CountUp(c) \in Registers
           /\ CountUp(c).start_osc = c.start_osc /\ CountUp(c).twelve_hr = c.twelve_hr
<1> DEFINE s == BcdDecode(c.sec) + 1
           m == BcdDecode(c.min) + s \div 60
           h == BcdDecode(c.hour) + m \div 60
           e == [c EXCEPT !.sec = Bcd(s % 60), !.min = Bcd(m % 60), !.hour = Bcd(h % 24)]
<1>1. s \in Nat
  BY Decoded
<1>2. m \in Nat
  BY <1>1, Decoded, SMT
<1>3. h \in Nat
  BY <1>2, Decoded, SMT
<1> HIDE DEF s, m, h
<1>4. s % 60 \in Nat /\ m % 60 \in Nat /\ h % 24 \in Nat
  BY <1>1, <1>2, <1>3, SMT
<1>5. Bcd(s % 60) \in Digits /\ Bcd(m % 60) \in Digits /\ Bcd(h % 24) \in Digits
  BY <1>4, BcdRoundTrip
<1>6. e \in Registers /\ e.start_osc = c.start_osc /\ e.twelve_hr = c.twelve_hr
  BY <1>5 DEF Registers
<1>7. CountUp(c) = IF h < 24 THEN e ELSE NextDate(e)
  BY DEF CountUp, s, m, h
<1> HIDE DEF e
<1> QED
  BY <1>6, <1>7, NextDateIs

(* Carries.                                                                  *)
LEMMA Carry ==
    ASSUME NEW x \in Nat, NEW k \in Nat
    PROVE  /\ ((x % 60) + k) % 60 = (x + k) % 60
           /\ x \div 60 + ((x % 60) + k) \div 60 = (x + k) \div 60
           /\ ((x % 60) + k) \div 60 \in Nat
           /\ ((x % 24) + k) % 24 = (x + k) % 24
           /\ x \div 24 + ((x % 24) + k) \div 24 = (x + k) \div 24
           /\ ((x % 24) + k) \div 24 \in Nat
           /\ (((x + 4) % 7) + k) % 7 = (x + k + 4) % 7
<1>1. /\ ((x % 60) + k) % 60 = (x + k) % 60
      /\ x \div 60 + ((x % 60) + k) \div 60 = (x + k) \div 60
      /\ ((x % 60) + k) \div 60 \in Nat
  BY SMT
<1>2. /\ ((x % 24) + k) % 24 = (x + k) % 24
      /\ x \div 24 + ((x % 24) + k) \div 24 = (x + k) \div 24
      /\ ((x % 24) + k) \div 24 \in Nat
  BY SMT
<1>3. (((x + 4) % 7) + k) % 7 = (x + k + 4) % 7
  BY SMT
<1> QED
  BY <1>1, <1>2, <1>3

(* The chip that shows a second shows the next one after it.                 *)
LEMMA CountShows ==
    ASSUME NEW c \in Registers, NEW t \in Nat, NEW a \in 0..1, Shows(c, t, a),
           Dated(t + 1)
    PROVE  Shows(CountUp(c), t + 1, a)
<1> DEFINE s == BcdDecode(c.sec) + 1
           m == BcdDecode(c.min) + s \div 60
           h == BcdDecode(c.hour) + m \div 60
           e == [c EXCEPT !.sec = Bcd(s % 60), !.min = Bcd(m % 60), !.hour = Bcd(h % 24)]
           A == t \div 60
           B == t \div 3600
           D == t \div 86400
<1>1. /\ A \in Nat /\ B \in Nat /\ D \in Nat /\ B = A \div 60 /\ D = B \div 24
      /\ (t + 1) \div 3600 = ((t + 1) \div 60) \div 60
      /\ (t + 1) \div 86400 = ((t + 1) \div 3600) \div 24
  BY SMT
<1>2. /\ BcdDecode(c.sec) = t % 60 /\ BcdDecode(c.min) = A % 60
      /\ BcdDecode(c.hour) = B % 24 /\ c.wday = (D + 4) % 7
  BY Parts, BcdRoundTrip DEF Shows, ShowsTime, Weekday
<1>3. s % 60 = (t + 1) % 60 /\ (t + 1) \div 60 = A + s \div 60 /\ s \div 60 \in {0, 1}
  <2>1. (t % 60) \in 0..59
    BY SMT
  <2> QED
    BY <1>2, <2>1, Carry, SMT
<1> HIDE DEF A, B, D, s
<1>4. /\ m % 60 = ((t + 1) \div 60) % 60 /\ (t + 1) \div 3600 = B + m \div 60
      /\ m \div 60 \in {0, 1}
  <2> DEFINE k == s \div 60
  <2>1. m = (A % 60) + k
    BY <1>2
  <2>2. k \in {0, 1} /\ (t + 1) \div 60 = A + k
    BY <1>3
  <2> HIDE DEF k, m
  <2>3. /\ ((A % 60) + k) % 60 = (A + k) % 60 /\ A \div 60 + ((A % 60) + k) \div 60 = (A + k) \div 60
    BY <1>1, <2>2, Carry
  <2>4. m \div 60 \in {0, 1}
    BY <1>1, <2>1, <2>2, SMT
  <2> QED
    BY <1>1, <2>1, <2>2, <2>3, <2>4
<1> HIDE DEF m
<1>5. /\ h % 24 = ((t + 1) \div 3600) % 24 /\ h \in Nat
      /\ (t + 1) \div 86400 = D + (IF h < 24 THEN 0 ELSE 1)
  <2> DEFINE k == m \div 60
  <2>1. h = (B % 24) + k
    BY <1>2
  <2>2. k \in {0, 1} /\ (t + 1) \div 3600 = B + k
    BY <1>4
  <2> HIDE DEF k, h
  <2>3. /\ ((B % 24) + k) % 24 = (B + k) % 24 /\ B \div 24 + ((B % 24) + k) \div 24 = (B + k) \div 24
    BY <1>1, <2>2, Carry
  <2>4. h \in Nat /\ h \div 24 = IF h < 24 THEN 0 ELSE 1
    BY <1>1, <2>1, <2>2, SMT
  <2> QED
    BY <1>1, <2>1, <2>2, <2>3, <2>4
<1> HIDE DEF h
<1>6. /\ e \in Registers /\ e.sec = Bcd(s % 60) /\ e.min = Bcd(m % 60) /\ e.hour = Bcd(h % 24)
      /\ e.wday = c.wday /\ e.date = c.date /\ e.month = c.month /\ e.year = c.year
  <2>1. m \in Nat /\ s \in Nat
    BY <1>1, <1>2, <1>3, SMT DEF m, s
  <2>2. s % 60 \in Nat /\ m % 60 \in Nat /\ h % 24 \in Nat
    BY <1>5, <2>1, SMT
  <2>3. Bcd(s % 60) \in Digits /\ Bcd(m % 60) \in Digits /\ Bcd(h % 24) \in Digits
    BY <2>2, BcdRoundTrip
  <2> DEFINE u == Bcd(s % 60)
             v == Bcd(m % 60)
             w == Bcd(h % 24)
  <2>4. u \in Digits /\ v \in Digits /\ w \in Digits /\ e = [c EXCEPT !.sec = u, !.min = v, !.hour = w]
    BY <2>3
  <2> HIDE DEF u, v, w, e
  <2>5. /\ e \in Registers /\ e.sec = u /\ e.min = v /\ e.hour = w
        /\ e.wday = c.wday /\ e.date = c.date /\ e.month = c.month /\ e.year = c.year
    BY <2>4 DEF Registers
  <2> QED
    BY <2>5 DEF u, v, w
<1>7. CountUp(c) = IF h < 24 THEN e ELSE NextDate(e)
  BY DEF CountUp, s, m, h
<1>8. ShowsDay(e, D + a)
  BY <1>6 DEF Shows, ShowsDay, DayShown, DaysAhead, D
<1> HIDE DEF e
<1>9. CASE h < 24
  <2>1. Weekday(t + 1) = c.wday
    BY <1>1, <1>2, <1>5, <1>9 DEF Weekday
  <2>2. ShowsTime(e, t + 1)
    BY <1>3, <1>4, <1>5, <1>6, <2>1 DEF ShowsTime
  <2>3. (t + 1) \div 86400 = D
    BY <1>1, <1>5, <1>9
  <2> QED
    BY <1>7, <1>8, <1>9, <2>2, <2>3 DEF Shows
<1>10. CASE ~(h < 24)
  <2>1. (c.wday + 1) % 7 = Weekday(t + 1)
    BY <1>1, <1>2, <1>5, <1>10, Carry DEF Weekday
  <2>2. D + a < LastDay /\ D + a \in Int /\ (D + a) + 1 = (D + 1) + a
    BY <1>1, <1>5, <1>10 DEF LastDay, Dated
  <2>3. ShowsDay(NextDate(e), (D + 1) + a)
    BY <1>6, <1>8, <2>2, NextDateShows
  <2>4. ShowsTime(NextDate(e), t + 1)
    BY <1>3, <1>4, <1>5, <1>6, <2>1, NextDateIs DEF ShowsTime
  <2> QED
    BY <1>5, <1>7, <1>10, <2>3, <2>4 DEF Shows
<1> QED
  BY <1>9, <1>10

(* And after a day the same time of the next.                                *)
LEMMA DayShows ==
    ASSUME NEW c \in Registers, NEW t \in Nat, NEW a \in 0..1, Shows(c, t, a),
           Dated(t + 86400)
    PROVE  Shows(NextDate(c), t + 86400, a)
<1> DEFINE D == t \div 86400
<1>1. /\ D \in Nat /\ (t + 86400) \div 86400 = D + 1
      /\ (t + 86400) % 60 = t % 60 /\ ((t + 86400) \div 60) % 60 = (t \div 60) % 60
      /\ ((t + 86400) \div 3600) % 24 = (t \div 3600) % 24
  <2>1. D \in Nat /\ (t + 86400) \div 86400 = D + 1
    BY SMT
  <2>2. (t + 86400) % 60 = t % 60 /\ (t + 86400) \div 60 = t \div 60 + 1440
    BY SMT
  <2>3. (t + 86400) \div 3600 = t \div 3600 + 24
    BY SMT
  <2>4. /\ t \div 60 \in Nat /\ t \div 3600 \in Nat
    BY SMT
  <2>5. \A x \in Nat : (x + 1440) % 60 = x % 60 /\ (x + 24) % 24 = x % 24
    BY SMT
  <2> QED BY <2>1, <2>2, <2>3, <2>4, <2>5
<1> HIDE DEF D
<1>2. ShowsDay(NextDate(c), (D + 1) + a)
  <2>1. ShowsDay(c, D + a)
    BY DEF Shows, D
  <2>2. D + a < LastDay /\ D + a \in Int /\ (D + a) + 1 = (D + 1) + a
    BY <1>1 DEF LastDay, Dated
  <2> QED
    BY <2>1, <2>2, NextDateShows
<1>3. (c.wday + 1) % 7 = Weekday(t + 86400)
  <2>1. c.wday = (D + 4) % 7
    BY DEF Shows, ShowsTime, Weekday, D
  <2> QED
    BY <1>1, <2>1, Carry DEF Weekday
<1>4. ShowsTime(NextDate(c), t + 86400)
  BY <1>1, <1>3, NextDateIs DEF Shows, ShowsTime
<1> QED
  BY <1>1, <1>2, <1>4 DEF Shows

Fields == {"start_osc", "sec", "min", "hour", "twelve_hr", "wday", "date", "month", "year"}

(* A transfer that breaks off mixes two sets of registers.                   *)
LEMMA FirstOfTypes ==
    ASSUME NEW a \in Registers, NEW b \in Registers, NEW n \in 0..7
    PROVE  /\ FirstOf(a, b, n) \in Registers
           /\ ~a.twelve_hr /\ ~b.twelve_hr => ~FirstOf(a, b, n).twelve_hr
<1>1. FirstOf(a, b, n) =
        [start_osc |-> FirstOf(a, b, n).start_osc, sec |-> FirstOf(a, b, n).sec,
         min |-> FirstOf(a, b, n).min, hour |-> FirstOf(a, b, n).hour,
         twelve_hr |-> FirstOf(a, b, n).twelve_hr, wday |-> FirstOf(a, b, n).wday,
         date |-> FirstOf(a, b, n).date, month |-> FirstOf(a, b, n).month,
         year |-> FirstOf(a, b, n).year]
  BY DEF FirstOf, RegisterOf, Fields
<1>2. \A r \in Fields :
         FirstOf(a, b, n)[r] \in {a[r], b[r]}
  BY DEF FirstOf, RegisterOf, Fields
<1> QED
  BY <1>1, <1>2 DEF Registers, Fields

LEMMA WriteOneTypes ==
    ASSUME registers' \in Registers, chip \in Registers, NEW fs, WriteOne(fs)
    PROVE  /\ chip' \in Registers
           /\ chip'.twelve_hr = IF "twelve_hr" \in fs THEN registers'.twelve_hr
                                                      ELSE chip.twelve_hr
<1>0. DOMAIN chip = Fields
  BY DEF Registers, Fields
<1>1. chip' = [start_osc |-> chip'.start_osc, sec |-> chip'.sec, min |-> chip'.min,
               hour |-> chip'.hour, twelve_hr |-> chip'.twelve_hr, wday |-> chip'.wday,
               date |-> chip'.date, month |-> chip'.month, year |-> chip'.year]
  BY <1>0 DEF WriteOne, Fields
<1>2. \A r \in Fields :
         chip'[r] = IF r \in fs THEN registers'[r] ELSE chip[r]
  BY <1>0 DEF WriteOne
<1> QED
  BY <1>1, <1>2 DEF Registers, Fields
-----------------------------------------------------------------------------
LEMMA InitRtcInv == Init => RtcInv
<1> SUFFICES ASSUME Init PROVE RtcInv
  OBVIOUS
<1>1. ZeroRegisters \in Registers
  BY BcdRoundTrip DEF ZeroRegisters, Registers
<1>2. PICK t \in ChipTimes, osc \in BOOLEAN, twelve \in BOOLEAN, day \in 0..6 :
         chip = [encode_rtc(ZeroRegisters, t) EXCEPT !.start_osc = osc,
                                        !.twelve_hr = twelve, !.wday = day]
  BY DEF Init
<1>3. encode_rtc(ZeroRegisters, t) \in Registers
  BY <1>1, EncodeShows, RtcAssumption DEF RtcAssumption
<1>4. chip \in Registers
  <2> DEFINE e == encode_rtc(ZeroRegisters, t)
  <2>1. chip = [e EXCEPT !.start_osc = osc, !.twelve_hr = twelve, !.wday = day]
    BY <1>2
  <2>2. e \in Registers /\ osc \in BOOLEAN /\ twelve \in BOOLEAN /\ day \in Int
    BY <1>3
  <2> HIDE DEF e
  <2> QED
    BY <2>1, <2>2 DEF Registers
<1>5. 0 \in Nat /\ 0 \in 0..1
  OBVIOUS
<1> QED
  BY <1>1, <1>4, <1>5 DEF Init, RtcInv, RtcTypes, LockInv, ClockInv, HoursInv

(* The initialisation: the time is not set yet.                              *)
LEMMA InitSteps ==
    ASSUME RtcInv, InitBus \/ InitRead \/ InitWeekday \/ InitHours \/ InitStart \/ InitOut
    PROVE  RtcInv'
<1> USE DEF RtcInv, RtcTypes, LockInv, ClockInv, HoursInv
<1>0. \A r \in Registers : Weekday(decode_rtc(r)) \in Int
  <2> SUFFICES ASSUME NEW r \in Registers PROVE decode_rtc(r) \in Int
    BY SMT DEF Weekday
  <2> QED
    BY Decoded DEF decode_rtc
<1>1. CASE InitBus
  BY <1>1 DEF InitBus, Works, Fails, Go, Rest
<1>2. CASE InitRead
  <2>1. registers' \in Registers
    BY <1>2, FirstOfTypes DEF InitRead, ReadAll, ReadFails
  <2> QED
    BY <1>2, <2>1 DEF InitRead, Go, Rest
<1>3. CASE InitWeekday
  <2>1. registers' \in Registers
    BY <1>0, <1>3 DEF InitWeekday, Registers
  <2>2. chip' \in Registers
    BY <1>3, <2>1, WriteOneTypes DEF InitWeekday, WriteOneFails
  <2> QED
    BY <1>3, <2>1, <2>2 DEF InitWeekday, Go, Rest
<1>4. CASE InitHours
  <2>1. registers' \in Registers /\ ~registers'.twelve_hr
    BY <1>4 DEF InitHours, Registers
  <2>2. chip' \in Registers
    BY <1>4, <2>1, WriteOneTypes DEF InitHours, WriteOneFails
  <2>3. inited' => ~chip'.twelve_hr
    BY <1>4, <2>1, WriteOneTypes DEF InitHours, WriteOneFails
  <2> QED
    BY <1>4, <2>1, <2>2, <2>3 DEF InitHours, Go, Rest
<1>5. CASE InitStart
  <2>1. registers' \in Registers /\ registers'.twelve_hr = registers.twelve_hr
    BY <1>5 DEF InitStart, Registers
  <2>2. chip' \in Registers /\ chip'.twelve_hr = chip.twelve_hr
    BY <1>5, <2>1, WriteOneTypes DEF InitStart, WriteOneFails
  <2> QED
    BY <1>5, <2>1, <2>2 DEF InitStart, Go, Rest
<1>6. CASE InitOut
  BY <1>6 DEF InitOut, GiveLock, Go, Rest
<1> QED
  BY <1>1, <1>2, <1>3, <1>4, <1>5, <1>6

(* main sets the time, and reads it ever after.                              *)
LEMMA MainSteps ==
    ASSUME RtcInv, SetTake \/ SetTime \/ SetOut \/ GetTake \/ GetTime \/ GetOut
    PROVE  RtcInv'
<1> USE DEF RtcInv, RtcTypes, LockInv, ClockInv, HoursInv
<1>1. CASE SetTake
  BY <1>1 DEF SetTake, TakeLock, Go, Rest
<1>2. CASE SetTime
  <2>1. PICK t \in SetTimes :
          /\ registers' = encode_rtc(registers, t)
          /\ \/ /\ WriteAll
                /\ expected' = t /\ ahead' = DaysAhead(registers') /\ setOk' = TRUE
             \/ WriteFails /\ UNCHANGED <<expected, ahead, setOk>>
    BY <1>2 DEF SetTime
  <2>2. /\ registers' \in Registers /\ DaysAhead(registers') \in 0..1
        /\ Shows(registers', t, DaysAhead(registers')) /\ registers'.start_osc
        /\ registers'.twelve_hr = registers.twelve_hr /\ t \in Nat
    BY <2>1, EncodeShows, RtcAssumption DEF RtcAssumption
  <2>3. CASE WriteAll /\ expected' = t /\ ahead' = DaysAhead(registers') /\ setOk' = TRUE
    BY <1>2, <2>2, <2>3 DEF SetTime, WriteAll, Go
  <2>4. CASE WriteFails /\ UNCHANGED <<expected, ahead, setOk>>
    BY <1>2, <2>2, <2>4, FirstOfTypes DEF SetTime, WriteFails, Go
  <2> QED
    BY <2>1, <2>3, <2>4
<1>3. CASE SetOut
  BY <1>3 DEF SetOut, GiveLock, Go, Rest
<1>4. CASE GetTake
  BY <1>4 DEF GetTake, TakeLock, Go, history, bounds
<1>5. CASE GetTime
  <2>1. registers' \in Registers /\ (inited => ~registers'.twelve_hr)
    BY <1>5, FirstOfTypes DEF GetTime, ReadAll, ReadFails
  <2> QED
    BY <1>5, <2>1 DEF GetTime, Go, history
<1>6. CASE GetOut
  BY <1>6 DEF GetOut, GiveLock, Go, Rest
<1> QED
  BY <1>1, <1>2, <1>3, <1>4, <1>5, <1>6

(* The chip counts on, or the lock restarts.                                 *)
LEMMA OutsideSteps ==
    ASSUME RtcInv, Second \/ Day \/ Crash
    PROVE  RtcInv'
<1> USE DEF RtcInv, RtcTypes, LockInv, ClockInv, HoursInv
<1>1. CASE Second
  <2>1. PICK h \in 0..23 :
          \/ UNCHANGED chip /\ ~chip.start_osc
          \/ chip.twelve_hr /\ chip' = [CountUp(chip) EXCEPT !.hour = Bcd(h)]
          \/ chip' = CountUp(chip)
    BY <1>1 DEF Second
  <2>2. Bcd(h) \in Digits
    BY BcdRoundTrip
  <2>3. /\ CountUp(chip) \in Registers
        /\ CountUp(chip).start_osc = chip.start_osc /\ CountUp(chip).twelve_hr = chip.twelve_hr
    BY CountTypes
  <2>4. chip' \in Registers /\ chip'.start_osc = chip.start_osc /\ chip'.twelve_hr = chip.twelve_hr
    BY <2>1, <2>2, <2>3 DEF Registers
  <2>5. setOk /\ ~chip.twelve_hr /\ Dated(expected + 1)
          => Shows(chip', expected + 1, ahead)
    <3>1. Dated(expected + 1) => Dated(expected)
      BY SMT DEF LastDay, Dated
    <3> QED BY <2>1, <3>1, CountShows
  <2> QED
    BY <1>1, <2>4, <2>5 DEF Second
<1>2. CASE Day
  <2>1. /\ NextDate(chip) \in Registers
        /\ NextDate(chip).start_osc = chip.start_osc
        /\ NextDate(chip).twelve_hr = chip.twelve_hr
    BY NextDateIs
  <2>2. setOk /\ ~chip.twelve_hr /\ Dated(expected + 86400)
          => Shows(NextDate(chip), expected + 86400, ahead)
    <3>1. Dated(expected + 86400) => Dated(expected)
      BY SMT DEF LastDay, Dated
    <3> QED BY <3>1, DayShows
  <2> QED
    BY <1>2, <2>1, <2>2 DEF Day
<1>3. CASE Crash
  <2>1. ZeroRegisters \in Registers
    BY BcdRoundTrip DEF ZeroRegisters, Registers
  <2> QED
    BY <1>3, <2>1 DEF Crash
<1> QED
  BY <1>1, <1>2, <1>3

LEMMA NextRtcInv == RtcInv /\ [Next]_vars => RtcInv'
<1>1. ASSUME RtcInv, UNCHANGED vars PROVE RtcInv'
  BY <1>1 DEF RtcInv, RtcTypes, LockInv, ClockInv, HoursInv, vars, history
<1> QED
  BY <1>1, InitSteps, MainSteps, OutsideSteps DEF Next, Main

(* The inductive invariant holds: the semaphore is free where the driver     *)
(* takes it, and a chip that was set shows the time (RTCmcp7940.c:226-326).  *)
THEOREM RtcInvariance == Spec => []RtcInv
<1> QED
  BY InitRtcInv, NextRtcInv, PTL DEF Spec

(* The semaphore is free wherever the driver takes it (RTCmcp7940.c:231,     *)
(* 257), whatever has failed before.                                         *)
THEOREM SemaphoreIsFree == Spec => []NeverWaits
<1>1. RtcInv => NeverWaits
  BY DEF RtcInv, LockInv, NeverWaits
<1> QED
  BY <1>1, RtcInvariance, PTL

(* Nothing the driver writes undoes the 24 hour mode (RTCmcp7940.c:312).     *)
THEOREM HoursAre24 == Spec => []TwentyFourHours
<1>1. RtcInv => TwentyFourHours
  BY DEF RtcInv, HoursInv, TwentyFourHours
<1> QED
  BY <1>1, RtcInvariance, PTL

(* A read that succeeds after the time was set returns that time and the     *)
(* seconds since, but for the day by which the leap years of the chip differ *)
(* between then and now (RTCmcp7940.c:226-279).                              *)
THEOREM TimeIsKept == Spec => TimeKept
<1>1. ASSUME RtcInv, [Next]_vars, ReadOf(unix_time')
      PROVE  unix_time' = expected + 86400 * (ahead - DaysAhead(registers'))
  <2>0. unix_time' # unix_time /\ unix_time' # NoTime
    BY <1>1 DEF ReadOf
  <2>1. GetTime
    BY <1>1, <2>0 DEF vars, Next, Main, InitBus, InitRead, InitWeekday, InitHours, InitStart,
                InitOut, SetTake, SetTime, SetOut, GetTake, GetOut, Second, Day, Crash, Rest
  <2>2. registers' = chip /\ unix_time' = decode_rtc(chip)
    BY <1>1, <2>1 DEF GetTime, ReadAll, ReadOf
  <2>3. Shows(chip, expected, ahead)
    BY <1>1 DEF RtcInv, ClockInv, ReadOf
  <2> QED
    BY <1>1, <2>2, <2>3, DecodeShown DEF RtcInv, RtcTypes
<1>2. RtcInv /\ [Next]_vars =>
        [ReadOf(unix_time') =>
           unix_time' = expected + 86400 * (ahead - DaysAhead(registers'))]_vars
  BY <1>1
<1> QED
  BY <1>2, RtcInvariance, PTL DEF Spec, TimeKept
=============================================================================
