# BLESmartLock: specification, model checking and proofs

The firmware of a Bluetooth door lock (nRF52840, Zephyr). A phone writes encrypted
frames to a GATT characteristic; the lock decrypts them, moves a bolt with a motor,
keeps a date and an AES key, and answers with encrypted notifications. Paths below
are relative to the firmware's directory in the repository (`main.c` is `src/main.c`).

## 1. Inventory

| Component | State | Operations | Interacts with |
|---|---|---|---|
| Main thread, `src/main.c` | `app_pack_` (key in use, lock status, date, buffers of the frame being handled, last IV) | start-up, wait for an event up to 1 s, one case per event: LOCK, UNLOCK, LOCK_STATUS, BATTERY_LEVEL, SETTIMEDATE, SETENCRYPTKEY, GETTIMEDATE, GETENCRYPTKEY, ACK, NACK, MSG_RECV | takes from and pushes to the event queue; calls everything below |
| Bluetooth service, `src/BLE` | `app_event_msq` (one entry), `current_conn`, `mfg_data`, the receive buffer in `app_pack_` | `on_connected`, `on_disconnected`, `on_write`/`on_data_received`, `bt_ready` (callbacks); `BLEapp_init`, `BLEapp_loop`, push/get, notify (calls) | callbacks share the queue, `app_pack_.BlemsgBuf` and `current_conn` with the main thread, without a lock |
| Parsers, `src/System/bib.c` | none (write into `app_pack_`) | `bib_parseMainMsg`, `bib_parseInnerMsg`, `bib_parseTimeDateAndValidate` | read the receive buffer in place |
| Flash, `src/System/sys_flash.c` | one page: key at 0, status byte at 20 | erase, read, write (erase, then program) | main thread |
| Motor, `src/motorcontrol/mcapp.c` | two PWM widths | init, `mcapp_speedDirection` (two writes) | main thread, the bolt |
| Encryption, `src/crypto/cryptoapp.c` | PSA key handle | init, import/generate key, encrypt, decrypt, finish | main thread |
| Clock driver, `modules/RTCmcp7940` | copy of the registers, a semaphore; the chip itself | init, set, get | main thread (sets once, logs the value on every turn of its loop) |
| AHT20, accelerometer, button, LEDs | - | polled, logged; the button handler is never registered | main thread |

What is hard here: the stack's callbacks preempt the main thread anywhere, and they
overwrite the frame it may be parsing; the queue holds one event and drops silently;
a client repeats a frame whose answer it missed; flash can fail, can only clear bits
without an erase, and holds two things on one page; a reset may fall anywhere; binary
data goes through C string functions; results of the crypto library and of the clock
driver are not looked at, and buffers keep what an earlier message left in them.
`PROJECT.json` lists these hazards by line.

What makes each component correct:

- commands: what was written once is carried out at most once, however often the client repeats
  it, with its own argument, and its answer is true (`AtMostOnce`, `ArgumentIsOwn`, `ReplyIsTrue`);
  with clients that wait, no event is lost and every write with a new IV is answered
  (`NothingDropped`, `Answered`); all of it together, in the order of the writes: `Implements`;
  what checks out is not refused (`SoundCommandAccepted`, `DateRefusedAfterLong`);
- messages: what a frame says is what the lock acts on, a mark or length that the parsers look at
  and find wrong makes it no command, and what a notification says is what the lock meant
  (`FrameUnderstood`, `AnswerUnderstood`);
- encryption: an IV serves one message, key slots come back (`NoKeystreamReuse`, `KeysReleased`);
- motor and status: the bridge is never driven from both sides, a started motor stops,
  the reported status is where the bolt is (`BridgeSafe`, `MotorStops`, `StatusTruth`);
- flash: the key in use is the one stored (`KeyMatchesFlash`);
- Bluetooth: a lock left alone advertises its status (`AdvertTruth`);
- clock: what is read is what was set and the seconds since (`TimeKept`, `TwentyFourHours`),
  and no call blocks (`NeverWaits`).

## 2. Modules

| Module | Models |
|---|---|
| `SysFlash` | the flash page and the two halves of `sys_flash_write` |
| `Mcapp` | the PWM outputs, `mcapp_speedDirection` as two steps, the bolt |
| `BLEapp` | the queue, the receive buffer, the connection, advertising, one action per callback |
| `SmartLock` | `main()`, the client and power failures; composes the three above |
| `SmartLockProperties` | its properties, and the statements the code does not keep |
| `SmartLockInvariant` | `IInv`, the inductive invariant, and `PatienceInv` for clients that wait |
| `SmartLock_proofs` | the theorems on `SmartLock` |
| `LockService` | abstract: what the lock promises, without queue, buffers, threads or flash |
| `SmartLockService` | the refinement mapping, `Implements`, and `ServiceInv`, which its proof needs beside `IInv` |
| `SmartLockService_proofs` | `SmartLock` implements `LockService` |
| `SmartLockPatience_proofs` | what clients that wait may rely on (`PatienceInv` of `SmartLockInvariant`) |
| `MCSmartLock` | values of the constants for TLC |
| `Bib` | the layout of the two messages and the two parsers of frames, byte by byte |
| `Cryptoapp` | import, encryption, decryption and destruction of the key, with every failure of the library |
| `MessagePath` | one exchange after another, from the bytes a client writes to the bytes of the notification; composes `Bib` and `Cryptoapp` |
| `MessagePathInvariant`, `MessagePath_proofs`, `MCMessagePath` | its inductive invariant `MPInv`, theorems, values for TLC |
| `Rtc` | the clock driver, its use by `main()`, and the chip |
| `Rtc_proofs`, `MCRtc` | its theorems, values for TLC |

Three views of one program. `SmartLock` follows who may interrupt whom: frames are records
of the outcomes of the parsers' tests. `MessagePath` follows the bytes: a client waits for its
answer, so there is nothing to interrupt, and the question is what the buffers and the library
make of a message. `Rtc` stands alone, since nothing but the log reads the time of the chip.

In `SmartLock`, `pc` is the place of the main thread. Its values cut `main()` exactly where a
callback or a reset can see or change something: before each PWM write, each flash erase and
program, each push, and inside the parsing of the shared buffer. A case of the switch that
touches nothing shared in between is one action. Names follow the code (`queue` is
`app_event_msq`, `lenOf` is `MainMsgLen` with the frame it belongs to, `ivHi`/`ivLo` are the
two halves of `BLEivBuf`, `prevIv` of `BLEPrevivBuf`, `enc` the frame whose bytes are in
`BLEencryptBuf`). `done`, `reply`, `sent` and `origin` are histories the code does not keep.

Writes are numbered. A client may write a new frame (`WriteFrame`), the last one once more
(`RepeatFrame`), or an older one after others were written (`WriteAgain`). Writing the last one once
more changes no byte of the receive buffer, so it keeps its number; a frame that comes back after
another one gets a number of its own, and `origin` says which write was the first with these bytes and
this IV (`IvOf`). The lock compares IVs, not numbers, and remembers one: it carries out the frame
that comes back, and `AtMostOnce`, `ReplyIsTrue` and `LockService` therefore speak of writes.

In `MessagePath`, one step of `pc` is one call: receive, parse the envelope, import, cipher,
destroy, parse the message, try a new key, build the answer, notify. Every buffer has its name
of the code and its full contents, whatever its last use left there. `fields` are the five
fields of `app_pack_` that the inner parser fills, `wire` what has been notified.

In `Rtc`, one step is one access over I2C or one take or give of the semaphore; `Second` and `Day`
are the chip, `Crash` a restart that the chip outlives on its battery.

### LockService and the refinement

`LockService` knows what was written, write by write, the bolt, the status, the key, the date, the
writes carried out since the last start and the last answer. Its promise: the bolt moves, and
status, key and date change, only for a write that is a command for this lock, under the key in
use and written after every write carried out before it; each is carried out once; a date begins with
the data of its command, and what these leave open was brought by data sent before (`Assembled`); a value
that is answered is the value of that moment; an ACK is for a command carried out, a NACK for one
that was not. It does not promise to notice that a write brings again what was written before the
last one. What the code does not keep is in it as an action with a name: `SpoilDate` (a
rejected date replaces the clock) and, with flash faults, `LoseKey`.

The mapping (`SmartLockService`): `up` is `pc` outside of start-up, `status` is
`lockUnlockStatus`, `done` is `done` with the move whose status has been set and is being
stored, everything else has its own name. Queue, buffers, parsing, PWM, flash and advertising
disappear in stuttering steps.

### Faulty variants

Operators such as `CopyCipher_HalfIv` are faulty variants of the definition after them,
kept to show that the properties notice that mistake; nothing uses them.

### Abstractions and assumptions about the environment

`SmartLock`:

- A sender draws a new IV for each new frame; who writes an older frame again writes its IV with
  it. What a frame contains is a record of the outcomes of the parsers' tests, the command, the
  key and the argument; the bytes are in `MessagePath`.
- The data of a message are a sequence of pieces (`Args`): piece 1 ends where short data end, piece 2
  with a key, piece 3 with a date, piece 4 is what comes behind it. `StoreData` puts the pieces of a message
  over the first ones of `Data` and leaves the rest, so that a date or a key can be completed with
  what messages before have left.
- Decryption is right or garbage. Garbage never parses as a message, except that a frame
  handled with the length of another may be taken for garbage (`DecodeGarbage`).
- A `memcpy` from the receive buffer can be interrupted; the IV is copied in two parts, which
  lets its bytes come from two frames. Mixing three frames in one IV, and a torn ciphertext
  other than one of a later frame, are not modelled: both are garbage to the receiver. A
  frame that arrives since the length was read may pass the tests of the envelope or not, whether
  its own envelope is sound or not (`OwnLength`), and is not taken apart further; only one without
  SOH is always rejected.
- Callbacks are one step: the threads of the stack are cooperative and are not preempted by
  `main`.
- The driver refuses to erase at an address that is not on a page boundary; programming clears
  bits (a byte is the set of its one-bits); a program over another key leaves `Corrupt`. Reads
  do not fail; an erase or a program is not cut in half by a reset, but a reset can fall
  between them. Nothing else uses the storage partition.
- A second under power brings the bolt to its end; the moment the motor starts, the bolt
  leaves the other end.
- `dataTail`: whether byte 17 of `Data`, which `strlen` reads, was set by an earlier message.
- `IdHasNul`: whether one of the eight id bytes is zero. Both values are legal devices.
- Encryption succeeds (its failures are in `MessagePath`), and so do the BLE calls at start-up. A
  connected client has subscribed to the notifications. Answers are one value.
- `Patient`: a client that writes only when the lock has no event queued and none in work. This
  is the protocol of the documents (`Documentation/SmartLock application side.drawio`: wait for
  the ACK, then go on). Runs without it allow any client.

`MessagePath`, `Bib` and `Cryptoapp`:

- Clients wait, and every frame has an IV of its own; a repeated frame is `SmartLock`'s matter.
- A frame is sound or has one of the `Defects`: each mark of the envelope and of the message may be
  another byte, each length may be 256 and more. `Noticed` are those the parsers look at. They do not look at
  the EM that closes ciphertext and data (`last_em`, `inner_last_em`) nor at the `etx`, and refuse a
  length only if it is not below the length of the whole: `announced` and `surplus` of a request are
  lengths that are wrong by less. `FrameUnderstood` says of the first that the frame
  is understood as if nothing were missing, and of a surplus that the command, if it becomes one, is its own.
  Frames shorter than their headers, for which the parsers read in front of or behind the
  message, are not enumerated.
- `CtrAssumption`: AES-CTR maps bytes to bytes and undoes itself under the same key and IV.
  Nothing is said of another key: what decrypts under a wrong key is arbitrary, and the
  properties promise nothing for it beyond the IVs and the slots. TLC runs an arithmetic
  substitute that meets the assumption.
- `IvAssumption`: neither the random generator nor the clients draw an IV twice, nor the one of
  sixteen zeros that the buffers hold after a reset. That drawn IVs are different is what makes
  a keystream fresh; `NoKeystreamReuse` shows that the code uses each draw for one message
  only, also when a call fails between the draw and the encryption.
- `MessageAssumption`: the id of the lock has a zero byte (what happens without one is in
  `SmartLock`), values are octets and fit the buffers, and both lengths run from nothing to the most
  that the parsers let pass. Ids in messages are arbitrary; `SameId`
  says which of them `strcmp` takes for this lock.
- Any PSA call may fail. A failing `psa_crypto_init` shows as a failing import, for nothing looks
  at its result; what fails after `psa_cipher_update` has no effect; a failing cipher call leaves
  its output as it was. `psa_destroy_key` may fail and then keeps the slot.
- Sixteen bytes that arrive as a new key are a key in circulation (a member of `Keys`).
- What the handlers do to the lock is left to `SmartLock`: the values to be answered are
  drawn from `Statuses`, `Levels` and `Dates`, and a SETTIMEDATE is answered either way.

`Rtc`:

- The civil calendar (`CivilDate`, `DayNumber`) is that of `gmtime_r` and `timeutil_timegm` between
  March 1900 and February 2100, without the exception of the centuries. The calendar of the chip
  (`NextDate`) is taken from its data sheet: months of 31, 30 and 28 or 29 days, a leap year where
  the year register is divisible by four, a date past the end of its month followed by the first of the next.
- `Day` is 86400 of `Second` in one step, so that TLC gets from one season to another.
- `encode_rtc` and `decode_rtc` are called by the driver but defined only in `ToDo Task.txt`,
  which the driver is built to be completed with; they are modelled from there.
- `set_time` refuses times beyond 32 bits at once: an assumption on `SetTimes`.
- An access that fails may have transferred the first registers of a block. In 12-hour mode the
  chip's hour at a carry is arbitrary.
- Initialisation writes back the hour and the seconds it has read before: the chip may lose a
  carry between, and does so in the model.

## 3. What is checked

The bounds are named in the `.cfg` of the run. Deadlock is checked in every run but those of
`MessagePath`, where clients stop after `MaxFrames` frames.

| Run | Bounds | Shows |
|---|---|---|
| `Interleaving` | every command and defect, 2 writes, any client | type, own argument, `IInv`; implements `LockService` |
| `Histories` | 5 acting commands, short data among them, 3 writes, older frames written again, any client | bridge, at most once, true replies, status, key, `IInv`; implements `LockService` |
| `Restarts` | 4 commands, 2 writes, 2 connections, flash faults, 1 reset | argument, status, key, `IInv`, `ServiceInv` under faults; implements `LockService` |
| `PatientClient` | every command and defect, 2 writes, 2 connections, 1 reset, fairness | nothing dropped, motor stops, answers come, advertisement becomes true, sound commands are not refused, dates only after longer data, `PatienceInv` |
| `MessagePath` | buffers of 64 bytes, 3 exchanges out of 30 requests, 1 key slot, 1 failing call | frames and answers are understood, IVs are fresh, slots come back, `MPInv` |
| `Rtc` | 3 times to set, 2 to find on the chip (each running or not, in either mode, any weekday), 3 seconds, 2 days, 2 failing accesses, 1 restart | time kept, 24-hour mode, no waiting, `RtcInv` |
| `AckDropped`, `StatusAfterRestart`, `IdWithoutZero`, `StaleDate`, `FailedDecrypt` | 1 to 3 frames | a statement of the repository that the code does not keep (section 5) |
| `LeapDay` | the time `main` sets, 75 days, no fault | a statement of the repository that the code does not keep (section 5) |

In the runs of `SmartLock`, `MaxFrames` is the last write that may bring a new frame and `MaxWrites` the
last one that may bring an older frame again; the last frame written may be repeated without bound. Two
writes are enough for every overlap the one-entry queue and the single receive buffer can produce
between a frame in work and a later one. A third adds the histories in which the first command is
finished, and the order A, B, A, the shortest in which an older frame comes back: `Histories` has it, with
`AtMostOnce` and `ReplyIsTrue`, `IInv` and the refinement. What no run has is an older frame that comes back with
a flash fault or a reset, or from a client that waits; the theorems on the properties of these runs have no such bound, but
`Answered` rests on the run alone.

In `MessagePath`, the requests are commands of every length, each defect once, dates and keys that announce more
than they carry and ciphertexts announced 1 and 5 bytes too long. The first exchange leaves something in
the buffers, the second may fail, the third meets what both have left; requests differ in length, so that each order of long and short
occurs. Sixty-four bytes hold the longest message of the protocol. The IVs, ids and data contain
the bytes EM, EOT and SOH, and the id a zero byte in its middle. With one slot a lost key handle
is felt at once.

In `Rtc`, the times are the one `main` sets and the two seconds before midnight of 28 February 2025
and 2028: in one of these years only the chip has a 29 February, in the other only the civil
calendar. Chips are found at zero and two seconds before the hour. Three seconds cross every carry,
two days more the end of February in either calendar. Two faults let
initialisation and a later access fail in one behaviour.

What the bounds leave open is covered by the proofs, which have none, but for the liveness properties.

Fairness (`FairSpec` of `SmartLock`): weak fairness of the main thread, because every wait in its
loop has a timeout and nothing it calls in the model blocks (for the semaphore of the clock driver,
the one lock it takes, that is `NeverWaits`); and of `bt_ready`, which `bt_enable` calls.
Clients, connections and resets have none. `AdvertTruth` and `Answered` are conditional on
clients staying away or staying connected.

`ReplyIsTrue` is checked without flash faults: with them an ACK of a new key is queued before a write
that may fail (`main.c:462`). `AtMostOnce` is within one start: the last IV is not stored. Both speak of a write,
not of a frame: section 5 says what happens to a frame that comes back.
`AnswerUnderstood` asks of every answer that its id, its type, its announced length and its data are
those the lock meant, also of the one with the key: there it says that the announced length is the
17 of `main.c:602`.

## 4. What is proved

TLAPS proves the following for all values of the constants that meet the named assumptions of the
modules (`FlashAssumption`, `BLEAssumption`, `LockAssumption` and `RtcAssumption` only say that the
values are of their kinds and distinct; those of `MessagePath` are in section 2):

| Theorem | Statement | Extra assumption |
|---|---|---|
| `Invariance` | `Spec => []IInv` (of `SmartLock`) | |
| `TypeCorrect`, `BridgeIsSafe`, `ArgumentCorrect`, `StatusCorrect`, `KeyCorrect` | the invariants of the runs | |
| `NothingLost` | `NothingDropped` | `Patient` |
| `NoSecondStart` | `AtMostOnce` | |
| `RepliesTrue` | `ReplyIsTrue` | no flash faults |
| `ServiceInvariance` | `Spec => []ServiceInv` | |
| `ServiceImplemented` | `Spec => Implements`: every step of `SmartLock` is a step of `LockService` or a stutter | |
| `PatienceInvariance` | `Spec => []PatienceInv` | `Patient`, `IdHasNul` |
| `SoundAccepted` | `SoundCommandAccepted` | `Patient`, `IdHasNul` |
| `DateRefusals` | `DateRefusedAfterLong` | `Patient`, `IdHasNul` |
| `MessageInvariance` | `Spec => []MPInv` (of `MessagePath`) | |
| `FramesAreUnderstood`, `AnswersAreUnderstood`, `IvsAreFresh`, `SlotsComeBack` | the four properties of the run | |
| `RtcInvariance` | `Spec => []RtcInv` (of `Rtc`) | |
| `TimeIsKept`, `HoursAre24`, `SemaphoreIsFree` | the three properties of the run | |

`SmartLock`. At most once does not follow from comparing IVs alone, since the compared IV may be
made of two frames, and since the one of an older frame passes. `IvInv` says that the parts are copied in the
order of the writes: `prevIv[1] <= prevIv[2] <= enc <= ivHi <= ivLo <= BlemsgBuf` when the next ciphertext is
about to be copied. `DoneInv` says that no write carried out is later than `enc`, and that if the write of `enc`
itself was carried out, both parts remembered have its IV (`Remembered`). So either the next ciphertext is of a
later write, or it is of the same one again: then all that was copied for it is of the same write, its IV is
the one remembered, and it is dropped. A frame that comes back after another one is of a later write; that it
has the IV of an older one plays no part, which is why at most once is a statement on writes and not on
frames. `QueueInv` says that while an event is in
work only a received frame (or the ACK of the key being written) can be queued, so no parse happens
while a command waits with its argument: that gives `ArgumentIsOwn`. `MotorInv` follows a move place
by place; `KeyInv` does so for the key. The proof has one lemma per group of actions, and `NextIInv`
combines them; the action properties use `IInv` in the state before.

`SmartLockService`. The guard of `LockService` (sound, under the key in use, written after all carried
out) is tested by the code when a frame is decoded, and needed when its command acts, several steps
and perhaps some callbacks later. `ServiceInv` says that it still holds there: of the event in the
queue and of the one in work. Its `DataInv` says that each piece in `Data` is zero or was brought by a message
at or before `enc`: with the command's own pieces in place (`ArgumentIsOwn`), this makes the date that is set one that
`Assembled` allows. It needs `IInv` for the order of writes. Each action
of `SmartLock` is then one of `LockService`, or changes nothing that is mapped.

`SmartLockPatience`. With clients that wait, nothing arrives while a frame is parsed: by `IInv` the queue
is empty then, so every copy is of the frame in the buffer. A decoded frame is therefore refused only
for what it contains, and `PatienceInv` keeps that for the NACK that waits in the queue, since the key
changes only where none is pending. A date can also be refused for what is behind it in `Data`. There
`PatienceInv` says that byte 17 is set only if a frame with longer data was parsed, at or before
`enc`: an earlier write than any date that is decoded now, which is what `DateRefusals` states.

`MessagePath`. `MPInv` describes the way of a message through the buffers: `RxInv` what the receiving
side holds of the frame at each call, `ParsedInv` what is known of it once it is parsed, `TxInv`
the same for the answer, `HandleInv` the key handle and the slots, `IvInv` the IVs. The lemmas on
`Bib` are the round trips: a parser applied to a frame of the documented layout, in a buffer that
holds anything behind it, yields the fields, for every length that fits, also with one of the marks it does not
look at replaced; `MainDemands`, `MainTypes` and `InnerAccepts` are the other direction: what a parser accepts has
the marks and lengths it looks at, and the fields are the bytes at their places. `IdCompared` says what `strcmp`
makes of two ids: it finds them equal exactly if they agree up to the first zero byte (`SameId`), and
never looks beyond it; so a sound frame is a command if and only if its id is the `SameId` and its code a command,
and one with a noticed defect never is. `IvInv` needs more than
fresh draws: a failed encryption leaves a new IV with an old ciphertext or both as they were, and the
notification is sent all the same; the invariant says that whatever went out with the IV in use
is the ciphertext at hand.

`Rtc`. What the chip shows is related to the civil calendar by a count of days of its own: `DayShown`, the
day number of the date in the registers, and `DaysAhead`, which is 1 from the March after a leap day of
the chip (2025, 2029, ...) to the March of the next civil leap year, else 0. `NextDay` proves that the sum
grows by exactly one with every date the chip can go through, for every month and year,
`CivilRoundTrip` that a date set by the driver has the number of its day. `Carry` relates the digits of
a time and of the next second; from these follow `CountShows` and `DayShows`: the chip goes on showing the
time, off by the same sum. The difference of `DaysAhead` between setting and reading is then all that a
read can be wrong by (`TimeIsKept`): never more than one day, and nothing from March of one civil
leap year on, or within a year from March. `RtcInv` adds that the semaphore is free exactly where
the driver is about to take it, and that neither the copy nor the chip returns to 12-hour mode.

Only model-checked: `MotorStops`, `Answered`, `AdvertTruth` (liveness under fairness is out of the
prover's reach).

## 5. Where the code and its documents disagree

- `AckNeverDropped`: a frame written while the motor runs takes the only place in the queue;
  the ACK of the move is dropped.
- `SoundDateAccepted`: `Data` is measured with `strlen`, but nothing puts a zero behind it. After one
  date that is too long, every later date of the right form is answered NACK until a restart.
  `DateRefusedAfterLong` says that nothing else does this to a sound date in range.
- `StatusSurvivesRestart`: start-up erases the page before it reads the stored status, so every
  restart reports locked.
- `SoundCommandAccepted` with `IdHasNul = FALSE`: `strcmp` on eight binary bytes does not stop at the
  end of the id, so a lock whose id has no zero byte refuses every command. With a zero byte the
  property holds (run `PatientClient`).
- `CommandIsFromFrame`: the result of a decryption is not looked at. When it fails, the buffer still
  holds the message before, and if the lengths agree its command is carried out for the new frame.
- `ReadsUnixTime`: the year register counts from 1969, so the chip has its leap days a year after the
  civil ones. With the time `main` sets in December 2024, every read from 2 March 2025 to 29 February 2028
  is a day behind. `TimeKept` says what does hold.

These have a run that shows the violation. Some more are part of what the passing runs and the
theorems state, as the code has it:

- a date out of range is answered NACK after it has replaced the date that GETTIMEDATE answers
  (`bib.c:159`; the log says "Values out of range discarding it"): the action `SpoilDate` of `LockService`;
- `strcmp` stops at the first zero byte of the id, so a message for a lock whose id differs only behind it
  is carried out: `SameId` in `FrameUnderstood`;
- the answer with the key announces 17 bytes and carries 16 (`main.c:602`; the documents say "Message
  Length: 0016"): `KeyMsg` in `AnswerUnderstood`;
- the example frame of `Documentation/SmartLock application side.drawio` decrypts to a message that begins
  with 01, where the parser demands STX (`bib.c:63`) and answers NACK: the defect `stx` in `FrameUnderstood`,
  which says what the code does and not what the document asks for.

And three that no document speaks of:

- only the IV of the last frame is remembered (`main.c:839-841`): a frame that is written again after another
  one is carried out again, whoever writes it, and a SETENCRYPTIONKEY that comes back is answered NACK when it
  has changed the key it was encrypted with. `Smart Lock Complete System.docx` only says of the IV that
  it is the counter of the encryption. `WriteAgain` models it, `AtMostOnce` and `ReplyIsTrue` say what remains true;
- a SETTIMEDATE with less data than a date is completed with what earlier messages have left in `Data`
  (`bib.c:124, 134`) and acknowledged: `Assembled` in `LockService`. So is one without data;
- the parsers do not look at the mark that closes data and ciphertext nor at the ETX, and accept a length that
  is too large by a few bytes (`bib.c:42, 116`): what this makes of a frame is in `FrameUnderstood`.

## 6. Not modelled, and plan

Not modelled:

- the AHT20 driver, the accelerometer, the LEDs: polled or output only, their values are only logged
  and nothing depends on them; the button handler is never registered;
- `cryptoapp_generateKey` and the two cases of `cryptoapp_run` that call it: nothing uses them;
- frames shorter than their headers, and the date parser at the level of digits (its outcomes are in
  `SmartLock`);
- build files and prose.

Next steps, in this order:

1. The id a device advertises: `strncpy` (`BLEapp.c:251`) stops at the first zero byte too, so two
   locks may advertise the same id. `BLEapp` models what this does to the status and battery bytes
   behind the id, not the id itself.
2. The date parser at the level of digits: which seventeen bytes it accepts, and the fields it
   leaves behind when it refuses.
