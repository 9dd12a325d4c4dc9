------------------------------ MODULE Battery -------------------------------
(***************************************************************************)
(* What a cartridge keeps with its battery, besides the RAM that a program *)
(* writes at once: the words of an MBC7's EEPROM, and the clock of an      *)
(* MBC3, a TPP1 or a HuC3.  They share nothing.                            *)
(*                                                                         *)
(* The serial EEPROM (write_mbc7_ram in Core/memory.c): the program drives *)
(* three lines, chip select, clock and data in, by writing them together,  *)
(* and the chip takes a bit with each rising clock.  The sensor's latch is *)
(* written through the same code.  Bits are numbers, words and registers   *)
(* sequences of bits, the first sent first.  A command is a start bit,     *)
(* four bits that begin with the operation, and the rest of the address;   *)
(* the fourth bit is also the address's first.                             *)
(*                                                                         *)
(* The real-time clocks: GB_rtc_set_time and rtc_run (Core/timing.c), the  *)
(* battery file that carries the clock to the next session (Core/gb.c),    *)
(* and what the program does to it (Core/memory.c).  The three count in    *)
(* the same way: seconds, minutes, hours, a low and a high part of the     *)
(* day, and an overflow.  MBC3's high part is one bit of rtc_real.high and *)
(* TPP1's the weeks; HuC3 counts minutes and days only, and its overflow   *)
(* is the 16 bits of days.  What the program latches is a copy that the    *)
(* clock does not read, and is left out.                                   *)
(***************************************************************************)
EXTENDS Integers, Sequences

CONSTANTS
    AddressBits,            \* 7 in the source
    WordBits,               \* 16
    Settle,                 \* zeros that show a write under way: 2
    SettleAll,              \* 8
    ClockTypes,
    Minute, Hour, Day,      \* 60 seconds, 60 minutes, 24 hours
    LowDays, HighDays,      \* 256 and 2 for MBC3, 7 and 256 for TPP1
    Leap,                   \* bound on the host's seconds between two looks at its clock
    LastSecond              \* bound on the host's clock

(* A command has room for two bits of an operation in its address; a day   *)
(* has two hours, and the clock two days.                                  *)
ASSUME BatteryAssumption ==
    /\ AddressBits \in Nat \ {0} /\ WordBits \in Nat \ {0} /\ Settle \in Nat /\ SettleAll \in Nat
    /\ Minute \in Nat \ {0} /\ Hour \in Nat \ {0} /\ Day \in Nat /\ Day >= 2
    /\ LowDays \in Nat \ {0} /\ HighDays \in Nat \ {0} /\ LowDays * HighDays >= 2
    /\ Leap \in Nat /\ LastSecond \in Nat

VARIABLES
    words,           \* mbc_ram
    cs, clk, di, do, \* the lines
    command,         \* eeprom_command, from its start bit on
    argument_bits_left,
    read_bits,
    write_enabled,
    latch_ready,
    stored,          \* history: the words that may have been stored, by address
    argument,        \* history: the bits of the argument that have come
    answer           \* history: the bits that the last READ has still to send

chip == <<words, command, argument_bits_left, read_bits, write_enabled>>
history == <<stored, argument, answer>>
eepromVars == <<chip, cs, clk, di, do, latch_ready, history>>

Levels == {0, 1}
Words == [1 .. WordBits -> Levels]
Addresses == [1 .. AddressBits -> Levels]
Word(bit) == [i \in 1 .. WordBits |-> bit]
Settling(zeros) == [i \in 1 .. WordBits |-> IF i <= zeros THEN 0 ELSE 1]

CommandLength == 4 + AddressBits
LastAddress == [i \in 1 .. AddressBits |-> 1]

EepromInit ==
    /\ words = [a \in Addresses |-> Word(1)]
    /\ cs = 0 /\ clk = 0 /\ di = 0 /\ do = 1
    /\ command = <<>> /\ argument_bits_left = 0
    /\ read_bits = Word(1) /\ write_enabled = FALSE /\ latch_ready = TRUE
    /\ stored = [a \in Addresses |-> {Word(1)}] /\ argument = <<>> /\ answer = <<>>
-----------------------------------------------------------------------------
(* The operation is in the two bits after the start, or, if these are      *)
(* zero, in the two after them.                                            *)
Operation(c) ==
    CASE c[2] = 1 /\ c[3] = 0 -> "READ"
      [] c[2] = 0 /\ c[3] = 1 -> "WRITE"
      [] c[2] = 1 /\ c[3] = 1 -> "ERASE"
      [] OTHER -> CASE c[4] = 0 /\ c[5] = 0 -> "EWDS"
                    [] c[4] = 0 /\ c[5] = 1 -> "WRAL"
                    [] c[4] = 1 /\ c[5] = 0 -> "ERAL"
                    [] OTHER -> "EWEN"

Address(c) == SubSeq(c, 5, CommandLength)

(* The registers shift at every clock. *)
Shifted == Append(Tail(read_bits), 1)

Answered == IF answer = <<>> THEN <<>> ELSE Tail(answer)

Read(a) ==
    /\ read_bits' = words[a] /\ command' = <<>>
    /\ answer' = IF \E word \in stored[a] : stored[a] = {word}
                 THEN CHOOSE word \in stored[a] : stored[a] = {word} ELSE <<>>
    /\ UNCHANGED <<words, argument_bits_left, write_enabled, stored, argument>>

Enable(on) ==
    /\ write_enabled' = on /\ command' = <<>> /\ read_bits' = Shifted /\ answer' = Answered
    /\ UNCHANGED <<words, argument_bits_left, stored, argument>>

BeginWriteOver(c, addresses) ==    \* mutant: the word is not cleared first
    /\ command' = c
    /\ argument_bits_left' = WordBits
    /\ read_bits' = Shifted /\ argument' = <<>> /\ answer' = <<>>
    /\ UNCHANGED <<words, write_enabled, stored>>

(* WRITE and WRAL clear what they write and take its bits; ERASE and ERAL  *)
(* are done.                                                               *)
BeginWrite(c, addresses) ==
    /\ command' = c
    /\ words' = IF write_enabled
                THEN [a \in Addresses |-> IF a \in addresses THEN Word(0) ELSE words[a]]
                ELSE words
    /\ argument_bits_left' = WordBits
    /\ read_bits' = Shifted /\ argument' = <<>> /\ answer' = <<>>
    /\ UNCHANGED <<write_enabled, stored>>

Erase(addresses, settling) ==
    /\ words' = IF write_enabled
                THEN [a \in Addresses |-> IF a \in addresses THEN Word(1) ELSE words[a]]
                ELSE words
    /\ read_bits' = IF write_enabled THEN Settling(settling) ELSE Shifted
    /\ stored' = IF write_enabled
                 THEN [a \in Addresses |-> IF a \in addresses THEN {Word(1)} ELSE stored[a]]
                 ELSE stored
    /\ answer' = IF write_enabled THEN <<>> ELSE Answered
    /\ command' = <<>>
    /\ UNCHANGED <<argument_bits_left, write_enabled, argument>>

Execute(c) ==
    \/ Operation(c) = "READ" /\ Read(Address(c))
    \/ Operation(c) = "EWEN" /\ Enable(TRUE)
    \/ Operation(c) = "EWDS" /\ Enable(FALSE)
    \/ Operation(c) = "WRITE" /\ BeginWrite(c, {Address(c)})
    \/ Operation(c) = "WRAL" /\ BeginWrite(c, Addresses)
    \/ Operation(c) = "ERASE" /\ Erase({Address(c)}, Settle)
    \/ Operation(c) = "ERAL" /\ Erase(Addresses, SettleAll)

(* Zeros before the start bit are not kept: the register is zero before. *)
CommandBit(bit) ==
    LET c == IF command = <<>> /\ bit = 0 THEN <<>> ELSE Append(command, bit)
    IN /\ argument_bits_left = 0
       /\ do' = Head(read_bits)
       /\ IF Len(c) = CommandLength THEN Execute(c)
          ELSE /\ command' = c /\ read_bits' = Shifted /\ answer' = Answered
               /\ UNCHANGED <<words, argument_bits_left, write_enabled, stored, argument>>

(* WRAL's loop ends before the last word. *)
Targets(c) == IF Operation(c) = "WRITE" THEN {Address(c)} ELSE Addresses \ {LastAddress}

WithBit(word, bit, position) == [word EXCEPT ![position] = IF bit = 1 THEN 1 ELSE @]

(* What a WRITE or WRAL that is complete should have stored.  One that was *)
(* not enabled leaves a word of any value, and WRAL the last one at zero.  *)
Stored(c, word) ==
    LET target == IF Operation(c) = "WRITE" THEN {Address(c)} ELSE Addresses IN
    [a \in Addresses |->
        IF a \notin target THEN stored[a]
        ELSE IF ~write_enabled THEN Words
        ELSE IF Operation(c) = "WRAL" /\ a = LastAddress THEN {word, Word(0)} ELSE {word}]

(* The bits of an argument are stored whether or not writing is enabled.   *)
ArgumentBit(bit) ==
    LET position == WordBits + 1 - argument_bits_left IN
    /\ argument_bits_left > 0 /\ argument_bits_left' = argument_bits_left - 1
    /\ do' = 1
    /\ words' = [a \in Addresses |->
                    IF a \in Targets(command) THEN WithBit(words[a], bit, position) ELSE words[a]]
    /\ IF argument_bits_left = 1
       THEN /\ command' = <<>> /\ read_bits' = Settling(Settle) /\ argument' = <<>>
            /\ stored' = Stored(command, Append(argument, bit))
       ELSE /\ read_bits' = Shifted /\ argument' = Append(argument, bit)
            /\ UNCHANGED <<command, stored>>
    /\ UNCHANGED <<write_enabled, answer>>
-----------------------------------------------------------------------------
(* A write to the register of the lines. *)
Lines(select, clock, data) ==
    /\ cs' = select /\ clk' = clock /\ di' = data
    /\ IF select = 1 /\ clk = 0 /\ clock = 1
       THEN CommandBit(data) \/ ArgumentBit(data)
       ELSE UNCHANGED <<chip, do, history>>

DriveLines ==
    /\ \E select, clock, data \in Levels : Lines(select, clock, data)
    /\ UNCHANGED latch_ready

(* The cases of the two registers of the sensor fall through to the lines: *)
(* 0x55, which resets the latch, and 0xAA, which sets it, drive them too.  *)
ResetLatch == latch_ready' = TRUE /\ Lines(0, 1, 0)
SetLatch == latch_ready' = FALSE /\ Lines(1, 0, 1)

EepromNext == DriveLines \/ ResetLatch \/ SetLatch
-----------------------------------------------------------------------------
VARIABLES
    kind,        \* the cartridge's mapper
    mode,        \* rtc_mode
    session,     \* the program is running; otherwise its battery file waits
    host,        \* time(NULL)
    last,        \* last_rtc_second, in the machine or in the file
    real,        \* rtc_real; HuC3's clock in hours (its minutes of the day) and days
    running,     \* the halt bit of MBC3, or TPP1's mr4 bit 2
    base         \* history: what the clock showed when it was last set, and last then

rtcVars == <<kind, mode, session, host, last, real, running, base>>

DaySeconds == Minute * Hour * Day

Time(s, m, h, low, high, carry) ==
    [seconds |-> s, minutes |-> m, hours |-> h, low |-> low, high |-> high, carry |-> carry]

Zero == Time(0, 0, 0, 0, 0, FALSE)

(* The clock as a number of seconds, from zero to the overflow.            *)
Total(t) ==
    t.seconds + Minute * (t.minutes + Hour * (t.hours + Day * (t.low + LowDays * t.high)))

Since(t, l) == [total |-> Total(t), carry |-> t.carry, last |-> l]

RtcInit ==
    /\ kind \in ClockTypes /\ mode \in {"SYNC_TO_HOST", "ACCURATE"}
    /\ session = TRUE /\ host = 0 /\ last = 0
    /\ real = Zero /\ running = (kind # "TPP1") /\ base = Since(Zero, 0)
-----------------------------------------------------------------------------
(* A day more: of the leap by whole days, and of the carry of the hours.   *)
NextDay(t) ==
    IF t.low + 1 # LowDays THEN [t EXCEPT !.low = @ + 1]
    ELSE IF t.high + 1 # HighDays THEN [t EXCEPT !.low = 0, !.high = @ + 1]
    ELSE [t EXCEPT !.low = 0, !.high = 0, !.carry = TRUE]

NextDayDry(t) ==    \* mutant: the leap forgets the high bit
    [t EXCEPT !.low = (@ + 1) % LowDays]

LeapDay(t) == NextDay(t)

NextHour(t) ==
    IF t.hours + 1 # Day THEN [t EXCEPT !.hours = @ + 1]
    ELSE NextDay([t EXCEPT !.hours = 0])

NextMinute(t) ==
    IF t.minutes + 1 # Hour THEN [t EXCEPT !.minutes = @ + 1]
    ELSE NextHour([t EXCEPT !.minutes = 0])

NextSecond(t) ==
    IF t.seconds + 1 # Minute THEN [t EXCEPT !.seconds = @ + 1]
    ELSE NextMinute([t EXCEPT !.seconds = 0])

NextUnit(unit, t) ==
    CASE unit = "day" -> LeapDay(t)
      [] unit = "minute" -> NextMinute(t)
      [] unit = "second" -> NextSecond(t)

(* A loop of n rounds. *)
After(unit, n, t) ==
    LET clock[i \in 0 .. n] == IF i = 0 THEN t ELSE NextUnit(unit, clock[i - 1]) IN clock[n]

(* How often each loop of GB_rtc_set_time runs: by days as long as more    *)
(* than one is left, then by seconds; HuC3's by minutes.                   *)
Loops(from, to) == IF from < to THEN to - from ELSE 0
LeapDays(now) == IF last < now THEN (now - last - 1) \div DaySeconds ELSE 0
Seconds(now) == Loops(last + LeapDays(now) * DaySeconds, now)
Minutes(now) == Loops(last \div Minute, now \div Minute)

SetTime(now) ==
    IF kind = "HUC3"
    THEN /\ real' = After("minute", Minutes(now), real)
         /\ last' = last + Minutes(now) * Minute
    ELSE IF ~running THEN UNCHANGED <<real, last>>
    ELSE /\ real' = After("second", Seconds(now), After("day", LeapDays(now), real))
         /\ last' = IF last < now THEN now ELSE last

(* rtc_run: the host's clock is looked at 32 times a second, or an         *)
(* emulated second is over.                                                *)
SyncToHost ==
    /\ session /\ mode = "SYNC_TO_HOST" /\ SetTime(host)
    /\ UNCHANGED <<kind, mode, session, host, running, base>>

AccurateSecond ==
    /\ session /\ mode = "ACCURATE" /\ last < LastSecond
    /\ kind = "MBC3" => running
    /\ SetTime(last + 1)
    /\ UNCHANGED <<kind, mode, session, host, running, base>>

(* Time passes, or the user sets the clock of the host back.               *)
HostTime ==
    /\ host' \in {t \in 0 .. LastSecond : t <= host + Leap}
    /\ UNCHANGED <<kind, mode, session, last, real, running, base>>

SetRtcMode ==
    /\ mode' \in {"SYNC_TO_HOST", "ACCURATE"} \ {mode}
    /\ last' = host /\ base' = Since(real, host)
    /\ UNCHANGED <<kind, session, host, real, running>>
-----------------------------------------------------------------------------
(* The program sets the clock, and stops it.  Bound: it sets the last      *)
(* second of the last day, or the first one.                               *)
Full(h) ==
    Time(IF kind = "HUC3" THEN 0 ELSE Minute - 1, Hour - 1, h, LowDays - 1, HighDays - 1, FALSE)

SetClock ==
    /\ session
    /\ real' \in {Zero, Full(Day - 1)} /\ base' = Since(real', last)
    /\ UNCHANGED <<kind, mode, session, host, last, running>>

StartStop ==
    /\ session /\ kind # "HUC3" /\ running' = ~running
    /\ UNCHANGED <<kind, mode, session, host, last, real, base>>

(* GB_reset_internal keeps the clock of all but HuC3, which is among the   *)
(* mapper's registers.                                                     *)
ResetClock ==
    /\ session
    /\ real' = IF kind = "HUC3" THEN Zero ELSE real
    /\ last' = host /\ base' = Since(real', host)
    /\ UNCHANGED <<kind, mode, session, host, running>>
-----------------------------------------------------------------------------
(* GB_save_battery at the end of a session.  The file of MBC3 and TPP1     *)
(* carries the host's time, though the clock may not be there.             *)
SaveBattery ==
    /\ session /\ session' = FALSE
    /\ last' = IF kind = "HUC3" THEN last ELSE host
    /\ base' = Since(real, last')
    /\ UNCHANGED <<kind, mode, host, real, running>>

(* GB_load_battery in the next session's new machine.  A file from the     *)
(* future makes the clock go on from now, with a hint to the program: an   *)
(* overflow, or for HuC3 the last of days and a minute that no day has     *)
(* (0xFFF of 16 bits, which are minutes before 0: the bound takes two      *)
(* hours).  TPP1 does not see the hint; and since the mr4 of its file is   *)
(* not loaded, it stands without its overflow until the program starts it. *)
Unusable == last > host
LoadedClock == IF kind = "TPP1" THEN [real EXCEPT !.carry = FALSE] ELSE real

LoadBattery ==
    /\ ~session /\ session' = TRUE
    /\ running' = (running /\ kind # "TPP1")
    /\ CASE Unusable ->
              /\ last' = host
              /\ real' = CASE kind = "MBC3" -> [real EXCEPT !.carry = TRUE]
                            [] kind = "HUC3" -> Full(-2)
                            [] OTHER -> LoadedClock
              /\ base' = Since(real', host)
         [] ~Unusable /\ kind = "MBC3" -> SetTime(host) /\ UNCHANGED base
         [] OTHER -> real' = LoadedClock /\ base' = Since(LoadedClock, last) /\ UNCHANGED last
    /\ UNCHANGED <<kind, mode, host>>

RtcNext ==
    \/ SyncToHost \/ AccurateSecond \/ HostTime \/ SetRtcMode
    \/ SetClock \/ StartStop \/ ResetClock
    \/ SaveBattery \/ LoadBattery
-----------------------------------------------------------------------------
batteryVars == <<eepromVars, rtcVars>>

BatteryInit == EepromInit /\ RtcInit

BatteryNext ==
    \/ EepromNext /\ UNCHANGED rtcVars
    \/ RtcNext /\ UNCHANGED eepromVars

BatterySpec == BatteryInit /\ [][BatteryNext]_batteryVars
-----------------------------------------------------------------------------
(* READ sends, bit by bit and through whatever the lines do between, the   *)
(* word that WRITE, WRAL, ERASE or ERAL last stored there: the bits that   *)
(* are still to come are those of that word.                               *)
AnswersWhatWasStored == SubSeq(read_bits, 1, Len(answer)) = answer

(* In whichever leaps the time has passed, and however many sessions it    *)
(* took, the clock is what it was set to and one second more for each      *)
(* second that it is said to have taken; it overflows when that many do    *)
(* not fit, and not before.                                                *)
Wrap == DaySeconds * LowDays * HighDays

CountsElapsed ==
    LET due == base.total + (last - base.last)
    IN /\ Total(real) = due % Wrap
       /\ real.carry = (base.carry \/ due >= Wrap)

(* A cartridge remembers: the EEPROM sends the word that was stored, and   *)
(* the clock has counted the time that passed.                             *)
CartridgeRemembers == AnswersWhatWasStored /\ CountsElapsed
=============================================================================
