------------------------------ MODULE WorkBoy ------------------------------
(***************************************************************************)
(* The WorkBoy (Core/workboy.c), a keyboard with a clock at the serial     *)
(* port: a program sends 'R' and reads the clock digit by digit, sends 'W' *)
(* and a buffer that sets it, or sends 'O' and is answered the key that    *)
(* was typed.  The keyboard has one slot for a key and an idea of Shift of *)
(* its own, which it moves to what the key in the slot needs.              *)
(*                                                                         *)
(* Bytes are exchanged whole; a transfer that the program cuts leaves bits *)
(* behind, and every byte after it is a mixture of two.  The frontend      *)
(* types on another thread (Cocoa/GBView.m), so that GB_workboy_set_key    *)
(* is two steps: it looks at Shift, then stores the key.                   *)
(***************************************************************************)
EXTENDS Naturals

CONSTANTS
    Days, Years,      \* of the dates in use; years are counted from 1900
    YearBits,         \* what a program puts in the top bits of the day, below 4
    BufferSize        \* 0x15 in the source: the year is the last byte, 7 .. 0xB the rest

\* A day of a month has two bits of a byte left for the year.
ASSUME DatesAssumption ==
    /\ Days \subseteq 0 .. 31 /\ Years \subseteq 0 .. 255 /\ YearBits \subseteq 0 .. 3
    /\ BufferSize \in Nat /\ BufferSize > 11

EmptySlot == [code |-> "GB_WORKBOY_NONE"]   \* no key is in the slot
R == 82    \* 'R', as the source's characters
W == 87
O == 79

VARIABLES
    mode,                        \* 0, R, W or O
    key,                         \* the slot: EmptySlot, or [code, need, want, raced]
    shift_down, user_shift_down,
    typing,                      \* what GB_workboy_set_key is about to store, or EmptySlot
    buffer_index, bits_received,
    clock,                       \* the frontend's date: [day, year]
    date_buffer,                 \* the date in the buffer, in bytes: [day, year]
    held,                        \* external: the user's Shift key
    program_shift,               \* history: Shift as the program has been told
    lost,                        \* history: a change of Shift never got to the slot's end
    delivered,                   \* history: the last key sent: Shift as it was meant, and told
    asked, read,                 \* history: the date at 'R', and the digits of the answer
    sent                         \* history: the date a program sends after 'W'

keyboard == <<key, shift_down, user_shift_down, typing, held, program_shift, lost, delivered>>
calendar == <<buffer_index, clock, date_buffer, asked, read, sent>>
workboyVars == <<mode, keyboard, bits_received, calendar>>

int_to_bcd(i) == (i % 10) + 16 * (i \div 10)
bcd_to_int(i) == (i % 16) + 10 * (i \div 16)

Dates == [day : Days, year : Years]
NoDate == [day |-> 0, year |-> 0]
NothingSent == [day |-> 0, year |-> 0, bits |-> 4]
NoKey == [want |-> FALSE, shift |-> FALSE]
-----------------------------------------------------------------------------
(* The keyboard *)

IsShift(k) == k # EmptySlot /\ k.code \in {"shift_down", "shift_up"}

NeededUp(code, need) ==    \* mutant: a Shift that was released is not looked at
    IF need = "any" /\ user_shift_down /\ ~shift_down THEN "shift" ELSE need

\* A key whose Shift differs from the user's is marked with what it needs.
Needed(code, need) ==
    IF need = "any" /\ user_shift_down # shift_down
    THEN IF user_shift_down THEN "shift" ELSE "unshift"
    ELSE need

(***************************************************************************)
(* `want` is how the user means the key: as it is engraved, or as the held *)
(* Shift key says.                                                         *)
(***************************************************************************)
BeginKey(code, need) ==
    /\ typing = EmptySlot
    /\ held' = CASE code = "shift_down" -> TRUE [] code = "shift_up" -> FALSE [] OTHER -> held
    /\ typing' = [code |-> code, need |-> Needed(code, need),
                  want |-> IF need = "any" THEN held' ELSE need = "shift",
                  seen |-> <<user_shift_down, shift_down>>]
    /\ UNCHANGED <<key, shift_down, user_shift_down, program_shift, lost, delivered,
                   mode, bits_received, calendar>>

TypeKey ==
    \/ \E code \in {"shift_down", "shift_up"} :
          held = (code = "shift_up") /\ BeginKey(code, "any")
    \/ \E need \in {"any", "shift", "unshift"} : BeginKey("letter", need)

StoreKey ==
    /\ typing # EmptySlot
    /\ typing' = EmptySlot
    /\ key' = [code |-> typing.code, need |-> typing.need, want |-> typing.want,
               raced |-> typing.seen # <<user_shift_down, shift_down>>]
    /\ lost' = (lost \/ IsShift(key))
    /\ UNCHANGED <<shift_down, user_shift_down, held, program_shift, delivered,
                   mode, bits_received, calendar>>

\* The key is released: GB_workboy_set_key(GB_WORKBOY_NONE).
ReleaseKey ==
    /\ typing = EmptySlot
    /\ key' = EmptySlot
    /\ lost' = (lost \/ IsShift(key))
    /\ UNCHANGED <<shift_down, user_shift_down, typing, held, program_shift, delivered,
                   mode, bits_received, calendar>>
-----------------------------------------------------------------------------
(* 'O': the program asks for the key *)

Answer(down, user, rest) ==
    /\ shift_down' = down /\ program_shift' = down
    /\ user_shift_down' = user
    /\ key' = rest
    /\ UNCHANGED <<typing, held>>

Deliver ==
    /\ delivered' = IF lost \/ key.raced THEN NoKey
                    ELSE [want |-> key.want, shift |-> program_shift]
    /\ lost' = (lost \/ IsShift(key))
    /\ Answer(shift_down, user_shift_down, EmptySlot)

\* Shift is moved first; the key stays, with nothing more needed.
MoveShift(down) ==
    /\ Answer(down, user_shift_down, [key EXCEPT !.need = "any"])
    /\ UNCHANGED <<delivered, lost>>

UserShift(down) ==
    /\ Answer(down, down, EmptySlot)
    /\ lost' = (down # held)
    /\ delivered' = delivered

Poll ==
    \/ key = EmptySlot /\ UNCHANGED keyboard
    \/ key # EmptySlot /\ key.need = "shift" /\ IF shift_down THEN Deliver ELSE MoveShift(TRUE)
    \/ key # EmptySlot /\ key.need = "unshift" /\ IF shift_down THEN MoveShift(FALSE) ELSE Deliver
    \/ /\ key # EmptySlot /\ key.need = "any"
       /\ IF IsShift(key) THEN UserShift(key.code = "shift_down") ELSE Deliver

DropKey ==
    /\ key' = EmptySlot
    /\ lost' = (lost \/ IsShift(key))
    /\ UNCHANGED <<shift_down, user_shift_down, typing, held, program_shift, delivered>>
-----------------------------------------------------------------------------
(* The clock *)

Filled == [day |-> int_to_bcd(clock.day), year |-> clock.year]

\* Answers are digits of the buffer: byte 5 is the day, byte 0xF the year.
Nibble(index) ==
    LET byte == CASE index \div 2 = 5 -> date_buffer.day
                  [] index \div 2 = 15 -> date_buffer.year
                  [] OTHER -> 0
    IN IF index % 2 = 1 THEN byte % 16 ELSE byte \div 16

Read(index) ==
    CASE index \in {10, 11} -> [read EXCEPT !.day = @ * 10 + Nibble(index)]
      [] index \in {30, 31} -> [read EXCEPT !.year = @ * 16 + Nibble(index)]
      [] OTHER -> read

NextDigit ==
    IF buffer_index \div 2 >= BufferSize
    THEN UNCHANGED calendar
    ELSE /\ buffer_index' = buffer_index + 1
         /\ read' = Read(buffer_index)
         /\ UNCHANGED <<clock, date_buffer, asked, sent>>

\* The date of a full buffer.  The day's top bits go to the year; the month's are cut.
Set(b) == [day |-> bcd_to_int(b.day), year |-> (b.year + (b.day \div 64)) % 256]

StoredEarly(index, byte) ==    \* mutant: a byte of the buffer too early
    CASE index = 9 -> [date_buffer EXCEPT !.day = byte]
      [] index = BufferSize - 2 -> [date_buffer EXCEPT !.year = byte]
      [] OTHER -> date_buffer

StoredAt(index, byte) ==
    CASE index = 10 -> [date_buffer EXCEPT !.day = byte]
      [] index = BufferSize - 1 -> [date_buffer EXCEPT !.year = byte]
      [] OTHER -> date_buffer

NextByte(byte) ==
    IF buffer_index < 2
    THEN /\ buffer_index' = buffer_index + 1
         /\ UNCHANGED <<mode, clock, date_buffer, asked, read, sent>>
    ELSE /\ buffer_index' = buffer_index + 1
         /\ date_buffer' = StoredAt(buffer_index - 2, byte)
         /\ mode' = IF buffer_index - 1 = BufferSize THEN O ELSE mode
         /\ clock' = IF buffer_index - 1 = BufferSize THEN Set(date_buffer') ELSE clock
         /\ UNCHANGED <<asked, read, sent>>
-----------------------------------------------------------------------------
(* A byte from the program *)

Received(byte) ==
    \/ /\ mode # W /\ byte = R
       /\ mode' = R /\ DropKey
       /\ buffer_index' = 1 /\ date_buffer' = Filled
       /\ asked' = clock /\ read' = NoDate /\ sent' = NothingSent
       /\ UNCHANGED clock
    \/ /\ mode # W /\ byte = W
       /\ mode' = W /\ DropKey
       /\ buffer_index' = 0
       /\ sent' \in [day : Days, year : Years, bits : YearBits]
       /\ UNCHANGED <<clock, date_buffer, asked, read>>
    \/ /\ (mode # W /\ byte = O) \/ (mode = O /\ byte \notin {R, W})
       /\ mode' = O /\ Poll /\ UNCHANGED calendar
    \/ mode = R /\ byte \notin {R, W, O} /\ NextDigit /\ UNCHANGED <<mode, keyboard>>
    \/ mode = W /\ NextByte(byte) /\ UNCHANGED keyboard
    \/ mode = 0 /\ byte \notin {R, W, O} /\ UNCHANGED <<mode, keyboard, calendar>>

\* What a program sends after 'W': two bytes and the buffer.
DateByte(index) ==
    CASE index = 12 -> int_to_bcd(sent.day) + (64 * sent.bits)
      [] index = BufferSize + 1 -> sent.year
      [] OTHER -> 0

Exchange ==
    /\ bits_received = 0
    /\ \E byte \in IF mode = W THEN {DateByte(buffer_index)} ELSE {R, W, O, 0} :
          Received(byte)
    /\ UNCHANGED bits_received

\* A transfer is cut: the bits that were received stay.
Cut ==
    /\ bits_received = 0
    /\ bits_received' = 1
    /\ UNCHANGED <<mode, keyboard, calendar>>

\* From then on a byte is complete in the middle of the program's.
Garbled ==
    /\ bits_received > 0
    /\ \E byte \in {R, W, O, 0} : Received(byte)
    /\ UNCHANGED bits_received
-----------------------------------------------------------------------------

\* GB_connect_workboy clears everything: the slot holds the key of code 0.
WorkBoyInit ==
    /\ mode = 0
    /\ key = [code |-> "zero", need |-> "any", want |-> FALSE, raced |-> FALSE]
    /\ shift_down = FALSE /\ user_shift_down = FALSE /\ program_shift = FALSE
    /\ typing = EmptySlot /\ held = FALSE /\ lost = FALSE /\ delivered = NoKey
    /\ buffer_index = 0 /\ bits_received = 0
    /\ clock \in Dates /\ asked = clock
    /\ date_buffer = NoDate /\ read = NoDate
    /\ sent = NothingSent

WorkBoyNext ==
    \/ TypeKey \/ StoreKey \/ ReleaseKey
    \/ Exchange \/ Cut \/ Garbled

WorkBoySpec == WorkBoyInit /\ [][WorkBoyNext]_workboyVars
-----------------------------------------------------------------------------
(***************************************************************************)
(* A key arrives with the Shift its user meant, whether the keyboard had   *)
(* moved Shift for the key before or not, and whatever the program asked   *)
(* in between.  Left out is a key typed after a change of Shift was lost   *)
(* in the slot, and one whose Shift was looked at before another's moved.  *)
(***************************************************************************)
KeysArriveAsTyped == delivered.want = delivered.shift

(***************************************************************************)
(* What the program is told of the clock is the date at its 'R', and the   *)
(* clock it sets shows the date it sent, as long as no transfer was cut.   *)
(* A date whose day has the year's two bits is left out: they stay a part  *)
(* of the day, too.                                                        *)
(***************************************************************************)
DateAgrees ==
    bits_received = 0 =>
        /\ (mode = R /\ buffer_index > 31) => read = asked
        /\ (mode = O /\ sent.bits = 0) => clock = [day |-> sent.day, year |-> sent.year]

(* Keys arrive as they were typed, and the program and the clock agree     *)
(* about the date.                                                         *)
WorkBoyAnswers == KeysArriveAsTyped /\ DateAgrees
=============================================================================
