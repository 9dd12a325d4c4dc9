------------------------------ MODULE Printer ------------------------------
(***************************************************************************)
(* The Game Boy Printer (Core/printer.c), at the other end of the serial   *)
(* callbacks: a parser that takes a packet a byte at a time, decodes its   *)
(* run lengths as they come, checks its sum and carries its command out.   *)
(* Eight bits, which serial_start collects and serial_end answers, are one *)
(* step here.                                                              *)
(***************************************************************************)
EXTENDS Naturals, SequencesExt

CONSTANTS
    DATA_SIZE,       \* bytes of a full DATA command, and of command_data: 0x280
    START_LENGTH,    \* bytes of a START command, 4
    ImageRows,       \* rows of tiles in the image, 25
    PrintTime,       \* time to print a row of tiles
    Payload,         \* the bytes a program sends as data
    MaxPayload       \* bound on how many

ASSUME PrinterAssumption ==
    /\ DATA_SIZE \in Nat \ {0} /\ DATA_SIZE % 2 = 0
    /\ START_LENGTH \in 1 .. DATA_SIZE
    /\ ImageRows \in Nat \ {0} /\ PrintTime \in Nat /\ MaxPayload \in 0 .. 255
ASSUME PayloadAssumption == Payload \subseteq 0 .. 255

VARIABLES
    command_state, command_id, compression, length_left,
    command_data,    \* up to command_length
    checksum,        \* the sum of the packet's bytes
    sum_low,         \* the sum's low byte has come and was right
    run_length, run_compressed,
    status,          \* without bit 0
    error,           \* its bit 0
    byte_to_send,
    image,           \* of each row of tiles: its bytes
    image_offset,    \* in rows of tiles
    overrun,         \* a row has been written beyond the image
    time_remaining,
    idle,            \* no bit has come for more than a second
    payload,         \* the bytes that came as this packet's data
    begun,           \* as a byte, the run left over when they began to come, if any
    accepted         \* the data of the DATA commands that make up the image

parser == <<command_state, command_id, compression, length_left, checksum, sum_low>>
decoder == <<command_data, run_length, run_compressed, payload, begun>>
printout == <<image, image_offset, overrun, accepted>>
printerVars == <<parser, decoder, status, error, byte_to_send, printout, time_remaining, idle>>

INIT == 1
START == 2
DATA == 4

PrinterInit ==
    /\ command_state = "MAGIC1" /\ command_id = 0 /\ compression = FALSE
    /\ length_left = 0 /\ checksum = 0 /\ sum_low = FALSE
    /\ command_data = <<>> /\ run_length = 0 /\ run_compressed = FALSE
    /\ status = 0 /\ error = FALSE /\ byte_to_send = 0
    /\ image = [row \in 0 .. ImageRows - 1 |-> <<>>] /\ image_offset = 0
    /\ overrun = FALSE /\ time_remaining = 0 /\ idle = FALSE
    /\ payload = <<>> /\ begun = <<>> /\ accepted = <<>>
-----------------------------------------------------------------------------
(* A second without a bit makes the next one begin a packet. *)
State == IF idle THEN "MAGIC1" ELSE command_state

Receives(state) == State = state /\ idle' = FALSE
Sends(byte) == byte_to_send' = byte

Added(byte) == (checksum + byte) % 65536

(* The byte that would begin what is left of a run: a packet that is cut   *)
(* off, or has too much data, leaves it to the next one with compression.  *)
RestOfRun ==
    IF run_length = 0 THEN <<>>
    ELSE << IF run_compressed THEN run_length + 126 ELSE run_length - 1 >>

Magic1(byte) ==
    /\ Receives("MAGIC1") /\ Sends(0)
    /\ IF byte = 136
       THEN /\ command_state' = "MAGIC2" /\ checksum' = 0 /\ sum_low' = FALSE
            /\ command_data' = <<>> /\ error' = FALSE
            /\ payload' = <<>> /\ begun' = RestOfRun
            /\ UNCHANGED <<command_id, compression, length_left, run_length, run_compressed>>
       ELSE /\ command_state' = "MAGIC1"
            /\ UNCHANGED <<command_id, compression, length_left, checksum, sum_low, decoder,
                           error>>
    /\ UNCHANGED <<status, printout, time_remaining>>

Magic2(byte) ==
    /\ Receives("MAGIC2") /\ Sends(0)
    /\ command_state' = CASE byte = 51 -> "ID" [] byte = 136 -> "MAGIC2" [] OTHER -> "MAGIC1"
    /\ UNCHANGED <<command_id, compression, length_left, checksum, sum_low, decoder, status,
                   error, printout, time_remaining>>

Header(state, next, byte) ==
    /\ Receives(state) /\ Sends(0)
    /\ command_state' = next /\ checksum' = Added(byte)
    /\ UNCHANGED <<sum_low, decoder, status, error, printout, time_remaining>>

Id(byte) ==
    /\ Header("ID", "COMPRESSION", byte)
    /\ command_id' = byte % 16
    /\ UNCHANGED <<compression, length_left>>

Compression(byte) ==
    /\ Header("COMPRESSION", "LENGTH_LOW", byte)
    /\ compression' = (byte % 2 = 1)
    /\ UNCHANGED <<command_id, length_left>>

LengthLow(byte) ==
    /\ Header("LENGTH_LOW", "LENGTH_HIGH", byte)
    /\ length_left' = byte
    /\ UNCHANGED <<command_id, compression>>

(* A packet without data has its sum next. *)
LengthHigh(byte) ==
    LET left == length_left + (byte % 4) * 256 IN
    /\ Header("LENGTH_HIGH", IF left = 0 THEN "CHECKSUM_LOW" ELSE "DATA", byte)
    /\ length_left' = left
    /\ UNCHANGED <<command_id, compression>>
-----------------------------------------------------------------------------
RunLengthSame(byte) == (byte % 128) + 1    \* mutant: a repeated byte one time too few

RunLength(byte) == IF byte >= 128 THEN (byte % 128) + 2 ELSE byte + 1

Repeated(byte, n) == [i \in 1 .. n |-> byte]

Full == Len(command_data) = DATA_SIZE

(* A byte of data, by what it is: any byte where there is no room left, a  *)
(* byte of a packet without compression, the beginning of a run, the byte  *)
(* to be repeated, or one of a run of different bytes.                     *)
Decoded(byte) ==
    IF Full THEN UNCHANGED <<command_data, run_length, run_compressed>>
    ELSE IF ~compression
    THEN command_data' = Append(command_data, byte) /\ UNCHANGED <<run_length, run_compressed>>
    ELSE IF run_length = 0
    THEN /\ run_length' = RunLength(byte) /\ run_compressed' = (byte >= 128)
         /\ UNCHANGED command_data
    ELSE IF run_compressed
    THEN LET room == DATA_SIZE - Len(command_data)
         IN /\ command_data' =
                 command_data \o Repeated(byte, IF run_length < room THEN run_length ELSE room)
            /\ run_length' = 0
            /\ UNCHANGED run_compressed
    ELSE /\ command_data' = Append(command_data, byte) /\ run_length' = run_length - 1
         /\ UNCHANGED run_compressed

Data(byte) ==
    /\ Receives("DATA") /\ Sends(0)
    /\ Decoded(byte)
    /\ payload' = Append(payload, byte) /\ UNCHANGED begun
    /\ length_left' = length_left - 1 /\ checksum' = Added(byte)
    /\ command_state' = IF length_left' = 0 THEN "CHECKSUM_LOW" ELSE "DATA"
    /\ UNCHANGED <<command_id, compression, sum_low, status, error, printout, time_remaining>>

ChecksumLow(byte) ==
    /\ Receives("CHECKSUM_LOW") /\ Sends(0)
    /\ sum_low' = (byte = checksum % 256) /\ command_state' = "CHECKSUM_HIGH"
    /\ UNCHANGED <<command_id, compression, length_left, checksum, decoder, status, error,
                   printout, time_remaining>>

RightSum(byte) == sum_low /\ byte = checksum \div 256

ChecksumHigh(byte) ==
    /\ Receives("CHECKSUM_HIGH")
    /\ IF RightSum(byte)
       THEN Sends(129) /\ command_state' = "ACTIVE" /\ UNCHANGED error
       ELSE Sends(0) /\ command_state' = "MAGIC1" /\ error' = TRUE
    /\ UNCHANGED <<command_id, compression, length_left, checksum, sum_low, decoder, status,
                   printout, time_remaining>>

(* The printer is asked for its status, which may turn to "done". *)
Active ==
    /\ Receives("ACTIVE") /\ command_state' = "STATUS"
    /\ IF command_id = INIT THEN Sends(0) /\ UNCHANGED status
       ELSE /\ status' = IF status = 6 /\ ~error /\ time_remaining = 0 THEN 4 ELSE status
            /\ Sends(status' + IF error THEN 1 ELSE 0)
    /\ UNCHANGED <<command_id, compression, length_left, checksum, sum_low, decoder, error,
                   printout, time_remaining>>
-----------------------------------------------------------------------------
(* handle_command.  The rows from the offset on, which nothing reads, are  *)
(* kept empty.                                                             *)
NoImage ==
    /\ image' = [row \in 0 .. ImageRows - 1 |-> <<>>] /\ image_offset' = 0
    /\ accepted' = <<>> /\ UNCHANGED overrun

HandleInit ==
    /\ command_id = INIT
    /\ status' = 0 /\ error' = FALSE /\ NoImage
    /\ UNCHANGED time_remaining

(* The image is printed, and begins anew. *)
HandleStart ==
    /\ command_id = START /\ Len(command_data) = START_LENGTH
    /\ status' = 6 /\ error' = FALSE
    /\ time_remaining' = image_offset * PrintTime /\ NoImage

(* The offset is wrapped before the two rows of tiles are written, not     *)
(* between them.                                                           *)
Wrapped == image_offset % ImageRows

StoredTwice(data) ==    \* mutant: both rows go to the same place
    [image EXCEPT ![Wrapped] = SubSeq(data, DATA_SIZE \div 2 + 1, DATA_SIZE)]

Stored(data) ==
    [row \in DOMAIN image |->
        CASE row = Wrapped -> SubSeq(data, 1, DATA_SIZE \div 2)
          [] row = Wrapped + 1 -> SubSeq(data, DATA_SIZE \div 2 + 1, DATA_SIZE)
          [] OTHER -> image[row]]

HandleData ==
    /\ command_id = DATA /\ Len(command_data) = DATA_SIZE
    /\ status' = 8 /\ error' = FALSE
    /\ image' = Stored(command_data) /\ image_offset' = Wrapped + 2
    /\ overrun' = (Wrapped + 2 > ImageRows)
    /\ accepted' = Append(accepted, command_data)
    /\ UNCHANGED time_remaining

HandleNothing ==
    /\ \/ command_id \notin {INIT, START, DATA}
       \/ command_id = START /\ Len(command_data) # START_LENGTH
       \/ command_id = DATA /\ Len(command_data) # DATA_SIZE
    /\ UNCHANGED <<status, error, printout, time_remaining>>

Status ==
    /\ Receives("STATUS") /\ Sends(0) /\ command_state' = "MAGIC1"
    /\ HandleInit \/ HandleStart \/ HandleData \/ HandleNothing
    /\ UNCHANGED <<command_id, compression, length_left, checksum, sum_low, decoder>>
-----------------------------------------------------------------------------
(* GB_serial_master_edge counts the time of the printing, and that without *)
(* a bit while a packet is under way.                                      *)
Printing ==
    /\ time_remaining > 0 /\ time_remaining' = time_remaining - 1
    /\ UNCHANGED <<parser, decoder, status, error, byte_to_send, printout, idle>>

Idle ==
    /\ command_state # "MAGIC1" /\ idle' = TRUE
    /\ UNCHANGED <<parser, decoder, status, error, byte_to_send, printout, time_remaining>>

(* What the program sends: the bytes each state tells apart.               *)
TakesByte ==
    \/ \E byte \in {0, 51, 136} : Magic1(byte) \/ Magic2(byte)
    \/ \E byte \in {INIT, START, DATA} : Id(byte)
    \/ \E byte \in {0, 1} : Compression(byte)
    \/ \E byte \in 0 .. MaxPayload : LengthLow(byte)
    \/ \E byte \in {0, 4} : LengthHigh(byte)
    \/ \E byte \in Payload : Data(byte)
    \/ \E wrong \in {0, 1} : ChecksumLow((checksum + wrong) % 256)
                            \/ ChecksumHigh((checksum \div 256 + wrong) % 256)
    \/ Active \/ Status

(* A row beyond the image is written over what lies behind it in the       *)
(* machine, the offset first, in the middle of the writing: what follows   *)
(* is not modelled.                                                        *)
PrinterNext == ~overrun /\ (TakesByte \/ Printing \/ Idle)

PrinterSpec == PrinterInit /\ [][PrinterNext]_printerVars
-----------------------------------------------------------------------------
(* The decoded data never leaves command_data.                             *)
PrinterTypeOK ==
    /\ command_state \in {"MAGIC1", "MAGIC2", "ID", "COMPRESSION", "LENGTH_LOW",
                          "LENGTH_HIGH", "DATA", "CHECKSUM_LOW", "CHECKSUM_HIGH",
                          "ACTIVE", "STATUS"}
    /\ command_id \in 0 .. 15 /\ compression \in BOOLEAN
    /\ length_left \in 0 .. 1023 /\ (command_state = "DATA" => length_left > 0)
    /\ command_data \in Seq(0 .. 255) /\ Len(command_data) <= DATA_SIZE
    /\ checksum \in 0 .. 65535 /\ sum_low \in BOOLEAN
    /\ run_length \in 0 .. 129 /\ run_compressed \in BOOLEAN
    /\ status \in {0, 4, 6, 8} /\ error \in BOOLEAN /\ byte_to_send \in 0 .. 255
    /\ image_offset \in 0 .. ImageRows + 1 /\ overrun \in BOOLEAN
    /\ time_remaining \in Nat /\ idle \in BOOLEAN /\ begun \in Seq(0 .. 255)

(* The bytes the runs of a packet's data come to, one after the other,     *)
(* from every place a run may begin at.                                    *)
UpTo(data, i) == IF i < Len(data) THEN i ELSE Len(data)

RunsFrom(data) ==
    LET from[i \in 1 .. Len(data) + 2] ==
            IF i > Len(data) THEN <<>>
            ELSE IF data[i] < 128
            THEN SubSeq(data, i + 1, UpTo(data, i + data[i] + 1))
                     \o from[UpTo(data, i + data[i] + 1) + 1]
            ELSE IF i = Len(data) THEN <<>>
            ELSE Repeated(data[i + 1], data[i] - 126) \o from[i + 2]
    IN from

Runs(data) == RunsFrom(data)[1]

MeantData == IF compression THEN Runs(begun \o payload) ELSE payload

(* The decoder, which works a byte at a time and keeps its place between   *)
(* them and from one packet to the next, yields what the data means as a   *)
(* whole, as much of it as fits, wherever packets before were cut off; if  *)
(* one was inside a run, what was left of that run comes first.            *)
DataIsDecoded ==
    command_state \in {"CHECKSUM_LOW", "CHECKSUM_HIGH", "ACTIVE", "STATUS"} =>
        command_data = SubSeq(MeantData, 1, UpTo(MeantData, DATA_SIZE))

(* The image holds the data of the commands accepted since the last one    *)
(* that printed or initialised, in order, two rows each: of all of them as *)
(* long as there is room for them, and else of those since the offset was  *)
(* wrapped.  A row is written beyond the image only when there is no room, *)
(* which with an odd number of rows is at the first command that is too    *)
(* many.                                                                   *)
ImageIsAccepted ==
    /\ overrun => 2 * Len(accepted) > ImageRows
    /\ ~overrun =>
          \E n \in 0 .. Len(accepted) :
              /\ image_offset = 2 * n
              /\ 2 * Len(accepted) <= ImageRows => n = Len(accepted)
              /\ \A k \in 1 .. n :
                    image[2 * k - 2] \o image[2 * k - 1] = accepted[Len(accepted) - n + k]

(* The printer decodes the data that was sent, and its image is what it    *)
(* accepted.                                                               *)
PrintsWhatWasSent == DataIsDecoded /\ ImageIsAccepted
=============================================================================
