---------------------------- MODULE RewindCodec ----------------------------
(***************************************************************************)
(* state_compress and state_decompress of Core/rewind.c: a save state      *)
(* stored as its difference from a key state.  The output is a list of     *)
(* blocks that alternate between "as in prev" (a two-byte count) and       *)
(* "literal" (a two-byte count and the bytes); a full count forces a       *)
(* switch.  One action is one iteration of a loop.  Memory is the partial  *)
(* function of the bytes written so far: reading an address outside it is  *)
(* reading what nobody wrote.  A count is a 16-bit access to two           *)
(* neighbouring bytes; both hold its value, modulo MaxCounter + 1.         *)
(***************************************************************************)
EXTENDS Integers

CONSTANTS
    Byte,            \* the values of a byte of a save state
    MaxCounter,      \* 0xFFFF in the source
    StateSize,       \* uncompressed_size
    InitialMalloc    \* 0x1000 in the source, and at least 3

(* A block's count can count, and the first block fits the allocation.     *)
ASSUME CodecAssumption ==
    /\ MaxCounter \in Nat \ {0}
    /\ StateSize \in Nat
    /\ InitialMalloc \in Nat /\ InitialMalloc >= 3

Input == [0 .. StateSize - 1 -> Byte]

VARIABLES
    phase,         \* "compress", "decompress" or "done"
    prev, data,    \* the key state and the state to store
    offset,        \* bytes consumed of data, or produced of dest
    prev_mode, counter_pos, data_pos,
    malloc_size,   \* the allocated size of the output
    memory,        \* the bytes written to it
    dest           \* what state_decompress has produced

codecVars == <<phase, prev, data, offset, prev_mode, counter_pos, data_pos,
               malloc_size, memory, dest>>

Write(m, a, v) == [x \in DOMAIN m \union {a} |-> IF x = a THEN v ELSE m[x]]

(* The macro COUNTER, read and assigned. *)
Counter == memory[counter_pos]

SetCounter(m, pos, n) ==
    Write(Write(m, pos, n % (MaxCounter + 1)), pos + 1, n % (MaxCounter + 1))

Same == data[offset] = prev[offset]

CodecInit ==
    /\ phase = "compress"
    /\ prev \in Input
    /\ data \in Input
    /\ offset = 0
    /\ prev_mode = TRUE
    /\ counter_pos = 0
    /\ data_pos = 2
    /\ malloc_size = InitialMalloc
    /\ memory = SetCounter([x \in {} |-> 0], 0, 0)
    /\ dest = [x \in {} |-> 0]

Compressing == phase = "compress" /\ offset < StateSize

(* A byte equal to prev's is counted. *)
CountSame ==
    /\ Compressing /\ prev_mode
    /\ Same /\ Counter # MaxCounter
    /\ memory' = SetCounter(memory, counter_pos, Counter + 1)
    /\ offset' = offset + 1
    /\ UNCHANGED <<phase, prev, data, prev_mode, counter_pos, data_pos, malloc_size, dest>>

Grown(full) == IF full THEN malloc_size * 2 ELSE malloc_size

StartLiterals ==
    /\ Compressing /\ prev_mode
    /\ ~(Same /\ Counter # MaxCounter)
    /\ prev_mode' = FALSE
    /\ counter_pos' = counter_pos + 2
    /\ data_pos' = counter_pos' + 2
    /\ malloc_size' = Grown(data_pos' >= malloc_size)
    /\ memory' = SetCounter(memory, counter_pos', 0)
    /\ UNCHANGED <<phase, prev, data, offset, dest>>

(* A byte that differs is counted and stored. *)
StoreLiteralOfKey ==    \* mutant: the byte stored is the key's
    /\ Compressing /\ ~prev_mode
    /\ ~Same /\ Counter # MaxCounter
    /\ memory' = Write(SetCounter(memory, counter_pos, Counter + 1), data_pos, prev[offset])
    /\ data_pos' = data_pos + 1
    /\ offset' = offset + 1
    /\ malloc_size' = Grown(data_pos' >= malloc_size)
    /\ UNCHANGED <<phase, prev, data, prev_mode, counter_pos, dest>>

StoreLiteral ==
    /\ Compressing /\ ~prev_mode
    /\ ~Same /\ Counter # MaxCounter
    /\ memory' = Write(SetCounter(memory, counter_pos, Counter + 1), data_pos, data[offset])
    /\ data_pos' = data_pos + 1
    /\ offset' = offset + 1
    /\ malloc_size' = Grown(data_pos' >= malloc_size)
    /\ UNCHANGED <<phase, prev, data, prev_mode, counter_pos, dest>>

StartSameTight ==    \* mutant: room for only one of the counter's two bytes
    /\ Compressing /\ ~prev_mode
    /\ ~(~Same /\ Counter # MaxCounter)
    /\ prev_mode' = TRUE
    /\ counter_pos' = data_pos
    /\ data_pos' = counter_pos' + 2
    /\ malloc_size' = Grown(counter_pos' >= malloc_size)
    /\ memory' = SetCounter(memory, counter_pos', 0)
    /\ UNCHANGED <<phase, prev, data, offset, dest>>

StartSame ==
    /\ Compressing /\ ~prev_mode
    /\ ~(~Same /\ Counter # MaxCounter)
    /\ prev_mode' = TRUE
    /\ counter_pos' = data_pos
    /\ data_pos' = counter_pos' + 2
    /\ malloc_size' = Grown(counter_pos' >= malloc_size - 1)
    /\ memory' = SetCounter(memory, counter_pos', 0)
    /\ UNCHANGED <<phase, prev, data, offset, dest>>

(* The output is trimmed to data_pos bytes, and later decompressed. *)
Trim ==
    /\ phase = "compress" /\ offset = StateSize
    /\ phase' = "decompress"
    /\ malloc_size' = data_pos
    /\ offset' = 0
    /\ prev_mode' = TRUE
    /\ counter_pos' = 0
    /\ data_pos' = 2
    /\ UNCHANGED <<prev, data, memory, dest>>

Decompressing == phase = "decompress" /\ offset < StateSize

CopyPrev ==
    /\ Decompressing /\ prev_mode
    /\ Counter # 0
    /\ memory' = SetCounter(memory, counter_pos, Counter - 1)
    /\ dest' = Write(dest, offset, prev[offset])
    /\ offset' = offset + 1
    /\ UNCHANGED <<phase, prev, data, prev_mode, counter_pos, data_pos, malloc_size>>

EnterLiterals ==
    /\ Decompressing /\ prev_mode
    /\ Counter = 0
    /\ prev_mode' = FALSE
    /\ counter_pos' = counter_pos + 2
    /\ data_pos' = counter_pos' + 2
    /\ UNCHANGED <<phase, prev, data, offset, malloc_size, memory, dest>>

CopyLiteral ==
    /\ Decompressing /\ ~prev_mode
    /\ Counter # 0
    /\ memory' = SetCounter(memory, counter_pos, Counter - 1)
    /\ dest' = Write(dest, offset, memory[data_pos])
    /\ data_pos' = data_pos + 1
    /\ offset' = offset + 1
    /\ UNCHANGED <<phase, prev, data, prev_mode, counter_pos, malloc_size>>

EnterSame ==
    /\ Decompressing /\ ~prev_mode
    /\ Counter = 0
    /\ prev_mode' = TRUE
    /\ counter_pos' = data_pos
    /\ data_pos' = data_pos + 2
    /\ UNCHANGED <<phase, prev, data, offset, malloc_size, memory, dest>>

Finish ==
    /\ phase = "decompress" /\ offset = StateSize
    /\ phase' = "done"
    /\ UNCHANGED <<prev, data, offset, prev_mode, counter_pos, data_pos,
                   malloc_size, memory, dest>>

Compress == CountSame \/ StartLiterals \/ StoreLiteral \/ StartSame \/ Trim
Decompress == CopyPrev \/ EnterLiterals \/ CopyLiteral \/ EnterSame \/ Finish
CodecNext == Compress \/ Decompress

(* Both loops run until they end. *)
CodecSpec == CodecInit /\ [][CodecNext]_codecVars
-----------------------------------------------------------------------------
CodecTypeOK ==
    /\ phase \in {"compress", "decompress", "done"}
    /\ prev \in Input /\ data \in Input
    /\ offset \in 0 .. StateSize
    /\ prev_mode \in BOOLEAN
    /\ counter_pos \in Nat /\ data_pos \in Nat /\ malloc_size \in Nat
    /\ DOMAIN memory \subseteq Nat
    /\ DOMAIN dest \subseteq 0 .. StateSize - 1

(* state_compress never writes outside its allocation: one doubling per    *)
(* iteration is enough, for the counter of a block as for its bytes.       *)
NoOverrun == DOMAIN memory \subseteq 0 .. malloc_size - 1

(* state_decompress reads only bytes that state_compress wrote.            *)
ReadsWhatWasWritten ==
    Decompressing =>
        /\ {counter_pos, counter_pos + 1} \subseteq DOMAIN memory
        /\ ~prev_mode /\ Counter # 0 => data_pos \in DOMAIN memory

(* What state_decompress produces is the state state_compress was given,   *)
(* whatever runs of equal and different bytes the two states have, full    *)
(* counters included.                                                      *)
RoundTrip == phase = "done" => dest = data

(* The encoding stays in its allocation, decoding reads no byte that was   *)
(* not written, and what is decoded is what was encoded.                   *)
EncodingIsExact == NoOverrun /\ ReadsWhatWasWritten /\ RoundTrip
=============================================================================
