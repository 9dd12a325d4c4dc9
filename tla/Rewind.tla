------------------------------- MODULE Rewind -------------------------------
(***************************************************************************)
(* The rewind buffer of Core/rewind.c: a ring of rewind_buffer_length      *)
(* sequences, each one key state (an uncompressed save state) and up to    *)
(* GB_REWIND_FRAMES_PER_KEY states stored as differences from that key.    *)
(* The operators below work on the buffer as a value, so that Backstep can *)
(* compose several of them in one debugger command; the actions are the    *)
(* calls the emulator and its frontends make.                              *)
(*                                                                         *)
(* A save state is a member of States.  A difference is what               *)
(* state_compress makes of it: the key it was taken from and the state;    *)
(* decoding it with another key gives Garbage (RewindCodec shows that the  *)
(* codec itself is exact).  instruction_count belongs to Backstep.         *)
(***************************************************************************)
EXTENDS Integers, Sequences, FiniteSets

CONSTANTS
    FRAMES_PER_KEY,   \* GB_REWIND_FRAMES_PER_KEY, 255 in the source
    Lengths,          \* the buffer lengths GB_set_rewind_length is called with
    States,           \* save states
    Sizes,            \* sizes of a save state
    NULL,             \* the null pointer
    Garbage           \* the result of decoding a difference with a wrong key

ASSUME FramesAssumption == FRAMES_PER_KEY \in Nat \ {0}
ASSUME LengthsAssumption == Lengths \subseteq Nat
ASSUME SizesAssumption == Sizes \subseteq Nat \ {0}
ASSUME GarbageAssumption == Garbage \notin States

VARIABLES
    buffer,      \* the rewind_ fields of GB_gameboy_t
    gb,          \* the running machine's state
    save_size    \* GB_get_save_state_size_no_bess(gb)

vars == <<buffer, gb, save_size>>

Deltas == 0 .. FRAMES_PER_KEY - 1
Delta(key, s) == [key |-> key, state |-> s]
DeltaSet == [key : States, state : States]

ASSUME NullAssumption == NULL \notin States \union DeltaSet

SequenceSet == [key_state : States \union {NULL},
                compressed : [Deltas -> DeltaSet \union {NULL}],
                pos : 0 .. FRAMES_PER_KEY]

Sequence(key, compressed, pos) ==
    [key_state |-> key, compressed |-> compressed, pos |-> pos]

ASSUME RingAssumption ==
    \A n \in Lengths : NULL \notin [0 .. n - 1 -> SequenceSet]

EmptySequence == Sequence(NULL, [i \in Deltas |-> NULL], 0)

Buffer(sequences, length, state_size, pos) ==
    [sequences |-> sequences, length |-> length, state_size |-> state_size, pos |-> pos]

(* A machine that never had a rewind buffer. *)
NoBuffer == Buffer(NULL, 0, 0, 0)

Current(b) == b.sequences[b.pos]
WithCurrent(b, seq) ==
    Buffer([b.sequences EXCEPT ![b.pos] = seq], b.length, b.state_size, b.pos)

(* GB_rewind_reset: frees every state; rewind_pos stays. *)
ResetOp(b) == Buffer(NULL, b.length, b.state_size, b.pos)

(* GB_set_rewind_length, with the seconds already turned into sequences. *)
SetLengthOp(b, n) == Buffer(NULL, n, b.state_size, b.pos)

(* The first part of GB_rewind_push: states of another size are dropped,   *)
(* and the sequences are allocated, zeroed, on first use.                  *)
ResizedKeeping(b, size) == Buffer(b.sequences, b.length, size, b.pos)    \* mutant: no reset

Resized(b, size) ==
    IF b.state_size = size THEN b ELSE Buffer(NULL, b.length, size, b.pos)

Prepared(b, size) ==
    LET sized == Resized(b, size)
    IN IF sized.sequences = NULL /\ sized.length # 0
       THEN Buffer([i \in 0 .. sized.length - 1 |-> EmptySequence], sized.length, size, 0)
       ELSE sized

(* The second part: a full sequence hands over to the next one of the      *)
(* ring, whose key and differences are freed.                              *)
NextPos(b) == IF b.pos + 1 = b.length THEN 0 ELSE b.pos + 1

Advanced(b) ==
    IF Current(b).pos # FRAMES_PER_KEY THEN b
    ELSE Buffer([b.sequences EXCEPT ![NextPos(b)] = EmptySequence],
                b.length, b.state_size, NextPos(b))

(* The third part: the state becomes the sequence's key, or a difference   *)
(* from it.                                                                *)
Extended(seq, s) ==
    IF seq.key_state = NULL
    THEN Sequence(s, seq.compressed, seq.pos)
    ELSE Sequence(seq.key_state,
                  [seq.compressed EXCEPT ![seq.pos] = Delta(seq.key_state, s)],
                  seq.pos + 1)

PushOp(b, s, size) ==
    LET p == Prepared(b, size)
        a == Advanced(p)
    IN IF p.sequences = NULL THEN p ELSE WithCurrent(a, Extended(Current(a), s))

CanPop(b) == b.sequences # NULL /\ Current(b).key_state # NULL

(* state_decompress. *)
Decoded(seq, d) ==
    IF seq.compressed[d] # NULL /\ seq.compressed[d].key = seq.key_state
    THEN seq.compressed[d].state
    ELSE Garbage

(* What GB_rewind_pop loads, and the buffer it leaves. *)
PopState(b) ==
    LET seq == Current(b)
    IN IF seq.pos = 0 THEN seq.key_state ELSE Decoded(seq, seq.pos - 1)

PreviousPos(b) == IF b.pos = 0 THEN b.length - 1 ELSE b.pos - 1

ShortenedDangling(seq) ==    \* mutant: the freed pointer is not cleared
    IF seq.pos = 0 THEN Sequence(NULL, seq.compressed, 0)
    ELSE Sequence(seq.key_state, seq.compressed, seq.pos - 1)

Shortened(seq) ==
    IF seq.pos = 0 THEN Sequence(NULL, seq.compressed, 0)
    ELSE Sequence(seq.key_state,
                  [seq.compressed EXCEPT ![seq.pos - 1] = NULL], seq.pos - 1)

PopOp(b) ==
    Buffer([b.sequences EXCEPT ![b.pos] = Shortened(@)], b.length, b.state_size,
           IF Current(b).pos = 0 THEN PreviousPos(b) ELSE b.pos)

-----------------------------------------------------------------------------
Init ==
    /\ buffer = NoBuffer
    /\ gb \in States
    /\ save_size \in Sizes

(* GB_run up to a vertical blank, which pushes the state it reached;       *)
(* GB_reset and GB_quick_reset push the state after the reset.             *)
Push(s) ==
    /\ gb' = s
    /\ buffer' = PushOp(buffer, s, save_size)
    /\ UNCHANGED save_size

(* GB_rewind_pop.  The load is refused when the saved state has more       *)
(* cartridge memory than the machine now has; the state is popped anyway.  *)
(* With a larger save state, decoding runs past the end of the difference, *)
(* for the bytes the load does not use.                                    *)
Pop ==
    /\ CanPop(buffer)
    /\ gb' = IF save_size < buffer.state_size THEN gb ELSE PopState(buffer)
    /\ buffer' = PopOp(buffer)
    /\ UNCHANGED save_size

SetLength(n) ==
    /\ buffer' = SetLengthOp(buffer, n)
    /\ UNCHANGED <<gb, save_size>>

(* GB_rewind_reset, called by a frontend. *)
Reset ==
    /\ buffer' = ResetOp(buffer)
    /\ UNCHANGED <<gb, save_size>>

(* GB_switch_model_and_reset: new memory sizes, a reset of the buffer, and *)
(* the push at the end of GB_reset.                                        *)
SwitchModelAndReset(s, size) ==
    /\ gb' = s
    /\ save_size' = size
    /\ buffer' = PushOp(ResetOp(buffer), s, size)

(* Running for less than a frame, a ROM with another amount of cartridge   *)
(* memory (GB_configure_cart), or GB_load_state of a file: the buffer does *)
(* not hear of it.                                                         *)
External(s, size) ==
    /\ gb' = s
    /\ save_size' = size
    /\ UNCHANGED buffer

Next ==
    \/ \E s \in States : Push(s)
    \/ Pop
    \/ \E n \in Lengths : SetLength(n)
    \/ Reset
    \/ \E s \in States, size \in Sizes : SwitchModelAndReset(s, size)
    \/ \E s \in States, size \in Sizes : External(s, size)

Spec == Init /\ [][Next]_vars
-----------------------------------------------------------------------------
BufferType(b) ==
    /\ b.length \in Lengths \union {0}
    /\ b.state_size \in Sizes \union {0}
    /\ b.pos \in Nat
    /\ b.sequences # NULL =>
          /\ b.pos \in 0 .. b.length - 1
          /\ b.sequences \in [0 .. b.length - 1 -> SequenceSet]

TypeOK ==
    /\ BufferType(buffer)
    /\ gb \in States
    /\ save_size \in Sizes

Allocated(b) == IF b.sequences = NULL THEN {} ELSE 0 .. b.length - 1

Exact(seq) ==
    /\ seq.key_state = NULL => seq.pos = 0
    /\ \A d \in Deltas : seq.compressed[d] # NULL <=> d < seq.pos

Matching(seq) ==
    \A d \in Deltas :
        seq.compressed[d] # NULL => seq.compressed[d].key = seq.key_state

FullOrEmpty(seq) == seq.key_state = NULL \/ seq.pos = FRAMES_PER_KEY

(* The pointers of every sequence say exactly what it holds: without a key *)
(* there is no difference, and the differences are those below pos.  So a  *)
(* push never overwrites a pointer it did not free, a pop never frees or   *)
(* decodes a null one, and every pointer is freed exactly once             *)
(* (GB_rewind_push, GB_rewind_pop and GB_rewind_reset together).           *)
PointersExact == \A i \in Allocated(buffer) : Exact(buffer.sequences[i])

(* Every difference is decoded with the key it was encoded with, although  *)
(* the keys of the ring are freed and replaced while differences come and  *)
(* go (GB_rewind_push, GB_rewind_pop).                                     *)
DeltasMatchKey == \A i \in Allocated(buffer) : Matching(buffer.sequences[i])

(* Only the current sequence can be partly filled, so that the push that   *)
(* follows a pop into a previous sequence, and the pop that follows a push *)
(* into the next one, meet a full or an empty sequence and no state is     *)
(* skipped (the advance of GB_rewind_push, the step back of                *)
(* GB_rewind_pop).                                                         *)
OthersFullOrEmpty ==
    \A i \in Allocated(buffer) \ {buffer.pos} : FullOrEmpty(buffer.sequences[i])
-----------------------------------------------------------------------------
(* The states of the ring, oldest first.  The k-th sequence behind the     *)
(* current one:                                                            *)
Back(b, k) == IF k <= b.pos THEN b.pos - k ELSE b.pos - k + b.length

(* How many sequences behind the current one hold states, all of them full.*)
Behind(b) == Cardinality({k \in 1 .. b.length - 1 : b.sequences[Back(b, k)].key_state # NULL})

Held(seq) == IF seq.key_state = NULL THEN 0 ELSE seq.pos + 1
StateAt(seq, d) == IF d = 0 THEN seq.key_state ELSE Decoded(seq, d - 1)

HistoryOf(b) ==
    IF b.sequences = NULL THEN << >>
    ELSE [i \in 1 .. Behind(b) * (FRAMES_PER_KEY + 1) + Held(Current(b)) |->
             StateAt(b.sequences[Back(b, Behind(b) - (i - 1) \div (FRAMES_PER_KEY + 1))],
                     (i - 1) % (FRAMES_PER_KEY + 1))]

History == INSTANCE RewindHistory
               WITH history <- HistoryOf(buffer),
                    length <- buffer.length,
                    history_size <- buffer.state_size

(* Rewinding is exact: whatever frames, resets, pops, model switches and   *)
(* length changes happen, GB_rewind_pop loads the newest state pushed and  *)
(* not yet popped, and GB_rewind_push forgets only the oldest key with its *)
(* differences, and only when the buffer is full.                          *)
ImplementsHistory == History!Spec
=============================================================================
