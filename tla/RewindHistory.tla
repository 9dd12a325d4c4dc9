--------------------------- MODULE RewindHistory ---------------------------
(***************************************************************************)
(* What the rewind buffer of Core/rewind.c promises its callers, without   *)
(* slots, keys, deltas or a ring index: a bounded stack of the machine's   *)
(* saved states.  Pushing onto a full buffer forgets the oldest            *)
(* GB_REWIND_FRAMES_PER_KEY + 1 states (one key and its deltas) at once,   *)
(* popping loads the newest state and forgets it, and no state is ever     *)
(* loaded that was not saved since the last reset.                         *)
(***************************************************************************)
EXTENDS Integers, Sequences, SequencesExt

CONSTANTS FRAMES_PER_KEY, Lengths, States, Sizes

VARIABLES
    history,        \* the saved states, oldest first
    length,         \* rewind_buffer_length
    history_size,   \* the save-state size the history was recorded with
    gb,             \* the running machine's state
    save_size       \* the size a save state of the running machine has now

vars == <<history, length, history_size, gb, save_size>>

Capacity == length * (FRAMES_PER_KEY + 1)

(* The part of the history a push keeps. *)
Kept ==
    IF history_size # save_size THEN << >>
    ELSE IF Len(history) = Capacity
         THEN SubSeq(history, FRAMES_PER_KEY + 2, Len(history))
         ELSE history

Record(h, s) == IF length = 0 THEN << >> ELSE Append(h, s)

Init ==
    /\ history = << >>
    /\ length = 0
    /\ history_size = 0
    /\ gb \in States
    /\ save_size \in Sizes

(* A frame, or a reset of the machine: it ends with a push of its state. *)
Push(s) ==
    /\ gb' = s
    /\ history' = Record(Kept, s)
    /\ history_size' = save_size
    /\ UNCHANGED <<length, save_size>>

(* The newest state is loaded, or refused when the machine's own save      *)
(* states have become smaller than the recorded ones.                      *)
Pop ==
    /\ history # << >>
    /\ gb' = IF save_size < history_size THEN gb ELSE Last(history)
    /\ history' = Front(history)
    /\ UNCHANGED <<length, history_size, save_size>>

Forget ==
    /\ history' = << >>
    /\ length' \in Lengths
    /\ UNCHANGED <<history_size, gb, save_size>>

SwitchModel(s, size) ==
    /\ gb' = s
    /\ save_size' = size
    /\ history' = Record(<< >>, s)
    /\ history_size' = size
    /\ UNCHANGED length

(* The machine changes behind the buffer's back.  *)
External ==
    /\ gb' \in States
    /\ save_size' \in Sizes
    /\ UNCHANGED <<history, length, history_size>>

Next ==
    \/ \E s \in States : Push(s)
    \/ Pop
    \/ Forget
    \/ \E s \in States, size \in Sizes : SwitchModel(s, size)
    \/ External

Spec == Init /\ [][Next]_vars
=============================================================================
