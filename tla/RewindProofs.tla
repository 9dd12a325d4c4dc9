---------------------------- MODULE RewindProofs ----------------------------
(***************************************************************************)
(* Proofs about Rewind, for every number of frames per key, every set of   *)
(* buffer lengths and every set of states; then about Backstep, for any    *)
(* vertical blanks, any length of the rewind buffer and any limit on a     *)
(* replay; and about RewindCodec, for any two states of any size.          *)
(***************************************************************************)
EXTENDS Rewind, Backstep, RewindCodec, SequenceTheorems, FiniteSetTheorems,
        WellFoundedInduction, TLAPS

(* What holds of every sequence of a buffer, current or not. *)
SequenceInv(seq) == seq \in SequenceSet /\ Exact(seq) /\ Matching(seq)

(* The inductive invariant, as a property of a buffer: its type and the    *)
(* three facts about its sequences, each of which needs the others.        *)
BufferInv(b) ==
    /\ BufferType(b)
    /\ \A i \in Allocated(b) : Exact(b.sequences[i]) /\ Matching(b.sequences[i])
    /\ \A i \in Allocated(b) \ {b.pos} : FullOrEmpty(b.sequences[i])

(* A buffer length is a number of sequences. *)
LEMMA LengthLemma == \A n \in Lengths \union {0} : n \in Nat
<1>1. ASSUME NEW n \in Lengths \union {0} PROVE n \in Nat
  <2>1. CASE n = 0
    BY <2>1
  <2>2. CASE n \in Lengths
    BY <2>2, LengthsAssumption
  <2> QED BY <2>1, <2>2
<1> QED BY <1>1

(* A zeroed sequence is well formed (the memset of GB_rewind_push). *)
LEMMA EmptyLemma == SequenceInv(EmptySequence) /\ FullOrEmpty(EmptySequence)
<1>1. EmptySequence \in SequenceSet
  BY FramesAssumption DEF EmptySequence, Sequence, SequenceSet
<1>2. Exact(EmptySequence) /\ Matching(EmptySequence) /\ FullOrEmpty(EmptySequence)
  BY DEF EmptySequence, Sequence, Exact, Matching, FullOrEmpty, Deltas
<1> QED BY <1>1, <1>2 DEF SequenceInv

(* Adding a state to a sequence with room keeps it well formed.  The new   *)
(* difference is put where there was none, and the key stays with its      *)
(* differences.                                                            *)
LEMMA ExtendedLemma ==
    ASSUME NEW seq, SequenceInv(seq), seq.pos # FRAMES_PER_KEY, NEW s \in States
    PROVE  SequenceInv(Extended(seq, s)) /\ Extended(seq, s).key_state # NULL
<1> USE FramesAssumption, NullAssumption
<1>1. CASE seq.key_state = NULL
  BY <1>1 DEF SequenceInv, Extended, Sequence, SequenceSet, Exact, Matching, Deltas
<1>2. CASE seq.key_state # NULL
  <2> DEFINE c == [seq.compressed EXCEPT ![seq.pos] = Delta(seq.key_state, s)]
  <2>1. Delta(seq.key_state, s) \in DeltaSet /\ Delta(seq.key_state, s).key = seq.key_state
    BY <1>2 DEF SequenceInv, SequenceSet, Delta, DeltaSet
  <2>2. seq.pos \in Deltas /\ seq.compressed \in [Deltas -> DeltaSet \union {NULL}]
    BY DEF SequenceInv, SequenceSet, Deltas
  <2>3. c \in [Deltas -> DeltaSet \union {NULL}]
        /\ \A d \in Deltas : c[d] = IF d = seq.pos THEN Delta(seq.key_state, s)
                                    ELSE seq.compressed[d]
    BY <2>1, <2>2
  <2>4. Extended(seq, s) = Sequence(seq.key_state, c, seq.pos + 1)
    BY <1>2 DEF Extended
  <2> HIDE DEF c
  <2>5. Extended(seq, s) \in SequenceSet
    BY <2>2, <2>3, <2>4 DEF Sequence, SequenceSet, SequenceInv, Deltas
  <2>6. Exact(Extended(seq, s)) /\ Matching(Extended(seq, s))
    BY <1>2, <2>1, <2>2, <2>3, <2>4 DEF Sequence, SequenceInv, Exact, Matching, Deltas
  <2> QED BY <1>2, <2>4, <2>5, <2>6 DEF SequenceInv, Sequence
<1> QED BY <1>1, <1>2

(* Taking the newest state out of a sequence keeps it well formed; a       *)
(* sequence that gives up its key is left without differences.             *)
LEMMA ShortenedLemma ==
    ASSUME NEW seq, SequenceInv(seq), seq.key_state # NULL
    PROVE  /\ SequenceInv(Shortened(seq))
           /\ seq.pos = 0 => FullOrEmpty(Shortened(seq))
           /\ seq.pos # 0 => Decoded(seq, seq.pos - 1) \in States
<1> USE FramesAssumption, NullAssumption
<1>1. CASE seq.pos = 0
  BY <1>1 DEF SequenceInv, Shortened, Sequence, SequenceSet, Exact, Matching, Deltas, FullOrEmpty
<1>2. CASE seq.pos # 0
  <2> DEFINE c == [seq.compressed EXCEPT ![seq.pos - 1] = NULL]
  <2>1. seq.pos - 1 \in Deltas /\ seq.compressed \in [Deltas -> DeltaSet \union {NULL}]
    BY <1>2 DEF SequenceInv, SequenceSet, Deltas
  <2>2. c \in [Deltas -> DeltaSet \union {NULL}]
        /\ \A d \in Deltas : c[d] = IF d = seq.pos - 1 THEN NULL ELSE seq.compressed[d]
    BY <2>1
  <2>3. Shortened(seq) = Sequence(seq.key_state, c, seq.pos - 1)
    BY <1>2 DEF Shortened
  <2> HIDE DEF c
  <2>4. SequenceInv(Shortened(seq))
    BY <1>2, <2>1, <2>2, <2>3 DEF Sequence, SequenceSet, SequenceInv, Exact, Matching, Deltas
  <2>5. Decoded(seq, seq.pos - 1) \in States
    BY <1>2, <2>1 DEF SequenceInv, SequenceSet, Exact, Matching, Decoded, DeltaSet
  <2> QED BY <1>2, <2>4, <2>5
<1> QED BY <1>1, <1>2

(* GB_rewind_push drops states of another size and allocates zeroed        *)
(* sequences.                                                              *)
LEMMA PreparedLemma ==
    ASSUME NEW b, BufferInv(b), NEW size \in Sizes
    PROVE  BufferInv(Prepared(b, size))
<1> DEFINE sized == Resized(b, size)
<1>1. BufferInv(sized)
  BY DEF BufferInv, BufferType, Allocated, Resized, Buffer
<1>2. CASE ~(sized.sequences = NULL /\ sized.length # 0)
  BY <1>1, <1>2 DEF Prepared
<1>3. CASE sized.sequences = NULL /\ sized.length # 0
  <2> DEFINE seqs == [i \in 0 .. sized.length - 1 |-> EmptySequence]
  <2>1. Prepared(b, size) = Buffer(seqs, sized.length, size, 0)
    BY <1>3 DEF Prepared
  <2>2. sized.length \in Lengths \union {0} /\ sized.length \in Nat
    BY <1>1, LengthLemma DEF BufferInv, BufferType
  <2> HIDE DEF sized
  <2>3. \A i \in 0 .. sized.length - 1 : seqs[i] = EmptySequence
    OBVIOUS
  <2>4. seqs \in [0 .. sized.length - 1 -> SequenceSet]
    BY EmptyLemma DEF SequenceInv
  <2> HIDE DEF seqs
  <2> QED
    BY <1>3, <2>1, <2>2, <2>3, <2>4, EmptyLemma
    DEF BufferInv, BufferType, Buffer, Allocated, SequenceInv
<1> QED BY <1>2, <1>3

(* Replacing one sequence of a buffer by a well-formed one, and making a   *)
(* position current while the one that was current, if another, is full or *)
(* empty, keeps the buffer well formed.                                    *)
LEMMA ReplaceLemma ==
    ASSUME NEW b, BufferInv(b), b.sequences # NULL,
           NEW p \in 0 .. b.length - 1, NEW q \in 0 .. b.length - 1,
           NEW seq, SequenceInv(seq),
           p # q => FullOrEmpty(seq),
           b.pos # p /\ b.pos # q => FullOrEmpty(b.sequences[b.pos])
    PROVE  BufferInv(Buffer([b.sequences EXCEPT ![p] = seq], b.length, b.state_size, q))
<1> DEFINE seqs == [b.sequences EXCEPT ![p] = seq]
           r == Buffer(seqs, b.length, b.state_size, q)
<1>1. /\ b.length \in Lengths \union {0} /\ b.state_size \in Sizes \union {0}
      /\ b.sequences \in [0 .. b.length - 1 -> SequenceSet]
      /\ b.pos \in 0 .. b.length - 1
  BY LengthLemma DEF BufferInv, BufferType
<1>2. /\ seqs \in [0 .. b.length - 1 -> SequenceSet]
      /\ \A i \in 0 .. b.length - 1 : seqs[i] = IF i = p THEN seq ELSE b.sequences[i]
  BY <1>1 DEF SequenceInv
<1>3. /\ r.sequences = seqs /\ r.length = b.length
      /\ r.state_size = b.state_size /\ r.pos = q
  BY DEF Buffer
<1> HIDE DEF seqs, r
<1>4. BufferType(r)
  BY <1>1, <1>2, <1>3 DEF BufferType
<1>5. \A i \in Allocated(r) : i \in 0 .. b.length - 1 /\ i \in Allocated(b)
  BY <1>3 DEF Allocated
<1>6. \A i \in Allocated(r) : Exact(r.sequences[i]) /\ Matching(r.sequences[i])
  BY <1>2, <1>3, <1>5 DEF BufferInv, SequenceInv
<1>7. \A i \in Allocated(r) \ {r.pos} : FullOrEmpty(r.sequences[i])
  BY <1>2, <1>3, <1>5 DEF BufferInv
<1> QED BY <1>4, <1>6, <1>7 DEF BufferInv, r, seqs

(* The current sequence of a well-formed buffer is well formed. *)
LEMMA CurrentLemma ==
    ASSUME NEW b, BufferInv(b), b.sequences # NULL
    PROVE  /\ SequenceInv(Current(b)) /\ b.pos \in 0 .. b.length - 1
           /\ b.length \in Nat
BY LengthLemma DEF BufferInv, BufferType, Allocated, Current, SequenceInv

(* GB_rewind_push advances to a sequence with room. *)
LEMMA AdvancedLemma ==
    ASSUME NEW b, BufferInv(b), b.sequences # NULL
    PROVE  /\ BufferInv(Advanced(b)) /\ Advanced(b).sequences # NULL
           /\ Current(Advanced(b)).pos # FRAMES_PER_KEY
<1>1. CASE Current(b).pos # FRAMES_PER_KEY
  BY <1>1 DEF Advanced
<1>2. CASE Current(b).pos = FRAMES_PER_KEY
  <2> DEFINE n == NextPos(b)
  <2>1. n \in 0 .. b.length - 1
    BY CurrentLemma DEF NextPos
  <2>2. FullOrEmpty(b.sequences[b.pos])
    BY <1>2 DEF FullOrEmpty, Current
  <2>3. Advanced(b) = Buffer([b.sequences EXCEPT ![n] = EmptySequence],
                             b.length, b.state_size, n)
    BY <1>2 DEF Advanced
  <2> HIDE DEF n
  <2>4. BufferInv(Advanced(b))
    BY <2>1, <2>2, <2>3, EmptyLemma, ReplaceLemma
  <2>5. b.sequences \in [0 .. b.length - 1 -> SequenceSet]
    BY DEF BufferInv, BufferType
  <2>6. /\ Advanced(b).sequences = [b.sequences EXCEPT ![n] = EmptySequence]
        /\ Advanced(b).pos = n
    BY <2>3 DEF Buffer
  <2>7. Current(Advanced(b)) = EmptySequence
    BY <2>1, <2>5, <2>6 DEF Current
  <2>8. EmptySequence.pos # FRAMES_PER_KEY
    BY FramesAssumption DEF EmptySequence, Sequence
  <2>9. Advanced(b).sequences \in [0 .. b.length - 1 -> SequenceSet]
    BY <2>1, <2>5, <2>6, EmptyLemma DEF SequenceInv
  <2>10. b.length \in Lengths
    BY <2>1 DEF BufferInv, BufferType
  <2> QED BY <2>4, <2>7, <2>8, <2>9, <2>10, RingAssumption
<1> QED BY <1>1, <1>2

(* GB_rewind_push keeps a buffer well formed. *)
LEMMA PushLemma ==
    ASSUME NEW b, BufferInv(b), NEW s \in States, NEW size \in Sizes
    PROVE  BufferInv(PushOp(b, s, size))
<1> DEFINE p == Prepared(b, size)
           a == Advanced(p)
<1>1. BufferInv(p)
  BY PreparedLemma
<1>2. CASE p.sequences = NULL
  BY <1>1, <1>2 DEF PushOp
<1>3. CASE p.sequences # NULL
  <2>1. PushOp(b, s, size) = WithCurrent(a, Extended(Current(a), s))
    BY <1>3 DEF PushOp
  <2> HIDE DEF p
  <2>2. BufferInv(a) /\ Current(a).pos # FRAMES_PER_KEY
    BY <1>1, <1>3, AdvancedLemma
  <2>3. a.sequences # NULL
    BY <1>1, <1>3, AdvancedLemma
  <2> HIDE DEF a
  <2>4. a.pos \in 0 .. a.length - 1 /\ SequenceInv(Current(a))
    BY <2>2, <2>3, CurrentLemma
  <2>5. SequenceInv(Extended(Current(a), s))
    BY <2>2, <2>3, <2>4, ExtendedLemma
  <2> QED
    BY <2>1, <2>2, <2>3, <2>4, <2>5, ReplaceLemma DEF WithCurrent
<1> QED BY <1>2, <1>3

(* GB_rewind_pop keeps a buffer well formed and decodes a state that was   *)
(* saved.                                                                  *)
LEMMA PopLemma ==
    ASSUME NEW b, BufferInv(b), CanPop(b)
    PROVE  BufferInv(PopOp(b)) /\ PopState(b) \in States
<1> DEFINE q == IF Current(b).pos = 0 THEN PreviousPos(b) ELSE b.pos
<1>1. b.sequences # NULL /\ Current(b).key_state # NULL
  BY DEF CanPop
<1>2. SequenceInv(Current(b)) /\ b.pos \in 0 .. b.length - 1 /\ b.length \in Nat
  BY <1>1, CurrentLemma
<1>3. q \in 0 .. b.length - 1
  BY <1>2 DEF PreviousPos
<1>4. /\ SequenceInv(Shortened(Current(b)))
      /\ Current(b).pos = 0 => FullOrEmpty(Shortened(Current(b)))
      /\ Current(b).pos # 0 => Decoded(Current(b), Current(b).pos - 1) \in States
  BY <1>1, <1>2, ShortenedLemma
<1>5. PopOp(b) = Buffer([b.sequences EXCEPT ![b.pos] = Shortened(Current(b))],
                        b.length, b.state_size, q)
  BY DEF PopOp, Current
<1>6. b.pos # q => FullOrEmpty(Shortened(Current(b)))
  BY <1>4
<1>7. PopState(b) \in States
  BY <1>1, <1>2, <1>4 DEF PopState, SequenceInv, SequenceSet
<1> HIDE DEF q
<1>8. BufferInv(PopOp(b))
  BY <1>1, <1>2, <1>3, <1>4, <1>5, <1>6, ReplaceLemma
<1> QED BY <1>7, <1>8

-----------------------------------------------------------------------------
(* The inductive invariant of the specification. *)
IInv == BufferInv(buffer) /\ gb \in States /\ save_size \in Sizes

(* Every run keeps the inductive invariant: one step per call.             *)
THEOREM Invariance == Spec => []IInv
<1>1. Init => IInv
  BY DEF Init, IInv, NoBuffer, Buffer, BufferInv, BufferType, Allocated
<1>2. IInv /\ [Next]_vars => IInv'
  <2> SUFFICES ASSUME IInv, [Next]_vars
               PROVE  IInv'
    OBVIOUS
  <2> USE DEF IInv
  <2>1. CASE \E s \in States : Push(s)
    BY <2>1, PushLemma DEF Push
  <2>2. CASE Pop
    BY <2>2, PopLemma DEF Pop
  <2>3. CASE \E n \in Lengths : SetLength(n)
    BY <2>3, LengthsAssumption
    DEF SetLength, SetLengthOp, Buffer, BufferInv, BufferType, Allocated
  <2>4. CASE Reset
    BY <2>4 DEF Reset, ResetOp, Buffer, BufferInv, BufferType, Allocated
  <2>5. CASE \E s \in States, size \in Sizes : SwitchModelAndReset(s, size)
    <3>1. BufferInv(ResetOp(buffer))
      BY DEF ResetOp, Buffer, BufferInv, BufferType, Allocated
    <3> QED BY <2>5, <3>1, PushLemma DEF SwitchModelAndReset
  <2>6. CASE \E s \in States, size \in Sizes : External(s, size)
    BY <2>6 DEF External
  <2>7. CASE UNCHANGED vars
    BY <2>7 DEF vars
  <2> QED
    BY <2>1, <2>2, <2>3, <2>4, <2>5, <2>6, <2>7 DEF Next
<1> QED BY <1>1, <1>2, PTL DEF Spec

(* The fields of the buffer keep their types, and the running machine is   *)
(* never left in a state decoded with a wrong key.                         *)
THEOREM TypeCorrect == Spec => []TypeOK
<1>1. IInv => TypeOK
  BY DEF IInv, BufferInv, TypeOK
<1> QED BY <1>1, Invariance, PTL

(* GB_rewind_push and GB_rewind_pop keep every pointer of the ring exact:  *)
(* nothing is leaked, freed twice or decoded after its key is gone.        *)
THEOREM PointersAreExact == Spec => []PointersExact
<1>1. IInv => PointersExact
  BY DEF IInv, BufferInv, PointersExact
<1> QED BY <1>1, Invariance, PTL

(* Every difference in the ring belongs to the key it will be decoded      *)
(* with, whatever keys were freed and replaced before.                     *)
THEOREM DeltasAlwaysMatch == Spec => []DeltasMatchKey
<1>1. IInv => DeltasMatchKey
  BY DEF IInv, BufferInv, DeltasMatchKey
<1> QED BY <1>1, Invariance, PTL

(* A push and a pop across a sequence boundary always meet a full or an    *)
(* empty sequence.                                                         *)
THEOREM BoundariesAreClean == Spec => []OthersFullOrEmpty
<1>1. IInv => OthersFullOrEmpty
  BY DEF IInv, BufferInv, OthersFullOrEmpty
<1> QED BY <1>1, Invariance, PTL

-----------------------------------------------------------------------------
(* The ring implements RewindHistory.  Behind the current sequence there   *)
(* are n full ones, and then only empty ones; an empty one is current only *)
(* when the ring is empty.                                                 *)
PerKey == FRAMES_PER_KEY + 1

Shape(b, n) ==
    /\ n \in 0 .. b.length - 1
    /\ \A k \in 1 .. b.length - 1 : b.sequences[Back(b, k)].key_state # NULL <=> k <= n
    /\ Current(b).key_state = NULL => n = 0

RingInv(b) == BufferInv(b) /\ (b.sequences # NULL => \E n \in 0 .. b.length - 1 : Shape(b, n))

(* h is the history of the ring b, in which n full sequences are behind    *)
(* the current one.                                                        *)
Within(b, n, k, d) == k \in 0 .. n /\ d \in 0 .. FRAMES_PER_KEY /\ (k = n => d < Held(Current(b)))

Describes(h, b, n) ==
    /\ h \in Seq(States)
    /\ Len(h) = n * PerKey + Held(Current(b))
    /\ \A k, d : Within(b, n, k, d) => h[k * PerKey + d + 1] = StateAt(b.sequences[Back(b, n - k)], d)

(* The position of a state determines its sequence and its place in it.    *)
LEMMA PositionLemma ==
    ASSUME NEW k \in Nat, NEW d \in 0 .. FRAMES_PER_KEY
    PROVE  /\ k * PerKey \in Nat
           /\ (k * PerKey + d) \div PerKey = k
           /\ (k * PerKey + d) % PerKey = d
           /\ (k + 1) * PerKey = k * PerKey + PerKey
<1>1. PerKey \in Nat /\ PerKey > 0 /\ d \in 0 .. PerKey - 1 /\ d < PerKey
  BY FramesAssumption DEF PerKey
<1>2. k * PerKey \in Nat /\ k * PerKey + d \in Nat
  BY <1>1
<1>3. (k + 1) * PerKey = k * PerKey + PerKey
  BY <1>1
<1> HIDE DEF PerKey
<1> QED BY <1>1, <1>2, <1>3

(* Every position of a history is that of one state of one sequence.       *)
LEMMA QuotientLemma ==
    ASSUME NEW n \in Nat, NEW held \in 0 .. FRAMES_PER_KEY + 1, NEW i \in 1 .. n * PerKey + held
    PROVE  LET k == (i - 1) \div PerKey
               d == (i - 1) % PerKey
           IN  /\ k \in 0 .. n /\ d \in 0 .. FRAMES_PER_KEY /\ i = k * PerKey + d + 1
               /\ k = n => d < held
<1> DEFINE k == (i - 1) \div PerKey
           d == (i - 1) % PerKey
<1>1. PerKey \in Nat /\ PerKey > 0 /\ FRAMES_PER_KEY = PerKey - 1
  BY FramesAssumption DEF PerKey
<1> HIDE DEF PerKey
<1>2. n * PerKey \in Nat /\ i - 1 \in Nat /\ i - 1 < n * PerKey + held
  BY <1>1
<1>3. k \in Nat /\ d \in 0 .. PerKey - 1 /\ i - 1 = k * PerKey + d
  BY <1>1, <1>2
<1> HIDE DEF k, d
<1>4. k <= n
  <2> SUFFICES ASSUME k >= n + 1 PROVE FALSE
    BY <1>3
  <2>1. k * PerKey >= (n + 1) * PerKey
    BY <1>1, <1>3
  <2>2. (n + 1) * PerKey = n * PerKey + PerKey
    BY <1>1
  <2>3. k * PerKey \in Nat
    BY <1>1, <1>3
  <2> QED BY <1>1, <1>2, <1>3, <2>1, <2>2, <2>3
<1>5. k = n => d < held
  BY <1>2, <1>3
<1> QED BY <1>1, <1>3, <1>4, <1>5 DEF k, d

(* Every state of a sequence has a position in the history. *)
LEMMA IndexLemma ==
    ASSUME NEW n \in Nat, NEW held \in 0 .. FRAMES_PER_KEY + 1,
           NEW k \in 0 .. n, NEW d \in 0 .. FRAMES_PER_KEY, k = n => d < held
    PROVE  k * PerKey + d + 1 \in 1 .. n * PerKey + held
<1>1. PerKey \in Nat /\ PerKey = FRAMES_PER_KEY + 1 /\ FRAMES_PER_KEY \in Nat
  BY FramesAssumption DEF PerKey
<1>2. k * PerKey \in Nat /\ (k + 1) * PerKey = k * PerKey + PerKey
  BY PositionLemma
<1>3. CASE k = n
  BY <1>1, <1>2, <1>3
<1>4. CASE k < n
  <2>1. (k + 1) * PerKey <= n * PerKey /\ n * PerKey \in Nat
    BY <1>1, <1>4
  <2> QED BY <1>1, <1>2, <1>4, <2>1
<1> QED BY <1>3, <1>4

(* The sequences of a ring, by their distance from the current one. *)
LEMMA BackLemma ==
    ASSUME NEW b, BufferInv(b), b.sequences # NULL, NEW k \in 0 .. b.length - 1
    PROVE  /\ b.length \in Nat \ {0} /\ b.pos \in 0 .. b.length - 1
           /\ Back(b, k) \in 0 .. b.length - 1
           /\ Back(b, k) = b.pos <=> k = 0
           /\ \A j \in 0 .. b.length - 1 : Back(b, j) = Back(b, k) => j = k
BY CurrentLemma DEF Back

LEMMA HeldLemma ==
    ASSUME NEW seq, SequenceInv(seq)
    PROVE  /\ Held(seq) \in 0 .. FRAMES_PER_KEY + 1
           /\ \A d \in 0 .. FRAMES_PER_KEY : d < Held(seq) => StateAt(seq, d) \in States
           /\ FullOrEmpty(seq) /\ seq.key_state # NULL => Held(seq) = FRAMES_PER_KEY + 1
<1> USE FramesAssumption
<1>1. seq.pos \in 0 .. FRAMES_PER_KEY /\ seq.key_state \in States \union {NULL}
  BY DEF SequenceInv, SequenceSet
<1>2. CASE seq.key_state = NULL
  BY <1>2 DEF Held
<1>3. CASE seq.key_state # NULL
  <2>1. Held(seq) = seq.pos + 1
    BY <1>3 DEF Held
  <2>2. ASSUME NEW d \in 0 .. FRAMES_PER_KEY, d < Held(seq) PROVE StateAt(seq, d) \in States
    <3>1. CASE d = 0
      BY <1>1, <1>3, <3>1 DEF StateAt
    <3>2. CASE d # 0
      <4>1. d - 1 \in Deltas /\ d - 1 < seq.pos
        BY <1>1, <2>1, <2>2, <3>2 DEF Deltas
      <4>2. seq.compressed[d - 1] # NULL /\ seq.compressed[d - 1] \in DeltaSet \union {NULL}
        BY <4>1 DEF SequenceInv, Exact, SequenceSet
      <4>3. seq.compressed[d - 1].key = seq.key_state
        BY <4>1, <4>2 DEF SequenceInv, Matching
      <4> QED BY <3>2, <4>2, <4>3 DEF StateAt, Decoded, DeltaSet
    <3> QED BY <3>1, <3>2
  <2> QED BY <1>1, <1>3, <2>1, <2>2 DEF FullOrEmpty
<1> QED BY <1>2, <1>3

LEMMA BehindLemma ==
    ASSUME NEW b, BufferInv(b), b.sequences # NULL, NEW n, Shape(b, n)
    PROVE  Behind(b) = n
<1>1. b.length \in Nat /\ n \in 0 .. b.length - 1
  BY CurrentLemma DEF Shape
<1>2. {k \in 1 .. b.length - 1 : b.sequences[Back(b, k)].key_state # NULL} = 1 .. n
  BY <1>1 DEF Shape
<1>3. Cardinality(1 .. n) = n
  BY <1>1, FS_Interval
<1> QED BY <1>2, <1>3 DEF Behind

(* The states of the sequences behind the current one, and of itself. *)
LEMMA StoredLemma ==
    ASSUME NEW b, BufferInv(b), b.sequences # NULL, NEW n, Shape(b, n),
           NEW k, NEW d, Within(b, n, k, d)
    PROVE  StateAt(b.sequences[Back(b, n - k)], d) \in States
<1>1. b.length \in Nat /\ n \in 0 .. b.length - 1 /\ k \in 0 .. n /\ n - k \in 0 .. b.length - 1
  BY CurrentLemma DEF Shape, Within
<1>2. Back(b, n - k) \in 0 .. b.length - 1 /\ (Back(b, n - k) = b.pos <=> n - k = 0)
  BY <1>1, BackLemma
<1>3. SequenceInv(b.sequences[Back(b, n - k)])
  BY <1>2 DEF BufferInv, BufferType, Allocated, SequenceInv
<1>4. d < Held(b.sequences[Back(b, n - k)])
  <2>1. CASE k = n
    BY <1>1, <1>2, <2>1 DEF Within, Current
  <2>2. CASE k # n
    <3>1. n - k \in 1 .. b.length - 1 /\ n - k <= n
      BY <1>1, <2>2
    <3>2. b.sequences[Back(b, n - k)].key_state # NULL
      BY <3>1 DEF Shape
    <3>3. FullOrEmpty(b.sequences[Back(b, n - k)])
      BY <1>1, <1>2, <2>2 DEF BufferInv, Allocated
    <3>4. Held(b.sequences[Back(b, n - k)]) = FRAMES_PER_KEY + 1
      BY <1>3, <3>2, <3>3, HeldLemma
    <3> QED BY <3>4, FramesAssumption DEF Within
  <2> QED BY <2>1, <2>2
<1> QED BY <1>3, <1>4, HeldLemma DEF Within

LEMMA DescribedLemma ==
    ASSUME NEW b, BufferInv(b), b.sequences # NULL, NEW n, Shape(b, n)
    PROVE  Describes(HistoryOf(b), b, n)
<1> DEFINE size == n * PerKey + Held(Current(b))
           At(i) == StateAt(b.sequences[Back(b, n - ((i - 1) \div PerKey))], (i - 1) % PerKey)
<1>1. n \in Nat /\ n * PerKey \in Nat /\ Held(Current(b)) \in 0 .. FRAMES_PER_KEY + 1
  BY CurrentLemma, HeldLemma, FramesAssumption DEF Shape, PerKey
<1>2. HistoryOf(b) = [i \in 1 .. size |-> At(i)]
  BY BehindLemma DEF HistoryOf, PerKey
<1>3. size \in Nat
  BY <1>1, FramesAssumption
<1>4. \A i \in 1 .. size : At(i) \in States
  BY <1>1, QuotientLemma, StoredLemma DEF Within
<1>5. HistoryOf(b) \in Seq(States) /\ Len(HistoryOf(b)) = size
  BY <1>2, <1>3, <1>4, IsASeq
<1>6. ASSUME NEW k, NEW d, Within(b, n, k, d)
      PROVE  HistoryOf(b)[k * PerKey + d + 1] = StateAt(b.sequences[Back(b, n - k)], d)
  <2> DEFINE i == k * PerKey + d + 1
  <2>1. /\ k \in 0 .. n /\ k \in Nat /\ d \in 0 .. FRAMES_PER_KEY
        /\ k = n => d < Held(Current(b))
    BY <1>1, <1>6 DEF Within
  <2>2. k * PerKey \in Nat /\ (i - 1) \div PerKey = k /\ (i - 1) % PerKey = d
    <3>1. i - 1 = k * PerKey + d
      BY <2>1, PositionLemma, FramesAssumption DEF PerKey
    <3> HIDE DEF i
    <3> QED BY <2>1, <3>1, PositionLemma
  <2>3. i \in 1 .. size
    BY <1>1, <2>1, IndexLemma
  <2> HIDE DEF i, size
  <2>4. HistoryOf(b)[i] = At(i)
    BY <1>2, <2>3
  <2> QED BY <2>2, <2>4 DEF i
<1> QED BY <1>5, <1>6 DEF Describes

(* What describes a ring is its history. *)
LEMMA UniqueLemma ==
    ASSUME NEW b, BufferInv(b), b.sequences # NULL, NEW n, Shape(b, n),
           NEW h, Describes(h, b, n)
    PROVE  h = HistoryOf(b)
<1> DEFINE g == HistoryOf(b)
<1>1. Describes(g, b, n)
  BY DescribedLemma
<1>2. n \in Nat /\ Held(Current(b)) \in 0 .. FRAMES_PER_KEY + 1
  BY CurrentLemma, HeldLemma DEF Shape
<1> HIDE DEF g
<1>3. ASSUME NEW i \in 1 .. Len(h) PROVE h[i] = g[i]
  <2> DEFINE k == (i - 1) \div PerKey
             d == (i - 1) % PerKey
  <2>1. Within(b, n, k, d) /\ i = k * PerKey + d + 1
    BY <1>2, QuotientLemma DEF Within, Describes
  <2> HIDE DEF k, d
  <2> QED BY <1>1, <2>1 DEF Describes
<1>4. h \in Seq(States) /\ g \in Seq(States) /\ Len(h) = Len(g)
  BY <1>1 DEF Describes
<1>5. h = g
  BY <1>3, <1>4, SeqEqual
<1> QED BY <1>5 DEF g

(* A zeroed ring is empty. *)
LEMMA ZeroedLemma ==
    ASSUME NEW b, BufferInv(b), b.sequences # NULL,
           \A i \in 0 .. b.length - 1 : b.sequences[i] = EmptySequence
    PROVE  Shape(b, 0) /\ HistoryOf(b) = << >>
<1>1. b.length \in Nat \ {0} /\ b.pos \in 0 .. b.length - 1
  BY CurrentLemma
<1>2. EmptySequence.key_state = NULL
  BY DEF EmptySequence, Sequence
<1>3. \A k \in 1 .. b.length - 1 : Back(b, k) \in 0 .. b.length - 1
  BY <1>1 DEF Back
<1>4. Shape(b, 0)
  BY <1>1, <1>2, <1>3 DEF Shape
<1>5. Describes(<< >>, b, 0)
  <2>1. Current(b).key_state = NULL
    BY <1>1, <1>2 DEF Current
  <2>2. Held(Current(b)) = 0
    BY <2>1 DEF Held
  <2>3. 0 * PerKey = 0
    BY FramesAssumption DEF PerKey
  <2>4. \A k, d : ~Within(b, 0, k, d)
    BY <2>2 DEF Within
  <2>5. << >> \in Seq(States) /\ Len(<< >>) = 0
    OBVIOUS
  <2> QED BY <2>2, <2>3, <2>4, <2>5 DEF Describes
<1> QED BY <1>4, <1>5, UniqueLemma

(* A sequence with room takes a state as its last one. *)
LEMMA ExtendedStates ==
    ASSUME NEW seq, SequenceInv(seq), seq.pos # FRAMES_PER_KEY, NEW s \in States
    PROVE  LET more == Extended(seq, s)
           IN  /\ more.key_state # NULL
               /\ Held(more) = Held(seq) + 1
               /\ StateAt(more, Held(seq)) = s
               /\ \A d \in 0 .. FRAMES_PER_KEY : d < Held(seq) => StateAt(more, d) = StateAt(seq, d)
<1> USE FramesAssumption, NullAssumption
<1>1. seq.pos \in 0 .. FRAMES_PER_KEY - 1 /\ seq.key_state \in States \union {NULL}
      /\ seq.compressed \in [Deltas -> DeltaSet \union {NULL}] /\ seq.pos \in Deltas
  BY DEF SequenceInv, SequenceSet, Deltas
<1>2. CASE seq.key_state = NULL
  <2>1. /\ Extended(seq, s).key_state = s
        /\ Extended(seq, s).pos = 0 /\ Held(seq) = 0
    BY <1>2 DEF Extended, Sequence, SequenceInv, Exact, Held
  <2> QED BY <2>1 DEF Held, StateAt
<1>3. CASE seq.key_state # NULL
  <2> DEFINE c == [seq.compressed EXCEPT ![seq.pos] = Delta(seq.key_state, s)]
  <2>1. /\ Extended(seq, s).key_state = seq.key_state
        /\ Extended(seq, s).pos = seq.pos + 1
        /\ Extended(seq, s).compressed = c
    BY <1>3 DEF Extended, Sequence
  <2>2. \A d \in Deltas : c[d] = IF d = seq.pos THEN Delta(seq.key_state, s) ELSE seq.compressed[d]
    BY <1>1
  <2> HIDE DEF c
  <2>3. Delta(seq.key_state, s) # NULL /\ Delta(seq.key_state, s).key = seq.key_state
        /\ Delta(seq.key_state, s).state = s
    BY <1>1, <1>3 DEF Delta, DeltaSet
  <2>4. Held(seq) = seq.pos + 1 /\ Held(Extended(seq, s)) = seq.pos + 2
    BY <1>1, <1>3, <2>1 DEF Held
  <2>5. StateAt(Extended(seq, s), seq.pos + 1) = s
    BY <1>1, <2>1, <2>2, <2>3 DEF StateAt, Decoded
  <2>6. ASSUME NEW d \in 0 .. FRAMES_PER_KEY, d < seq.pos + 1
        PROVE  StateAt(Extended(seq, s), d) = StateAt(seq, d)
    <3>1. CASE d = 0
      BY <2>1, <3>1 DEF StateAt
    <3>2. CASE d # 0
      <4>1. d - 1 \in Deltas /\ d - 1 # seq.pos
        BY <1>1, <2>6, <3>2 DEF Deltas
      <4>2. c[d - 1] = seq.compressed[d - 1]
        BY <2>2, <4>1
      <4> QED BY <2>1, <3>2, <4>2 DEF StateAt, Decoded
    <3> QED BY <3>1, <3>2
  <2> QED BY <1>1, <1>3, <2>1, <2>4, <2>5, <2>6
<1> QED BY <1>2, <1>3

(* GB_rewind_push into a current sequence that has room. *)
LEMMA PushWithRoom ==
    ASSUME NEW b, BufferInv(b), b.sequences # NULL, NEW n, Shape(b, n),
           Current(b).pos # FRAMES_PER_KEY, NEW s \in States,
           NEW r, r = WithCurrent(b, Extended(Current(b), s)), BufferInv(r), r.sequences # NULL
    PROVE  Shape(r, n) /\ HistoryOf(r) = Append(HistoryOf(b), s)
<1> DEFINE h == HistoryOf(b)
           cur == Current(b)
           more == Extended(cur, s)
<1>1. /\ b.length \in Nat \ {0} /\ b.pos \in 0 .. b.length - 1 /\ SequenceInv(cur)
      /\ n \in 0 .. b.length - 1
  BY CurrentLemma DEF Shape
<1>2. /\ more.key_state # NULL
      /\ Held(more) = Held(cur) + 1
      /\ StateAt(more, Held(cur)) = s
      /\ \A d \in 0 .. FRAMES_PER_KEY : d < Held(cur) => StateAt(more, d) = StateAt(cur, d)
  BY <1>1, ExtendedStates
<1>3. b.sequences \in [0 .. b.length - 1 -> SequenceSet]
  BY DEF BufferInv, BufferType
<1> HIDE DEF more
<1>4. /\ r.length = b.length /\ r.pos = b.pos /\ Current(r) = more
      /\ \A i \in 0 .. b.length - 1 : i # b.pos => r.sequences[i] = b.sequences[i]
  BY <1>1, <1>3 DEF WithCurrent, Buffer, Current, more
<1>5. \A k : Back(r, k) = Back(b, k)
  BY <1>4 DEF Back
<1>6. \A k \in 0 .. b.length - 1 :
        /\ Back(b, k) \in 0 .. b.length - 1
        /\ Back(b, k) = b.pos <=> k = 0
  BY BackLemma
<1>7. Shape(r, n)
  BY <1>1, <1>2, <1>4, <1>5, <1>6 DEF Shape
<1>8. Describes(h, b, n)
  BY DescribedLemma
<1> HIDE DEF h
<1>9. /\ Append(h, s) \in Seq(States) /\ Len(Append(h, s)) = Len(h) + 1
      /\ \A i \in 1 .. Len(h) : Append(h, s)[i] = h[i]
      /\ Append(h, s)[Len(h) + 1] = s
  BY <1>8, AppendProperties DEF Describes
<1>10. Held(cur) \in 0 .. FRAMES_PER_KEY + 1 /\ n * PerKey \in Nat
  BY <1>1, HeldLemma, FramesAssumption DEF PerKey
<1>11. ASSUME NEW k, NEW d, Within(r, n, k, d)
       PROVE  Append(h, s)[k * PerKey + d + 1] = StateAt(r.sequences[Back(r, n - k)], d)
  <2>1. /\ k \in 0 .. n /\ n - k \in 0 .. b.length - 1 /\ k \in Nat /\ d \in 0 .. FRAMES_PER_KEY
        /\ k = n => d < Held(cur) + 1
    BY <1>1, <1>2, <1>4, <1>11 DEF Within
  <2>2. CASE k = n /\ d = Held(cur)
    <3>1. Append(h, s)[k * PerKey + d + 1] = s
      BY <1>8, <1>9, <2>2 DEF Describes
    <3>2. Back(r, n - k) = r.pos
      BY <1>4, <1>5, <1>6, <2>1, <2>2
    <3> QED BY <1>2, <1>4, <2>2, <3>1, <3>2 DEF Current
  <2>3. CASE ~(k = n /\ d = Held(cur))
    <3>1. Within(b, n, k, d)
      BY <1>10, <2>1, <2>3, FramesAssumption DEF Within
    <3>2. h[k * PerKey + d + 1] = StateAt(b.sequences[Back(b, n - k)], d)
      BY <1>8, <3>1 DEF Describes
    <3>3. k * PerKey + d + 1 \in 1 .. Len(h)
      BY <1>1, <1>8, <1>10, <3>1, IndexLemma DEF Describes, Within
    <3>4. StateAt(r.sequences[Back(r, n - k)], d) = StateAt(b.sequences[Back(b, n - k)], d)
      <4>1. CASE k = n
        BY <1>2, <1>4, <1>5, <1>6, <2>1, <2>3, <3>1, <4>1 DEF Current, Within
      <4>2. CASE k # n
        BY <1>1, <1>4, <1>5, <1>6, <2>1, <4>2
      <4> QED BY <4>1, <4>2
    <3> QED BY <1>9, <3>2, <3>3, <3>4
  <2> QED BY <2>2, <2>3
<1>12. Describes(Append(h, s), r, n)
  <2>1. Len(Append(h, s)) = n * PerKey + Held(Current(r))
    BY <1>2, <1>4, <1>8, <1>9, <1>10, FramesAssumption DEF Describes
  <2> QED BY <1>9, <1>11, <2>1 DEF Describes
<1> QED BY <1>7, <1>12, UniqueLemma DEF h

(* One step forward in the ring, every other sequence is one further back. *)
LEMMA ForwardLemma ==
    ASSUME NEW b, NEW r, b.length \in Nat, b.pos \in 0 .. b.length - 1,
           r.length = b.length, r.pos = NextPos(b), NEW k \in 1 .. b.length - 1
    PROVE  /\ Back(r, k) = Back(b, k - 1)
           /\ Back(b, k - 1) \in 0 .. b.length - 1
           /\ Back(b, k - 1) # NextPos(b)
<1>1. r.pos = IF b.pos + 1 = b.length THEN 0 ELSE b.pos + 1
  BY DEF NextPos
<1>2. Back(b, k - 1) = IF k - 1 <= b.pos THEN b.pos - (k - 1) ELSE b.pos - (k - 1) + b.length
  BY DEF Back
<1>3. Back(r, k) = IF k <= r.pos THEN r.pos - k ELSE r.pos - k + b.length
  BY DEF Back
<1>4. CASE k - 1 <= b.pos
  BY <1>1, <1>2, <1>3, <1>4
<1>5. CASE k - 1 > b.pos
  BY <1>1, <1>2, <1>3, <1>5
<1> QED BY <1>4, <1>5

(* GB_rewind_push out of a full sequence: the next one, with all that it   *)
(* holds, makes room for the state.  Behind the new one are the full       *)
(* sequences that were there, but for the m that made room, and the one    *)
(* that was current.                                                       *)
LEMMA PushIntoNext ==
    ASSUME NEW b, BufferInv(b), b.sequences # NULL, NEW n, Shape(b, n),
           Current(b).pos = FRAMES_PER_KEY, NEW s \in States,
           NEW r, r = WithCurrent(Advanced(b), Extended(Current(Advanced(b)), s)),
           BufferInv(r), r.sequences # NULL,
           NEW m \in {0, 1}, m = 1 <=> n = b.length - 1,
           NEW rest \in Seq(States), Len(rest) = Len(HistoryOf(b)) - m * PerKey,
           \A i \in 1 .. Len(rest) : rest[i] = HistoryOf(b)[i + m * PerKey],
           NEW p, p = n + 1 - m
    PROVE  Shape(r, p) /\ HistoryOf(r) = Append(rest, s)
<1> DEFINE h == HistoryOf(b)
           next == NextPos(b)
           one == Sequence(s, EmptySequence.compressed, 0)
<1> USE FramesAssumption
<1>1. /\ b.length \in Nat \ {0} /\ b.pos \in 0 .. b.length - 1 /\ SequenceInv(Current(b))
      /\ n \in 0 .. b.length - 1 /\ next \in 0 .. b.length - 1
  BY CurrentLemma DEF Shape, NextPos
<1>2. Current(b).key_state # NULL /\ Held(Current(b)) = PerKey
  BY <1>1 DEF SequenceInv, Exact, Held, PerKey
<1>3. b.sequences \in [0 .. b.length - 1 -> SequenceSet]
  BY DEF BufferInv, BufferType
<1>4. /\ r.length = b.length /\ r.pos = next
      /\ \A i \in 0 .. b.length - 1 : r.sequences[i] = IF i = next THEN one ELSE b.sequences[i]
  <2>1. Advanced(b) = Buffer([b.sequences EXCEPT ![next] = EmptySequence],
                             b.length, b.state_size, next)
    BY DEF Advanced
  <2> HIDE DEF next
  <2>2. Current(Advanced(b)) = EmptySequence
    BY <1>1, <1>3, <2>1 DEF Current, Buffer
  <2>3. Extended(EmptySequence, s) = one
    BY DEF Extended, EmptySequence, Sequence
  <2> HIDE DEF one
  <2> QED BY <1>1, <1>3, <2>1, <2>2, <2>3 DEF WithCurrent, Buffer
<1>5. one.key_state = s /\ one.pos = 0 /\ s # NULL
  BY NullAssumption DEF Sequence
<1> HIDE DEF one
<1>6. Held(one) = 1 /\ StateAt(one, 0) = s
  BY <1>5 DEF Held, StateAt
<1>7. Current(r) = one
  BY <1>1, <1>4 DEF Current
<1>8. ASSUME NEW k \in 1 .. b.length - 1
      PROVE  r.sequences[Back(r, k)] = b.sequences[Back(b, k - 1)]
  BY <1>1, <1>4, ForwardLemma
<1>9. Back(b, 0) = b.pos /\ Back(r, 0) = r.pos
  BY <1>1, <1>4 DEF Back
<1> HIDE DEF next
<1>10. p \in 0 .. b.length - 1
  BY <1>1
<1>11. Shape(r, p)
  <2>1. ASSUME NEW k \in 1 .. b.length - 1
        PROVE  r.sequences[Back(r, k)].key_state # NULL <=> k <= p
    <3>1. CASE k = 1
      BY <1>1, <1>2, <1>8, <1>9, <3>1 DEF Current
    <3>2. CASE k > 1
      <4>1. k - 1 \in 1 .. b.length - 1
        BY <1>1, <3>2
      <4>2. b.sequences[Back(b, k - 1)].key_state # NULL <=> k - 1 <= n
        BY <4>1 DEF Shape
      <4> QED BY <1>1, <1>8, <4>2
    <3> QED BY <3>1, <3>2
  <2> QED BY <1>4, <1>5, <1>7, <1>10, <2>1 DEF Shape
<1>12. Describes(h, b, n)
  BY DescribedLemma
<1> HIDE DEF h
<1>13. n * PerKey \in Nat /\ (n + 1) * PerKey = n * PerKey + PerKey /\ PerKey \in Nat /\ PerKey > 0
  BY <1>1 DEF PerKey
<1>14. Len(rest) = (p) * PerKey
  <2>1. Len(h) = n * PerKey + PerKey
    BY <1>2, <1>12 DEF Describes
  <2> QED BY <1>1, <1>13, <2>1 DEF h
<1>15. /\ Append(rest, s) \in Seq(States) /\ Len(Append(rest, s)) = Len(rest) + 1
       /\ \A i \in 1 .. Len(rest) : Append(rest, s)[i] = rest[i]
       /\ Append(rest, s)[Len(rest) + 1] = s
  BY AppendProperties
<1>16. ASSUME NEW k, NEW d, Within(r, p, k, d)
       PROVE  Append(rest, s)[k * PerKey + d + 1] = StateAt(r.sequences[Back(r, p - k)], d)
  <2>1. /\ k \in 0 .. p /\ k \in Nat /\ d \in 0 .. FRAMES_PER_KEY
        /\ k = p => d < 1
    BY <1>6, <1>7, <1>10, <1>16 DEF Within
  <2>2. CASE k = p
    <3>1. d = 0 /\ k * PerKey \in Nat
      BY <1>13, <2>1, <2>2
    <3>2. Append(rest, s)[k * PerKey + d + 1] = s
      BY <1>14, <1>15, <2>2, <3>1
    <3>3. p - k = 0
      BY <1>1, <2>1, <2>2
    <3>4. r.sequences[Back(r, p - k)] = one
      BY <1>7, <1>9, <3>3 DEF Current
    <3> QED BY <1>6, <3>1, <3>2, <3>4
  <2>3. CASE k # p
    <3>1. /\ k + m \in 0 .. n /\ p - k \in 1 .. b.length - 1
          /\ (p - k) - 1 = n - (k + m)
      <4>1. CASE m = 0
        BY <1>1, <1>10, <2>1, <2>3, <4>1
      <4>2. CASE m = 1
        BY <1>1, <1>10, <2>1, <2>3, <4>2
      <4> QED BY <4>1, <4>2
    <3>2. Within(b, n, k + m, d)
      BY <1>2, <2>1, <3>1 DEF Within, PerKey
    <3>3. h[(k + m) * PerKey + d + 1] = StateAt(b.sequences[Back(b, n - (k + m))], d)
      BY <1>12, <3>2 DEF Describes
    <3>4. r.sequences[Back(r, p - k)] = b.sequences[Back(b, n - (k + m))]
      BY <1>8, <3>1
    <3>5. /\ (k + m) * PerKey = k * PerKey + m * PerKey /\ k * PerKey \in Nat
          /\ m * PerKey \in Nat
      BY <1>13, <2>1
    <3>6. k * PerKey + d + 1 \in 1 .. Len(rest)
      <4>1. k * PerKey + d + 1 \in 1 .. (p) * PerKey + 0
        BY <1>10, <2>1, <2>3, IndexLemma
      <4> QED BY <1>14, <3>5, <4>1
    <3>7. rest[k * PerKey + d + 1] = h[(k + m) * PerKey + d + 1]
      <4>1. k * PerKey + d + 1 + m * PerKey = (k + m) * PerKey + d + 1
        BY <2>1, <3>5
      <4> QED BY <3>6, <4>1 DEF h
    <3> QED BY <1>15, <3>3, <3>4, <3>6, <3>7
  <2> QED BY <2>2, <2>3
<1>17. Len(Append(rest, s)) = p * PerKey + Held(Current(r))
  BY <1>6, <1>7, <1>13, <1>14, <1>15
<1>18. Describes(Append(rest, s), r, p)
  BY <1>15, <1>16, <1>17 DEF Describes
<1> QED BY <1>10, <1>11, <1>18, UniqueLemma

(* One step back in the ring, every other sequence is one less far back, *)
(* and the one that was current is the farthest.                         *)
LEMMA BackwardLemma ==
    ASSUME NEW b, NEW r, b.length \in Nat, b.pos \in 0 .. b.length - 1,
           r.length = b.length, r.pos = PreviousPos(b), NEW k \in 0 .. b.length - 1
    PROVE  /\ r.pos \in 0 .. b.length - 1
           /\ k < b.length - 1 => Back(r, k) = Back(b, k + 1)
           /\ k = b.length - 1 => Back(r, k) = b.pos
<1>1. r.pos = IF b.pos = 0 THEN b.length - 1 ELSE b.pos - 1
  BY DEF PreviousPos
<1>2. Back(b, k + 1) = IF k + 1 <= b.pos THEN b.pos - (k + 1) ELSE b.pos - (k + 1) + b.length
  BY DEF Back
<1>3. Back(r, k) = IF k <= r.pos THEN r.pos - k ELSE r.pos - k + b.length
  BY DEF Back
<1>4. CASE b.pos = 0
  BY <1>1, <1>2, <1>3, <1>4
<1>5. CASE b.pos > 0
  BY <1>1, <1>2, <1>3, <1>5
<1> QED BY <1>4, <1>5

(* A sequence that gives up its newest state keeps the others. *)
LEMMA ShortenedStates ==
    ASSUME NEW seq, SequenceInv(seq), seq.key_state # NULL
    PROVE  LET less == Shortened(seq)
           IN  /\ Held(less) = Held(seq) - 1
               /\ seq.pos = 0 <=> less.key_state = NULL
               /\ \A d \in 0 .. FRAMES_PER_KEY : d < Held(less) => StateAt(less, d) = StateAt(seq, d)
<1> USE FramesAssumption, NullAssumption
<1>1. seq.pos \in 0 .. FRAMES_PER_KEY /\ Held(seq) = seq.pos + 1
      /\ seq.compressed \in [Deltas -> DeltaSet \union {NULL}]
  BY DEF SequenceInv, SequenceSet, Held
<1>2. CASE seq.pos = 0
  <2>1. Shortened(seq).key_state = NULL
    BY <1>2 DEF Shortened, Sequence
  <2>2. Held(Shortened(seq)) = 0
    BY <2>1 DEF Held
  <2> QED BY <1>1, <1>2, <2>1, <2>2
<1>3. CASE seq.pos # 0
  <2> DEFINE c == [seq.compressed EXCEPT ![seq.pos - 1] = NULL]
  <2>1. /\ Shortened(seq).key_state = seq.key_state
        /\ Shortened(seq).pos = seq.pos - 1
        /\ Shortened(seq).compressed = c
    BY <1>3 DEF Shortened, Sequence
  <2>2. seq.pos - 1 \in Deltas
    BY <1>1, <1>3 DEF Deltas
  <2>3. \A d \in Deltas : d # seq.pos - 1 => c[d] = seq.compressed[d]
    BY <1>1, <2>2
  <2> HIDE DEF c
  <2>4. Held(Shortened(seq)) = seq.pos
    BY <1>1, <2>1 DEF Held
  <2>5. ASSUME NEW d \in 0 .. FRAMES_PER_KEY, d < seq.pos
        PROVE  StateAt(Shortened(seq), d) = StateAt(seq, d)
    <3>1. CASE d = 0
      BY <2>1, <3>1 DEF StateAt
    <3>2. CASE d # 0
      <4>1. d - 1 \in Deltas /\ d - 1 # seq.pos - 1
        BY <1>1, <2>5, <3>2 DEF Deltas
      <4> QED BY <2>1, <2>3, <3>2, <4>1 DEF StateAt, Decoded
    <3> QED BY <3>1, <3>2
  <2> QED BY <1>1, <1>3, <2>1, <2>4, <2>5
<1> QED BY <1>2, <1>3

(* The newest state of the history is the one GB_rewind_pop loads. *)
LEMMA NewestLemma ==
    ASSUME NEW b, BufferInv(b), CanPop(b), NEW n, Shape(b, n)
    PROVE  /\ HistoryOf(b) \in Seq(States) /\ Len(HistoryOf(b)) > 0
           /\ HistoryOf(b)[Len(HistoryOf(b))] = PopState(b)
<1> DEFINE h == HistoryOf(b)
           cur == Current(b)
<1>1. b.sequences # NULL /\ cur.key_state # NULL
  BY DEF CanPop
<1>2. /\ b.length \in Nat \ {0} /\ b.pos \in 0 .. b.length - 1 /\ SequenceInv(cur)
      /\ n \in 0 .. b.length - 1
  BY <1>1, CurrentLemma DEF Shape
<1>3. cur.pos \in 0 .. FRAMES_PER_KEY /\ Held(cur) = cur.pos + 1
  BY <1>1, <1>2 DEF SequenceInv, SequenceSet, Held
<1>4. Describes(h, b, n)
  BY <1>1, DescribedLemma
<1>5. n * PerKey \in Nat
  BY <1>2, FramesAssumption DEF PerKey
<1>6. Len(h) = n * PerKey + cur.pos + 1 /\ h \in Seq(States)
  BY <1>3, <1>4, <1>5 DEF Describes
<1>7. Within(b, n, n, cur.pos)
  BY <1>2, <1>3, FramesAssumption DEF Within
<1>8. h[n * PerKey + cur.pos + 1] = StateAt(b.sequences[Back(b, n - n)], cur.pos)
  BY <1>4, <1>7 DEF Describes
<1>9. Back(b, n - n) = b.pos
  BY <1>2 DEF Back
<1>10. StateAt(cur, cur.pos) = PopState(b)
  BY DEF StateAt, PopState
<1> HIDE DEF h
<1>11. h[Len(h)] = PopState(b)
  BY <1>6, <1>8, <1>9, <1>10 DEF Current
<1> QED BY <1>3, <1>5, <1>6, <1>11, FramesAssumption DEF h

(* GB_rewind_pop out of a sequence that keeps its key. *)
LEMMA PopWithin ==
    ASSUME NEW b, BufferInv(b), CanPop(b), NEW n, Shape(b, n), Current(b).pos # 0,
           NEW r, r = PopOp(b), BufferInv(r), r.sequences # NULL,
           NEW rest \in Seq(States), Len(rest) = Len(HistoryOf(b)) - 1,
           \A i \in 1 .. Len(rest) : rest[i] = HistoryOf(b)[i]
    PROVE  Shape(r, n) /\ HistoryOf(r) = rest
<1> DEFINE h == HistoryOf(b)
           cur == Current(b)
           less == Shortened(cur)
<1>1. b.sequences # NULL /\ cur.key_state # NULL
  BY DEF CanPop
<1>2. /\ b.length \in Nat \ {0} /\ b.pos \in 0 .. b.length - 1 /\ SequenceInv(cur)
      /\ n \in 0 .. b.length - 1
  BY <1>1, CurrentLemma DEF Shape
<1>3. /\ less.key_state # NULL
      /\ Held(less) = Held(cur) - 1
      /\ \A d \in 0 .. FRAMES_PER_KEY : d < Held(less) => StateAt(less, d) = StateAt(cur, d)
  BY <1>1, <1>2, ShortenedStates
<1>4. b.sequences \in [0 .. b.length - 1 -> SequenceSet]
  BY <1>1 DEF BufferInv, BufferType
<1>5. /\ r.length = b.length /\ r.pos = b.pos /\ Current(r) = less
      /\ \A i \in 0 .. b.length - 1 : i # b.pos => r.sequences[i] = b.sequences[i]
  BY <1>2, <1>4 DEF PopOp, Buffer, Current
<1> HIDE DEF less
<1>6. \A k : Back(r, k) = Back(b, k)
  BY <1>5 DEF Back
<1>7. \A k \in 0 .. b.length - 1 :
        /\ Back(b, k) \in 0 .. b.length - 1
        /\ Back(b, k) = b.pos <=> k = 0
  BY <1>1, BackLemma
<1>8. Shape(r, n)
  <2>1. ASSUME NEW k \in 1 .. b.length - 1
        PROVE  r.sequences[Back(r, k)].key_state # NULL <=> k <= n
    <3>1. Back(b, k) \in 0 .. b.length - 1 /\ Back(b, k) # b.pos
      BY <1>2, <1>7
    <3>2. r.sequences[Back(r, k)] = b.sequences[Back(b, k)]
      BY <1>5, <1>6, <3>1
    <3> QED BY <3>2 DEF Shape
  <2> QED BY <1>2, <1>3, <1>5, <2>1 DEF Shape
<1>9. Describes(h, b, n)
  BY <1>1, DescribedLemma
<1>10. Held(cur) \in 0 .. FRAMES_PER_KEY + 1 /\ n * PerKey \in Nat
  BY <1>2, HeldLemma, FramesAssumption DEF PerKey
<1>11. Len(rest) = n * PerKey + Held(less) /\ Held(less) \in 0 .. FRAMES_PER_KEY + 1
  <2>1. Len(h) = n * PerKey + Held(cur)
    BY <1>9 DEF Describes
  <2>2. Held(less) \in 0 .. FRAMES_PER_KEY + 1
    BY <1>3, <1>5, CurrentLemma, HeldLemma
  <2> QED BY <1>3, <1>10, <2>1, <2>2, FramesAssumption DEF h
<1>12. ASSUME NEW k, NEW d, Within(r, n, k, d)
       PROVE  rest[k * PerKey + d + 1] = StateAt(r.sequences[Back(r, n - k)], d)
  <2>1. /\ k \in 0 .. n /\ n - k \in 0 .. b.length - 1 /\ k \in Nat /\ d \in 0 .. FRAMES_PER_KEY
        /\ k = n => d < Held(less)
    BY <1>2, <1>5, <1>12 DEF Within
  <2>2. Within(b, n, k, d)
    BY <1>3, <1>10, <1>11, <2>1, FramesAssumption DEF Within
  <2>3. h[k * PerKey + d + 1] = StateAt(b.sequences[Back(b, n - k)], d)
    BY <1>9, <2>2 DEF Describes
  <2>4. k * PerKey + d + 1 \in 1 .. Len(rest)
    BY <1>2, <1>11, <2>1, IndexLemma
  <2>5. StateAt(r.sequences[Back(r, n - k)], d) = StateAt(b.sequences[Back(b, n - k)], d)
    <3>1. CASE k = n
      BY <1>3, <1>5, <1>6, <1>7, <2>1, <3>1 DEF Current
    <3>2. CASE k # n
      <4>1. n - k # 0
        BY <1>2, <2>1, <3>2
      <4>2. Back(b, n - k) \in 0 .. b.length - 1 /\ Back(b, n - k) # b.pos
        BY <1>7, <2>1, <4>1
      <4> QED BY <1>5, <1>6, <4>2
    <3> QED BY <3>1, <3>2
  <2> QED BY <2>3, <2>4, <2>5 DEF h
<1>13. Describes(rest, r, n)
  BY <1>5, <1>11, <1>12 DEF Describes
<1> QED BY <1>8, <1>13, UniqueLemma

(* GB_rewind_pop that frees the key of the current sequence steps back to  *)
(* the previous one, which is full, or empty as is then the whole ring.    *)
LEMMA PopBack ==
    ASSUME NEW b, BufferInv(b), CanPop(b), NEW n, Shape(b, n), Current(b).pos = 0,
           NEW r, r = PopOp(b), BufferInv(r), r.sequences # NULL,
           NEW rest \in Seq(States), Len(rest) = Len(HistoryOf(b)) - 1,
           \A i \in 1 .. Len(rest) : rest[i] = HistoryOf(b)[i],
           NEW p, p = IF n = 0 THEN 0 ELSE n - 1
    PROVE  Shape(r, p) /\ HistoryOf(r) = rest
<1> DEFINE h == HistoryOf(b)
           cur == Current(b)
           less == Shortened(cur)
<1>1. b.sequences # NULL /\ cur.key_state # NULL
  BY DEF CanPop
<1>2. /\ b.length \in Nat \ {0} /\ b.pos \in 0 .. b.length - 1 /\ SequenceInv(cur)
      /\ n \in 0 .. b.length - 1 /\ p \in 0 .. b.length - 1
  BY <1>1, CurrentLemma DEF Shape
<1>3. less.key_state = NULL /\ Held(cur) = 1
  BY <1>1, <1>2, ShortenedStates DEF Held
<1>4. b.sequences \in [0 .. b.length - 1 -> SequenceSet]
  BY <1>1 DEF BufferInv, BufferType
<1>5. /\ r.length = b.length /\ r.pos = PreviousPos(b)
      /\ r.sequences[b.pos] = less
      /\ \A i \in 0 .. b.length - 1 : i # b.pos => r.sequences[i] = b.sequences[i]
  BY <1>2, <1>4 DEF PopOp, Buffer, Current
<1> HIDE DEF less
<1>6. ASSUME NEW k \in 0 .. b.length - 2
      PROVE  r.sequences[Back(r, k)] = b.sequences[Back(b, k + 1)]
  <2>1. k \in 0 .. b.length - 1 /\ k < b.length - 1 /\ k + 1 \in 0 .. b.length - 1 /\ k + 1 # 0
    BY <1>2
  <2>2. Back(r, k) = Back(b, k + 1)
    <3>1. b.length \in Nat /\ b.pos \in 0 .. b.length - 1
      BY <1>2
    <3> QED BY <1>5, <2>1, <3>1, BackwardLemma
  <2>3. Back(b, k + 1) \in 0 .. b.length - 1 /\ Back(b, k + 1) # b.pos
    BY <1>1, <2>1, BackLemma
  <2> QED BY <1>5, <2>2, <2>3
<1>7. r.sequences[Back(r, b.length - 1)] = less
  BY <1>2, <1>5, BackwardLemma
<1>8. Current(r) = r.sequences[Back(r, 0)]
  BY <1>2, <1>5, BackwardLemma DEF Back, Current
<1>9. \A k \in 1 .. b.length - 1 : b.sequences[Back(b, k)].key_state # NULL <=> k <= n
  BY DEF Shape
<1>10. Describes(h, b, n)
  BY <1>1, DescribedLemma
<1>11. n * PerKey \in Nat /\ Len(rest) = n * PerKey
  <2>1. n * PerKey \in Nat
    BY <1>2, FramesAssumption DEF PerKey
  <2>2. Len(h) = n * PerKey + 1
    BY <1>3, <1>10 DEF Describes
  <2> QED BY <2>1, <2>2
<1>12. \A k \in 1 .. b.length - 1 : r.sequences[Back(r, k)].key_state # NULL <=> k <= p
  <2>1. ASSUME NEW k \in 1 .. b.length - 1
        PROVE  r.sequences[Back(r, k)].key_state # NULL <=> k <= p
    <3>1. CASE k = b.length - 1
      BY <1>2, <1>3, <1>7, <3>1
    <3>2. CASE k < b.length - 1
      <4>1. k \in 0 .. b.length - 2 /\ k + 1 \in 1 .. b.length - 1
        BY <1>2, <3>2
      <4>2. r.sequences[Back(r, k)].key_state # NULL <=> k + 1 <= n
        BY <1>6, <1>9, <4>1
      <4> QED BY <1>2, <4>2
    <3> QED BY <1>2, <3>1, <3>2
  <2> QED BY <2>1
<1>13. CASE n = 0
  <2>1. Current(r).key_state = NULL
    <3>1. CASE b.length = 1
      BY <1>3, <1>7, <1>8, <3>1
    <3>2. CASE b.length # 1
      <4>1. 0 \in 0 .. b.length - 2 /\ 0 + 1 \in 1 .. b.length - 1 /\ ~(0 + 1 <= n)
        BY <1>2, <1>13, <3>2
      <4> QED BY <1>6, <1>8, <1>9, <4>1
    <3> QED BY <3>1, <3>2
  <2>2. Shape(r, p)
    BY <1>2, <1>5, <1>12, <1>13 DEF Shape
  <2>3. Held(Current(r)) = 0 /\ Len(rest) = 0 /\ 0 * PerKey = 0
    BY <1>11, <1>13, <2>1, FramesAssumption DEF Held, PerKey
  <2>4. \A k, d : ~Within(r, 0, k, d)
    BY <2>3 DEF Within
  <2>5. Describes(rest, r, 0)
    <3>1. Len(rest) = 0 * PerKey + Held(Current(r))
      BY <2>3, FramesAssumption DEF PerKey
    <3> QED BY <2>4, <3>1, Zenon DEF Describes
  <2>6. p = 0
    BY <1>13
  <2> QED BY <2>2, <2>5, <2>6, UniqueLemma
<1>14. CASE n # 0
  <2>1. p = n - 1 /\ p \in Nat /\ n = p + 1 /\ b.length > 1 /\ 0 \in 0 .. b.length - 2
        /\ 0 + 1 = 1 /\ 1 \in 1 .. b.length - 1 /\ 1 <= n
    BY <1>2, <1>14
  <2>2. Current(r) = b.sequences[Back(b, 1)] /\ Current(r).key_state # NULL
    BY <1>6, <1>8, <1>9, <2>1
  <2>3. Held(Current(r)) = PerKey
    <3>1. Back(b, 1) \in 0 .. b.length - 1 /\ Back(b, 1) # b.pos
      BY <1>1, <2>1, BackLemma
    <3>2. FullOrEmpty(b.sequences[Back(b, 1)])
      BY <1>1, <3>1 DEF BufferInv, Allocated
    <3> QED BY <2>2, <3>2, CurrentLemma, HeldLemma DEF PerKey
  <2>4. Shape(r, p)
    BY <1>2, <1>5, <1>12, <2>2 DEF Shape
  <2>5. Len(rest) = p * PerKey + Held(Current(r))
    <3>1. n * PerKey = p * PerKey + PerKey
      BY <2>1, FramesAssumption DEF PerKey
    <3> QED BY <1>11, <2>3, <3>1
  <2>6. ASSUME NEW k, NEW d, Within(r, p, k, d)
        PROVE  rest[k * PerKey + d + 1] = StateAt(r.sequences[Back(r, p - k)], d)
    <3>1. /\ k \in 0 .. p /\ k \in 0 .. n /\ k # n /\ k \in Nat /\ d \in 0 .. FRAMES_PER_KEY
          /\ p - k \in 0 .. b.length - 2 /\ (p - k) + 1 = n - k
          /\ k = p => d < Held(Current(r))
      BY <1>2, <2>1, <2>6 DEF Within
    <3>2. h[k * PerKey + d + 1] = StateAt(b.sequences[Back(b, n - k)], d)
      BY <1>10, <3>1 DEF Describes, Within
    <3>3. r.sequences[Back(r, p - k)] = b.sequences[Back(b, n - k)]
      BY <1>6, <3>1
    <3>4. k * PerKey + d + 1 \in 1 .. Len(rest)
      <4>1. Held(Current(r)) \in 0 .. FRAMES_PER_KEY + 1
        BY <2>3, FramesAssumption DEF PerKey
      <4> QED BY <2>1, <2>5, <3>1, <4>1, IndexLemma
    <3> QED BY <3>2, <3>3, <3>4
  <2>7. Describes(rest, r, p)
    BY <2>5, <2>6 DEF Describes
  <2> QED BY <2>4, <2>7, UniqueLemma
<1> QED BY <1>13, <1>14

(* Writing the current sequence leaves an allocated ring. *)
LEMMA WrittenLemma ==
    ASSUME NEW b, BufferInv(b), b.sequences # NULL, NEW seq, SequenceInv(seq),
           NEW i \in 0 .. b.length - 1, NEW pos
    PROVE  LET r == Buffer([b.sequences EXCEPT ![i] = seq], b.length, b.state_size, pos)
           IN  /\ r.sequences # NULL /\ r.length = b.length /\ r.state_size = b.state_size
<1>1. b.sequences \in [0 .. b.length - 1 -> SequenceSet] /\ b.length \in Lengths \union {0}
  BY DEF BufferInv, BufferType
<1>2. b.length \in Lengths
  BY <1>1
<1>3. [b.sequences EXCEPT ![i] = seq] \in [0 .. b.length - 1 -> SequenceSet]
  BY <1>1 DEF SequenceInv
<1>4. [b.sequences EXCEPT ![i] = seq] # NULL
  BY <1>2, <1>3, RingAssumption
<1> QED BY <1>4 DEF Buffer

(* The first part of GB_rewind_push keeps the states of the right size. *)
LEMMA PreparedHistory ==
    ASSUME NEW b, RingInv(b), NEW size \in Sizes
    PROVE  LET p == Prepared(b, size)
           IN  /\ RingInv(p) /\ p.length = b.length /\ p.state_size = size
               /\ p.sequences = NULL <=> b.length = 0
               /\ HistoryOf(p) = IF b.state_size # size THEN << >> ELSE HistoryOf(b)
<1> DEFINE p == Prepared(b, size)
<1>1. BufferInv(b) /\ BufferInv(p)
  BY PreparedLemma DEF RingInv
<1>2. b.length = 0 => b.sequences = NULL
  BY <1>1, CurrentLemma
<1>3. CASE b.state_size = size /\ b.sequences # NULL
  <2>1. p = b
    BY <1>3 DEF Prepared, Resized
  <2> QED BY <1>2, <1>3, <2>1
<1>4. CASE ~(b.state_size = size /\ b.sequences # NULL)
  <2> DEFINE sized == Resized(b, size)
  <2>1. sized.sequences = NULL /\ sized.length = b.length /\ sized.state_size = size
    BY <1>4 DEF Resized, Buffer
  <2>2. b.state_size = size => HistoryOf(b) = << >>
    BY <1>4 DEF HistoryOf
  <2> HIDE DEF sized
  <2>3. CASE b.length = 0
    <3>1. p = sized
      BY <2>1, <2>3 DEF Prepared, sized
    <3>2. HistoryOf(p) = << >>
      BY <2>1, <3>1 DEF HistoryOf
    <3> QED BY <1>1, <2>1, <2>2, <2>3, <3>1, <3>2 DEF RingInv
  <2>4. CASE b.length # 0
    <3> DEFINE seqs == [i \in 0 .. b.length - 1 |-> EmptySequence]
    <3>1. p = Buffer(seqs, b.length, size, 0)
      BY <2>1, <2>4 DEF Prepared, sized
    <3>2. b.length \in Lengths
      BY <1>1, <2>4 DEF BufferInv, BufferType
    <3>3. seqs \in [0 .. b.length - 1 -> SequenceSet]
      BY EmptyLemma DEF SequenceInv
    <3>4. seqs # NULL
      BY <3>2, <3>3, RingAssumption
    <3>5. \A i \in 0 .. b.length - 1 : seqs[i] = EmptySequence
      OBVIOUS
    <3> HIDE DEF seqs, p
    <3>6. /\ p.sequences = seqs /\ p.length = b.length /\ p.state_size = size
      BY <3>1 DEF Buffer
    <3>7. Shape(p, 0) /\ HistoryOf(p) = << >>
      BY <1>1, <3>4, <3>5, <3>6, ZeroedLemma
    <3>8. 0 \in 0 .. p.length - 1
      BY <1>1, <3>4, <3>6, CurrentLemma
    <3>9. RingInv(p)
      BY <1>1, <3>7, <3>8 DEF RingInv
    <3> QED BY <2>2, <2>4, <3>4, <3>6, <3>7, <3>9 DEF p
  <2> QED BY <2>3, <2>4
<1> QED BY <1>3, <1>4

(* GB_rewind_push of a state of the right size into an allocated ring. *)
LEMMA RecordLemma ==
    ASSUME NEW b, RingInv(b), b.sequences # NULL, NEW s \in States
    PROVE  LET h == HistoryOf(b)
               r == WithCurrent(Advanced(b), Extended(Current(Advanced(b)), s))
           IN  /\ RingInv(r) /\ r.length = b.length /\ r.state_size = b.state_size
               /\ HistoryOf(r) = Append(IF Len(h) = b.length * (FRAMES_PER_KEY + 1)
                                        THEN SubSeq(h, FRAMES_PER_KEY + 2, Len(h)) ELSE h, s)
<1> DEFINE h == HistoryOf(b)
           a == Advanced(b)
           r == WithCurrent(a, Extended(Current(a), s))
<1> USE FramesAssumption
<1>1. BufferInv(b)
  BY DEF RingInv
<1>2. PICK n : Shape(b, n)
  BY DEF RingInv
<1>3. /\ b.length \in Nat \ {0} /\ b.pos \in 0 .. b.length - 1 /\ SequenceInv(Current(b))
      /\ n \in 0 .. b.length - 1
  BY <1>1, <1>2, CurrentLemma DEF Shape
<1>4. BufferInv(a) /\ a.sequences # NULL /\ Current(a).pos # FRAMES_PER_KEY
  BY <1>1, AdvancedLemma
<1>5. a.length = b.length /\ a.state_size = b.state_size
  BY DEF Advanced, Buffer
<1> HIDE DEF a
<1>6. SequenceInv(Extended(Current(a), s)) /\ a.pos \in 0 .. a.length - 1
  BY <1>4, CurrentLemma, ExtendedLemma
<1>7. BufferInv(r) /\ r.sequences # NULL /\ r.length = b.length /\ r.state_size = b.state_size
  BY <1>4, <1>5, <1>6, ReplaceLemma, WrittenLemma DEF WithCurrent
<1>8. Describes(h, b, n)
  BY <1>1, <1>2, DescribedLemma
<1>9. Held(Current(b)) \in 0 .. PerKey /\ PerKey \in Nat /\ PerKey > 0 /\ PerKey = FRAMES_PER_KEY + 1
  BY <1>3, HeldLemma DEF PerKey
<1>10. Len(h) = n * PerKey + Held(Current(b)) /\ h \in Seq(States)
  BY <1>8 DEF Describes
<1> HIDE DEF h, r
<1>11. CASE Current(b).pos # FRAMES_PER_KEY
  <2>1. a = b
    BY <1>11 DEF Advanced, a
  <2>2. Shape(r, n) /\ HistoryOf(r) = Append(h, s)
    BY <1>1, <1>2, <1>7, <1>11, <2>1, PushWithRoom DEF r, h
  <2>3. Held(Current(b)) < PerKey
    BY <1>3, <1>9, <1>11 DEF Held, SequenceInv, SequenceSet
  <2>4. Len(h) # b.length * (FRAMES_PER_KEY + 1)
    <3>1. n * PerKey \in Nat /\ b.length * PerKey \in Nat
      BY <1>3, <1>9
    <3>2. (n + 1) * PerKey = n * PerKey + PerKey
      BY <1>3, <1>9
    <3>3. (n + 1) * PerKey <= b.length * PerKey
      BY <1>3, <1>9
    <3> QED BY <1>9, <1>10, <2>3, <3>1, <3>2, <3>3
  <2> QED BY <1>3, <1>7, <2>2, <2>4 DEF RingInv, h, r, a
<1>12. CASE Current(b).pos = FRAMES_PER_KEY
  <2> DEFINE m == IF n = b.length - 1 THEN 1 ELSE 0
             rest == IF Len(h) = b.length * PerKey
                  THEN SubSeq(h, PerKey + 1, Len(h)) ELSE h
  <2>1. Held(Current(b)) = PerKey
    BY <1>3, <1>9, <1>12 DEF Held, SequenceInv, Exact
  <2>2. n * PerKey \in Nat /\ Len(h) = n * PerKey + PerKey /\ (n + 1) * PerKey = n * PerKey + PerKey
    BY <1>3, <1>9, <1>10, <2>1
  <2>3. Len(h) = b.length * PerKey <=> m = 1
    <3>1. CASE n = b.length - 1
      <4>1. n + 1 = b.length
        BY <1>3, <3>1
      <4> QED BY <2>2, <3>1, <4>1
    <3>2. CASE n # b.length - 1
      <4>1. n + 2 <= b.length /\ b.length * PerKey \in Nat
        BY <1>3, <1>9, <3>2
      <4>2. (n + 2) * PerKey <= b.length * PerKey
        BY <1>3, <1>9, <4>1
      <4>3. (n + 2) * PerKey = n * PerKey + PerKey + PerKey
        BY <1>3, <1>9
      <4> QED BY <1>9, <2>2, <3>2, <4>1, <4>2, <4>3
    <3> QED BY <3>1, <3>2
  <2>4. m \in {0, 1} /\ (m = 1 <=> n = b.length - 1) /\ n + 1 - m \in 0 .. b.length - 1
    BY <1>3
  <2> HIDE DEF m
  <2>5. /\ rest \in Seq(States) /\ Len(rest) = Len(h) - m * PerKey
        /\ \A i \in 1 .. Len(rest) : rest[i] = h[i + m * PerKey]
    <3>1. CASE m = 0
      <4>1. rest = h /\ m * PerKey = 0
        BY <1>9, <2>3, <3>1
      <4> HIDE DEF rest
      <4>2. Len(rest) = Len(h) - m * PerKey
        BY <1>10, <4>1
      <4>3. \A i \in 1 .. Len(rest) : rest[i] = h[i + m * PerKey]
        BY <4>1
      <4> QED BY <1>10, <4>1, <4>2, <4>3
    <3>2. CASE m = 1
      <4>1. rest = SubSeq(h, PerKey + 1, Len(h)) /\ m * PerKey = PerKey
        BY <1>9, <2>3, <3>2
      <4>2. \A i \in PerKey + 1 .. Len(h) : h[i] \in States
        BY <1>9, <1>10
      <4>3. Len(h) \in Int /\ PerKey + 1 \in Int /\ Len(h) >= PerKey
        BY <1>9, <1>10, <2>2
      <4> HIDE DEF rest
      <4>4. /\ SubSeq(h, PerKey + 1, Len(h)) \in Seq(States)
            /\ Len(SubSeq(h, PerKey + 1, Len(h)))
                 = IF PerKey + 1 <= Len(h) THEN Len(h) - (PerKey + 1) + 1 ELSE 0
            /\ \A i \in 1 .. Len(h) - (PerKey + 1) + 1 :
                 SubSeq(h, PerKey + 1, Len(h))[i] = h[PerKey + 1 + i - 1]
        BY <4>2, <4>3, SubSeqProperties
      <4>5. Len(rest) = Len(h) - PerKey
        BY <1>9, <4>1, <4>3, <4>4
      <4>6. \A i \in 1 .. Len(rest) : rest[i] = h[i + PerKey]
        <5>1. ASSUME NEW i \in 1 .. Len(rest) PROVE rest[i] = h[i + PerKey]
          <6>1. PerKey + 1 + i - 1 = i + PerKey /\ i \in 1 .. Len(h) - (PerKey + 1) + 1
            BY <1>9, <4>3, <4>5
          <6> QED BY <4>1, <4>4, <6>1
        <5> QED BY <5>1
      <4> QED BY <4>1, <4>4, <4>5, <4>6
    <3> QED BY <2>4, <3>1, <3>2
  <2> HIDE DEF rest
  <2>6. Shape(r, n + 1 - m) /\ HistoryOf(r) = Append(rest, s)
    BY <1>1, <1>2, <1>7, <1>12, <2>4, <2>5, PushIntoNext DEF r, a, h
  <2>7. rest = IF Len(h) = b.length * (FRAMES_PER_KEY + 1)
            THEN SubSeq(h, FRAMES_PER_KEY + 2, Len(h)) ELSE h
    BY DEF rest, PerKey
  <2>8. RingInv(r)
    BY <1>7, <2>4, <2>6 DEF RingInv
  <2> QED BY <1>7, <2>6, <2>7, <2>8 DEF h, r, a
<1> QED BY <1>11, <1>12

(* GB_rewind_push. *)
LEMMA PushHistory ==
    ASSUME NEW b, RingInv(b), NEW s \in States, NEW size \in Sizes
    PROVE  LET h == HistoryOf(b)
               r == PushOp(b, s, size)
               kept == IF b.state_size # size THEN << >>
                       ELSE IF Len(h) = b.length * (FRAMES_PER_KEY + 1)
                            THEN SubSeq(h, FRAMES_PER_KEY + 2, Len(h)) ELSE h
           IN  /\ RingInv(r) /\ r.length = b.length /\ r.state_size = size
               /\ HistoryOf(r) = IF b.length = 0 THEN << >> ELSE Append(kept, s)
<1> DEFINE h == HistoryOf(b)
           p == Prepared(b, size)
<1>1. /\ RingInv(p) /\ p.length = b.length /\ p.state_size = size
      /\ p.sequences = NULL <=> b.length = 0
      /\ HistoryOf(p) = IF b.state_size # size THEN << >> ELSE h
  BY PreparedHistory
<1>2. PushOp(b, s, size) = IF p.sequences = NULL THEN p
                           ELSE WithCurrent(Advanced(p), Extended(Current(Advanced(p)), s))
  BY DEF PushOp
<1> HIDE DEF p, h
<1>3. CASE b.length = 0
  <2>1. p.sequences = NULL /\ PushOp(b, s, size) = p
    BY <1>1, <1>2, <1>3
  <2>2. HistoryOf(p) = << >>
    BY <2>1 DEF HistoryOf
  <2> QED BY <1>1, <1>3, <2>1, <2>2
<1>4. CASE b.length # 0
  <2> DEFINE r == WithCurrent(Advanced(p), Extended(Current(Advanced(p)), s))
             g == HistoryOf(p)
             kept == IF Len(g) = b.length * (FRAMES_PER_KEY + 1)
                     THEN SubSeq(g, FRAMES_PER_KEY + 2, Len(g)) ELSE g
  <2>1. /\ RingInv(r) /\ r.length = b.length /\ r.state_size = size
        /\ HistoryOf(r) = Append(kept, s)
    BY <1>1, <1>4, RecordLemma
  <2>2. PushOp(b, s, size) = r
    BY <1>1, <1>2, <1>4
  <2>3. CASE b.state_size = size
    <3>1. g = h
      BY <1>1, <2>3
    <3> QED BY <1>4, <2>1, <2>2, <2>3, <3>1 DEF h
  <2>4. CASE b.state_size # size
    <3>1. g = << >> /\ Len(g) = 0
      BY <1>1, <2>4
    <3>2. b.length \in Nat /\ b.length > 0
      BY <1>4, LengthLemma DEF RingInv, BufferInv, BufferType
    <3>3. b.length * (FRAMES_PER_KEY + 1) # 0
      BY <3>2, FramesAssumption
    <3>4. kept = << >>
      BY <3>1, <3>3
    <3> HIDE DEF kept, r, g
    <3> QED BY <1>4, <2>1, <2>2, <2>4, <3>4
  <2> QED BY <2>3, <2>4
<1> QED BY <1>3, <1>4

(* GB_rewind_pop. *)
LEMMA PopHistory ==
    ASSUME NEW b, RingInv(b), CanPop(b)
    PROVE  LET h == HistoryOf(b)
               r == PopOp(b)
           IN  /\ RingInv(r) /\ r.length = b.length /\ r.state_size = b.state_size
               /\ h # << >> /\ PopState(b) = h[Len(h)]
               /\ HistoryOf(r) = SubSeq(h, 1, Len(h) - 1)
<1> DEFINE h == HistoryOf(b)
           r == PopOp(b)
           rest == SubSeq(h, 1, Len(h) - 1)
<1>1. BufferInv(b) /\ b.sequences # NULL /\ Current(b).key_state # NULL
  BY DEF RingInv, CanPop
<1>2. PICK n \in 0 .. b.length - 1 : Shape(b, n)
  BY <1>1 DEF RingInv
<1>3. h \in Seq(States) /\ Len(h) > 0 /\ h[Len(h)] = PopState(b)
  BY <1>1, <1>2, NewestLemma
<1>4. BufferInv(r)
  BY <1>1, PopLemma
<1>5. r.sequences # NULL /\ r.length = b.length /\ r.state_size = b.state_size
  <2>1. SequenceInv(Shortened(Current(b))) /\ b.pos \in 0 .. b.length - 1
    BY <1>1, CurrentLemma, ShortenedLemma
  <2>2. r = Buffer([b.sequences EXCEPT ![b.pos] = Shortened(Current(b))], b.length, b.state_size,
                   IF Current(b).pos = 0 THEN PreviousPos(b) ELSE b.pos)
    BY DEF PopOp, Current
  <2> HIDE DEF r
  <2> QED BY <1>1, <2>1, <2>2, WrittenLemma
<1> HIDE DEF r, h
<1>6. /\ rest \in Seq(States) /\ Len(rest) = Len(h) - 1
      /\ \A i \in 1 .. Len(rest) : rest[i] = h[i]
  <2>1. Len(h) \in Nat /\ \A i \in 1 .. Len(h) - 1 : h[i] \in States
    BY <1>3
  <2>2. /\ rest \in Seq(States)
        /\ Len(rest) = IF 1 <= Len(h) - 1 THEN Len(h) - 1 - 1 + 1 ELSE 0
        /\ \A i \in 1 .. Len(h) - 1 - 1 + 1 : rest[i] = h[1 + i - 1]
    BY <2>1, SubSeqProperties
  <2> HIDE DEF rest
  <2>3. Len(rest) = Len(h) - 1
    <3>1. CASE Len(h) = 1
      BY <2>2, <3>1
    <3>2. CASE Len(h) > 1
      BY <2>1, <2>2, <3>2
    <3>3. Len(h) > 0
      BY <1>3
    <3>4. \A l \in Nat : l > 0 => l = 1 \/ l > 1
      OBVIOUS
    <3>5. Len(h) = 1 \/ Len(h) > 1
      BY <2>1, <3>3, <3>4
    <3> QED BY <3>1, <3>2, <3>5
  <2>4. ASSUME NEW i \in 1 .. Len(rest) PROVE rest[i] = h[i]
    <3>1. 1 + i - 1 = i /\ i \in 1 .. Len(h) - 1 - 1 + 1
      BY <2>1, <2>3
    <3> QED BY <2>2, <3>1
  <2> QED BY <2>2, <2>3, <2>4
<1> HIDE DEF rest
<1>7. RingInv(r) /\ HistoryOf(r) = rest
  <2>1. CASE Current(b).pos # 0
    <3>1. Shape(r, n) /\ HistoryOf(r) = rest
      BY <1>1, <1>2, <1>4, <1>5, <1>6, <2>1, PopWithin DEF r, h
    <3> QED BY <1>2, <1>4, <1>5, <3>1 DEF RingInv
  <2>2. CASE Current(b).pos = 0
    <3> DEFINE p == IF n = 0 THEN 0 ELSE n - 1
    <3>1. p \in 0 .. b.length - 1
      BY <1>1, <1>2, CurrentLemma
    <3> HIDE DEF p
    <3>2. Shape(r, p) /\ HistoryOf(r) = rest
      BY <1>1, <1>2, <1>4, <1>5, <1>6, <2>2, PopBack DEF r, h, p
    <3> QED BY <1>4, <1>5, <3>1, <3>2 DEF RingInv
  <2> QED BY <2>1, <2>2
<1>8. h # << >>
  BY <1>3
<1> QED BY <1>3, <1>5, <1>7, <1>8 DEF h, r, rest

(* The step of the history that a push of the ring is. *)
LEMMA PushRefines ==
    ASSUME RingInv(buffer), NEW s \in States, save_size \in Sizes, Push(s)
    PROVE  RingInv(buffer') /\ History!Push(s)
<1> DEFINE h == HistoryOf(buffer)
<1>1. buffer' = PushOp(buffer, s, save_size) /\ gb' = s /\ save_size' = save_size
  BY DEF Push
<1>2. /\ RingInv(buffer') /\ buffer'.length = buffer.length
      /\ buffer'.state_size = save_size
      /\ HistoryOf(buffer') =
             IF buffer.length = 0 THEN << >>
             ELSE Append(IF buffer.state_size # save_size THEN << >>
                         ELSE IF Len(h) = buffer.length * (FRAMES_PER_KEY + 1)
                              THEN SubSeq(h, FRAMES_PER_KEY + 2, Len(h)) ELSE h, s)
  BY <1>1, PushHistory
<1>3. HistoryOf(buffer)' = HistoryOf(buffer')
  BY DEF HistoryOf, Behind, Back, Held, Current, StateAt, Decoded
<1> HIDE DEF h
<1>4. h = HistoryOf(buffer)
  BY DEF h
<1> QED
  BY <1>1, <1>2, <1>3, <1>4
  DEF History!Push, History!Record, History!Kept, History!Capacity

(* A pop of the ring is a pop of the history. *)
LEMMA PopRefines ==
    ASSUME RingInv(buffer), Pop
    PROVE  RingInv(buffer') /\ History!Pop
<1>1. /\ CanPop(buffer) /\ buffer' = PopOp(buffer) /\ save_size' = save_size
      /\ gb' = IF save_size < buffer.state_size THEN gb ELSE PopState(buffer)
  BY DEF Pop
<1>2. /\ RingInv(buffer') /\ buffer'.length = buffer.length
      /\ buffer'.state_size = buffer.state_size
      /\ HistoryOf(buffer) # << >>
      /\ PopState(buffer) = HistoryOf(buffer)[Len(HistoryOf(buffer))]
      /\ HistoryOf(buffer') = SubSeq(HistoryOf(buffer), 1, Len(HistoryOf(buffer)) - 1)
  BY <1>1, PopHistory
<1>3. HistoryOf(buffer)' = HistoryOf(buffer')
  BY DEF HistoryOf, Behind, Back, Held, Current, StateAt, Decoded
<1> QED BY <1>1, <1>2, <1>3 DEF History!Pop, History!Last, History!Front

(* A ring without states. *)
LEMMA FreedRing ==
    ASSUME NEW b, BufferInv(b), b.sequences = NULL
    PROVE  RingInv(b) /\ HistoryOf(b) = << >>
BY DEF RingInv, HistoryOf

(* A model switch forgets the states of the old model and records one of   *)
(* the new one.                                                            *)
LEMMA SwitchRefines ==
    ASSUME RingInv(buffer), NEW s \in States, NEW size \in Sizes, SwitchModelAndReset(s, size)
    PROVE  RingInv(buffer') /\ History!SwitchModel(s, size)
<1> DEFINE none == ResetOp(buffer)
<1>1. /\ buffer' = PushOp(none, s, size) /\ gb' = s /\ save_size' = size
  BY DEF SwitchModelAndReset
<1>2. BufferInv(none) /\ none.sequences = NULL /\ none.length = buffer.length
  BY DEF ResetOp, Buffer, RingInv, BufferInv, BufferType, Allocated
<1>3. RingInv(none) /\ HistoryOf(none) = << >>
  BY <1>2, FreedRing
<1> HIDE DEF none
<1>4. none.length = 0 \/ none.length * (FRAMES_PER_KEY + 1) # 0
  <2>1. none.length \in Nat
    BY <1>2, LengthLemma DEF BufferInv, BufferType
  <2> QED BY <2>1, FramesAssumption
<1>5. /\ RingInv(buffer') /\ buffer'.length = buffer.length /\ buffer'.state_size = size
      /\ HistoryOf(buffer') = IF buffer.length = 0 THEN << >> ELSE Append(<< >>, s)
  <2> DEFINE r == PushOp(none, s, size)
             kept == IF none.state_size # size THEN << >>
                     ELSE IF Len(<< >>) = none.length * (FRAMES_PER_KEY + 1)
                          THEN SubSeq(<< >>, FRAMES_PER_KEY + 2, Len(<< >>)) ELSE << >>
  <2>1. /\ RingInv(r) /\ r.length = none.length /\ r.state_size = size
        /\ HistoryOf(r) = IF none.length = 0 THEN << >>
                          ELSE Append(IF none.state_size # size THEN << >>
                                      ELSE IF Len(HistoryOf(none)) = none.length * (FRAMES_PER_KEY + 1)
                                           THEN SubSeq(HistoryOf(none), FRAMES_PER_KEY + 2,
                                                       Len(HistoryOf(none)))
                                           ELSE HistoryOf(none), s)
    BY <1>3, PushHistory
  <2>2. none.length # 0 => kept = << >>
    <3>1. Len(<< >>) = 0
      OBVIOUS
    <3> QED BY <1>4, <3>1
  <2>3. HistoryOf(r) = IF none.length = 0 THEN << >> ELSE Append(kept, s)
    BY <1>3, <2>1
  <2> HIDE DEF r, kept
  <2>4. buffer' = r
    BY <1>1 DEF r
  <2> QED BY <1>2, <2>1, <2>2, <2>3, <2>4
<1>6. HistoryOf(buffer)' = HistoryOf(buffer')
  BY DEF HistoryOf, Behind, Back, Held, Current, StateAt, Decoded
<1> QED BY <1>1, <1>5, <1>6 DEF History!SwitchModel, History!Record

(* The ring with the machine it belongs to. *)
RingMachineInv == RingInv(buffer) /\ gb \in States /\ save_size \in Sizes

(* Freeing the ring, with another length or with the same, forgets the     *)
(* history; a ring that never had a length held none.                      *)
LEMMA ForgetRefines ==
    ASSUME RingMachineInv, Reset \/ \E n \in Lengths : SetLength(n)
    PROVE  RingInv(buffer') /\ (History!Forget \/ UNCHANGED History!vars)
<1>1. BufferInv(buffer)
  BY DEF RingMachineInv, RingInv
<1>2. /\ buffer'.sequences = NULL /\ buffer'.state_size = buffer.state_size
      /\ buffer'.length \in Lengths \/ buffer'.length = buffer.length
      /\ BufferInv(buffer') /\ UNCHANGED <<gb, save_size>>
  <2>1. CASE Reset
    BY <1>1, <2>1 DEF Reset, ResetOp, Buffer, BufferInv, BufferType, Allocated
  <2>2. CASE \E n \in Lengths : SetLength(n)
    BY <1>1, <2>2, LengthsAssumption
    DEF SetLength, SetLengthOp, Buffer, BufferInv, BufferType, Allocated
  <2> QED BY <2>1, <2>2
<1>3. RingInv(buffer') /\ HistoryOf(buffer') = << >>
  BY <1>2, FreedRing
<1>4. HistoryOf(buffer)' = HistoryOf(buffer')
  BY DEF HistoryOf, Behind, Back, Held, Current, StateAt, Decoded
<1>5. CASE buffer'.length \in Lengths
  BY <1>2, <1>3, <1>4, <1>5 DEF History!Forget
<1>6. CASE buffer'.length \notin Lengths
  <2>1. buffer'.length = buffer.length /\ buffer.length = 0
    BY <1>1, <1>2, <1>6 DEF BufferInv, BufferType
  <2>2. buffer.sequences = NULL
    BY <1>1, <2>1, CurrentLemma
  <2>3. HistoryOf(buffer) = << >>
    BY <1>1, <2>2, FreedRing
  <2> QED BY <1>2, <1>3, <1>4, <2>1, <2>3 DEF History!vars
<1> QED BY <1>5, <1>6

(* The rewind buffer implements the history RewindHistory describes.  Its  *)
(* first ring is empty; every call is the step of the history that bears   *)
(* its name, and one that only frees an empty ring is none.                *)
THEOREM RingImplementsHistory == Spec => ImplementsHistory
<1>1. Init => RingMachineInv /\ History!Init
  <2> SUFFICES ASSUME Init PROVE RingMachineInv /\ History!Init
    OBVIOUS
  <2>1. /\ buffer.sequences = NULL /\ buffer.length = 0 /\ buffer.state_size = 0
        /\ gb \in States /\ save_size \in Sizes /\ BufferInv(buffer)
    BY DEF Init, NoBuffer, Buffer, BufferInv, BufferType, Allocated
  <2>2. RingInv(buffer) /\ HistoryOf(buffer) = << >>
    BY <2>1, FreedRing
  <2> QED BY <2>1, <2>2 DEF RingMachineInv, History!Init
<1>2. RingMachineInv /\ [Next]_vars => RingMachineInv' /\ [History!Next]_(History!vars)
  <2> SUFFICES ASSUME RingMachineInv, [Next]_vars
               PROVE  RingMachineInv' /\ [History!Next]_(History!vars)
    OBVIOUS
  <2>1. RingInv(buffer) /\ gb \in States /\ save_size \in Sizes
    BY DEF RingMachineInv
  <2>2. ASSUME NEW s \in States, Push(s)
        PROVE  RingMachineInv' /\ History!Next
    <3>1. RingInv(buffer') /\ History!Push(s)
      BY <2>1, <2>2, PushRefines
    <3>2. gb' \in States /\ save_size' \in Sizes
      BY <2>1, <2>2 DEF Push
    <3> QED BY <3>1, <3>2 DEF RingMachineInv, History!Next
  <2>3. ASSUME Pop PROVE RingMachineInv' /\ History!Next
    <3>1. RingInv(buffer') /\ History!Pop
      BY <2>1, <2>3, PopRefines
    <3>2. PopState(buffer) \in States
      BY <2>1, <2>3, PopLemma DEF Pop, RingInv
    <3>3. gb' \in States /\ save_size' \in Sizes
      BY <2>1, <2>3, <3>2 DEF Pop
    <3> QED BY <3>1, <3>3 DEF RingMachineInv, History!Next
  <2>4. ASSUME Reset \/ \E n \in Lengths : SetLength(n)
        PROVE  RingMachineInv' /\ [History!Next]_(History!vars)
    <3>1. RingInv(buffer') /\ (History!Forget \/ UNCHANGED History!vars)
      BY <2>4, ForgetRefines
    <3>2. gb' \in States /\ save_size' \in Sizes
      BY <2>1, <2>4 DEF Reset, SetLength
    <3> QED BY <3>1, <3>2 DEF RingMachineInv, History!Next
  <2>5. ASSUME NEW s \in States, NEW size \in Sizes, SwitchModelAndReset(s, size)
        PROVE  RingMachineInv' /\ History!Next
    <3>1. RingInv(buffer') /\ History!SwitchModel(s, size)
      BY <2>1, <2>5, SwitchRefines
    <3>2. gb' \in States /\ save_size' \in Sizes
      BY <2>5 DEF SwitchModelAndReset
    <3> QED BY <3>1, <3>2 DEF RingMachineInv, History!Next
  <2>6. ASSUME NEW s \in States, NEW size \in Sizes, External(s, size)
        PROVE  RingMachineInv' /\ History!Next
    <3>1. buffer' = buffer /\ gb' = s /\ save_size' = size
      BY <2>6 DEF External
    <3>2. HistoryOf(buffer)' = HistoryOf(buffer')
      BY DEF HistoryOf, Behind, Back, Held, Current, StateAt, Decoded
    <3>3. History!External
      BY <3>1, <3>2 DEF History!External
    <3> QED BY <2>1, <3>1, <3>3 DEF RingMachineInv, History!Next
  <2>7. ASSUME UNCHANGED vars
        PROVE  RingMachineInv' /\ UNCHANGED History!vars
    <3>1. buffer' = buffer /\ gb' = gb /\ save_size' = save_size
      BY <2>7 DEF vars
    <3>2. HistoryOf(buffer)' = HistoryOf(buffer')
      BY DEF HistoryOf, Behind, Back, Held, Current, StateAt, Decoded
    <3> QED BY <2>1, <3>1, <3>2 DEF RingMachineInv, History!vars
  <2> QED BY <2>2, <2>3, <2>4, <2>5, <2>6, <2>7 DEF Next
<1> QED BY <1>1, <1>2, PTL DEF Spec, ImplementsHistory, History!Spec
-----------------------------------------------------------------------------
(* Backstep: its types. *)
FrameSet == [state : Nat, count : Nat, invalid : BOOLEAN]

BackstepType ==
    /\ t \in Nat /\ frames \in Seq(FrameSet) /\ place \in {"idle", "stopped", "cpu"}
    /\ replay \in Nat /\ replaying \in BOOLEAN /\ origin \in [t : Nat, in_frame : BOOLEAN]
    /\ place = "stopped" => ~replaying
    /\ replaying /\ replay = 0 => place = "cpu"
    /\ ~replaying => replay = 0

(* A frame that could be replayed. *)
Short(frame) == ~frame.invalid /\ frame.count <= MaxReplay + 2

NoVBlank(first, last) == \A v \in VBlanks : ~(first < v /\ v <= last)

(* What was counted since a frame was pushed did not push another one. *)
Clear(frame) == Short(frame) => NoVBlank(frame.state, frame.state + frame.count - 1)

HasCount(frame) == ~frame.invalid => frame.count > 0

FramesInv ==
    \A i \in 1 .. Len(frames) :
        /\ Clear(frames[i])
        /\ i < Len(frames) \/ place # "idle" => HasCount(frames[i])

(* Where the instructions that are to be replayed will have led. *)
End == t + replay + (IF place = "cpu" THEN 1 ELSE 0)

LastInv ==
    frames # << >> /\ ~replaying =>
        (Short(Last(frames)) => NoVBlank(Last(frames).state, t))

(* A replay ends before the vertical blank that ended its frame. *)
ReplayInv == replaying => NoVBlank(t, End + 1)

OriginInv == origin.in_frame => End = origin.t - 1 /\ (replaying \/ place = "stopped")

BackstepInv ==
    /\ BackstepType /\ FramesInv /\ LastInv /\ ReplayInv /\ OriginInv /\ CountIsDistance

-----------------------------------------------------------------------------
LEMMA MaxIsThere ==
    ASSUME NEW n \in Nat, NEW S, S \subseteq 0 .. n, S # {}
    PROVE  Max(S) \in S /\ \A y \in S : Max(S) >= y
<1> DEFINE T == {n - x : x \in S}
<1>0. \A x \in S : n - x \in Nat
    OBVIOUS
<1>1. T \subseteq Nat
    BY <1>0
<1>2. T # {}
    <2>1. PICK x \in S : TRUE
        OBVIOUS
    <2>2. n - x \in T
        OBVIOUS
    <2> QED BY <2>2
<1>3. PICK m \in T : \A y \in T : <<y, m>> \notin OpToRel(<, Nat)
    BY <1>1, <1>2, NatLessThanWellFounded, WFMin
<1>4. \A y \in T : ~(y < m)
    BY <1>1, <1>3 DEF OpToRel
<1>5. PICK x \in S : m = n - x
    BY <1>3
<1>6. \A y \in S : x >= y
    <2> SUFFICES ASSUME NEW y \in S PROVE x >= y
        OBVIOUS
    <2>1. n - y \in T /\ ~(n - y < n - x)
        BY <1>4, <1>5
    <2> QED BY <2>1
<1> QED BY <1>6 DEF Max

LEMMA FrameFields ==
    ASSUME NEW s \in Nat, NEW c \in Nat, NEW b \in BOOLEAN
    PROVE  /\ Frame(s, c, b) \in FrameSet
           /\ Frame(s, c, b).state = s /\ Frame(s, c, b).count = c
           /\ Frame(s, c, b).invalid = b
BY DEF Frame, FrameSet

LEMMA LastOf ==
    ASSUME NEW f \in Seq(FrameSet), f # << >>
    PROVE  /\ Len(f) \in Nat /\ Len(f) >= 1 /\ Last(f) = f[Len(f)] /\ Last(f) \in FrameSet
           /\ Last(f).state \in Nat /\ Last(f).count \in Nat /\ Last(f).invalid \in BOOLEAN
<1>1. Len(f) \in Nat /\ Len(f) # 0
    BY EmptySeq
<1>2. Last(f) = f[Len(f)]
    BY DEF Last
<1>3. Last(f) \in FrameSet
    BY <1>1, <1>2, ElementOfSeq
<1> QED BY <1>1, <1>2, <1>3 DEF FrameSet

LEMMA WithLastFrames ==
    ASSUME NEW f \in Seq(FrameSet), f # << >>, NEW x \in FrameSet
    PROVE  /\ WithLast(f, x) \in Seq(FrameSet) /\ WithLast(f, x) # << >>
           /\ Len(WithLast(f, x)) = Len(f) /\ Last(WithLast(f, x)) = x
           /\ \A i \in 1 .. Len(f) - 1 : WithLast(f, x)[i] = f[i]
<1>1. Len(f) \in Nat /\ Len(f) >= 1
    BY LastOf
<1>2. Front(f) = SubSeq(f, 1, Len(f) - 1)
    BY DEF Front
<1> DEFINE g == SubSeq(f, 1, Len(f) - 1)
<1>3. g \in Seq(FrameSet) /\ Len(g) = Len(f) - 1 /\ \A i \in 1 .. Len(f) - 1 : g[i] = f[i]
    <2> DEFINE n == Len(f) - 1
    <2>1. n \in Nat
        BY <1>1
    <2>2. \A i \in 1 .. n : f[i] \in FrameSet
        BY <1>1, ElementOfSeq
    <2>3. g = SubSeq(f, 1, n)
        OBVIOUS
    <2> HIDE DEF n, g
    <2>4. /\ SubSeq(f, 1, n) \in Seq(FrameSet)
          /\ Len(SubSeq(f, 1, n)) = n
          /\ \A i \in 1 .. n : SubSeq(f, 1, n)[i] = f[i]
        BY <2>1, <2>2, SubSeqProperties
    <2> QED BY <2>3, <2>4 DEF n
<1> HIDE DEF g
<1>4. /\ Append(g, x) \in Seq(FrameSet) /\ Len(Append(g, x)) = Len(g) + 1
      /\ \A i \in 1 .. Len(g) : Append(g, x)[i] = g[i]
      /\ Append(g, x)[Len(g) + 1] = x
    BY <1>3, AppendProperties
<1>5. WithLast(f, x) = Append(g, x)
    BY <1>2 DEF WithLast, g
<1>6. Last(WithLast(f, x)) = x
    BY <1>1, <1>3, <1>4, <1>5 DEF Last
<1>7. WithLast(f, x) # << >>
    BY <1>1, <1>3, <1>4, <1>5, EmptySeq
<1> QED BY <1>1, <1>3, <1>4, <1>5, <1>6, <1>7

LEMMA PushedFrames ==
    ASSUME NEW f \in Seq(FrameSet), NEW s \in Nat, NEW c \in Nat
    PROVE  LET p == PushFrame(f, s, c) IN
           /\ p \in Seq(FrameSet) /\ p # << >> /\ Last(p) = Frame(s, c, FALSE)
           /\ \A i \in 1 .. Len(p) : i < Len(p) => \E j \in 1 .. Len(f) : p[i] = f[j]
<1> DEFINE g == IF Len(f) = Length * FramesPerKey
                THEN SubSeq(f, FramesPerKey + 1, Len(f)) ELSE f
<1>1. g \in Seq(FrameSet) /\ \A i \in 1 .. Len(g) : \E j \in 1 .. Len(f) : g[i] = f[j]
    <2>1. CASE Len(f) = Length * FramesPerKey
        <3> DEFINE k == FramesPerKey  n == Len(f)
        <3>1. k \in Nat /\ n \in Nat /\ k <= n
            <4>1. Length \in Nat /\ FramesPerKey \in Nat /\ Length > 0
                BY BackstepAssumption
            <4>2. Length * FramesPerKey >= FramesPerKey
                BY <4>1
            <4> QED BY <4>1, <4>2, <2>1
        <3>2. g = SubSeq(f, k + 1, n)
            BY <2>1
        <3> HIDE DEF g, k
        <3>3. /\ SubSeq(f, k + 1, n) \in Seq(FrameSet)
              /\ Len(SubSeq(f, k + 1, n)) = n - k
              /\ \A i \in 1 .. n - k : SubSeq(f, k + 1, n)[i] = f[k + i]
            BY <3>1, SubSeqProperties
        <3>4. \A i \in 1 .. n - k : k + i \in 1 .. n
            BY <3>1
        <3> QED BY <3>2, <3>3, <3>4
    <2>2. CASE Len(f) # Length * FramesPerKey
        BY <2>2
    <2> QED BY <2>1, <2>2
<1> DEFINE x == Frame(s, c, FALSE)
<1>2. x \in FrameSet
    BY FrameFields
<1>3. PushFrame(f, s, c) = Append(g, x)
    BY DEF PushFrame
<1> HIDE DEF g, x
<1>4. /\ Append(g, x) \in Seq(FrameSet) /\ Len(Append(g, x)) = Len(g) + 1
      /\ \A i \in 1 .. Len(g) : Append(g, x)[i] = g[i]
      /\ Append(g, x)[Len(g) + 1] = x
    BY <1>1, <1>2, AppendProperties
<1>5. Len(g) \in Nat
    BY <1>1
<1>6. Last(Append(g, x)) = x
    BY <1>4 DEF Last
<1>7. Append(g, x) # << >>
    BY <1>4, <1>5, EmptySeq
<1>8. \A i \in 1 .. Len(g) + 1 : i < Len(g) + 1 => \E j \in 1 .. Len(f) : Append(g, x)[i] = f[j]
    BY <1>1, <1>4, <1>5
<1> QED BY <1>3, <1>4, <1>6, <1>7, <1>8 DEF x

LEMMA OlderFrames ==
    ASSUME NEW f \in Seq(FrameSet)
    PROVE  /\ Older(f) \in Seq(FrameSet) /\ Len(Older(f)) \in 0 .. Len(f)
           /\ \A i \in 1 .. Len(Older(f)) : Older(f)[i] = f[i]
           /\ Older(f) # << >> => ~JustPushed(Last(Older(f)))
           /\ Older(f) # f => Len(Older(f)) < Len(f)
<1> DEFINE S == {i \in 1 .. Len(f) : ~JustPushed(f[i])} \union {0}
           m == Max(S)
<1>1. Len(f) \in Nat
    OBVIOUS
<1>2. S \subseteq 0 .. Len(f) /\ S # {}
    BY <1>1
<1>3. m \in S
    BY <1>1, <1>2, MaxIsThere
<1>4. m \in 0 .. Len(f) /\ (m # 0 => ~JustPushed(f[m]))
    BY <1>2, <1>3
<1>5. Older(f) = SubSeq(f, 1, m)
    BY DEF Older
<1> HIDE DEF m, S
<1>6. /\ SubSeq(f, 1, m) \in Seq(FrameSet) /\ Len(SubSeq(f, 1, m)) = m
      /\ \A i \in 1 .. m : SubSeq(f, 1, m)[i] = f[i]
    BY <1>1, <1>4, SubSeqProperties
<1>7. SubSeq(f, 1, m) # << >> => ~JustPushed(Last(SubSeq(f, 1, m)))
    <2> SUFFICES ASSUME SubSeq(f, 1, m) # << >> PROVE ~JustPushed(Last(SubSeq(f, 1, m)))
        OBVIOUS
    <2>1. m # 0
        BY <1>6, EmptySeq
    <2>2. Last(SubSeq(f, 1, m)) = f[m]
        BY <2>1, <1>1, <1>4, <1>6 DEF Last
    <2> QED BY <2>1, <2>2, <1>4
<1>8. m = Len(f) => SubSeq(f, 1, m) = f
    BY SubSeqFull
<1> QED BY <1>1, <1>4, <1>5, <1>6, <1>7, <1>8

-----------------------------------------------------------------------------
LEMMA Start == BackstepInit => BackstepInv
<1> SUFFICES ASSUME BackstepInit PROVE BackstepInv
    OBVIOUS
<1>1. frames \in Seq(FrameSet) /\ Len(frames) = 0
    BY EmptySeq DEF BackstepInit
<1>2. origin \in [t : Nat, in_frame : BOOLEAN] /\ ~origin.in_frame
    BY DEF BackstepInit, NoOrigin
<1>3. BackstepType
    BY <1>1, <1>2 DEF BackstepInit, BackstepType
<1> QED
    BY <1>1, <1>2, <1>3
    DEF BackstepInit, BackstepInv, FramesInv, LastInv, ReplayInv, OriginInv, CountIsDistance

LEMMA DebuggerRunKeeps == BackstepInv /\ DebuggerRun => BackstepInv'
<1> SUFFICES ASSUME BackstepInv, DebuggerRun PROVE BackstepInv'
    OBVIOUS
<1>0. /\ t' = t /\ replaying' = replaying /\ origin' = origin /\ place = "idle"
      /\ frames' = Counted(frames)
      /\ place' \in {"cpu", "stopped"}
      /\ replay > 0 => replay' = replay - 1 /\ place' = "cpu"
      /\ ~(replay > 0) => replay' = replay
    BY DEF DebuggerRun
<1>1. /\ t \in Nat /\ frames \in Seq(FrameSet) /\ replay \in Nat
      /\ origin \in [t : Nat, in_frame : BOOLEAN]
    BY DEF BackstepInv, BackstepType
<1>2. replaying \in BOOLEAN /\ (replaying => replay > 0) /\ (~replaying => replay = 0)
    BY <1>0, <1>1 DEF BackstepInv, BackstepType
<1>3. CASE frames = << >> \/ Last(frames).invalid
    <2>1. frames' = frames
        BY <1>0, <1>3 DEF Counted
    <2>2. BackstepType'
        BY <1>0, <1>1, <1>2, <2>1 DEF BackstepType
    <2>3. FramesInv'
        <3> SUFFICES ASSUME NEW i \in 1 .. Len(frames)
                     PROVE  Clear(frames[i])' /\ HasCount(frames[i])
            BY <2>1 DEF FramesInv, HasCount
        <3>1. Clear(frames[i]) /\ (i < Len(frames) => HasCount(frames[i]))
            BY DEF BackstepInv, FramesInv
        <3>2. i = Len(frames) => HasCount(frames[i])
            <4>1. i = Len(frames) => frames # << >> /\ frames[i] = Last(frames)
                BY <1>1, EmptySeq DEF Last
            <4> QED BY <4>1, <1>3 DEF HasCount
        <3>3. Len(frames) \in Nat
            BY <1>1
        <3> QED BY <2>1, <3>1, <3>2, <3>3 DEF Clear, Short, NoVBlank
    <2>4. LastInv' /\ CountIsDistance'
        BY <1>3, <2>1 DEF LastInv, CountIsDistance, Short
    <2>5. ReplayInv' /\ OriginInv'
        <3>1. replaying => End' = End
            BY <1>0, <1>1, <1>2 DEF End
        <3>2. ReplayInv'
            BY <1>0, <3>1 DEF BackstepInv, ReplayInv, NoVBlank
        <3>3. OriginInv'
            BY <1>0, <3>1 DEF BackstepInv, OriginInv
        <3> QED BY <3>2, <3>3
    <2> QED BY <2>2, <2>3, <2>4, <2>5 DEF BackstepInv
<1>4. CASE ~(frames = << >> \/ Last(frames).invalid)
    <2> DEFINE l == Last(frames)
               x == Frame(l.state, l.count + 1, FALSE)
               f == WithLast(frames, x)
    <2>0. /\ Len(frames) \in Nat /\ Len(frames) >= 1 /\ l = frames[Len(frames)]
          /\ l.state \in Nat /\ l.count \in Nat /\ ~l.invalid
        BY <1>1, <1>4, LastOf
    <2>1. /\ x \in FrameSet /\ x.state = l.state /\ x.count = l.count + 1 /\ ~x.invalid
        <3>1. l.count + 1 \in Nat /\ FALSE \in BOOLEAN
            BY <2>0
        <3>2. \A s, c \in Nat :
                 /\ Frame(s, c, FALSE) \in FrameSet /\ Frame(s, c, FALSE).state = s
                 /\ Frame(s, c, FALSE).count = c /\ Frame(s, c, FALSE).invalid = FALSE
            BY FrameFields
        <3> HIDE DEF l
        <3> QED BY <2>0, <3>1, <3>2
    <2>2. frames' = f
        BY <1>0, <1>4 DEF Counted
    <2> HIDE DEF x
    <2>3. /\ f \in Seq(FrameSet) /\ f # << >> /\ Len(f) = Len(frames) /\ Last(f) = x
          /\ \A i \in 1 .. Len(frames) - 1 : f[i] = frames[i]
        BY <1>1, <1>4, <2>1, WithLastFrames
    <2> HIDE DEF f, l
    <2>4. MaxReplay \in Nat
        BY BackstepAssumption
    <2>5. Short(x) => Short(l)
        BY <2>0, <2>1, <2>4 DEF Short
    <2>6. Short(l) => t + (IF replaying THEN 1 ELSE 0) = l.state + l.count
        BY <1>0, <1>1, <1>4, <2>0 DEF BackstepInv, CountIsDistance, Pending, Short, l
    <2>7. BackstepType'
        BY <1>0, <1>1, <1>2, <2>2, <2>3 DEF BackstepType
    <2>8. Short(l) => NoVBlank(l.state, l.state + l.count)
        <3> SUFFICES ASSUME Short(l) PROVE NoVBlank(l.state, l.state + l.count)
            OBVIOUS
        <3>1. CASE ~replaying
            <4>1. NoVBlank(l.state, t) /\ l.state + l.count = t
                BY <3>1, <1>1, <1>4, <2>0, <2>6 DEF BackstepInv, LastInv, l
            <4> QED BY <4>1
        <3>2. CASE replaying
            <4>1. l.state + l.count = t + 1 /\ t + 1 <= End + 1
                BY <3>2, <1>0, <1>1, <2>0, <2>6 DEF End
            <4>2. NoVBlank(l.state, l.state + l.count - 1)
                BY <2>0 DEF BackstepInv, FramesInv, Clear
            <4>3. NoVBlank(t, End + 1)
                BY <3>2 DEF BackstepInv, ReplayInv
            <4>4. End \in Nat /\ VBlanks \subseteq Nat
                BY <1>0, <1>1, BackstepAssumption DEF End
            <4>5. l.state \in Nat /\ l.count \in Nat /\ t \in Nat
                BY <1>1, <2>0
            <4>6. ASSUME NEW v \in VBlanks PROVE ~(l.state < v /\ v <= l.state + l.count)
                <5>1. CASE v <= l.state + l.count - 1
                    BY <5>1, <4>2 DEF NoVBlank
                <5>2. CASE ~(v <= l.state + l.count - 1)
                    <6>1. v \in Nat /\ (v <= l.state + l.count => v = t + 1)
                        BY <5>2, <4>1, <4>4, <4>5
                    <6>2. v = t + 1 => t < v /\ v <= End + 1
                        BY <4>1, <4>4, <4>5
                    <6> QED BY <6>1, <6>2, <4>3 DEF NoVBlank
                <5> QED BY <5>1, <5>2
            <4> QED BY <4>6 DEF NoVBlank
        <3> QED BY <3>1, <3>2
    <2>9. Clear(x) /\ HasCount(x)
        <3>1. x.state + x.count - 1 = l.state + l.count
            BY <2>0, <2>1
        <3> QED BY <2>0, <2>1, <2>5, <2>8, <3>1 DEF Clear, HasCount
    <2>10. FramesInv'
        <3> SUFFICES ASSUME NEW i \in 1 .. Len(f) PROVE Clear(f[i]) /\ HasCount(f[i])
            BY <2>2 DEF FramesInv, Clear, Short, NoVBlank, HasCount
        <3>1. CASE i = Len(f)
            BY <2>3, <2>9, <3>1 DEF Last
        <3>2. CASE i # Len(f)
            <4>1. i \in 1 .. Len(frames) /\ i < Len(frames) /\ f[i] = frames[i]
                BY <2>0, <2>3, <3>2
            <4> QED BY <4>1 DEF BackstepInv, FramesInv
        <3> QED BY <3>1, <3>2
    <2>11. LastInv'
        <3>1. ~replaying => (Short(x) => NoVBlank(x.state, t))
            BY <1>4, <2>1, <2>5 DEF BackstepInv, LastInv, l
        <3> QED BY <1>0, <2>2, <2>3, <3>1 DEF LastInv, Short, NoVBlank
    <2>12. CountIsDistance'
        <3>1. Pending' = 1 + (IF replaying THEN 1 ELSE 0)
            BY <1>0 DEF Pending
        <3>2. Short(x) => t + (1 + (IF replaying THEN 1 ELSE 0)) = x.state + x.count
            <4>1. CASE replaying
                BY <4>1, <1>1, <2>0, <2>1, <2>5, <2>6
            <4>2. CASE ~replaying
                BY <4>2, <1>1, <2>0, <2>1, <2>5, <2>6
            <4> QED BY <4>1, <4>2
        <3> QED BY <1>0, <2>2, <2>3, <3>1, <3>2 DEF CountIsDistance, Short
    <2>13. replaying => End' = End
        BY <1>0, <1>1, <1>2 DEF End
    <2>14. ReplayInv'
        BY <1>0, <2>13 DEF BackstepInv, ReplayInv, NoVBlank
    <2>15. OriginInv'
        BY <1>0, <2>13 DEF BackstepInv, OriginInv
    <2> QED BY <2>7, <2>10, <2>11, <2>12, <2>14, <2>15 DEF BackstepInv
<1> QED BY <1>3, <1>4

LEMMA CpuRunKeeps == BackstepInv /\ CpuRun => BackstepInv'
<1> SUFFICES ASSUME BackstepInv, CpuRun PROVE BackstepInv'
    OBVIOUS
<1>0. /\ place = "cpu" /\ t' = t + 1 /\ replay' = replay /\ origin' = origin
      /\ frames' = IF t + 1 \in VBlanks THEN PushFrame(frames, t + 1, 0) ELSE frames
      /\ place' = IF replaying /\ replay = 0 THEN "stopped" ELSE "idle"
      /\ replaying' = (replaying /\ replay > 0)
    BY DEF CpuRun
<1>1. /\ t \in Nat /\ frames \in Seq(FrameSet) /\ replay \in Nat
      /\ origin \in [t : Nat, in_frame : BOOLEAN]
    BY DEF BackstepInv, BackstepType
<1>2. replaying \in BOOLEAN /\ (~replaying => replay = 0)
    BY DEF BackstepInv, BackstepType
<1>r. /\ replaying /\ replay = 0 => place' = "stopped" /\ ~replaying'
      /\ replaying /\ replay > 0 => place' = "idle" /\ replaying'
      /\ ~replaying => place' = "idle" /\ ~replaying'
    <2> DEFINE over == replay = 0
               on == replay > 0
    <2>1. on <=> ~over
        BY <1>1
    <2>2. /\ place' = IF replaying /\ over THEN "stopped" ELSE "idle"
          /\ replaying' = (replaying /\ on)
        BY <1>0
    <2> HIDE DEF over, on
    <2>3. /\ replaying /\ over => place' = "stopped" /\ ~replaying'
          /\ replaying /\ on => place' = "idle" /\ replaying'
          /\ ~replaying => place' = "idle" /\ ~replaying'
        BY <2>1, <2>2, Zenon
    <2> QED BY <2>3 DEF over, on
<1>3. End' = End /\ End = t + replay + 1
    <2>1. End = t + replay + 1
        BY <1>0 DEF End
    <2>2. place' # "cpu"
        BY <1>0
    <2>3. End' = t' + replay' + 0
        BY <2>2 DEF End
    <2> QED BY <1>0, <1>1, <2>1, <2>3
<1>4. OriginInv'
    <2>1. origin.in_frame => End = origin.t - 1 /\ replaying
        BY <1>0 DEF BackstepInv, OriginInv
    <2>2. replaying => replaying' \/ place' = "stopped"
        BY <1>1, <1>r
    <2> QED BY <1>0, <1>3, <2>1, <2>2 DEF OriginInv
<1>5. FramesInv => \A i \in 1 .. Len(frames) : Clear(frames[i]) /\ HasCount(frames[i])
    BY <1>0 DEF FramesInv
<1>6. CASE t + 1 \in VBlanks
    <2>1. ~replaying
        <3> SUFFICES ASSUME replaying PROVE FALSE
            OBVIOUS
        <3>1. NoVBlank(t, End + 1)
            BY DEF BackstepInv, ReplayInv
        <3> QED BY <1>1, <1>3, <1>6, <3>1 DEF NoVBlank
    <2>2. replay = 0 /\ place' = "idle" /\ ~replaying' /\ replay' = 0
        BY <1>0, <1>2, <1>r, <2>1
    <2> DEFINE p == PushFrame(frames, t + 1, 0)
               x == Frame(t + 1, 0, FALSE)
    <2>3. t + 1 \in Nat /\ 0 \in Nat
        BY <1>1
    <2>4. x \in FrameSet /\ x.state = t + 1 /\ x.count = 0 /\ x.invalid = FALSE
        <3>1. \A s, c \in Nat :
                 /\ Frame(s, c, FALSE) \in FrameSet /\ Frame(s, c, FALSE).state = s
                 /\ Frame(s, c, FALSE).count = c /\ Frame(s, c, FALSE).invalid = FALSE
            BY FrameFields
        <3> QED BY <2>3, <3>1
    <2>5. /\ p \in Seq(FrameSet) /\ p # << >> /\ Last(p) = x
          /\ \A i \in 1 .. Len(p) : i < Len(p) => \E j \in 1 .. Len(frames) : p[i] = frames[j]
        BY <1>1, <2>3, PushedFrames
    <2>6. frames' = p
        BY <1>0, <1>6
    <2> HIDE DEF p, x
    <2>7. BackstepType'
        BY <1>0, <1>1, <2>2, <2>3, <2>5, <2>6 DEF BackstepType
    <2>8. FramesInv'
        <3> SUFFICES ASSUME NEW i \in 1 .. Len(p)
                     PROVE  Clear(p[i]) /\ (i < Len(p) => HasCount(p[i]))
            BY <2>2, <2>6 DEF FramesInv, Clear, Short, NoVBlank, HasCount
        <3>1. CASE i < Len(p)
            <4>1. PICK j \in 1 .. Len(frames) : p[i] = frames[j]
                BY <2>5, <3>1
            <4> QED BY <1>5, <4>1 DEF BackstepInv
        <3>2. CASE ~(i < Len(p))
            <4>1. i = Len(p)
                BY <2>5, <3>2
            <4>2. p[i] = x
                BY <2>5, <4>1 DEF Last
            <4>3. NoVBlank(t + 1, t + 1 + 0 - 1)
                BY <1>1, BackstepAssumption DEF NoVBlank
            <4> QED BY <2>4, <3>2, <4>2, <4>3 DEF Clear
        <3> QED BY <3>1, <3>2
    <2>9. LastInv'
        <3>1. NoVBlank(x.state, t + 1)
            BY <1>1, <2>4, BackstepAssumption DEF NoVBlank
        <3> QED BY <1>0, <2>5, <2>6, <3>1 DEF LastInv, NoVBlank
    <2>10. CountIsDistance'
        <3>1. Pending' = 0
            BY <2>2 DEF Pending
        <3>2. t' + 0 = x.state + x.count
            BY <1>0, <1>1, <2>4
        <3> QED BY <2>5, <2>6, <3>1, <3>2 DEF CountIsDistance
    <2>11. ReplayInv'
        BY <2>2 DEF ReplayInv
    <2> QED BY <1>4, <2>7, <2>8, <2>9, <2>10, <2>11 DEF BackstepInv
<1>7. CASE t + 1 \notin VBlanks
    <2>1. frames' = frames
        BY <1>0, <1>7
    <2>2. BackstepType'
        <3>1. t' \in Nat /\ replay' \in Nat /\ replaying' \in BOOLEAN
            BY <1>0, <1>1
        <3>2. place' \in {"idle", "stopped", "cpu"}
            BY <1>0
        <3>3. place' = "stopped" => ~replaying'
            BY <1>1, <1>2, <1>r
        <3>4. ~(replaying' /\ replay' = 0)
            BY <1>0, <1>1, <1>2, <1>r
        <3>5. ~replaying' => replay' = 0
            BY <1>0, <1>1, <1>2, <1>r
        <3> QED BY <1>0, <1>1, <2>1, <3>1, <3>2, <3>3, <3>4, <3>5 DEF BackstepType
    <2>3. FramesInv'
        BY <1>5, <2>1 DEF BackstepInv, FramesInv, Clear, Short, NoVBlank, HasCount
    <2>4. CountIsDistance'
        <3>1. t' + Pending' = t + Pending
            <4>1. CASE ~replaying
                <5>1. Pending = 1 /\ Pending' = 0
                    BY <4>1, <1>0, <1>r DEF Pending
                <5> QED BY <5>1, <1>0, <1>1
            <4>2. CASE replaying /\ replay = 0
                <5>1. Pending = 2 /\ Pending' = 1
                    BY <4>2, <1>0, <1>r DEF Pending
                <5> QED BY <5>1, <1>0, <1>1
            <4>3. CASE replaying /\ replay > 0
                <5>1. Pending = 2 /\ Pending' = 1
                    BY <4>3, <1>0, <1>r DEF Pending
                <5> QED BY <5>1, <1>0, <1>1
            <4> QED BY <1>1, <4>1, <4>2, <4>3
        <3> QED BY <2>1, <3>1 DEF BackstepInv, CountIsDistance
    <2>5. LastInv'
        <3> SUFFICES ASSUME frames # << >>, ~replaying', Short(Last(frames))
                     PROVE  NoVBlank(Last(frames).state, t + 1)
            BY <1>0, <2>1 DEF LastInv, Short, NoVBlank
        <3> DEFINE l == Last(frames)
        <3>0. l.state \in Nat /\ l.count \in Nat /\ VBlanks \subseteq Nat
            BY <1>1, LastOf, BackstepAssumption
        <3>1. CASE ~replaying
            <4>1. NoVBlank(l.state, t)
                BY <3>1 DEF BackstepInv, LastInv
            <4> HIDE DEF l
            <4>2. \A v \in VBlanks : v \in Nat /\ v # t + 1 /\ ~(l.state < v /\ v <= t)
                BY <1>7, <3>0, <4>1 DEF NoVBlank
            <4>3. \A v \in Nat : v # t + 1 /\ ~(l.state < v /\ v <= t)
                                  => ~(l.state < v /\ v <= t + 1)
                BY <1>1, <3>0
            <4>4. NoVBlank(l.state, t + 1)
                BY <4>2, <4>3 DEF NoVBlank
            <4> QED BY <4>4 DEF l
        <3>2. CASE replaying
            <4>1. Pending = 2
                BY <1>0, <3>2 DEF Pending
            <4>2. t + Pending = l.state + l.count
                BY DEF BackstepInv, CountIsDistance, Short
            <4>3. Clear(l)
                <5>1. Len(frames) \in 1 .. Len(frames) /\ l = frames[Len(frames)]
                    BY <1>1, LastOf
                <5> QED BY <5>1 DEF BackstepInv, FramesInv
            <4>4. NoVBlank(l.state, l.state + l.count - 1)
                BY <4>3 DEF Clear
            <4> HIDE DEF l
            <4>5. l.state + l.count - 1 = t + 1
                BY <1>1, <3>0, <4>1, <4>2
            <4> QED BY <4>4, <4>5 DEF l
        <3> QED BY <3>1, <3>2
    <2>6. ReplayInv'
        <3> SUFFICES ASSUME replaying' PROVE NoVBlank(t + 1, End + 1)
            BY <1>0, <1>3 DEF ReplayInv, NoVBlank
        <3>1. NoVBlank(t, End + 1)
            BY <1>0 DEF BackstepInv, ReplayInv
        <3> QED BY <1>1, <1>3, <3>1, BackstepAssumption DEF NoVBlank
    <2> QED BY <1>4, <2>2, <2>3, <2>4, <2>5, <2>6 DEF BackstepInv
<1> QED BY <1>6, <1>7

(* What holds at the debugger's prompt, for the actions that begin there.  *)
LEMMA AtThePrompt ==
    ASSUME BackstepInv, place = "stopped"
    PROVE  /\ t \in Nat /\ frames \in Seq(FrameSet) /\ replay = 0 /\ replaying = FALSE /\ Pending = 1
           /\ \A i \in 1 .. Len(frames) : Clear(frames[i]) /\ HasCount(frames[i])
<1>1. t \in Nat /\ frames \in Seq(FrameSet) /\ replay = 0 /\ replaying = FALSE
    BY DEF BackstepInv, BackstepType
<1>2. Pending = 1
    BY <1>1 DEF Pending
<1>3. \A i \in 1 .. Len(frames) : Clear(frames[i]) /\ HasCount(frames[i])
    BY DEF BackstepInv, FramesInv
<1> QED BY <1>1, <1>2, <1>3

LEMMA ResumeKeeps == BackstepInv /\ Resume => BackstepInv'
<1> SUFFICES ASSUME BackstepInv, Resume PROVE BackstepInv'
    OBVIOUS
<1>0. /\ place = "stopped" /\ place' = "cpu" /\ origin' = NoOrigin
      /\ t' = t /\ frames' = frames /\ replay' = replay /\ replaying' = replaying
    BY DEF Resume
<1>1. /\ t \in Nat /\ frames \in Seq(FrameSet) /\ replay = 0 /\ replaying = FALSE /\ Pending = 1
      /\ \A i \in 1 .. Len(frames) : Clear(frames[i]) /\ HasCount(frames[i])
    BY <1>0, AtThePrompt
<1>2. NoOrigin \in [t : Nat, in_frame : BOOLEAN] /\ ~NoOrigin.in_frame
    BY DEF NoOrigin
<1>3. BackstepType'
    BY <1>0, <1>1, <1>2 DEF BackstepType
<1>4. FramesInv'
    BY <1>0, <1>1 DEF FramesInv, Clear, Short, NoVBlank, HasCount
<1>5. LastInv'
    BY <1>0 DEF BackstepInv, LastInv, Short, NoVBlank
<1>6. CountIsDistance'
    <2>1. Pending' = 1
        BY <1>0, <1>1 DEF Pending
    <2> QED BY <1>0, <1>1, <2>1 DEF BackstepInv, CountIsDistance
<1>7. ReplayInv' /\ OriginInv'
    BY <1>0, <1>1, <1>2 DEF ReplayInv, OriginInv
<1> QED BY <1>3, <1>4, <1>5, <1>6, <1>7 DEF BackstepInv

LEMMA LoadStateKeeps == BackstepInv /\ LoadState => BackstepInv'
<1> SUFFICES ASSUME BackstepInv, LoadState PROVE BackstepInv'
    OBVIOUS
<1>0. /\ place \in {"idle", "stopped"} /\ ~replaying /\ t' \in 0 .. t
      /\ frames' = Invalidated(frames) /\ origin' = NoOrigin
      /\ place' = place /\ replay' = replay /\ replaying' = replaying
    BY DEF LoadState
<1>1. t \in Nat /\ t' \in Nat /\ frames \in Seq(FrameSet) /\ replay = 0
    <2>1. t \in Nat /\ frames \in Seq(FrameSet) /\ replay = 0
        BY <1>0 DEF BackstepInv, BackstepType
    <2> QED BY <1>0, <2>1
<1>2. NoOrigin \in [t : Nat, in_frame : BOOLEAN] /\ ~NoOrigin.in_frame
    BY DEF NoOrigin
<1>3. ReplayInv' /\ OriginInv'
    BY <1>0, <1>2 DEF ReplayInv, OriginInv
<1>4. CASE frames = << >>
    <2>1. frames' = frames
        BY <1>0, <1>4 DEF Invalidated
    <2>2. BackstepType'
        BY <1>0, <1>1, <1>2, <2>1 DEF BackstepInv, BackstepType
    <2>3. Len(frames) = 0
        BY <1>4, EmptySeq
    <2>4. FramesInv' /\ LastInv' /\ CountIsDistance'
        BY <1>4, <2>1, <2>3 DEF FramesInv, LastInv, CountIsDistance
    <2> QED BY <1>3, <2>2, <2>4 DEF BackstepInv
<1>5. CASE frames # << >>
    <2> DEFINE x == Frame(Last(frames).state, 0, TRUE)
               f == WithLast(frames, x)
    <2>1. Len(frames) \in Nat /\ Last(frames).state \in Nat
        BY <1>1, <1>5, LastOf
    <2>2. x \in FrameSet /\ x.invalid
        <3>1. \A s, c \in Nat : Frame(s, c, TRUE) \in FrameSet /\ Frame(s, c, TRUE).invalid = TRUE
            BY FrameFields
        <3> QED BY <2>1, <3>1
    <2>3. frames' = f
        BY <1>0, <1>5 DEF Invalidated
    <2> HIDE DEF x
    <2>4. /\ f \in Seq(FrameSet) /\ f # << >> /\ Len(f) = Len(frames) /\ Last(f) = x
          /\ \A i \in 1 .. Len(frames) - 1 : f[i] = frames[i]
        BY <1>1, <1>5, <2>2, WithLastFrames
    <2> HIDE DEF f
    <2>5. BackstepType'
        BY <1>0, <1>1, <1>2, <2>3, <2>4 DEF BackstepInv, BackstepType
    <2>6. FramesInv'
        <3> SUFFICES ASSUME NEW i \in 1 .. Len(f)
                     PROVE  Clear(f[i]) /\ HasCount(f[i])
            BY <2>3 DEF FramesInv, Clear, Short, NoVBlank, HasCount
        <3>1. CASE i = Len(f)
            <4>1. f[i] = x
                BY <2>4, <3>1 DEF Last
            <4> QED BY <2>2, <4>1 DEF Clear, Short, HasCount
        <3>2. CASE i # Len(f)
            <4>1. i \in 1 .. Len(frames) /\ i < Len(frames) /\ f[i] = frames[i]
                BY <2>1, <2>4, <3>2
            <4> QED BY <4>1 DEF BackstepInv, FramesInv
        <3> QED BY <3>1, <3>2
    <2>7. LastInv' /\ CountIsDistance'
        BY <2>2, <2>3, <2>4 DEF LastInv, CountIsDistance, Short
    <2> QED BY <1>3, <2>5, <2>6, <2>7 DEF BackstepInv
<1> QED BY <1>4, <1>5

LEMMA LoadedIsAState ==
    ASSUME t \in Nat, frames \in Seq(FrameSet)
    PROVE  Loaded(frames) \in Nat
<1>1. CASE Older(frames) = frames
    BY <1>1 DEF Loaded
<1>2. CASE Older(frames) # frames
    <2>1. Len(Older(frames)) \in 0 .. Len(frames) /\ Len(Older(frames)) < Len(frames)
        BY <1>2, OlderFrames
    <2>2. Len(frames) \in Nat
        OBVIOUS
    <2>3. Len(Older(frames)) + 1 \in 1 .. Len(frames)
        BY <2>1, <2>2
    <2>4. frames[Len(Older(frames)) + 1] \in FrameSet
        BY <2>3, ElementOfSeq
    <2> QED BY <1>2, <2>4 DEF Loaded, FrameSet
<1> QED BY <1>1, <1>2

(* A state that was just pushed again is a frame of its own, in which one  *)
(* instruction was counted and none was executed.                          *)
LEMMA RepushedFrame ==
    ASSUME NEW s \in Nat
    PROVE  LET x == Frame(s, 1, FALSE) IN
           /\ x \in FrameSet /\ x.state = s /\ x.count = 1 /\ ~x.invalid
           /\ Clear(x) /\ HasCount(x) /\ NoVBlank(s, s)
<1> DEFINE x == Frame(s, 1, FALSE)
<1>1. x \in FrameSet /\ x.state = s /\ x.count = 1 /\ ~x.invalid
    <2>1. \A c \in Nat :
             /\ Frame(s, c, FALSE) \in FrameSet /\ Frame(s, c, FALSE).state = s
             /\ Frame(s, c, FALSE).count = c /\ Frame(s, c, FALSE).invalid = FALSE
        BY FrameFields
    <2>2. 1 \in Nat
        OBVIOUS
    <2> QED BY <2>1, <2>2
<1> HIDE DEF x
<1>2. NoVBlank(s, s)
    BY BackstepAssumption DEF NoVBlank
<1>3. s + 1 - 1 = s
    OBVIOUS
<1>4. Clear(x) /\ HasCount(x)
    BY <1>1, <1>2, <1>3 DEF Clear, HasCount
<1> QED BY <1>1, <1>2, <1>4 DEF x

LEMMA EndOfBufferKeeps ==
    ASSUME BackstepInv, place = "stopped", EndOfBuffer
    PROVE  BackstepInv'
<1>0. /\ frames' = IF frames = << >> THEN frames ELSE PushFrame(<< >>, Loaded(frames), 1)
      /\ t' = Loaded(frames) /\ origin' = NoOrigin
      /\ place' = place /\ replay' = replay /\ replaying' = replaying /\ place = "stopped"
    BY DEF EndOfBuffer
<1>1. /\ t \in Nat /\ frames \in Seq(FrameSet) /\ replay = 0 /\ replaying = FALSE /\ Pending = 1
    BY AtThePrompt
<1>2. NoOrigin \in [t : Nat, in_frame : BOOLEAN] /\ ~NoOrigin.in_frame
    BY DEF NoOrigin
<1>3. ReplayInv' /\ OriginInv'
    BY <1>0, <1>1, <1>2 DEF ReplayInv, OriginInv
<1>4. Loaded(frames) \in Nat
    BY <1>1, LoadedIsAState
<1>5. CASE frames = << >>
    <2>1. frames' = frames /\ Len(frames) = 0
        BY <1>0, <1>5, EmptySeq
    <2>2. BackstepType'
        BY <1>0, <1>1, <1>2, <1>4, <2>1 DEF BackstepType
    <2>3. FramesInv' /\ LastInv' /\ CountIsDistance'
        BY <1>5, <2>1 DEF FramesInv, LastInv, CountIsDistance
    <2> QED BY <1>3, <2>2, <2>3 DEF BackstepInv
<1>6. CASE frames # << >>
    <2> DEFINE s == Loaded(frames)
               x == Frame(s, 1, FALSE)
               p == PushFrame(<< >>, s, 1)
    <2>1. /\ x \in FrameSet /\ x.state = s /\ x.count = 1 /\ ~x.invalid
          /\ Clear(x) /\ HasCount(x) /\ NoVBlank(s, s)
        BY <1>4, RepushedFrame
    <2>2. << >> \in Seq(FrameSet) /\ Len(<< >>) = 0
        BY EmptySeq
    <2>3. /\ p \in Seq(FrameSet) /\ p # << >> /\ Last(p) = x
          /\ \A i \in 1 .. Len(p) : i < Len(p) => \E j \in 1 .. Len(<< >>) : p[i] = << >>[j]
        <3>1. s \in Nat /\ 1 \in Nat
            BY <1>4
        <3> HIDE DEF s
        <3> QED BY <2>2, <3>1, PushedFrames
    <2>4. frames' = p /\ t' = s
        BY <1>0, <1>6
    <2> HIDE DEF x, p, s
    <2>5. BackstepType'
        BY <1>0, <1>1, <1>2, <1>4, <2>3, <2>4 DEF BackstepType
    <2>6. FramesInv'
        <3> SUFFICES ASSUME NEW i \in 1 .. Len(p) PROVE Clear(p[i]) /\ HasCount(p[i])
            BY <2>4 DEF FramesInv, Clear, Short, NoVBlank, HasCount
        <3>1. ~(i < Len(p))
            BY <2>2, <2>3
        <3>2. p[i] = x
            BY <2>3, <3>1 DEF Last
        <3> QED BY <2>1, <3>2
    <2>7. LastInv'
        BY <2>1, <2>3, <2>4 DEF LastInv, NoVBlank
    <2>8. CountIsDistance'
        <3>1. Pending' = 1
            BY <1>0, <1>1 DEF Pending
        <3> QED BY <2>1, <2>3, <2>4, <3>1 DEF CountIsDistance
    <2> QED BY <1>3, <2>5, <2>6, <2>7, <2>8 DEF BackstepInv
<1> QED BY <1>5, <1>6

LEMMA NotAvailableKeeps ==
    ASSUME BackstepInv, place = "stopped", NotAvailable
    PROVE  BackstepInv'
<1> DEFINE f == Older(frames)
<1>0. /\ f # << >> /\ ~Available(Last(f)) /\ frames' = f
      /\ t' = Loaded(frames) /\ origin' = NoOrigin
      /\ place' = place /\ replay' = replay /\ replaying' = replaying /\ place = "stopped"
    BY DEF NotAvailable
<1>1. /\ t \in Nat /\ frames \in Seq(FrameSet) /\ replay = 0 /\ replaying = FALSE /\ Pending = 1
      /\ \A i \in 1 .. Len(frames) : Clear(frames[i]) /\ HasCount(frames[i])
    BY AtThePrompt
<1>2. NoOrigin \in [t : Nat, in_frame : BOOLEAN] /\ ~NoOrigin.in_frame
    BY DEF NoOrigin
<1>3. ReplayInv' /\ OriginInv'
    BY <1>0, <1>1, <1>2 DEF ReplayInv, OriginInv
<1>4. Loaded(frames) \in Nat
    BY <1>1, LoadedIsAState
<1>5. /\ f \in Seq(FrameSet) /\ Len(f) \in 0 .. Len(frames)
      /\ \A i \in 1 .. Len(f) : f[i] = frames[i]
      /\ ~JustPushed(Last(f))
    BY <1>0, <1>1, OlderFrames
<1>6. f = frames => t' = t
    BY <1>0 DEF Loaded
<1> HIDE DEF f
<1>7. BackstepType'
    BY <1>0, <1>1, <1>2, <1>4, <1>5 DEF BackstepType
<1>8. Len(frames) \in Nat
    BY <1>1
<1>9. \A i \in 1 .. Len(f) : Clear(f[i]) /\ HasCount(f[i])
    BY <1>1, <1>5, <1>8
<1>10. FramesInv'
    BY <1>0, <1>9 DEF FramesInv, Clear, Short, NoVBlank, HasCount
<1>11. Pending' = Pending
    BY <1>0 DEF Pending
<1>12. ~Short(Last(f))
    <2> DEFINE l == Last(f)
    <2>1. Len(f) \in 1 .. Len(f) /\ l = f[Len(f)] /\ l.count \in Nat /\ l.invalid \in BOOLEAN
        BY <1>0, <1>5, LastOf
    <2>2. HasCount(l)
        BY <1>9, <2>1
    <2> HIDE DEF l
    <2>3. ~JustPushed(l) /\ ~Available(l)
        BY <1>0, <1>5 DEF l
    <2>4. ~l.invalid => l.count > 0 /\ l.count # 1
        BY <2>2, <2>3 DEF HasCount, JustPushed
    <2>5. ~l.invalid => ~(l.count >= 2 /\ l.count - 2 <= MaxReplay)
        BY <2>3 DEF Available
    <2>6. ~l.invalid => ~(l.count <= MaxReplay + 2)
        BY <2>1, <2>4, <2>5, BackstepAssumption
    <2> QED BY <2>6 DEF Short, l
<1>13. LastInv' /\ CountIsDistance'
    BY <1>0, <1>12 DEF LastInv, CountIsDistance, Short
<1> QED BY <1>3, <1>7, <1>10, <1>13 DEF BackstepInv

LEMMA ReplayKeeps ==
    ASSUME BackstepInv, place = "stopped", Replay
    PROVE  BackstepInv'
<1> DEFINE f == Older(frames)
           l == Last(f)
           x == Frame(l.state, 1, FALSE)
           g == Front(f)
           p == PushFrame(g, l.state, 1)
<1>0. /\ f # << >> /\ Available(l) /\ t' = l.state /\ frames' = p
      /\ replay' = ReplayLength(l) /\ replaying' = (replay' > 0)
      /\ place' = IF replaying' THEN "idle" ELSE "stopped"
      /\ origin' = [t |-> t, in_frame |-> f = frames]
    BY DEF Replay
<1>1. /\ t \in Nat /\ frames \in Seq(FrameSet) /\ replay = 0 /\ replaying = FALSE /\ Pending = 1
      /\ \A i \in 1 .. Len(frames) : Clear(frames[i]) /\ HasCount(frames[i])
    BY AtThePrompt
<1>2. /\ f \in Seq(FrameSet) /\ Len(f) \in 0 .. Len(frames)
      /\ \A i \in 1 .. Len(f) : f[i] = frames[i]
    BY <1>1, OlderFrames
<1>3. /\ Len(f) \in Nat /\ Len(f) >= 1 /\ l = f[Len(f)] /\ l.state \in Nat /\ l.count \in Nat
    BY <1>0, <1>2, LastOf
<1>4. \A i \in 1 .. Len(f) : Clear(f[i]) /\ HasCount(f[i])
    <2>1. Len(frames) \in Nat
        BY <1>1
    <2> HIDE DEF f
    <2> QED BY <1>1, <1>2, <2>1
<1>5. /\ x \in FrameSet /\ x.state = l.state /\ x.count = 1 /\ ~x.invalid
      /\ Clear(x) /\ HasCount(x) /\ NoVBlank(l.state, l.state)
    BY <1>3, RepushedFrame
<1>6. g \in Seq(FrameSet) /\ Len(g) = Len(f) - 1 /\ \A i \in 1 .. Len(g) : g[i] = f[i]
    <2> DEFINE n == Len(f) - 1
    <2>1. n \in Nat
        BY <1>3
    <2>2. \A i \in 1 .. n : f[i] \in FrameSet
        BY <1>2, <1>3, ElementOfSeq
    <2>3. g = SubSeq(f, 1, n)
        BY DEF Front
    <2> HIDE DEF n, g, f
    <2>4. /\ SubSeq(f, 1, n) \in Seq(FrameSet)
          /\ Len(SubSeq(f, 1, n)) = n
          /\ \A i \in 1 .. n : SubSeq(f, 1, n)[i] = f[i]
        BY <2>1, <2>2, SubSeqProperties
    <2> QED BY <2>3, <2>4 DEF n
<1>7. /\ p \in Seq(FrameSet) /\ p # << >> /\ Last(p) = x
      /\ \A i \in 1 .. Len(p) : i < Len(p) => \E j \in 1 .. Len(g) : p[i] = g[j]
    <2>1. l.state \in Nat /\ 1 \in Nat
        BY <1>3
    <2> HIDE DEF g, l
    <2> QED BY <1>6, <2>1, PushedFrames
<1> HIDE DEF f, l, x, g, p
<1>8. ~l.invalid /\ l.count >= 2 /\ l.count - 2 <= MaxReplay /\ MaxReplay \in Nat
    BY <1>0, BackstepAssumption DEF Available
<1>9. Short(l) /\ replay' = l.count - 2 /\ replay' \in Nat
    BY <1>0, <1>3, <1>8 DEF Short, ReplayLength
<1>10. NoVBlank(l.state, l.state + l.count - 1)
    BY <1>3, <1>4, <1>9 DEF Clear
<1>11. /\ replay' > 0 => replaying' /\ place' = "idle"
       /\ ~(replay' > 0) => ~replaying' /\ place' = "stopped"
       /\ replaying' \in BOOLEAN
    <2> DEFINE on == replay' > 0
    <2>1. replaying' = on /\ place' = IF on THEN "idle" ELSE "stopped"
        BY <1>0
    <2>2. on \in BOOLEAN
        OBVIOUS
    <2> HIDE DEF on
    <2>3. (on => replaying' /\ place' = "idle") /\ (~on => ~replaying' /\ place' = "stopped")
          /\ replaying' \in BOOLEAN
        BY <2>1, <2>2
    <2> QED BY <2>3 DEF on
<1>12. origin' \in [t : Nat, in_frame : BOOLEAN] /\ origin'.t = t /\ origin'.in_frame = (f = frames)
    <2> DEFINE same == f = frames
    <2>1. same \in BOOLEAN /\ origin' = [t |-> t, in_frame |-> same]
        BY <1>0
    <2> HIDE DEF same
    <2>2. origin' \in [t : Nat, in_frame : BOOLEAN] /\ origin'.t = t /\ origin'.in_frame = same
        BY <1>1, <2>1
    <2> QED BY <2>2 DEF same
<1>13. BackstepType'
    <2>1. t' \in Nat /\ frames' \in Seq(FrameSet) /\ place' \in {"idle", "stopped", "cpu"}
        BY <1>0, <1>3, <1>7, <1>11
    <2>2. place' = "stopped" => ~replaying'
        BY <1>11
    <2>3. ~(replaying' /\ replay' = 0)
        BY <1>9, <1>11
    <2>4. ~replaying' => replay' = 0
        <3>1. CASE replay' > 0
            BY <1>11, <3>1
        <3>2. CASE ~(replay' > 0)
            <4>1. \A n \in Nat : ~(n > 0) => n = 0
                OBVIOUS
            <4> QED BY <1>9, <3>2, <4>1, Zenon
        <3> QED BY <3>1, <3>2
    <2> QED BY <1>9, <1>11, <1>12, <2>1, <2>2, <2>3, <2>4 DEF BackstepType
<1>14. FramesInv'
    <2> SUFFICES ASSUME NEW i \in 1 .. Len(p) PROVE Clear(p[i]) /\ HasCount(p[i])
        BY <1>0 DEF FramesInv, Clear, Short, NoVBlank, HasCount
    <2>1. CASE i < Len(p)
        <3>1. PICK j \in 1 .. Len(g) : p[i] = g[j]
            BY <1>7, <2>1
        <3>2. j \in 1 .. Len(f) /\ g[j] = f[j]
            BY <1>3, <1>6
        <3> QED BY <1>4, <3>1, <3>2
    <2>2. CASE ~(i < Len(p))
        <3>1. p[i] = x
            BY <1>7, <2>2 DEF Last
        <3> QED BY <1>5, <3>1
    <2> QED BY <2>1, <2>2
<1>15. LastInv'
    BY <1>0, <1>5, <1>7 DEF LastInv, NoVBlank
<1>16. CountIsDistance'
    <2>1. Pending' = 1
        <3>1. CASE replay' > 0
            BY <1>11, <3>1 DEF Pending
        <3>2. CASE ~(replay' > 0)
            BY <1>11, <3>2 DEF Pending
        <3> QED BY <3>1, <3>2
    <2>2. t' + 1 = x.state + x.count
        BY <1>0, <1>3, <1>5
    <2> QED BY <1>0, <1>7, <2>1, <2>2 DEF CountIsDistance
<1>17. End' = l.state + l.count - 2
    <2>1. place' # "cpu"
        BY <1>11
    <2>2. End' = t' + replay' + 0
        BY <2>1 DEF End
    <2> QED BY <1>0, <1>3, <1>9, <2>2
<1>18. ReplayInv'
    <2>1. End' + 1 = l.state + l.count - 1
        BY <1>3, <1>17
    <2>2. NoVBlank(t', End' + 1)
        BY <1>0, <1>10, <2>1
    <2> QED BY <2>2 DEF ReplayInv, NoVBlank
<1>19. OriginInv'
    <2> SUFFICES ASSUME f = frames PROVE End' = t - 1 /\ (replaying' \/ place' = "stopped")
        BY <1>12 DEF OriginInv
    <2>1. t + 1 = l.state + l.count
        BY <1>0, <1>1, <1>8, <1>9 DEF BackstepInv, CountIsDistance, Short, l
    <2>2. End' = t - 1
        BY <1>1, <1>3, <1>17, <2>1
    <2> QED BY <1>11, <2>2
<1> QED BY <1>13, <1>14, <1>15, <1>16, <1>18, <1>19 DEF BackstepInv

LEMMA BackstepInvariance == BackstepSpec => []BackstepInv
<1>1. BackstepInv /\ [BackstepNext]_backstepVars => BackstepInv'
    <2> SUFFICES ASSUME BackstepInv, [BackstepNext]_backstepVars PROVE BackstepInv'
        OBVIOUS
    <2>1. CASE Backstep
        BY <2>1, EndOfBufferKeeps, NotAvailableKeeps, ReplayKeeps DEF Backstep
    <2>2. CASE UNCHANGED backstepVars
        BY <2>2
        DEF backstepVars, BackstepInv, BackstepType, FramesInv, LastInv, ReplayInv, OriginInv,
            CountIsDistance, Clear, Short, NoVBlank, HasCount, End, Pending
    <2> QED
        BY <2>1, <2>2, DebuggerRunKeeps, CpuRunKeeps, ResumeKeeps, LoadStateKeeps
        DEF BackstepNext
<1> QED BY <1>1, Start, PTL DEF BackstepSpec

(* From within a frame, a backstep that is carried out ends exactly one    *)
(* instruction before the one at which the debugger had stopped: the count *)
(* kept beside each rewind frame (GB_debugger_run, GB_rewind_push) is the  *)
(* distance to the machine, and the replay of backstep never reaches the   *)
(* vertical blank that would push another frame.                           *)
THEOREM BackstepGoesBackOne == BackstepSpec => []BackstepInFrame
<1>1. BackstepInv => BackstepInFrame
    <2> SUFFICES ASSUME BackstepInv, place = "stopped", ~replaying, origin.in_frame
                 PROVE  t = origin.t - 1
        BY DEF BackstepInFrame, Landed
    <2>1. t \in Nat /\ replay = 0
        BY DEF BackstepInv, BackstepType
    <2>2. End = t
        BY <2>1 DEF End
    <2> QED BY <2>2 DEF BackstepInv, OriginInv
<1> QED BY <1>1, BackstepInvariance, PTL
-----------------------------------------------------------------------------
(***************************************************************************)
(* RewindCodec: the encoding of a state as its difference from a key, for  *)
(* any two states, of any size, and any largest count.                     *)
(***************************************************************************)

(* A count that fits is stored as it is. *)
LEMMA CountLemma ==
    ASSUME NEW n \in 0 .. MaxCounter
    PROVE  n % (MaxCounter + 1) = n
<1>1. MaxCounter \in Nat
  BY CodecAssumption
<1> QED BY <1>1

CountSet(m, m1, pos, n) ==
    /\ DOMAIN m1 = DOMAIN m \union {pos, pos + 1}
    /\ m1[pos] = n
    /\ \A x \in DOMAIN m \ {pos, pos + 1} : m1[x] = m[x]

(* What SetCounter changes. *)
LEMMA SetCounterLemma ==
    ASSUME NEW m, NEW pos \in Nat, NEW n \in 0 .. MaxCounter
    PROVE  CountSet(m, SetCounter(m, pos, n), pos, n)
<1>1. n % (MaxCounter + 1) = n
  BY CountLemma
<1>2. DOMAIN Write(m, pos, n) = DOMAIN m \union {pos}
  BY DEF Write
<1>3. pos # pos + 1
  OBVIOUS
<1> QED BY <1>1, <1>2, <1>3 DEF SetCounter, Write, CountSet

(* A count in the output changed, and a count appended to it: pos is its   *)
(* place and e the end of the output.                                      *)
Recounted(m, m1, pos, n, e) ==
    /\ DOMAIN m1 = 0 .. e - 1
    /\ m1[pos] = n
    /\ \A x \in 0 .. pos - 1 : m1[x] = m[x]
    /\ \A x \in pos + 2 .. e - 1 : m1[x] = m[x]

(* The count of a block already in the output is changed. *)
LEMMA Recount ==
    ASSUME NEW m, NEW pos \in Nat, NEW n \in 0 .. MaxCounter, NEW e \in Nat,
           DOMAIN m = 0 .. e - 1, pos + 2 <= e
    PROVE  Recounted(m, SetCounter(m, pos, n), pos, n, e)
<1>1. CountSet(m, SetCounter(m, pos, n), pos, n)
  BY SetCounterLemma, Zenon
<1>3. (0 .. e - 1) \union {pos, pos + 1} = 0 .. e - 1
  OBVIOUS
<1>4. DOMAIN SetCounter(m, pos, n) = 0 .. e - 1
  BY <1>1, <1>3, Zenon DEF CountSet
<1>6. ASSUME NEW x \in 0 .. pos - 1 PROVE SetCounter(m, pos, n)[x] = m[x]
  <2>1. x \in 0 .. e - 1 /\ x # pos /\ x # pos + 1
    OBVIOUS
  <2> QED BY <2>1, <1>1, Zenon DEF CountSet
<1>7. ASSUME NEW x \in pos + 2 .. e - 1 PROVE SetCounter(m, pos, n)[x] = m[x]
  <2>1. x \in 0 .. e - 1 /\ x # pos /\ x # pos + 1
    OBVIOUS
  <2> QED BY <2>1, <1>1, Zenon DEF CountSet
<1>8. SetCounter(m, pos, n)[pos] = n
  BY <1>1, Zenon DEF CountSet
<1> QED BY <1>4, <1>6, <1>7, <1>8, Zenon DEF Recounted

(* The count of a new block is put at the end of the output. *)
LEMMA NewCount ==
    ASSUME NEW m, NEW pos \in Nat, NEW n \in 0 .. MaxCounter, DOMAIN m = 0 .. pos - 1
    PROVE  Recounted(m, SetCounter(m, pos, n), pos, n, pos + 2)
<1>1. CountSet(m, SetCounter(m, pos, n), pos, n)
  BY SetCounterLemma, Zenon
<1>3. (0 .. pos - 1) \union {pos, pos + 1} = 0 .. (pos + 2) - 1
  OBVIOUS
<1>4. DOMAIN SetCounter(m, pos, n) = 0 .. (pos + 2) - 1
  BY <1>1, <1>3, Zenon DEF CountSet
<1>6. ASSUME NEW x \in 0 .. pos - 1 PROVE SetCounter(m, pos, n)[x] = m[x]
  <2>1. x \in 0 .. pos - 1 /\ x # pos /\ x # pos + 1
    OBVIOUS
  <2> QED BY <2>1, <1>1, Zenon DEF CountSet
<1>7. ASSUME NEW x \in pos + 2 .. (pos + 2) - 1 PROVE FALSE
  OBVIOUS
<1>8. SetCounter(m, pos, n)[pos] = n
  BY <1>1, Zenon DEF CountSet
<1> QED BY <1>4, <1>6, <1>7, <1>8, Zenon DEF Recounted

(* A block of bytes equal to the key's and the block of literals behind it *)
(* start at at[i] and at[i] + 2 + ...; first[i] and mid[i] are the numbers *)
(* of bytes of the state that they start with.                             *)
BlockShape(K, L, at, first, mid) ==
    /\ at[0] = 0 /\ first[0] = 0
    /\ \A i \in 0 .. K : first[i] <= mid[i] /\ mid[i] - first[i] <= MaxCounter
    /\ \A i \in 0 .. L - 1 : mid[i] <= first[i + 1] /\ first[i + 1] - mid[i] <= MaxCounter
    /\ \A i \in 0 .. K - 1 : at[i + 1] = at[i] + 4 + first[i + 1] - mid[i]
    /\ \A i \in 0 .. K - 1 : \A j \in i + 1 .. K : at[i] + 4 + first[i + 1] - mid[i] <= at[j]

SamePart(m, p, d, i, at, first, mid) ==
    /\ m[at[i]] = mid[i] - first[i]
    /\ \A k \in first[i] .. mid[i] - 1 : d[k] = p[k]

LiteralPart(m, d, i, at, first, mid) ==
    /\ m[at[i] + 2] = first[i + 1] - mid[i]
    /\ \A k \in mid[i] .. first[i + 1] - 1 : m[at[i] + 4 + (k - mid[i])] = d[k]

EndPos(K, L, at, first, mid) ==
    IF L = K THEN at[K] + 2 ELSE at[K] + 4 + first[K + 1] - mid[K]

Consumed(K, L, first, mid) == IF L = K THEN mid[K] ELSE first[K + 1]

Encoded(m, p, d, K, L, at, first, mid) ==
    /\ BlockShape(K, L, at, first, mid)
    /\ \A i \in 0 .. K : SamePart(m, p, d, i, at, first, mid)
    /\ \A i \in 0 .. L - 1 : LiteralPart(m, d, i, at, first, mid)
    /\ DOMAIN m = 0 .. EndPos(K, L, at, first, mid) - 1

(* A part stays as it is when the bytes of it do. *)
LEMMA LiteralKept ==
    ASSUME NEW m, NEW m1, NEW d, NEW i \in Nat,
           NEW at \in [Nat -> Nat], NEW first \in [Nat -> Nat], NEW mid \in [Nat -> Nat],
           LiteralPart(m, d, i, at, first, mid),
           mid[i] <= first[i + 1],
           \A x \in at[i] + 2 .. at[i] + 3 + first[i + 1] - mid[i] : m1[x] = m[x]
    PROVE  LiteralPart(m1, d, i, at, first, mid)
<1>2. /\ m[at[i] + 2] = first[i + 1] - mid[i]
      /\ \A k \in mid[i] .. first[i + 1] - 1 : m[at[i] + 4 + (k - mid[i])] = d[k]
  BY Zenon DEF LiteralPart
<1>3. at[i] + 2 \in at[i] + 2 .. at[i] + 3 + first[i + 1] - mid[i]
  OBVIOUS
<1>4. m1[at[i] + 2] = m[at[i] + 2]
  BY <1>3, Zenon
<1>5. ASSUME NEW k \in mid[i] .. first[i + 1] - 1
      PROVE  m1[at[i] + 4 + (k - mid[i])] = d[k]
  <2>1. at[i] + 4 + (k - mid[i]) \in at[i] + 2 .. at[i] + 3 + first[i + 1] - mid[i]
    OBVIOUS
  <2>2. m1[at[i] + 4 + (k - mid[i])] = m[at[i] + 4 + (k - mid[i])]
    BY <2>1, Zenon
  <2>3. m[at[i] + 4 + (k - mid[i])] = d[k]
    BY <1>2, Zenon
  <2> QED BY <2>2, <2>3, Zenon
<1> QED BY <1>2, <1>4, <1>5, Zenon DEF LiteralPart

(* One more byte in a block of equal bytes. *)
SameByte(m, m1, p, d, K, at, first, mid, mid1) ==
    /\ Encoded(m, p, d, K, K, at, first, mid)
    /\ d[mid[K]] = p[mid[K]]
    /\ m[at[K]] # MaxCounter
    /\ m1 = SetCounter(m, at[K], m[at[K]] + 1)
    /\ mid1 = [mid EXCEPT ![K] = mid[K] + 1]

(* The output is an encoding of one byte more. *)
LEMMA EncodeSame ==
    ASSUME NEW m, NEW p, NEW d, NEW K \in Nat, NEW at \in [Nat -> Nat],
           NEW first \in [Nat -> Nat], NEW mid \in [Nat -> Nat], NEW mid1 \in [Nat -> Nat], NEW m1
    PROVE  SameByte(m, m1, p, d, K, at, first, mid, mid1)
           => Encoded(m1, p, d, K, K, at, first, mid1)
<1>0. SUFFICES ASSUME Encoded(m, p, d, K, K, at, first, mid),
                      d[mid[K]] = p[mid[K]], m[at[K]] # MaxCounter,
                      m1 = SetCounter(m, at[K], m[at[K]] + 1),
                      mid1 = [mid EXCEPT ![K] = mid[K] + 1]
               PROVE  Encoded(m1, p, d, K, K, at, first, mid1)
  BY Zenon DEF SameByte
<1>1. /\ at[0] = 0 /\ first[0] = 0
      /\ \A i \in 0 .. K : first[i] <= mid[i] /\ mid[i] - first[i] <= MaxCounter
      /\ \A i \in 0 .. K - 1 : mid[i] <= first[i + 1] /\ first[i + 1] - mid[i] <= MaxCounter
      /\ \A i \in 0 .. K - 1 : at[i + 1] = at[i] + 4 + first[i + 1] - mid[i]
      /\ \A i \in 0 .. K - 1 : \A j \in i + 1 .. K : at[i] + 4 + first[i + 1] - mid[i] <= at[j]
  BY <1>0, Zenon DEF Encoded, BlockShape
<1>2. m[at[K]] = mid[K] - first[K] /\ mid[K] - first[K] \in 0 .. MaxCounter - 1
  <2>1. K \in 0 .. K
    OBVIOUS
  <2>2. m[at[K]] = mid[K] - first[K]
    BY <1>0, <2>1, Zenon DEF Encoded, SamePart
  <2>3. mid[K] - first[K] # MaxCounter
    BY <2>2, <1>0, Zenon
  <2>4. first[K] <= mid[K] /\ mid[K] - first[K] <= MaxCounter
    BY <2>1, <1>1, Zenon
  <2>5. mid[K] - first[K] \in 0 .. MaxCounter - 1
    BY <2>3, <2>4, CodecAssumption
  <2> QED BY <2>2, <2>5, Zenon
<1>e. mid1 = [mid EXCEPT ![K] = mid[K] + 1]
  BY <1>0, Zenon
<1>3. mid1[K] = mid[K] + 1 /\ \A i \in Nat \ {K} : mid1[i] = mid[i]
  BY <1>e
<1>4. BlockShape(K, K, at, first, mid1)
  <2>1. ASSUME NEW i \in 0 .. K PROVE first[i] <= mid1[i] /\ mid1[i] - first[i] <= MaxCounter
    <3>1. CASE i = K
      BY <3>1, <1>1, <1>2, <1>3, CodecAssumption
    <3>2. CASE i # K
      <4>1. mid1[i] = mid[i]
        BY <3>2, <1>3
      <4> QED BY <4>1, <1>1, Zenon
    <3> QED BY <3>1, <3>2, Zenon
  <2>2. ASSUME NEW i \in 0 .. K - 1 PROVE mid1[i] = mid[i]
    BY <1>3
  <2> QED BY <2>1, <2>2, <1>1 DEF BlockShape
<1>5. DOMAIN m = 0 .. (at[K] + 2) - 1
  BY <1>0, Zenon DEF Encoded, EndPos
<1>6. /\ DOMAIN m1 = 0 .. (at[K] + 2) - 1
      /\ m1[at[K]] = mid[K] - first[K] + 1
      /\ \A x \in 0 .. at[K] - 1 : m1[x] = m[x]
  <2>1. mid[K] - first[K] + 1 \in 0 .. MaxCounter /\ at[K] \in Nat /\ at[K] + 2 \in Nat
    BY <1>2, CodecAssumption
  <2>2. at[K] + 2 <= at[K] + 2
    OBVIOUS
  <2>3. Recounted(m, SetCounter(m, at[K], mid[K] - first[K] + 1), at[K],
                  mid[K] - first[K] + 1, at[K] + 2)
    BY <2>1, <2>2, <1>5, Recount, Zenon
  <2>4. Recounted(m, m1, at[K], mid[K] - first[K] + 1, at[K] + 2)
    BY <2>3, <1>0, <1>2, Zenon
  <2> QED BY <2>4, Zenon DEF Recounted
<1>7. ASSUME NEW i \in 0 .. K PROVE SamePart(m1, p, d, i, at, first, mid1)
  <2>0. SamePart(m, p, d, i, at, first, mid)
    BY <1>0, Zenon DEF Encoded
  <2>1. CASE i = K
    <3>1. ASSUME NEW k \in first[K] .. mid1[K] - 1 PROVE d[k] = p[k]
      <4>1. CASE k = mid[K]
        BY <4>1, <1>0, Zenon
      <4>2. CASE k # mid[K]
        <5>1. k \in first[K] .. mid[K] - 1
          BY <4>2, <1>3
        <5> QED BY <5>1, <2>0, <2>1, Zenon DEF SamePart
      <4> QED BY <4>1, <4>2, Zenon
    <3>2. mid1[K] - first[K] = mid[K] - first[K] + 1
      BY <1>3
    <3> QED BY <2>1, <3>1, <3>2, <1>6, Zenon DEF SamePart
  <2>2. CASE i # K
    <3>1. at[i] \in 0 .. at[K] - 1 /\ i \in Nat /\ mid1[i] = mid[i]
      BY <2>2, <1>1, <1>3
    <3>2. m1[at[i]] = m[at[i]]
      BY <3>1, <1>6, Zenon
    <3> QED BY <2>0, <3>1, <3>2, Zenon DEF SamePart
  <2> QED BY <2>1, <2>2, Zenon
<1>8. ASSUME NEW i \in 0 .. K - 1 PROVE LiteralPart(m1, d, i, at, first, mid1)
  <2>1. at[i] + 4 + first[i + 1] - mid[i] <= at[K] /\ mid[i] <= first[i + 1]
    BY <1>1
  <2>2. mid1[i] = mid[i] /\ i \in Nat
    BY <1>3
  <2>3. ASSUME NEW x \in at[i] + 2 .. at[i] + 3 + first[i + 1] - mid[i] PROVE m1[x] = m[x]
    <3>1. x \in 0 .. at[K] - 1
      BY <2>1
    <3> QED BY <3>1, <1>6, Zenon
  <2>4. LiteralPart(m, d, i, at, first, mid)
    BY <1>0, Zenon DEF Encoded
  <2>5. LiteralPart(m1, d, i, at, first, mid)
    BY <2>1, <2>2, <2>3, <2>4, LiteralKept, Zenon
  <2> QED BY <2>2, <2>5, Zenon DEF LiteralPart
<1>9. EndPos(K, K, at, first, mid1) = at[K] + 2
  BY DEF EndPos
<1> QED BY <1>4, <1>6, <1>7, <1>8, <1>9, Zenon DEF Encoded

(* A block of literals begins, with no byte. *)
LEMMA EncodeLiterals ==
    ASSUME NEW m, NEW p, NEW d, NEW K \in Nat, NEW at \in [Nat -> Nat],
           NEW first \in [Nat -> Nat], NEW mid \in [Nat -> Nat], NEW first1 \in [Nat -> Nat], NEW m1
    PROVE  /\ Encoded(m, p, d, K, K, at, first, mid)
           /\ m1 = SetCounter(m, at[K] + 2, 0)
           /\ first1 = [first EXCEPT ![K + 1] = mid[K]]
           => Encoded(m1, p, d, K, K + 1, at, first1, mid)
<1>0. SUFFICES ASSUME Encoded(m, p, d, K, K, at, first, mid),
                      m1 = SetCounter(m, at[K] + 2, 0),
                      first1 = [first EXCEPT ![K + 1] = mid[K]]
               PROVE  Encoded(m1, p, d, K, K + 1, at, first1, mid)
  BY Zenon
<1>1. /\ at[0] = 0 /\ first[0] = 0
      /\ \A i \in 0 .. K : first[i] <= mid[i] /\ mid[i] - first[i] <= MaxCounter
      /\ \A i \in 0 .. K - 1 : mid[i] <= first[i + 1] /\ first[i + 1] - mid[i] <= MaxCounter
      /\ \A i \in 0 .. K - 1 : at[i + 1] = at[i] + 4 + first[i + 1] - mid[i]
      /\ \A i \in 0 .. K - 1 : \A j \in i + 1 .. K : at[i] + 4 + first[i + 1] - mid[i] <= at[j]
  BY <1>0, Zenon DEF Encoded, BlockShape
<1>e. first1 = [first EXCEPT ![K + 1] = mid[K]]
  BY <1>0, Zenon
<1>3. first1[K + 1] = mid[K] /\ \A i \in 0 .. K : first1[i] = first[i]
  BY <1>e
<1>4. BlockShape(K, K + 1, at, first1, mid)
  <2>1. ASSUME NEW i \in 0 .. K
        PROVE  first1[i] <= mid[i] /\ mid[i] - first1[i] <= MaxCounter
    BY <1>1, <1>3, Zenon
  <2>2. ASSUME NEW i \in 0 .. K - 1 PROVE first1[i + 1] = first[i + 1]
    <3>1. i + 1 \in 0 .. K
      OBVIOUS
    <3> QED BY <3>1, <1>3, Zenon
  <2>3. ASSUME NEW i \in 0 .. (K + 1) - 1
        PROVE  mid[i] <= first1[i + 1] /\ first1[i + 1] - mid[i] <= MaxCounter
    <3>1. CASE i = K
      BY <3>1, <1>3, CodecAssumption
    <3>2. CASE i # K
      <4>1. i \in 0 .. K - 1
        BY <3>2
      <4> QED BY <4>1, <2>2, <1>1, Zenon
    <3> QED BY <3>1, <3>2, Zenon
  <2>4. 0 \in 0 .. K
    OBVIOUS
  <2>5. first1[0] = 0
    BY <2>4, <1>1, <1>3, Zenon
  <2>6. ASSUME NEW i \in 0 .. K - 1
        PROVE  /\ at[i + 1] = at[i] + 4 + first1[i + 1] - mid[i]
               /\ \A j \in i + 1 .. K : at[i] + 4 + first1[i + 1] - mid[i] <= at[j]
    BY <2>2, <1>1, Zenon
  <2> QED BY <2>1, <2>3, <2>5, <2>6, <1>1, Zenon DEF BlockShape
<1>5. DOMAIN m = 0 .. (at[K] + 2) - 1
  BY <1>0, Zenon DEF Encoded, EndPos
<1>6. /\ DOMAIN m1 = 0 .. (at[K] + 2 + 2) - 1
      /\ m1[at[K] + 2] = 0
      /\ \A x \in 0 .. (at[K] + 2) - 1 : m1[x] = m[x]
  <2>1. 0 \in 0 .. MaxCounter /\ at[K] + 2 \in Nat
    BY CodecAssumption
  <2>2. Recounted(m, SetCounter(m, at[K] + 2, 0), at[K] + 2, 0, at[K] + 2 + 2)
    BY <2>1, <1>5, NewCount, Zenon
  <2>3. Recounted(m, m1, at[K] + 2, 0, at[K] + 2 + 2)
    BY <2>2, <1>0, Zenon
  <2> QED BY <2>3, Zenon DEF Recounted
<1>7. ASSUME NEW i \in 0 .. K PROVE SamePart(m1, p, d, i, at, first1, mid)
  <2>0. SamePart(m, p, d, i, at, first, mid)
    BY <1>0, Zenon DEF Encoded
  <2>1. at[i] \in 0 .. (at[K] + 2) - 1
    <3>1. CASE i = K
      BY <3>1
    <3>2. CASE i # K
      BY <3>2, <1>1
    <3> QED BY <3>1, <3>2, Zenon
  <2>2. m1[at[i]] = m[at[i]] /\ first1[i] = first[i]
    BY <2>1, <1>3, <1>6, Zenon
  <2> QED BY <2>0, <2>2, Zenon DEF SamePart
<1>8. ASSUME NEW i \in 0 .. (K + 1) - 1 PROVE LiteralPart(m1, d, i, at, first1, mid)
  <2>1. CASE i = K
    <3>1. m1[at[K] + 2] = first1[K + 1] - mid[K]
      <4>1. mid[K] - mid[K] = 0
        OBVIOUS
      <4> QED BY <4>1, <1>3, <1>6, Zenon
    <3>2. ASSUME NEW k \in mid[K] .. first1[K + 1] - 1 PROVE FALSE
      BY <1>3
    <3> QED BY <2>1, <3>1, <3>2, Zenon DEF LiteralPart
  <2>2. CASE i # K
    <3>0. i \in 0 .. K - 1 /\ i \in Nat /\ i + 1 \in 0 .. K
      BY <2>2
    <3>1. at[i] + 4 + first[i + 1] - mid[i] <= at[K] /\ mid[i] <= first[i + 1]
      BY <3>0, <1>1
    <3>2. first1[i + 1] = first[i + 1]
      BY <3>0, <1>3, Zenon
    <3>3. ASSUME NEW x \in at[i] + 2 .. at[i] + 3 + first[i + 1] - mid[i] PROVE m1[x] = m[x]
      <4>1. x \in 0 .. (at[K] + 2) - 1
        BY <3>0, <3>1
      <4> QED BY <4>1, <1>6, Zenon
    <3>4. LiteralPart(m, d, i, at, first, mid)
      BY <3>0, <1>0, Zenon DEF Encoded
    <3>5. LiteralPart(m1, d, i, at, first, mid)
      BY <3>0, <3>1, <3>3, <3>4, LiteralKept, Zenon
    <3> QED BY <3>2, <3>5, Zenon DEF LiteralPart
  <2> QED BY <2>1, <2>2, Zenon
<1>9. EndPos(K, K + 1, at, first1, mid) = at[K] + 2 + 2
  BY <1>3 DEF EndPos
<1>10. DOMAIN m1 = 0 .. EndPos(K, K + 1, at, first1, mid) - 1
  BY <1>6, <1>9, Zenon
<1> QED BY <1>4, <1>7, <1>8, <1>10, Zenon DEF Encoded

Appended(m, m1, e, v) ==
    /\ DOMAIN m1 = 0 .. (e + 1) - 1
    /\ m1[e] = v
    /\ \A x \in 0 .. e - 1 : m1[x] = m[x]

(* A byte is put at the end of the output. *)
LEMMA AppendByte ==
    ASSUME NEW m, NEW e \in Nat, NEW v, DOMAIN m = 0 .. e - 1
    PROVE  Appended(m, Write(m, e, v), e, v)
<1>1. (0 .. e - 1) \union {e} = 0 .. (e + 1) - 1
  OBVIOUS
<1>2. Write(m, e, v) = [x \in 0 .. (e + 1) - 1 |-> IF x = e THEN v ELSE m[x]]
  BY <1>1, Zenon DEF Write
<1>3. e \in 0 .. (e + 1) - 1 /\ \A x \in 0 .. e - 1 : x \in 0 .. (e + 1) - 1 /\ x # e
  OBVIOUS
<1> QED BY <1>2, <1>3, Zenon DEF Appended

(* A count that is not full has room for one more. *)
LEMMA Room ==
    ASSUME NEW n \in Nat, n <= MaxCounter, n # MaxCounter
    PROVE  n \in 0 .. MaxCounter - 1
<1>1. MaxCounter \in Nat
  BY CodecAssumption
<1> QED BY <1>1

(* One more byte in a block of literals. *)
LiteralByte(m, m1, p, d, K, at, first, mid, first1) ==
    /\ Encoded(m, p, d, K, K + 1, at, first, mid)
    /\ m[at[K] + 2] # MaxCounter
    /\ m1 = Write(SetCounter(m, at[K] + 2, m[at[K] + 2] + 1),
                  at[K] + 4 + first[K + 1] - mid[K], d[first[K + 1]])
    /\ first1 = [first EXCEPT ![K + 1] = first[K + 1] + 1]

(* The output is an encoding of one literal more. *)
LEMMA EncodeLiteral ==
    ASSUME NEW m, NEW p, NEW d, NEW K \in Nat, NEW at \in [Nat -> Nat],
           NEW first \in [Nat -> Nat], NEW mid \in [Nat -> Nat], NEW first1 \in [Nat -> Nat], NEW m1
    PROVE  LiteralByte(m, m1, p, d, K, at, first, mid, first1)
           => Encoded(m1, p, d, K, K + 1, at, first1, mid)
<1>0. SUFFICES ASSUME Encoded(m, p, d, K, K + 1, at, first, mid),
                      m[at[K] + 2] # MaxCounter,
                      m1 = Write(SetCounter(m, at[K] + 2, m[at[K] + 2] + 1),
                                 at[K] + 4 + first[K + 1] - mid[K], d[first[K + 1]]),
                      first1 = [first EXCEPT ![K + 1] = first[K + 1] + 1]
               PROVE  Encoded(m1, p, d, K, K + 1, at, first1, mid)
  BY Zenon DEF LiteralByte
<1>1. /\ at[0] = 0 /\ first[0] = 0
      /\ \A i \in 0 .. K : first[i] <= mid[i] /\ mid[i] - first[i] <= MaxCounter
      /\ \A i \in 0 .. (K + 1) - 1 :
            mid[i] <= first[i + 1] /\ first[i + 1] - mid[i] <= MaxCounter
      /\ \A i \in 0 .. K - 1 : at[i + 1] = at[i] + 4 + first[i + 1] - mid[i]
      /\ \A i \in 0 .. K - 1 : \A j \in i + 1 .. K : at[i] + 4 + first[i + 1] - mid[i] <= at[j]
  BY <1>0, Zenon DEF Encoded, BlockShape
<1>2. /\ mid[K] <= first[K + 1]
      /\ m[at[K] + 2] = first[K + 1] - mid[K] /\ first[K + 1] - mid[K] \in 0 .. MaxCounter - 1
  <2>1. K \in 0 .. (K + 1) - 1
    OBVIOUS
  <2>2. m[at[K] + 2] = first[K + 1] - mid[K]
    BY <1>0, <2>1, Zenon DEF Encoded, LiteralPart
  <2>3. first[K + 1] - mid[K] # MaxCounter
    BY <2>2, <1>0, Zenon
  <2>4. mid[K] <= first[K + 1] /\ first[K + 1] - mid[K] <= MaxCounter
    BY <2>1, <1>1, Zenon
  <2>5. first[K + 1] - mid[K] \in 0 .. MaxCounter - 1
    <3>1. first[K + 1] - mid[K] \in Nat /\ MaxCounter \in Nat
      BY <2>4, CodecAssumption
    <3> QED BY <2>3, <2>4, <3>1, Room, Zenon
  <2> QED BY <2>2, <2>4, <2>5, Zenon
<1>e. first1 = [first EXCEPT ![K + 1] = first[K + 1] + 1]
  BY <1>0, Zenon
<1>3. first1[K + 1] = first[K + 1] + 1 /\ \A i \in 0 .. K : first1[i] = first[i]
  BY <1>e
<1>4. BlockShape(K, K + 1, at, first1, mid)
  <2>1. ASSUME NEW i \in 0 .. K
        PROVE  first1[i] <= mid[i] /\ mid[i] - first1[i] <= MaxCounter
    BY <1>1, <1>3, Zenon
  <2>2. ASSUME NEW i \in 0 .. K - 1 PROVE first1[i + 1] = first[i + 1]
    <3>1. i + 1 \in 0 .. K
      OBVIOUS
    <3> QED BY <3>1, <1>3, Zenon
  <2>3. ASSUME NEW i \in 0 .. (K + 1) - 1
        PROVE  mid[i] <= first1[i + 1] /\ first1[i + 1] - mid[i] <= MaxCounter
    <3>1. CASE i = K
      BY <3>1, <1>2, <1>3, CodecAssumption
    <3>2. CASE i # K
      <4>1. i \in 0 .. K - 1
        BY <3>2
      <4> QED BY <4>1, <2>2, <1>1, Zenon
    <3> QED BY <3>1, <3>2, Zenon
  <2>4. 0 \in 0 .. K
    OBVIOUS
  <2>5. first1[0] = 0
    BY <2>4, <1>1, <1>3, Zenon
  <2>6. ASSUME NEW i \in 0 .. K - 1
        PROVE  /\ at[i + 1] = at[i] + 4 + first1[i + 1] - mid[i]
               /\ \A j \in i + 1 .. K : at[i] + 4 + first1[i + 1] - mid[i] <= at[j]
    BY <2>2, <1>1, Zenon
  <2> QED BY <2>1, <2>3, <2>5, <2>6, <1>1, Zenon DEF BlockShape
<1> DEFINE e == at[K] + 4 + first[K + 1] - mid[K]
           mm == SetCounter(m, at[K] + 2, first[K + 1] - mid[K] + 1)
<1>a. e \in Nat /\ at[K] + 2 \in Nat /\ at[K] + 2 + 2 <= e
      /\ first[K + 1] - mid[K] + 1 \in 0 .. MaxCounter
  BY <1>2, CodecAssumption
<1>b. EndPos(K, K + 1, at, first, mid) = e /\ EndPos(K, K + 1, at, first1, mid) = e + 1
  BY <1>2, <1>3 DEF EndPos
<1> HIDE DEF e
<1>5. DOMAIN m = 0 .. e - 1
  BY <1>0, <1>b, Zenon DEF Encoded
<1>c. Recounted(m, mm, at[K] + 2, first[K + 1] - mid[K] + 1, e)
  BY <1>a, <1>5, Recount, Zenon
<1> HIDE DEF mm
<1>d. m1 = Write(mm, e, d[first[K + 1]])
  BY <1>0, <1>2, Zenon DEF e, mm
<1>6. /\ DOMAIN m1 = 0 .. (e + 1) - 1
      /\ m1[at[K] + 2] = first[K + 1] - mid[K] + 1
      /\ \A x \in 0 .. (at[K] + 2) - 1 : m1[x] = m[x]
      /\ \A x \in at[K] + 2 + 2 .. e - 1 : m1[x] = m[x]
      /\ m1[e] = d[first[K + 1]]
  <2>1. /\ DOMAIN mm = 0 .. e - 1
        /\ mm[at[K] + 2] = first[K + 1] - mid[K] + 1
        /\ \A x \in 0 .. (at[K] + 2) - 1 : mm[x] = m[x]
        /\ \A x \in at[K] + 2 + 2 .. e - 1 : mm[x] = m[x]
    BY <1>c, Zenon DEF Recounted
  <2>2. /\ DOMAIN m1 = 0 .. (e + 1) - 1
        /\ m1[e] = d[first[K + 1]]
        /\ \A x \in 0 .. e - 1 : m1[x] = mm[x]
    <3>1. DOMAIN mm = 0 .. e - 1 /\ e \in Nat
      BY <2>1, <1>a, Zenon
    <3>2. Appended(mm, Write(mm, e, d[first[K + 1]]), e, d[first[K + 1]])
      BY <3>1, AppendByte, Zenon
    <3>3. Appended(mm, m1, e, d[first[K + 1]])
      BY <3>2, <1>d, Zenon
    <3> QED BY <3>3, Zenon DEF Appended
  <2>3. /\ at[K] + 2 \in 0 .. e - 1
        /\ \A x \in 0 .. (at[K] + 2) - 1 : x \in 0 .. e - 1
        /\ \A x \in at[K] + 2 + 2 .. e - 1 : x \in 0 .. e - 1
    BY <1>a
  <2> QED BY <2>1, <2>2, <2>3, Zenon
<1>7. ASSUME NEW i \in 0 .. K PROVE SamePart(m1, p, d, i, at, first1, mid)
  <2>0. SamePart(m, p, d, i, at, first, mid)
    BY <1>0, Zenon DEF Encoded
  <2>1. at[i] \in 0 .. (at[K] + 2) - 1
    <3>1. CASE i = K
      BY <3>1
    <3>2. CASE i # K
      <4>1. i \in 0 .. K - 1 /\ K \in i + 1 .. K /\ i \in 0 .. (K + 1) - 1
        BY <3>2
      <4>2. at[i] + 4 + first[i + 1] - mid[i] <= at[K] /\ mid[i] <= first[i + 1]
        BY <4>1, <1>1, Zenon
      <4> QED BY <4>2
    <3> QED BY <3>1, <3>2, Zenon
  <2>2. m1[at[i]] = m[at[i]] /\ first1[i] = first[i]
    BY <2>1, <1>3, <1>6, Zenon
  <2> QED BY <2>0, <2>2, Zenon DEF SamePart
<1>8. ASSUME NEW i \in 0 .. (K + 1) - 1 PROVE LiteralPart(m1, d, i, at, first1, mid)
  <2>0. LiteralPart(m, d, i, at, first, mid)
    BY <1>0, Zenon DEF Encoded
  <2>1. CASE i = K
    <3>1. m1[at[K] + 2] = first1[K + 1] - mid[K]
      <4>1. (first[K + 1] + 1) - mid[K] = first[K + 1] - mid[K] + 1
        OBVIOUS
      <4> QED BY <4>1, <1>3, <1>6, Zenon
    <3>2. ASSUME NEW k \in mid[K] .. first1[K + 1] - 1
          PROVE  m1[at[K] + 4 + (k - mid[K])] = d[k]
      <4>1. CASE k = first[K + 1]
        <5>1. at[K] + 4 + (first[K + 1] - mid[K]) = e
          BY DEF e
        <5> QED BY <4>1, <5>1, <1>6, Zenon
      <4>2. CASE k # first[K + 1]
        <5>1. k \in mid[K] .. first[K + 1] - 1
          BY <4>2, <1>3
        <5>2. at[K] + 4 + (k - mid[K]) \in at[K] + 2 + 2 .. e - 1
          BY <5>1 DEF e
        <5>3. m1[at[K] + 4 + (k - mid[K])] = m[at[K] + 4 + (k - mid[K])]
          BY <5>2, <1>6, Zenon
        <5>4. m[at[K] + 4 + (k - mid[K])] = d[k]
          BY <5>1, <2>0, <2>1, Zenon DEF LiteralPart
        <5> QED BY <5>3, <5>4, Zenon
      <4> QED BY <4>1, <4>2, Zenon
    <3> QED BY <2>1, <3>1, <3>2, Zenon DEF LiteralPart
  <2>2. CASE i # K
    <3>0. i \in 0 .. K - 1 /\ i \in Nat /\ i + 1 \in 0 .. K /\ K \in i + 1 .. K
      BY <2>2
    <3>1. at[i] + 4 + first[i + 1] - mid[i] <= at[K] /\ mid[i] <= first[i + 1]
      BY <3>0, <1>1, Zenon
    <3>2. first1[i + 1] = first[i + 1]
      BY <3>0, <1>3, Zenon
    <3>3. ASSUME NEW x \in at[i] + 2 .. at[i] + 3 + first[i + 1] - mid[i] PROVE m1[x] = m[x]
      <4>1. x \in 0 .. (at[K] + 2) - 1
        BY <3>0, <3>1
      <4> QED BY <4>1, <1>6, Zenon
    <3>5. LiteralPart(m1, d, i, at, first, mid)
      BY <2>0, <3>0, <3>1, <3>3, LiteralKept, Zenon
    <3> QED BY <3>2, <3>5, Zenon DEF LiteralPart
  <2> QED BY <2>1, <2>2, Zenon
<1>10. DOMAIN m1 = 0 .. EndPos(K, K + 1, at, first1, mid) - 1
  BY <1>6, <1>b, Zenon
<1> QED BY <1>4, <1>7, <1>8, <1>10, Zenon DEF Encoded

(* A block of literals ends and one of equal bytes begins, with no byte. *)
LEMMA EncodeNext ==
    ASSUME NEW m, NEW p, NEW d, NEW K \in Nat, NEW at \in [Nat -> Nat],
           NEW first \in [Nat -> Nat], NEW mid \in [Nat -> Nat],
           NEW at1 \in [Nat -> Nat], NEW mid1 \in [Nat -> Nat], NEW m1, NEW e \in Nat
    PROVE  /\ Encoded(m, p, d, K, K + 1, at, first, mid)
           /\ e = at[K] + 4 + first[K + 1] - mid[K]
           /\ m1 = SetCounter(m, e, 0)
           /\ at1 = [at EXCEPT ![K + 1] = e]
           /\ mid1 = [mid EXCEPT ![K + 1] = first[K + 1]]
           => Encoded(m1, p, d, K + 1, K + 1, at1, first, mid1)
<1>0. SUFFICES ASSUME Encoded(m, p, d, K, K + 1, at, first, mid),
                      e = at[K] + 4 + first[K + 1] - mid[K],
                      m1 = SetCounter(m, e, 0),
                      at1 = [at EXCEPT ![K + 1] = e],
                      mid1 = [mid EXCEPT ![K + 1] = first[K + 1]]
               PROVE  Encoded(m1, p, d, K + 1, K + 1, at1, first, mid1)
  BY Zenon
<1>1. /\ at[0] = 0 /\ first[0] = 0
      /\ \A i \in 0 .. K : first[i] <= mid[i] /\ mid[i] - first[i] <= MaxCounter
      /\ \A i \in 0 .. (K + 1) - 1 :
            mid[i] <= first[i + 1] /\ first[i + 1] - mid[i] <= MaxCounter
      /\ \A i \in 0 .. K - 1 : at[i + 1] = at[i] + 4 + first[i + 1] - mid[i]
      /\ \A i \in 0 .. K - 1 : \A j \in i + 1 .. K : at[i] + 4 + first[i + 1] - mid[i] <= at[j]
  BY <1>0, Zenon DEF Encoded, BlockShape
<1>e. /\ at1 = [at EXCEPT ![K + 1] = e]
      /\ mid1 = [mid EXCEPT ![K + 1] = first[K + 1]]
      /\ e = at[K] + 4 + first[K + 1] - mid[K]
  BY <1>0, Zenon
<1>3. /\ at1[K + 1] = e /\ \A i \in 0 .. K : at1[i] = at[i]
      /\ mid1[K + 1] = first[K + 1] /\ \A i \in 0 .. K : mid1[i] = mid[i]
  BY <1>e
<1>2. ASSUME NEW i \in 0 .. K
      PROVE  at[i] + 4 + first[i + 1] - mid[i] <= e /\ mid[i] <= first[i + 1] /\ at[i] + 4 <= e
  <2>1. i \in 0 .. (K + 1) - 1 /\ K \in 0 .. (K + 1) - 1
    OBVIOUS
  <2>2. mid[i] <= first[i + 1] /\ mid[K] <= first[K + 1]
    BY <2>1, <1>1, Zenon
  <2>3. CASE i = K
    BY <2>2, <2>3, <1>e
  <2>4. CASE i # K
    <3>1. i \in 0 .. K - 1 /\ K \in i + 1 .. K
      BY <2>4
    <3>2. at[i] + 4 + first[i + 1] - mid[i] <= at[K]
      BY <3>1, <1>1, Zenon
    <3> QED BY <3>2, <2>2, <1>e
  <2> QED BY <2>3, <2>4
<1>4. BlockShape(K + 1, K + 1, at1, first, mid1)
  <2>1. ASSUME NEW i \in 0 .. K + 1
        PROVE  first[i] <= mid1[i] /\ mid1[i] - first[i] <= MaxCounter
    <3>1. CASE i = K + 1
      BY <3>1, <1>3, CodecAssumption
    <3>2. CASE i # K + 1
      <4>1. i \in 0 .. K
        BY <3>2
      <4> QED BY <4>1, <1>1, <1>3, Zenon
    <3> QED BY <3>1, <3>2, Zenon
  <2>2. ASSUME NEW i \in 0 .. (K + 1) - 1
        PROVE  /\ mid1[i] <= first[i + 1] /\ first[i + 1] - mid1[i] <= MaxCounter
               /\ at1[i] = at[i] /\ mid1[i] = mid[i]
    <3>1. i \in 0 .. K
      OBVIOUS
    <3> QED BY <3>1, <1>1, <1>3, Zenon
  <2>3. ASSUME NEW i \in 0 .. (K + 1) - 1
        PROVE  at1[i + 1] = at1[i] + 4 + first[i + 1] - mid1[i]
    <3>1. CASE i = K
      BY <3>1, <2>2, <1>3, <1>e, Zenon
    <3>2. CASE i # K
      <4>1. i \in 0 .. K - 1 /\ i + 1 \in 0 .. K
        BY <3>2
      <4>2. at[i + 1] = at[i] + 4 + first[i + 1] - mid[i]
        BY <4>1, <1>1, Zenon
      <4> QED BY <4>1, <4>2, <2>2, <1>3, Zenon
    <3> QED BY <3>1, <3>2, Zenon
  <2>4. ASSUME NEW i \in 0 .. (K + 1) - 1, NEW j \in i + 1 .. K + 1
        PROVE  at1[i] + 4 + first[i + 1] - mid1[i] <= at1[j]
    <3>0. i \in 0 .. K
      OBVIOUS
    <3>1. CASE j = K + 1
      BY <3>0, <3>1, <2>2, <1>2, <1>3, Zenon
    <3>2. CASE j # K + 1
      <4>1. i \in 0 .. K - 1 /\ j \in i + 1 .. K /\ j \in 0 .. K
        BY <3>2
      <4>2. at[i] + 4 + first[i + 1] - mid[i] <= at[j]
        BY <4>1, <1>1, Zenon
      <4> QED BY <4>1, <4>2, <2>2, <1>3, Zenon
    <3> QED BY <3>1, <3>2, Zenon
  <2>5. at1[0] = 0 /\ first[0] = 0
    <3>1. 0 \in 0 .. K
      OBVIOUS
    <3> QED BY <3>1, <1>1, <1>3, Zenon
  <2> QED BY <2>1, <2>2, <2>3, <2>4, <2>5, Zenon DEF BlockShape
<1>b. EndPos(K, K + 1, at, first, mid) = e /\ EndPos(K + 1, K + 1, at1, first, mid1) = e + 2
  BY <1>e, <1>3 DEF EndPos
<1>5. DOMAIN m = 0 .. e - 1
  BY <1>0, <1>b, Zenon DEF Encoded
<1>6. /\ DOMAIN m1 = 0 .. (e + 2) - 1
      /\ m1[e] = 0
      /\ \A x \in 0 .. e - 1 : m1[x] = m[x]
  <2>1. 0 \in 0 .. MaxCounter
    BY CodecAssumption
  <2>2. Recounted(m, SetCounter(m, e, 0), e, 0, e + 2)
    BY <2>1, <1>5, NewCount, Zenon
  <2>3. Recounted(m, m1, e, 0, e + 2)
    BY <2>2, <1>0, Zenon
  <2> QED BY <2>3, Zenon DEF Recounted
<1>7. ASSUME NEW i \in 0 .. K + 1 PROVE SamePart(m1, p, d, i, at1, first, mid1)
  <2>1. CASE i = K + 1
    <3>1. first[K + 1] - first[K + 1] = 0
      OBVIOUS
    <3>2. m1[at1[i]] = mid1[i] - first[i]
      BY <2>1, <3>1, <1>3, <1>6, Zenon
    <3>3. ASSUME NEW k \in first[i] .. mid1[i] - 1 PROVE FALSE
      BY <2>1, <1>3
    <3> QED BY <3>2, <3>3, Zenon DEF SamePart
  <2>2. CASE i # K + 1
    <3>1. i \in 0 .. K
      BY <2>2
    <3>2. SamePart(m, p, d, i, at, first, mid)
      BY <3>1, <1>0, Zenon DEF Encoded
    <3>3. at[i] \in 0 .. e - 1
      <4>1. at[i] + 4 <= e
        BY <3>1, <1>2, Zenon
      <4> QED BY <4>1
    <3>4. m1[at1[i]] = m[at[i]] /\ mid1[i] = mid[i]
      BY <3>1, <3>3, <1>3, <1>6, Zenon
    <3> QED BY <3>2, <3>4, Zenon DEF SamePart
  <2> QED BY <2>1, <2>2, Zenon
<1>8. ASSUME NEW i \in 0 .. (K + 1) - 1 PROVE LiteralPart(m1, d, i, at1, first, mid1)
  <2>0. LiteralPart(m, d, i, at, first, mid)
    BY <1>0, Zenon DEF Encoded
  <2>1. i \in 0 .. K /\ i \in Nat
    OBVIOUS
  <2>2. at[i] + 4 + first[i + 1] - mid[i] <= e /\ mid[i] <= first[i + 1]
    BY <2>1, <1>2, Zenon
  <2>3. ASSUME NEW x \in at[i] + 2 .. at[i] + 3 + first[i + 1] - mid[i] PROVE m1[x] = m[x]
    <3>1. x \in 0 .. e - 1
      BY <2>2
    <3> QED BY <3>1, <1>6, Zenon
  <2>4. LiteralPart(m1, d, i, at, first, mid)
    BY <2>0, <2>1, <2>2, <2>3, LiteralKept, Zenon
  <2>5. at1[i] = at[i] /\ mid1[i] = mid[i]
    BY <2>1, <1>3, Zenon
  <2> QED BY <2>4, <2>5, Zenon DEF LiteralPart
<1>10. DOMAIN m1 = 0 .. EndPos(K + 1, K + 1, at1, first, mid1) - 1
  BY <1>6, <1>b, Zenon
<1> QED BY <1>4, <1>7, <1>8, <1>10, Zenon DEF Encoded

(* There are as many blocks of literals as of equal bytes, or one less. *)
Half(K) == {K, K + 1}

(* Every part of an encoding is before its end. *)
LEMMA Bounds ==
    ASSUME NEW K \in Nat, NEW L \in Half(K), NEW at \in [Nat -> Nat],
           NEW first \in [Nat -> Nat], NEW mid \in [Nat -> Nat],
           BlockShape(K, L, at, first, mid)
    PROVE  /\ EndPos(K, L, at, first, mid) \in Nat
           /\ \A i \in 0 .. K : at[i] + 2 <= EndPos(K, L, at, first, mid)
           /\ \A i \in 0 .. L - 1 :
                 /\ mid[i] <= first[i + 1]
                 /\ at[i] + 4 + first[i + 1] - mid[i] <= EndPos(K, L, at, first, mid)
<1> USE DEF Half
<1> DEFINE e == EndPos(K, L, at, first, mid)
<1>1. /\ \A i \in 0 .. L - 1 : mid[i] <= first[i + 1]
      /\ \A i \in 0 .. K - 1 : \A j \in i + 1 .. K : at[i] + 4 + first[i + 1] - mid[i] <= at[j]
  BY Zenon DEF BlockShape
<1>2. \A i \in 0 .. K - 1 : i \in 0 .. L - 1 /\ K \in i + 1 .. K
  OBVIOUS
<1>3. ASSUME NEW i \in 0 .. K - 1
      PROVE  mid[i] <= first[i + 1] /\ at[i] + 4 + first[i + 1] - mid[i] <= at[K]
  BY <1>1, <1>2, Zenon
<1>4. e \in Nat /\ at[K] + 2 <= e
  <2>1. CASE L = K
    BY <2>1 DEF EndPos
  <2>2. CASE L # K
    <3>1. K \in 0 .. L - 1
      BY <2>2
    <3>2. mid[K] <= first[K + 1]
      BY <3>1, <1>1, Zenon
    <3>3. e = at[K] + 4 + first[K + 1] - mid[K]
      BY <2>2, Zenon DEF EndPos
    <3> QED BY <3>2, <3>3
  <2> QED BY <2>1, <2>2, Zenon
<1> HIDE DEF e
<1>5. ASSUME NEW i \in 0 .. K PROVE at[i] + 2 <= e
  <2>1. CASE i = K
    BY <2>1, <1>4, Zenon
  <2>2. CASE i # K
    <3>1. i \in 0 .. K - 1
      BY <2>2
    <3>2. mid[i] <= first[i + 1] /\ at[i] + 4 + first[i + 1] - mid[i] <= at[K]
      BY <3>1, <1>3, Zenon
    <3> QED BY <3>2, <1>4
  <2> QED BY <2>1, <2>2, Zenon
<1>6. ASSUME NEW i \in 0 .. L - 1
      PROVE  mid[i] <= first[i + 1] /\ at[i] + 4 + first[i + 1] - mid[i] <= e
  <2>1. CASE i = K
    <3>1. L # K
      BY <2>1
    <3>2. e = at[K] + 4 + first[K + 1] - mid[K]
      BY <3>1, Zenon DEF e, EndPos
    <3>3. mid[K] <= first[K + 1]
      BY <2>1, <1>1, Zenon
    <3> QED BY <2>1, <3>2, <3>3, <1>4
  <2>2. CASE i # K
    <3>1. i \in 0 .. K - 1
      BY <2>2
    <3>2. mid[i] <= first[i + 1] /\ at[i] + 4 + first[i + 1] - mid[i] <= at[K]
      BY <3>1, <1>3, Zenon
    <3> QED BY <3>2, <1>4
  <2> QED BY <2>1, <2>2, Zenon
<1> QED BY <1>4, <1>5, <1>6, Zenon DEF e

(* What is left of an encoding when the decoder is in pair c and has       *)
(* produced o bytes: in its block of equal bytes, and in its literals.     *)
DecodingSame(m, p, d, K, L, at, first, mid, c, o) ==
    /\ BlockShape(K, L, at, first, mid)
    /\ DOMAIN m = 0 .. EndPos(K, L, at, first, mid) - 1
    /\ first[c] <= o /\ o <= mid[c]
    /\ m[at[c]] = mid[c] - o
    /\ \A k \in first[c] .. mid[c] - 1 : d[k] = p[k]
    /\ \A i \in c + 1 .. K : SamePart(m, p, d, i, at, first, mid)
    /\ \A i \in c .. L - 1 : LiteralPart(m, d, i, at, first, mid)

DecodingLiteral(m, p, d, K, L, at, first, mid, c, o) ==
    /\ BlockShape(K, L, at, first, mid)
    /\ DOMAIN m = 0 .. EndPos(K, L, at, first, mid) - 1
    /\ mid[c] <= o /\ o <= first[c + 1]
    /\ m[at[c] + 2] = first[c + 1] - o
    /\ \A k \in o .. first[c + 1] - 1 : m[at[c] + 4 + (k - mid[c])] = d[k]
    /\ \A i \in c + 1 .. K : SamePart(m, p, d, i, at, first, mid)
    /\ \A i \in c + 1 .. L - 1 : LiteralPart(m, d, i, at, first, mid)

(* A whole encoding is what the decoder starts with. *)
LEMMA DecodeStart ==
    ASSUME NEW m, NEW p, NEW d, NEW K \in Nat, NEW L \in Half(K), NEW at \in [Nat -> Nat],
           NEW first \in [Nat -> Nat], NEW mid \in [Nat -> Nat]
    PROVE  Encoded(m, p, d, K, L, at, first, mid)
           => DecodingSame(m, p, d, K, L, at, first, mid, 0, 0)
<1> USE DEF Half
<1>0. SUFFICES ASSUME Encoded(m, p, d, K, L, at, first, mid)
               PROVE  DecodingSame(m, p, d, K, L, at, first, mid, 0, 0)
  BY Zenon
<1>1. first[0] = 0 /\ SamePart(m, p, d, 0, at, first, mid)
  <2>1. 0 \in 0 .. K
    OBVIOUS
  <2> QED BY <2>1, <1>0, Zenon DEF Encoded, BlockShape
<1>2. m[at[0]] = mid[0] - 0 /\ \A k \in first[0] .. mid[0] - 1 : d[k] = p[k]
  BY <1>1, Zenon DEF SamePart
<1>3. first[0] <= 0 /\ 0 <= mid[0]
  <2>1. first[0] = 0
    BY <1>1, Zenon
  <2> QED BY <2>1
<1>4. \A i \in 0 + 1 .. K : i \in 0 .. K
  OBVIOUS
<1>5. \A i \in 0 + 1 .. K : SamePart(m, p, d, i, at, first, mid)
  BY <1>0, <1>4, Zenon DEF Encoded
<1> QED BY <1>0, <1>2, <1>3, <1>5, Zenon DEF Encoded, DecodingSame

(* A byte of a block of equal bytes is decoded. *)
SameRead(m, m1, p, d, K, L, at, first, mid, c, o) ==
    /\ DecodingSame(m, p, d, K, L, at, first, mid, c, o)
    /\ m[at[c]] # 0
    /\ m1 = SetCounter(m, at[c], m[at[c]] - 1)

SameWasRead(m1, p, d, K, L, at, first, mid, c, o) ==
    /\ d[o] = p[o]
    /\ o < mid[c]
    /\ DecodingSame(m1, p, d, K, L, at, first, mid, c, o + 1)

(* What is left is an encoding of one byte less. *)
LEMMA DecodeSame ==
    ASSUME NEW m, NEW p, NEW d, NEW K \in Nat, NEW L \in Half(K), NEW at \in [Nat -> Nat],
           NEW first \in [Nat -> Nat], NEW mid \in [Nat -> Nat],
           NEW c \in 0 .. K, NEW o \in Nat, NEW m1
    PROVE  SameRead(m, m1, p, d, K, L, at, first, mid, c, o)
           => SameWasRead(m1, p, d, K, L, at, first, mid, c, o)
<1> USE DEF Half
<1>0. SUFFICES ASSUME DecodingSame(m, p, d, K, L, at, first, mid, c, o),
                      m[at[c]] # 0,
                      m1 = SetCounter(m, at[c], m[at[c]] - 1)
               PROVE  d[o] = p[o] /\ o < mid[c] /\ DecodingSame(m1, p, d, K, L, at, first, mid, c, o + 1)
  BY Zenon DEF SameRead, SameWasRead
<1> DEFINE e == EndPos(K, L, at, first, mid)
<1> HIDE DEF e
<1>1. /\ BlockShape(K, L, at, first, mid)
      /\ DOMAIN m = 0 .. e - 1
      /\ first[c] <= o /\ o <= mid[c] /\ m[at[c]] = mid[c] - o
  BY <1>0, Zenon DEF DecodingSame, e
<1>2. mid[c] - o # 0 /\ first[c] <= o /\ o <= mid[c]
  BY <1>0, <1>1, Zenon
<1>t. c \in Nat /\ first[c] \in Nat /\ mid[c] \in Nat /\ at[c] \in Nat
  OBVIOUS
<1>3. o < mid[c] /\ o \in first[c] .. mid[c] - 1 /\ mid[c] - o - 1 = mid[c] - (o + 1)
  BY <1>2, <1>t
<1>4. d[o] = p[o]
  BY <1>0, <1>3, Zenon DEF DecodingSame
<1>5. /\ e \in Nat /\ at[c] + 2 <= e
      /\ \A i \in 0 .. L - 1 : mid[i] <= first[i + 1] /\ at[i] + 4 + first[i + 1] - mid[i] <= e
  BY <1>1, Bounds, Zenon DEF e
<1>6. mid[c] - (o + 1) \in 0 .. MaxCounter /\ at[c] \in Nat
  <2>1. mid[c] - first[c] <= MaxCounter
    BY <1>1, Zenon DEF BlockShape
  <2>2. MaxCounter \in Nat
    BY CodecAssumption
  <2> QED BY <1>2, <1>3, <1>t, <2>1, <2>2
<1>7. Recounted(m, m1, at[c], mid[c] - (o + 1), e)
  <2>1. Recounted(m, SetCounter(m, at[c], mid[c] - (o + 1)), at[c], mid[c] - (o + 1), e)
    BY <1>1, <1>5, <1>6, Recount, Zenon
  <2> QED BY <2>1, <1>0, <1>1, <1>3, Zenon
<1>8. ASSUME NEW i \in c + 1 .. K PROVE SamePart(m1, p, d, i, at, first, mid)
  <2>1. SamePart(m, p, d, i, at, first, mid)
    BY <1>0, Zenon DEF DecodingSame
  <2>2. c \in 0 .. K - 1 /\ i \in 0 .. K /\ c \in 0 .. L - 1
    OBVIOUS
  <2>3. mid[c] <= first[c + 1] /\ at[c] + 4 + first[c + 1] - mid[c] <= at[i] /\ at[i] + 2 <= e
    BY <2>2, <1>1, <1>5, Bounds, Zenon DEF BlockShape, e
  <2>4. at[i] \in at[c] + 2 .. e - 1
    BY <2>3, <1>5
  <2>5. m1[at[i]] = m[at[i]]
    BY <2>4, <1>7, Zenon DEF Recounted
  <2> QED BY <2>1, <2>5, Zenon DEF SamePart
<1>9. ASSUME NEW i \in c .. L - 1 PROVE LiteralPart(m1, d, i, at, first, mid)
  <2>1. LiteralPart(m, d, i, at, first, mid)
    BY <1>0, Zenon DEF DecodingSame
  <2>2. i \in 0 .. L - 1 /\ i \in Nat /\ i \in 0 .. K
    OBVIOUS
  <2>3. mid[i] <= first[i + 1] /\ at[i] + 4 + first[i + 1] - mid[i] <= e
    BY <2>2, <1>5, Zenon
  <2>4. at[c] <= at[i]
    <3>1. CASE i = c
      BY <3>1
    <3>2. CASE i # c
      <4>1. c \in 0 .. K - 1 /\ i \in c + 1 .. K /\ c \in 0 .. L - 1
        BY <3>2
      <4>2. mid[c] <= first[c + 1] /\ at[c] + 4 + first[c + 1] - mid[c] <= at[i]
        BY <4>1, <1>1, <1>5, Zenon DEF BlockShape
      <4> QED BY <4>2
    <3> QED BY <3>1, <3>2, Zenon
  <2>5. ASSUME NEW x \in at[i] + 2 .. at[i] + 3 + first[i + 1] - mid[i] PROVE m1[x] = m[x]
    <3>1. x \in at[c] + 2 .. e - 1
      BY <2>3, <2>4, <1>5
    <3> QED BY <3>1, <1>7, Zenon DEF Recounted
  <2> QED BY <2>1, <2>2, <2>3, <2>5, LiteralKept, Zenon
<1>10. first[c] <= o + 1 /\ o + 1 <= mid[c]
  BY <1>2, <1>3, <1>t
<1>11. DOMAIN m1 = 0 .. e - 1 /\ m1[at[c]] = mid[c] - (o + 1)
  BY <1>7, Zenon DEF Recounted
<1>12. \A k \in first[c] .. mid[c] - 1 : d[k] = p[k]
  BY <1>0, Zenon DEF DecodingSame
<1>13. DecodingSame(m1, p, d, K, L, at, first, mid, c, o + 1)
  BY <1>1, <1>8, <1>9, <1>10, <1>11, <1>12, Zenon DEF DecodingSame, e
<1> QED BY <1>3, <1>4, <1>13, Zenon

(* A block of equal bytes is used up: its literals are next, if it has any *)
(* and otherwise the whole state is decoded.                               *)
SameEnd(m, p, d, K, L, at, first, mid, c, o) ==
    /\ DecodingSame(m, p, d, K, L, at, first, mid, c, o)
    /\ m[at[c]] = 0

SameEnded(m, p, d, K, L, at, first, mid, c, o) ==
    IF c \in 0 .. L - 1 THEN o = mid[c] /\ DecodingLiteral(m, p, d, K, L, at, first, mid, c, o)
                        ELSE o = Consumed(K, L, first, mid)

(* The decoder goes on to the literals, or has come to the end. *)
LEMMA DecodeEnter ==
    ASSUME NEW m, NEW p, NEW d, NEW K \in Nat, NEW L \in Half(K), NEW at \in [Nat -> Nat],
           NEW first \in [Nat -> Nat], NEW mid \in [Nat -> Nat],
           NEW c \in 0 .. K, NEW o \in Nat
    PROVE  SameEnd(m, p, d, K, L, at, first, mid, c, o)
           => SameEnded(m, p, d, K, L, at, first, mid, c, o)
<1> USE DEF Half
<1>0. SUFFICES ASSUME DecodingSame(m, p, d, K, L, at, first, mid, c, o), m[at[c]] = 0
               PROVE  IF c \in 0 .. L - 1 THEN o = mid[c] /\ DecodingLiteral(m, p, d, K, L, at, first, mid, c, o)
                                          ELSE o = Consumed(K, L, first, mid)
  BY Zenon DEF SameEnd, SameEnded
<1>1. mid[c] - o = 0
  BY <1>0, Zenon DEF DecodingSame
<1>2. o = mid[c]
  <2>1. mid[c] \in Nat
    OBVIOUS
  <2>2. \A x, y \in Nat : x - y = 0 => y = x
    OBVIOUS
  <2> QED BY <1>1, <2>1, <2>2, Zenon
<1>3. CASE c \in 0 .. L - 1
  <2>1. LiteralPart(m, d, c, at, first, mid)
    <3>1. c \in c .. L - 1
      BY <1>3
    <3> QED BY <3>1, <1>0, Zenon DEF DecodingSame
  <2>2. mid[c] <= first[c + 1]
    BY <1>0, <1>3, Zenon DEF DecodingSame, BlockShape
  <2>3. mid[c] <= o
    BY <1>2
  <2>4. \A i \in c + 1 .. L - 1 : i \in c .. L - 1
    OBVIOUS
  <2>5. \A i \in c + 1 .. L - 1 : LiteralPart(m, d, i, at, first, mid)
    BY <2>4, <1>0, Zenon DEF DecodingSame
  <2>6. m[at[c] + 2] = first[c + 1] - o
    BY <2>1, <1>2, Zenon DEF LiteralPart
  <2>7. \A k \in o .. first[c + 1] - 1 : m[at[c] + 4 + (k - mid[c])] = d[k]
    BY <2>1, <1>2, Zenon DEF LiteralPart
  <2>8. o <= first[c + 1]
    BY <2>2, <1>2, Zenon
  <2>9. DecodingLiteral(m, p, d, K, L, at, first, mid, c, o)
    BY <1>0, <2>3, <2>5, <2>6, <2>7, <2>8, Zenon DEF DecodingSame, DecodingLiteral
  <2> QED BY <1>2, <1>3, <2>9, Zenon
<1>4. CASE c \notin 0 .. L - 1
  <2>1. c = K /\ L = K
    BY <1>4
  <2> QED BY <2>1, <1>2, <1>4, Zenon DEF Consumed
<1> QED BY <1>3, <1>4, Zenon

(* A literal is decoded. *)
LiteralRead(m, m1, p, d, K, L, at, first, mid, c, o) ==
    /\ DecodingLiteral(m, p, d, K, L, at, first, mid, c, o)
    /\ m[at[c] + 2] # 0
    /\ m1 = SetCounter(m, at[c] + 2, m[at[c] + 2] - 1)

LiteralWasRead(m, m1, p, d, K, L, at, first, mid, c, o) ==
    /\ m[at[c] + 4 + (o - mid[c])] = d[o]
    /\ mid[c] <= o /\ o < first[c + 1]
    /\ DecodingLiteral(m1, p, d, K, L, at, first, mid, c, o + 1)

(* What is left is an encoding of one literal less. *)
LEMMA DecodeLiteral ==
    ASSUME NEW m, NEW p, NEW d, NEW K \in Nat, NEW L \in Half(K), NEW at \in [Nat -> Nat],
           NEW first \in [Nat -> Nat], NEW mid \in [Nat -> Nat],
           NEW c \in 0 .. L - 1, NEW o \in Nat, NEW m1
    PROVE  LiteralRead(m, m1, p, d, K, L, at, first, mid, c, o)
           => LiteralWasRead(m, m1, p, d, K, L, at, first, mid, c, o)
<1> USE DEF Half
<1>0. SUFFICES ASSUME DecodingLiteral(m, p, d, K, L, at, first, mid, c, o),
                      m[at[c] + 2] # 0,
                      m1 = SetCounter(m, at[c] + 2, m[at[c] + 2] - 1)
               PROVE  /\ m[at[c] + 4 + (o - mid[c])] = d[o]
                      /\ mid[c] <= o /\ o < first[c + 1]
                      /\ DecodingLiteral(m1, p, d, K, L, at, first, mid, c, o + 1)
  BY Zenon DEF LiteralRead, LiteralWasRead
<1> DEFINE e == EndPos(K, L, at, first, mid)
<1> HIDE DEF e
<1>1. /\ BlockShape(K, L, at, first, mid)
      /\ DOMAIN m = 0 .. e - 1
      /\ mid[c] <= o /\ o <= first[c + 1] /\ m[at[c] + 2] = first[c + 1] - o
  BY <1>0, Zenon DEF DecodingLiteral, e
<1>2. first[c + 1] - o # 0 /\ mid[c] <= o /\ o <= first[c + 1]
  BY <1>0, <1>1, Zenon
<1>t. c \in Nat /\ c + 1 \in Nat /\ first[c + 1] \in Nat /\ mid[c] \in Nat /\ at[c] \in Nat
  OBVIOUS
<1>3. o < first[c + 1] /\ o \in o .. first[c + 1] - 1 /\ first[c + 1] - o - 1 = first[c + 1] - (o + 1)
  <2>1. \A x, y \in Nat :
           x - y # 0 /\ y <= x => y < x /\ y \in y .. x - 1 /\ x - y - 1 = x - (y + 1)
    OBVIOUS
  <2> QED BY <1>2, <1>t, <2>1, Zenon
<1>4. m[at[c] + 4 + (o - mid[c])] = d[o]
  BY <1>0, <1>3, Zenon DEF DecodingLiteral
<1>5. /\ e \in Nat
      /\ \A i \in 0 .. K : at[i] + 2 <= e
      /\ \A i \in 0 .. L - 1 : mid[i] <= first[i + 1] /\ at[i] + 4 + first[i + 1] - mid[i] <= e
  BY <1>1, Bounds, Zenon DEF e
<1>6. first[c + 1] - (o + 1) \in 0 .. MaxCounter /\ at[c] + 2 \in Nat
  <2>1. first[c + 1] - mid[c] <= MaxCounter
    BY <1>1, Zenon DEF BlockShape
  <2>2. MaxCounter \in Nat
    BY CodecAssumption
  <2> QED BY <1>2, <1>3, <1>t, <2>1, <2>2
<1>7. Recounted(m, m1, at[c] + 2, first[c + 1] - (o + 1), e)
  <2>1. at[c] + 2 + 2 <= e
    <3>1. mid[c] <= first[c + 1] /\ at[c] + 4 + first[c + 1] - mid[c] <= e
      BY <1>5, Zenon
    <3> QED BY <3>1, <1>5, <1>t
  <2>2. Recounted(m, SetCounter(m, at[c] + 2, first[c + 1] - (o + 1)), at[c] + 2,
                  first[c + 1] - (o + 1), e)
    BY <1>1, <1>5, <1>6, <2>1, Recount, Zenon
  <2> QED BY <2>2, <1>0, <1>1, <1>3, Zenon
<1>a. ASSUME NEW i \in c + 1 .. K
      PROVE  at[c] + 4 + first[c + 1] - mid[c] <= at[i] /\ mid[c] <= first[c + 1]
  <2>2. c \in 0 .. K - 1
    OBVIOUS
  <2> QED BY <2>2, <1>1, <1>5, Zenon DEF BlockShape
<1>8. ASSUME NEW i \in c + 1 .. K PROVE SamePart(m1, p, d, i, at, first, mid)
  <2>1. SamePart(m, p, d, i, at, first, mid)
    BY <1>0, Zenon DEF DecodingLiteral
  <2>2. i \in 0 .. K
    OBVIOUS
  <2>3. at[i] + 2 <= e
    BY <2>2, <1>5, Zenon
  <2>4. at[i] \in at[c] + 2 + 2 .. e - 1
    BY <2>3, <1>5, <1>a
  <2>5. m1[at[i]] = m[at[i]]
    BY <2>4, <1>7, Zenon DEF Recounted
  <2> QED BY <2>1, <2>5, Zenon DEF SamePart
<1>9. ASSUME NEW i \in c + 1 .. L - 1 PROVE LiteralPart(m1, d, i, at, first, mid)
  <2>1. LiteralPart(m, d, i, at, first, mid)
    BY <1>0, Zenon DEF DecodingLiteral
  <2>2. i \in 0 .. L - 1 /\ i \in Nat /\ i \in c + 1 .. K
    OBVIOUS
  <2>3. mid[i] <= first[i + 1] /\ at[i] + 4 + first[i + 1] - mid[i] <= e
    BY <2>2, <1>5, Zenon
  <2>4. at[c] + 4 <= at[i]
    BY <2>2, <1>a
  <2>5. ASSUME NEW x \in at[i] + 2 .. at[i] + 3 + first[i + 1] - mid[i] PROVE m1[x] = m[x]
    <3>1. x \in at[c] + 2 + 2 .. e - 1
      BY <2>3, <2>4, <1>5
    <3> QED BY <3>1, <1>7, Zenon DEF Recounted
  <2> QED BY <2>1, <2>2, <2>3, <2>5, LiteralKept, Zenon
<1>10. mid[c] <= o + 1 /\ o + 1 <= first[c + 1]
  BY <1>2, <1>3, <1>t
<1>11. DOMAIN m1 = 0 .. e - 1 /\ m1[at[c] + 2] = first[c + 1] - (o + 1)
  BY <1>7, Zenon DEF Recounted
<1>12. ASSUME NEW k \in o + 1 .. first[c + 1] - 1
       PROVE  m1[at[c] + 4 + (k - mid[c])] = d[k]
  <2>1. k \in o .. first[c + 1] - 1
    OBVIOUS
  <2>2. m[at[c] + 4 + (k - mid[c])] = d[k]
    BY <2>1, <1>0, Zenon DEF DecodingLiteral
  <2>3. mid[c] <= first[c + 1] /\ at[c] + 4 + first[c + 1] - mid[c] <= e
    BY <1>5, Zenon
  <2>4. at[c] + 4 + (k - mid[c]) \in at[c] + 2 + 2 .. e - 1
    BY <2>1, <2>3, <1>2, <1>t, <1>5
  <2> QED BY <2>2, <2>4, <1>7, Zenon DEF Recounted
<1>13. DecodingLiteral(m1, p, d, K, L, at, first, mid, c, o + 1)
  BY <1>1, <1>8, <1>9, <1>10, <1>11, <1>12, Zenon DEF DecodingLiteral, e
<1> QED BY <1>2, <1>3, <1>4, <1>13, Zenon

(* The literals are used up: the next pair is next, if there is one, and   *)
(* otherwise the whole state is decoded.                                   *)
LiteralEnd(m, p, d, K, L, at, first, mid, c, o) ==
    /\ DecodingLiteral(m, p, d, K, L, at, first, mid, c, o)
    /\ m[at[c] + 2] = 0

LiteralEnded(m, p, d, K, L, at, first, mid, c, o) ==
    IF c + 1 \in 0 .. K
    THEN /\ at[c + 1] = at[c] + 4 + (o - mid[c])
         /\ DecodingSame(m, p, d, K, L, at, first, mid, c + 1, o)
    ELSE o = Consumed(K, L, first, mid)

(* The decoder goes on to the next pair, or has come to the end. *)
LEMMA DecodeNext ==
    ASSUME NEW m, NEW p, NEW d, NEW K \in Nat, NEW L \in Half(K), NEW at \in [Nat -> Nat],
           NEW first \in [Nat -> Nat], NEW mid \in [Nat -> Nat],
           NEW c \in 0 .. L - 1, NEW o \in Nat
    PROVE  LiteralEnd(m, p, d, K, L, at, first, mid, c, o)
           => LiteralEnded(m, p, d, K, L, at, first, mid, c, o)
<1> USE DEF Half
<1>0. SUFFICES ASSUME DecodingLiteral(m, p, d, K, L, at, first, mid, c, o), m[at[c] + 2] = 0
               PROVE  IF c + 1 \in 0 .. K
                      THEN /\ at[c + 1] = at[c] + 4 + (o - mid[c])
                           /\ DecodingSame(m, p, d, K, L, at, first, mid, c + 1, o)
                      ELSE o = Consumed(K, L, first, mid)
  BY Zenon DEF LiteralEnd, LiteralEnded
<1>1. first[c + 1] - o = 0
  BY <1>0, Zenon DEF DecodingLiteral
<1>2. o = first[c + 1]
  <2>1. first[c + 1] \in Nat
    OBVIOUS
  <2>2. \A x, y \in Nat : x - y = 0 => y = x
    OBVIOUS
  <2> QED BY <1>1, <2>1, <2>2, Zenon
<1>3. CASE c + 1 \in 0 .. K
  <2>1. c \in 0 .. K - 1 /\ c + 1 \in c + 1 .. K
    BY <1>3
  <2>2. at[c + 1] = at[c] + 4 + first[c + 1] - mid[c]
    BY <2>1, <1>0, Zenon DEF DecodingLiteral, BlockShape
  <2>3. at[c + 1] = at[c] + 4 + (o - mid[c])
    BY <2>2, <1>2, Zenon
  <2>4. SamePart(m, p, d, c + 1, at, first, mid)
    BY <2>1, <1>0, Zenon DEF DecodingLiteral
  <2>5. m[at[c + 1]] = mid[c + 1] - o /\ \A k \in first[c + 1] .. mid[c + 1] - 1 : d[k] = p[k]
    BY <2>4, <1>2, Zenon DEF SamePart
  <2>6. first[c + 1] <= o
    BY <1>2
  <2>7. o <= mid[c + 1]
    BY <1>0, <1>2, <1>3, Zenon DEF DecodingLiteral, BlockShape
  <2>8. \A i \in c + 1 + 1 .. K : i \in c + 1 .. K
    OBVIOUS
  <2>9. \A i \in c + 1 + 1 .. K : SamePart(m, p, d, i, at, first, mid)
    BY <2>8, <1>0, Zenon DEF DecodingLiteral
  <2>10. DecodingSame(m, p, d, K, L, at, first, mid, c + 1, o)
    BY <1>0, <2>5, <2>6, <2>7, <2>9, Zenon DEF DecodingSame, DecodingLiteral
  <2> QED BY <1>3, <2>3, <2>10, Zenon
<1>4. CASE c + 1 \notin 0 .. K
  <2>1. c = K /\ L = K + 1 /\ L # K
    BY <1>4
  <2> QED BY <2>1, <1>2, <1>4, Zenon DEF Consumed
<1> QED BY <1>3, <1>4, Zenon

(* Where the two loops are, for some division of the output into blocks.   *)
CompressingSame(K, at, first, mid) ==
    /\ phase = "compress" /\ prev_mode /\ malloc_size >= 3
    /\ Encoded(memory, prev, data, K, K, at, first, mid)
    /\ offset = mid[K] /\ counter_pos = at[K] /\ data_pos = at[K] + 2
    /\ data_pos <= malloc_size
    /\ dest = [x \in {} |-> 0]

CompressingLiteral(K, at, first, mid) ==
    /\ phase = "compress" /\ ~prev_mode /\ malloc_size >= 3
    /\ Encoded(memory, prev, data, K, K + 1, at, first, mid)
    /\ offset = first[K + 1] /\ counter_pos = at[K] + 2
    /\ data_pos = at[K] + 4 + first[K + 1] - mid[K]
    /\ data_pos < malloc_size
    /\ dest = [x \in {} |-> 0]

Produced == dest = [x \in 0 .. offset - 1 |-> data[x]]

DecompressingSame(K, L, at, first, mid, c) ==
    /\ phase = "decompress" /\ prev_mode /\ Produced
    /\ DecodingSame(memory, prev, data, K, L, at, first, mid, c, offset)
    /\ malloc_size = EndPos(K, L, at, first, mid) /\ StateSize = Consumed(K, L, first, mid)
    /\ counter_pos = at[c] /\ data_pos = at[c] + 2

DecompressingLiteral(K, L, at, first, mid, c) ==
    /\ phase = "decompress" /\ ~prev_mode /\ Produced
    /\ DecodingLiteral(memory, prev, data, K, L, at, first, mid, c, offset)
    /\ malloc_size = EndPos(K, L, at, first, mid) /\ StateSize = Consumed(K, L, first, mid)
    /\ counter_pos = at[c] + 2 /\ data_pos = at[c] + 4 + (offset - mid[c])

AtSame ==
    \E K \in Nat, at, first, mid \in [Nat -> Nat] : CompressingSame(K, at, first, mid)

AtLiteral ==
    \E K \in Nat, at, first, mid \in [Nat -> Nat] : CompressingLiteral(K, at, first, mid)

InSame ==
    \E K \in Nat, at, first, mid \in [Nat -> Nat] : \E L \in Half(K), c \in 0 .. K :
       DecompressingSame(K, L, at, first, mid, c)

InLiteral ==
    \E K \in Nat, at, first, mid \in [Nat -> Nat] : \E L \in Half(K) : \E c \in 0 .. L - 1 :
       DecompressingLiteral(K, L, at, first, mid, c)

DecodedAll == phase = "done" /\ dest = data /\ DOMAIN memory = 0 .. malloc_size - 1

CodecPlace == AtSame \/ AtLiteral \/ InSame \/ InLiteral \/ DecodedAll

CodecBase ==
    /\ prev \in Input /\ data \in Input
    /\ offset \in 0 .. StateSize /\ malloc_size \in Nat

CodecInv == CodecBase /\ CodecPlace

(* The place tells the phase and the mode. *)
LEMMA Places ==
    /\ AtSame => phase = "compress" /\ prev_mode
    /\ AtLiteral => phase = "compress" /\ ~prev_mode
    /\ InSame => phase = "decompress" /\ prev_mode
    /\ InLiteral => phase = "decompress" /\ ~prev_mode
    /\ DecodedAll => phase = "done"
<1>1. AtSame => phase = "compress" /\ prev_mode
  BY Zenon DEF AtSame, CompressingSame
<1>2. AtLiteral => phase = "compress" /\ ~prev_mode
  BY Zenon DEF AtLiteral, CompressingLiteral
<1>3. InSame => phase = "decompress" /\ prev_mode
  BY Zenon DEF InSame, DecompressingSame
<1>4. InLiteral => phase = "decompress" /\ ~prev_mode
  BY Zenon DEF InLiteral, DecompressingLiteral
<1>5. DecodedAll => phase = "done"
  BY Zenon DEF DecodedAll
<1> QED BY <1>1, <1>2, <1>3, <1>4, <1>5, Zenon

(* The phase and the mode tell the place. *)
LEMMA PlaceOf ==
    ASSUME CodecPlace
    PROVE  /\ phase = "compress" /\ prev_mode => AtSame
           /\ phase = "compress" /\ ~prev_mode => AtLiteral
           /\ phase = "decompress" /\ prev_mode => InSame
           /\ phase = "decompress" /\ ~prev_mode => InLiteral
           /\ phase = "done" => DecodedAll
<1>1. "compress" # "decompress" /\ "compress" # "done" /\ "decompress" # "done"
  OBVIOUS
<1> QED BY <1>1, Places, Zenon DEF CodecPlace

(* It holds at first: an empty block of equal bytes. *)
LEMMA CodecInitInv == CodecInit => CodecInv
<1> SUFFICES ASSUME CodecInit PROVE CodecInv
  OBVIOUS
<1> DEFINE at == [x \in Nat |-> 0]
<1>1. at \in [Nat -> Nat] /\ \A x \in Nat : at[x] = 0
  OBVIOUS
<1>2. CodecBase
  BY CodecAssumption DEF CodecInit, CodecBase
<1> HIDE DEF at
<1>3. BlockShape(0, 0, at, at, at)
  <2>1. 0 \in Nat /\ 0 <= 0 /\ 0 - 0 <= MaxCounter
    BY CodecAssumption
  <2>2. \A i \in 0 .. 0 : i \in Nat
    OBVIOUS
  <2>3. \A i \in 0 .. 0 - 1 : FALSE
    OBVIOUS
  <2> QED BY <1>1, <2>1, <2>2, <2>3, Zenon DEF BlockShape
<1>4. Recounted([x \in {} |-> 0], SetCounter([x \in {} |-> 0], 0, 0), 0, 0, 0 + 2)
  <2>1. DOMAIN [x \in {} |-> 0] = 0 .. 0 - 1
    OBVIOUS
  <2>2. 0 \in Nat /\ 0 \in 0 .. MaxCounter
    BY CodecAssumption
  <2> HIDE <1>1
  <2> QED BY <2>1, <2>2, NewCount, Zenon
<1>5. Recounted([x \in {} |-> 0], memory, 0, 0, 0 + 2)
  BY <1>4, Zenon DEF CodecInit
<1>6. DOMAIN memory = 0 .. EndPos(0, 0, at, at, at) - 1 /\ memory[0] = 0
  <2>1. EndPos(0, 0, at, at, at) = 0 + 2
    BY <1>1, Zenon DEF EndPos
  <2> QED BY <1>5, <2>1, Zenon DEF Recounted
<1>7. ASSUME NEW i \in 0 .. 0 PROVE SamePart(memory, prev, data, i, at, at, at)
  <2>1. i = 0 /\ 0 \in Nat /\ 0 - 0 = 0 /\ \A k \in 0 .. 0 - 1 : FALSE
    OBVIOUS
  <2> QED BY <1>1, <1>6, <2>1, Zenon DEF SamePart
<1>8. \A i \in 0 .. 0 - 1 : FALSE
  OBVIOUS
<1>9. Encoded(memory, prev, data, 0, 0, at, at, at)
  BY <1>3, <1>6, <1>7, <1>8, Zenon DEF Encoded
<1>10. CompressingSame(0, at, at, at)
  <2>1. 0 \in Nat /\ 0 + 2 = 2 /\ 2 <= InitialMalloc /\ InitialMalloc >= 3
    BY CodecAssumption
  <2> QED BY <1>1, <1>9, <2>1, Zenon DEF CompressingSame, CodecInit
<1>11. 0 \in Nat
  OBVIOUS
<1>12. CodecPlace
  BY <1>1, <1>10, <1>11, Zenon DEF CodecPlace, AtSame
<1> QED BY <1>2, <1>12, Zenon DEF CodecInv

(* Each step leads from a place to a place; first those that compress. *)
LEMMA CountSameStep ==
    CodecBase /\ CodecPlace /\ CountSame => CodecPlace'
<1>1. SUFFICES ASSUME CodecBase, CodecPlace, CountSame PROVE CodecPlace'
  OBVIOUS
<1>2. PICK K \in Nat, at, first, mid \in [Nat -> Nat] : CompressingSame(K, at, first, mid)
  BY <1>1, PlaceOf, Zenon DEF CountSame, AtSame, Compressing
<1>3. PICK mid1 \in [Nat -> Nat] : mid1 = [mid EXCEPT ![K] = mid[K] + 1]
  <2>1. [mid EXCEPT ![K] = mid[K] + 1] \in [Nat -> Nat]
    OBVIOUS
  <2> QED BY <2>1, Zenon
<1>4. /\ Encoded(memory, prev, data, K, K, at, first, mid)
      /\ data[mid[K]] = prev[mid[K]]
      /\ memory[at[K]] # MaxCounter
      /\ memory' = SetCounter(memory, at[K], memory[at[K]] + 1)
  BY <1>1, <1>2, Zenon DEF CompressingSame, CountSame, Same, Counter
<1>5. Encoded(memory', prev, data, K, K, at, first, mid1)
  <2>1. SameByte(memory, memory', prev, data, K, at, first, mid, mid1)
    BY <1>3, <1>4, Zenon DEF SameByte
  <2> QED BY <2>1, EncodeSame, Zenon
<1>6. mid1[K] = mid[K] + 1
  BY <1>3
<1>7. CompressingSame(K, at, first, mid1)'
  BY <1>1, <1>2, <1>5, <1>6, Zenon DEF CompressingSame, CountSame
<1> QED BY <1>7, Zenon DEF CodecPlace, AtSame

LEMMA StartLiteralsStep ==
    CodecBase /\ CodecPlace /\ StartLiterals => CodecPlace'
<1>1. SUFFICES ASSUME CodecBase, CodecPlace, StartLiterals PROVE CodecPlace'
  OBVIOUS
<1>2. PICK K \in Nat, at, first, mid \in [Nat -> Nat] : CompressingSame(K, at, first, mid)
  BY <1>1, PlaceOf, Zenon DEF StartLiterals, AtSame, Compressing
<1>3. PICK first1 \in [Nat -> Nat] : first1 = [first EXCEPT ![K + 1] = mid[K]]
  OBVIOUS
<1>4. /\ Encoded(memory, prev, data, K, K, at, first, mid)
      /\ memory' = SetCounter(memory, at[K] + 2, 0)
      /\ counter_pos' = at[K] + 2 /\ data_pos' = at[K] + 2 + 2
  BY <1>1, <1>2, Zenon DEF CompressingSame, StartLiterals
<1>5. Encoded(memory', prev, data, K, K + 1, at, first1, mid)
  BY <1>3, <1>4, EncodeLiterals, Zenon
<1>6. first1[K + 1] = mid[K]
  BY <1>3
<1>7. data_pos' = at[K] + 4 + first1[K + 1] - mid[K]
  BY <1>4, <1>6
<1>8. malloc_size' >= 3 /\ data_pos' < malloc_size'
  <2>1. malloc_size \in Nat /\ malloc_size >= 3 /\ at[K] + 2 <= malloc_size
    BY <1>1, <1>2, Zenon DEF CompressingSame, CodecBase
  <2>2. malloc_size' = IF data_pos' >= malloc_size THEN malloc_size * 2 ELSE malloc_size
    BY <1>1, Zenon DEF StartLiterals, Grown
  <2> QED BY <2>1, <2>2, <1>4
<1>9. CompressingLiteral(K, at, first1, mid)'
  BY <1>1, <1>2, <1>4, <1>5, <1>6, <1>7, <1>8, Zenon DEF CompressingSame, CompressingLiteral, StartLiterals
<1> QED BY <1>9, Zenon DEF CodecPlace, AtLiteral

LEMMA StoreLiteralStep ==
    CodecBase /\ CodecPlace /\ StoreLiteral => CodecPlace'
<1>1. SUFFICES ASSUME CodecBase, CodecPlace, StoreLiteral PROVE CodecPlace'
  OBVIOUS
<1>2. PICK K \in Nat, at, first, mid \in [Nat -> Nat] : CompressingLiteral(K, at, first, mid)
  BY <1>1, PlaceOf, Zenon DEF StoreLiteral, AtLiteral, Compressing
<1>3. PICK first1 \in [Nat -> Nat] : first1 = [first EXCEPT ![K + 1] = first[K + 1] + 1]
  <2>1. [first EXCEPT ![K + 1] = first[K + 1] + 1] \in [Nat -> Nat]
    OBVIOUS
  <2> QED BY <2>1, Zenon
<1>4. /\ Encoded(memory, prev, data, K, K + 1, at, first, mid)
      /\ memory[at[K] + 2] # MaxCounter
      /\ memory' = Write(SetCounter(memory, at[K] + 2, memory[at[K] + 2] + 1),
                         at[K] + 4 + first[K + 1] - mid[K], data[first[K + 1]])
      /\ data_pos = at[K] + 4 + first[K + 1] - mid[K] /\ data_pos' = data_pos + 1
  BY <1>1, <1>2, Zenon DEF CompressingLiteral, StoreLiteral, Counter
<1>5. Encoded(memory', prev, data, K, K + 1, at, first1, mid)
  <2>1. LiteralByte(memory, memory', prev, data, K, at, first, mid, first1)
    BY <1>3, <1>4, Zenon DEF LiteralByte
  <2> QED BY <2>1, EncodeLiteral, Zenon
<1>6. first1[K + 1] = first[K + 1] + 1
  BY <1>3
<1>7. data_pos' = at[K] + 4 + first1[K + 1] - mid[K]
  BY <1>4, <1>6
<1>8. malloc_size' >= 3 /\ data_pos' < malloc_size'
  <2>1. malloc_size \in Nat /\ malloc_size >= 3 /\ data_pos < malloc_size
    BY <1>1, <1>2, Zenon DEF CompressingLiteral, CodecBase
  <2>2. malloc_size' = IF data_pos' >= malloc_size THEN malloc_size * 2 ELSE malloc_size
    BY <1>1, Zenon DEF StoreLiteral, Grown
  <2>3. data_pos \in Int
    BY <1>4
  <2>4. data_pos' = data_pos + 1
    BY <1>4, Zenon
  <2> QED BY <2>1, <2>2, <2>3, <2>4
<1>9. CompressingLiteral(K, at, first1, mid)'
  BY <1>1, <1>2, <1>5, <1>6, <1>7, <1>8, Zenon DEF CompressingLiteral, StoreLiteral
<1> QED BY <1>9, Zenon DEF CodecPlace, AtLiteral

LEMMA StartSameStep ==
    CodecBase /\ CodecPlace /\ StartSame => CodecPlace'
<1>1. SUFFICES ASSUME CodecBase, CodecPlace, StartSame PROVE CodecPlace'
  OBVIOUS
<1>2. PICK K \in Nat, at, first, mid \in [Nat -> Nat] : CompressingLiteral(K, at, first, mid)
  BY <1>1, PlaceOf, Zenon DEF StartSame, AtLiteral, Compressing
<1>4. /\ Encoded(memory, prev, data, K, K + 1, at, first, mid)
      /\ data_pos = at[K] + 4 + first[K + 1] - mid[K]
      /\ memory' = SetCounter(memory, data_pos, 0)
      /\ counter_pos' = data_pos /\ data_pos' = data_pos + 2
  BY <1>1, <1>2, Zenon DEF CompressingLiteral, StartSame
<1>a. data_pos \in Nat
  <2>1. BlockShape(K, K + 1, at, first, mid)
    BY <1>4, Zenon DEF Encoded
  <2>2. K \in 0 .. (K + 1) - 1
    OBVIOUS
  <2>3. mid[K] <= first[K + 1]
    BY <2>1, <2>2, Zenon DEF BlockShape
  <2>4. data_pos = at[K] + 4 + first[K + 1] - mid[K]
    BY <1>4, Zenon
  <2> QED BY <2>3, <2>4
<1>3. PICK e \in Nat : e = data_pos
  BY <1>a
<1>b. PICK at1 \in [Nat -> Nat] : at1 = [at EXCEPT ![K + 1] = e]
  OBVIOUS
<1>c. PICK mid1 \in [Nat -> Nat] : mid1 = [mid EXCEPT ![K + 1] = first[K + 1]]
  OBVIOUS
<1>5. Encoded(memory', prev, data, K + 1, K + 1, at1, first, mid1)
  BY <1>3, <1>4, <1>b, <1>c, EncodeNext, Zenon
<1>6. at1[K + 1] = e /\ mid1[K + 1] = first[K + 1] /\ K + 1 \in Nat
  BY <1>b, <1>c
<1>8. malloc_size' >= 3 /\ data_pos' <= malloc_size'
  <2>1. malloc_size \in Nat /\ malloc_size >= 3 /\ data_pos < malloc_size
    BY <1>1, <1>2, Zenon DEF CompressingLiteral, CodecBase
  <2>2. malloc_size' = IF data_pos >= malloc_size - 1 THEN malloc_size * 2 ELSE malloc_size
    BY <1>1, Zenon DEF StartSame, Grown
  <2>3. data_pos' = data_pos + 2
    BY <1>4, Zenon
  <2> QED BY <2>1, <2>2, <2>3, <1>a
<1>9. CompressingSame(K + 1, at1, first, mid1)'
  BY <1>1, <1>2, <1>3, <1>4, <1>5, <1>6, <1>8, Zenon DEF CompressingSame, CompressingLiteral, StartSame
<1> QED BY <1>6, <1>9, Zenon DEF CodecPlace, AtSame

LEMMA TrimStep ==
    CodecBase /\ CodecPlace /\ Trim => CodecPlace'
<1>1. SUFFICES ASSUME CodecBase, CodecPlace, Trim PROVE CodecPlace'
  OBVIOUS
<1>2. PICK K \in Nat, at, first, mid \in [Nat -> Nat] :
         CompressingSame(K, at, first, mid) \/ CompressingLiteral(K, at, first, mid)
  <2>1. AtSame \/ AtLiteral
    BY <1>1, PlaceOf, Zenon DEF Trim
  <2> QED BY <2>1, Zenon DEF AtSame, AtLiteral
<1>3. PICK L \in Half(K) : /\ Encoded(memory, prev, data, K, L, at, first, mid)
                              /\ offset = Consumed(K, L, first, mid)
                              /\ data_pos = EndPos(K, L, at, first, mid)
  <2>0. K # K + 1
    OBVIOUS
  <2>1. CASE CompressingSame(K, at, first, mid)
    BY <2>1, Zenon DEF CompressingSame, Consumed, EndPos, Half
  <2>2. CASE CompressingLiteral(K, at, first, mid)
    BY <2>0, <2>2, Zenon DEF CompressingLiteral, Consumed, EndPos, Half
  <2> QED BY <1>2, <2>1, <2>2, Zenon
<1>4. DecodingSame(memory, prev, data, K, L, at, first, mid, 0, 0)
  BY <1>3, DecodeStart, Zenon
<1>5. at[0] = 0 /\ 0 + 2 = 2 /\ 0 \in 0 .. K
  <2>1. at[0] = 0
    BY <1>3, Zenon DEF Encoded, BlockShape
  <2>2. 0 + 2 = 2 /\ 0 \in 0 .. K
    OBVIOUS
  <2> QED BY <2>1, <2>2, Zenon
<1>6. Produced'
  <2>1. dest = [x \in {} |-> 0] /\ dest' = dest /\ offset' = 0
    BY <1>1, <1>2, Zenon DEF CompressingSame, CompressingLiteral, Trim
  <2>2. 0 .. 0 - 1 = {}
    OBVIOUS
  <2>3. [x \in {} |-> 0] = [x \in {} |-> data'[x]]
    OBVIOUS
  <2> QED BY <2>1, <2>2, <2>3, Zenon DEF Produced
<1>7. DecompressingSame(K, L, at, first, mid, 0)'
  BY <1>1, <1>3, <1>4, <1>5, <1>6, Zenon DEF DecompressingSame, Trim
<1> QED BY <1>5, <1>7, Zenon DEF CodecPlace, InSame

(* The state decoded so far grows by a byte. *)
LEMMA Produce ==
    ASSUME NEW d, NEW o \in Nat
    PROVE  Write([x \in 0 .. o - 1 |-> d[x]], o, d[o]) = [x \in 0 .. (o + 1) - 1 |-> d[x]]
<1>1. (0 .. o - 1) \union {o} = 0 .. (o + 1) - 1
  OBVIOUS
<1>2. ASSUME NEW x \in 0 .. (o + 1) - 1
      PROVE  (IF x = o THEN d[o] ELSE [y \in 0 .. o - 1 |-> d[y]][x]) = d[x]
  <2>1. CASE x = o
    BY <2>1, Zenon
  <2>2. CASE x # o
    <3>1. x \in 0 .. o - 1
      BY <2>2
    <3> QED BY <2>2, <3>1, Zenon
  <2> QED BY <2>1, <2>2, Zenon
<1>3. DOMAIN [x \in 0 .. o - 1 |-> d[x]] = 0 .. o - 1
  OBVIOUS
<1> QED BY <1>1, <1>2, <1>3 DEF Write

(* And those that decompress. *)
LEMMA CopyPrevStep ==
    CodecBase /\ CodecPlace /\ CopyPrev => CodecPlace'
<1>1. SUFFICES ASSUME CodecBase, CodecPlace, CopyPrev PROVE CodecPlace'
  OBVIOUS
<1>a. PICK K \in Nat, at, first, mid \in [Nat -> Nat] : \E L \in Half(K), c \in 0 .. K :
         DecompressingSame(K, L, at, first, mid, c)
  BY <1>1, PlaceOf, Zenon DEF CopyPrev, InSame, Decompressing
<1>b. PICK L \in Half(K) : \E c \in 0 .. K : DecompressingSame(K, L, at, first, mid, c)
  BY <1>a, Zenon
<1>2. PICK c \in 0 .. K : DecompressingSame(K, L, at, first, mid, c)
  BY <1>b, Zenon
<1>3. /\ DecodingSame(memory, prev, data, K, L, at, first, mid, c, offset)
      /\ memory[at[c]] # 0
      /\ memory' = SetCounter(memory, at[c], memory[at[c]] - 1)
  BY <1>1, <1>2, Zenon DEF DecompressingSame, CopyPrev, Counter
<1>4. offset \in Nat /\ offset' = offset + 1
  <2>1. offset \in 0 .. StateSize /\ offset' = offset + 1
    BY <1>1, Zenon DEF CodecBase, CopyPrev
  <2> QED BY <2>1, CodecAssumption
<1>5. data[offset] = prev[offset]
      /\ DecodingSame(memory', prev, data, K, L, at, first, mid, c, offset + 1)
  <2>1. SameRead(memory, memory', prev, data, K, L, at, first, mid, c, offset)
    BY <1>3, Zenon DEF SameRead
  <2>2. SameWasRead(memory', prev, data, K, L, at, first, mid, c, offset)
    BY <2>1, <1>4, DecodeSame, Zenon
  <2> QED BY <2>2, Zenon DEF SameWasRead
<1>6. Produced'
  <2>1. dest' = Write([x \in 0 .. offset - 1 |-> data[x]], offset, data[offset])
    BY <1>1, <1>2, <1>5, Zenon DEF DecompressingSame, CopyPrev, Produced
  <2>2. dest' = [x \in 0 .. (offset + 1) - 1 |-> data[x]]
    BY <2>1, <1>4, Produce, Zenon
  <2>3. data' = data
    BY <1>1, Zenon DEF CopyPrev
  <2> QED BY <2>2, <2>3, <1>4, Zenon DEF Produced
<1>7. DecompressingSame(K, L, at, first, mid, c)'
  BY <1>1, <1>2, <1>4, <1>5, <1>6, Zenon DEF DecompressingSame, CopyPrev
<1> QED BY <1>7, Zenon DEF CodecPlace, InSame

LEMMA EnterLiteralsStep ==
    CodecBase /\ CodecPlace /\ EnterLiterals => CodecPlace'
<1>1. SUFFICES ASSUME CodecBase, CodecPlace, EnterLiterals PROVE CodecPlace'
  OBVIOUS
<1>a. PICK K \in Nat, at, first, mid \in [Nat -> Nat] : \E L \in Half(K), c \in 0 .. K :
         DecompressingSame(K, L, at, first, mid, c)
  BY <1>1, PlaceOf, Zenon DEF EnterLiterals, InSame, Decompressing
<1>b. PICK L \in Half(K) : \E c \in 0 .. K : DecompressingSame(K, L, at, first, mid, c)
  BY <1>a, Zenon
<1>2. PICK c \in 0 .. K : DecompressingSame(K, L, at, first, mid, c)
  BY <1>b, Zenon
<1>3. /\ DecodingSame(memory, prev, data, K, L, at, first, mid, c, offset)
      /\ memory[at[c]] = 0 /\ counter_pos = at[c]
      /\ StateSize = Consumed(K, L, first, mid)
  BY <1>1, <1>2, Zenon DEF DecompressingSame, EnterLiterals, Counter
<1>4. offset \in Nat /\ offset < StateSize /\ StateSize \in Nat
  <2>1. offset \in 0 .. StateSize /\ offset < StateSize
    BY <1>1, Zenon DEF CodecBase, EnterLiterals, Decompressing
  <2> QED BY <2>1, CodecAssumption
<1>5. IF c \in 0 .. L - 1
      THEN /\ offset = mid[c]
           /\ DecodingLiteral(memory, prev, data, K, L, at, first, mid, c, offset)
      ELSE offset = Consumed(K, L, first, mid)
  <2>1. SameEnd(memory, prev, data, K, L, at, first, mid, c, offset)
    BY <1>3, Zenon DEF SameEnd
  <2>2. SameEnded(memory, prev, data, K, L, at, first, mid, c, offset)
    BY <2>1, <1>4, DecodeEnter, Zenon
  <2> QED BY <2>2, Zenon DEF SameEnded
<1>6. /\ c \in 0 .. L - 1 /\ offset = mid[c]
      /\ DecodingLiteral(memory, prev, data, K, L, at, first, mid, c, offset)
  <2>1. offset # StateSize
    BY <1>4
  <2> QED BY <1>3, <1>5, <2>1, Zenon
<1>7. counter_pos' = at[c] + 2 /\ data_pos' = at[c] + 4 + (offset - mid[c])
  <2>1. counter_pos' = at[c] + 2 /\ data_pos' = at[c] + 2 + 2
    BY <1>1, <1>3, Zenon DEF EnterLiterals
  <2>2. at[c] \in Nat /\ mid[c] \in Nat /\ offset = mid[c]
    BY <1>6
  <2>3. at[c] + 2 + 2 = at[c] + 4 + (offset - mid[c])
    BY <2>2
  <2> QED BY <2>1, <2>3, Zenon
<1>8. Produced'
  BY <1>1, <1>2, Zenon DEF DecompressingSame, EnterLiterals, Produced
<1>9. DecompressingLiteral(K, L, at, first, mid, c)'
  BY <1>1, <1>2, <1>6, <1>7, <1>8, Zenon DEF DecompressingSame, DecompressingLiteral, EnterLiterals
<1> QED BY <1>6, <1>9, Zenon DEF CodecPlace, InLiteral

LEMMA CopyLiteralStep ==
    CodecBase /\ CodecPlace /\ CopyLiteral => CodecPlace'
<1>1. SUFFICES ASSUME CodecBase, CodecPlace, CopyLiteral PROVE CodecPlace'
  OBVIOUS
<1>a. PICK K \in Nat, at, first, mid \in [Nat -> Nat] : \E L \in Half(K) : \E c \in 0 .. L - 1 :
         DecompressingLiteral(K, L, at, first, mid, c)
  BY <1>1, PlaceOf, Zenon DEF CopyLiteral, InLiteral, Decompressing
<1>b. PICK L \in Half(K) : \E c \in 0 .. L - 1 : DecompressingLiteral(K, L, at, first, mid, c)
  BY <1>a, Zenon
<1>2. PICK c \in 0 .. L - 1 : DecompressingLiteral(K, L, at, first, mid, c)
  BY <1>b, Zenon
<1>3. /\ DecodingLiteral(memory, prev, data, K, L, at, first, mid, c, offset)
      /\ memory[at[c] + 2] # 0
      /\ memory' = SetCounter(memory, at[c] + 2, memory[at[c] + 2] - 1)
      /\ data_pos = at[c] + 4 + (offset - mid[c]) /\ data_pos' = data_pos + 1
  BY <1>1, <1>2, Zenon DEF DecompressingLiteral, CopyLiteral, Counter
<1>4. offset \in Nat /\ offset' = offset + 1
  <2>1. offset \in 0 .. StateSize /\ offset' = offset + 1
    BY <1>1, Zenon DEF CodecBase, CopyLiteral
  <2> QED BY <2>1, CodecAssumption
<1>5. memory[data_pos] = data[offset]
      /\ DecodingLiteral(memory', prev, data, K, L, at, first, mid, c, offset + 1)
  <2>1. LiteralRead(memory, memory', prev, data, K, L, at, first, mid, c, offset)
    BY <1>3, Zenon DEF LiteralRead
  <2>2. LiteralWasRead(memory, memory', prev, data, K, L, at, first, mid, c, offset)
    BY <2>1, <1>4, DecodeLiteral, Zenon
  <2> QED BY <1>3, <2>2, Zenon DEF LiteralWasRead
<1>6. Produced'
  <2>1. dest' = Write([x \in 0 .. offset - 1 |-> data[x]], offset, data[offset])
    BY <1>1, <1>2, <1>5, Zenon DEF DecompressingLiteral, CopyLiteral, Produced
  <2>2. dest' = [x \in 0 .. (offset + 1) - 1 |-> data[x]]
    BY <2>1, <1>4, Produce, Zenon
  <2>3. data' = data
    BY <1>1, Zenon DEF CopyLiteral
  <2> QED BY <2>2, <2>3, <1>4, Zenon DEF Produced
<1>7. data_pos' = at[c] + 4 + (offset' - mid[c])
  <2>1. data_pos' = at[c] + 4 + (offset - mid[c]) + 1 /\ offset' = offset + 1
    BY <1>3, <1>4, Zenon
  <2>2. at[c] \in Nat /\ mid[c] \in Nat
    OBVIOUS
  <2> QED BY <2>1, <2>2, <1>4
<1>8. DecompressingLiteral(K, L, at, first, mid, c)'
  BY <1>1, <1>2, <1>4, <1>5, <1>6, <1>7, Zenon DEF DecompressingLiteral, CopyLiteral
<1> QED BY <1>8, Zenon DEF CodecPlace, InLiteral

LEMMA EnterSameStep ==
    CodecBase /\ CodecPlace /\ EnterSame => CodecPlace'
<1>1. SUFFICES ASSUME CodecBase, CodecPlace, EnterSame PROVE CodecPlace'
  OBVIOUS
<1>a. PICK K \in Nat, at, first, mid \in [Nat -> Nat] : \E L \in Half(K) : \E c \in 0 .. L - 1 :
         DecompressingLiteral(K, L, at, first, mid, c)
  BY <1>1, PlaceOf, Zenon DEF EnterSame, InLiteral, Decompressing
<1>b. PICK L \in Half(K) : \E c \in 0 .. L - 1 : DecompressingLiteral(K, L, at, first, mid, c)
  BY <1>a, Zenon
<1>2. PICK c \in 0 .. L - 1 : DecompressingLiteral(K, L, at, first, mid, c)
  BY <1>b, Zenon
<1>3. /\ DecodingLiteral(memory, prev, data, K, L, at, first, mid, c, offset)
      /\ memory[at[c] + 2] = 0 /\ data_pos = at[c] + 4 + (offset - mid[c])
      /\ StateSize = Consumed(K, L, first, mid)
  BY <1>1, <1>2, Zenon DEF DecompressingLiteral, EnterSame, Counter
<1>4. offset \in Nat /\ offset < StateSize /\ StateSize \in Nat
  <2>1. offset \in 0 .. StateSize /\ offset < StateSize
    BY <1>1, Zenon DEF CodecBase, EnterSame, Decompressing
  <2> QED BY <2>1, CodecAssumption
<1>5. IF c + 1 \in 0 .. K
      THEN /\ at[c + 1] = at[c] + 4 + (offset - mid[c])
           /\ DecodingSame(memory, prev, data, K, L, at, first, mid, c + 1, offset)
      ELSE offset = Consumed(K, L, first, mid)
  <2>1. LiteralEnd(memory, prev, data, K, L, at, first, mid, c, offset)
    BY <1>3, Zenon DEF LiteralEnd
  <2>2. LiteralEnded(memory, prev, data, K, L, at, first, mid, c, offset)
    BY <2>1, <1>4, DecodeNext, Zenon
  <2> QED BY <2>2, Zenon DEF LiteralEnded
<1>6. /\ c + 1 \in 0 .. K /\ at[c + 1] = data_pos
      /\ DecodingSame(memory, prev, data, K, L, at, first, mid, c + 1, offset)
  <2>1. offset # StateSize
    BY <1>4
  <2> QED BY <1>3, <1>5, <2>1, Zenon
<1>7. Produced'
  BY <1>1, <1>2, Zenon DEF DecompressingLiteral, EnterSame, Produced
<1>8. DecompressingSame(K, L, at, first, mid, c + 1)'
  BY <1>1, <1>2, <1>6, <1>7, Zenon DEF DecompressingSame, DecompressingLiteral, EnterSame
<1> QED BY <1>6, <1>8, Zenon DEF CodecPlace, InSame

LEMMA FinishStep ==
    CodecBase /\ CodecPlace /\ Finish => CodecPlace'
<1>1. SUFFICES ASSUME CodecBase, CodecPlace, Finish PROVE CodecPlace'
  OBVIOUS
<1>2. Produced /\ DOMAIN memory = 0 .. malloc_size - 1
  <2>1. InSame \/ InLiteral
    BY <1>1, PlaceOf, Zenon DEF Finish
  <2>2. CASE InSame
    <3>1. ASSUME NEW K, NEW L, NEW at, NEW first, NEW mid, NEW c,
                 DecompressingSame(K, L, at, first, mid, c)
          PROVE  Produced /\ DOMAIN memory = 0 .. malloc_size - 1
      <4>1. Produced /\ malloc_size = EndPos(K, L, at, first, mid)
        BY <3>1, Zenon DEF DecompressingSame
      <4>2. DOMAIN memory = 0 .. EndPos(K, L, at, first, mid) - 1
        BY <3>1, Zenon DEF DecompressingSame, DecodingSame
      <4> QED BY <4>1, <4>2, Zenon
    <3> QED BY <2>2, <3>1, Zenon DEF InSame
  <2>3. CASE InLiteral
    <3>1. ASSUME NEW K, NEW L, NEW at, NEW first, NEW mid, NEW c,
                 DecompressingLiteral(K, L, at, first, mid, c)
          PROVE  Produced /\ DOMAIN memory = 0 .. malloc_size - 1
      <4>1. Produced /\ malloc_size = EndPos(K, L, at, first, mid)
        BY <3>1, Zenon DEF DecompressingLiteral
      <4>2. DOMAIN memory = 0 .. EndPos(K, L, at, first, mid) - 1
        BY <3>1, Zenon DEF DecompressingLiteral, DecodingLiteral
      <4> QED BY <4>1, <4>2, Zenon
    <3> QED BY <2>3, <3>1, Zenon DEF InLiteral
  <2> QED BY <2>1, <2>2, <2>3, Zenon
<1>3. dest = data
  <2>1. dest = [x \in 0 .. StateSize - 1 |-> data[x]]
    BY <1>1, <1>2, Zenon DEF Produced, Finish
  <2>2. data \in [0 .. StateSize - 1 -> Byte]
    BY <1>1, Zenon DEF CodecBase, Input
  <2> QED BY <2>1, <2>2
<1> QED BY <1>1, <1>2, <1>3, Zenon DEF CodecPlace, DecodedAll, Finish

(* CodecInv is inductive. *)
LEMMA CodecStepInv == CodecInv /\ [CodecNext]_codecVars => CodecInv'
<1>1. SUFFICES ASSUME CodecInv, [CodecNext]_codecVars PROVE CodecInv'
  OBVIOUS
<1>2. CASE UNCHANGED codecVars
  <2>1. CodecBase'
    BY <1>1, <1>2, Zenon DEF CodecInv, CodecBase, codecVars, Input
  <2>2. CodecPlace'
    <3>1. /\ UNCHANGED <<phase, prev, data, offset, prev_mode, counter_pos, data_pos>>
          /\ UNCHANGED <<malloc_size, memory, dest>>
      BY <1>2, Zenon DEF codecVars
    <3>2. CodecPlace
      BY <1>1, Zenon DEF CodecInv
    <3>3. AtSame => AtSame'
      BY <3>1, Zenon DEF AtSame, CompressingSame
    <3>4. AtLiteral => AtLiteral'
      BY <3>1, Zenon DEF AtLiteral, CompressingLiteral
    <3>5. InSame => InSame'
      <4>1. SUFFICES ASSUME InSame PROVE InSame'
        OBVIOUS
      <4>2. PICK K \in Nat, at, first, mid \in [Nat -> Nat] :
               \E L \in Half(K), c \in 0 .. K : DecompressingSame(K, L, at, first, mid, c)
        BY <4>1, Zenon DEF InSame
      <4>3. PICK L \in Half(K) : \E c \in 0 .. K : DecompressingSame(K, L, at, first, mid, c)
        BY <4>2, Zenon
      <4>4. PICK c \in 0 .. K : DecompressingSame(K, L, at, first, mid, c)
        BY <4>3, Zenon
      <4>5. DecompressingSame(K, L, at, first, mid, c)'
        BY <3>1, <4>4, Zenon DEF DecompressingSame, Produced
      <4> QED BY <4>5, Zenon DEF InSame
    <3>6. InLiteral => InLiteral'
      <4>1. SUFFICES ASSUME InLiteral PROVE InLiteral'
        OBVIOUS
      <4>2. PICK K \in Nat, at, first, mid \in [Nat -> Nat] :
               \E L \in Half(K) : \E c \in 0 .. L - 1 : DecompressingLiteral(K, L, at, first, mid, c)
        BY <4>1, Zenon DEF InLiteral
      <4>3. PICK L \in Half(K) : \E c \in 0 .. L - 1 : DecompressingLiteral(K, L, at, first, mid, c)
        BY <4>2, Zenon
      <4>4. PICK c \in 0 .. L - 1 : DecompressingLiteral(K, L, at, first, mid, c)
        BY <4>3, Zenon
      <4>5. DecompressingLiteral(K, L, at, first, mid, c)'
        BY <3>1, <4>4, Zenon DEF DecompressingLiteral, Produced
      <4> QED BY <4>5, Zenon DEF InLiteral
    <3>7. DecodedAll => DecodedAll'
      BY <3>1, Zenon DEF DecodedAll
    <3> QED BY <3>2, <3>3, <3>4, <3>5, <3>6, <3>7, Zenon DEF CodecPlace
  <2> QED BY <2>1, <2>2, Zenon DEF CodecInv
<1>3. CASE CodecNext
  <2>1. CodecBase /\ CodecPlace
    BY <1>1, Zenon DEF CodecInv
  <2>2. CodecPlace'
    BY <1>3, <2>1, CountSameStep, StartLiteralsStep, StoreLiteralStep, StartSameStep, TrimStep,
       CopyPrevStep, EnterLiteralsStep, CopyLiteralStep, EnterSameStep, FinishStep, Zenon
       DEF CodecNext, Compress, Decompress
  <2>3. CodecBase'
    <3>0. /\ prev \in Input /\ data \in Input /\ offset \in 0 .. StateSize
          /\ malloc_size \in Nat /\ StateSize \in Nat
      BY <2>1, CodecAssumption DEF CodecBase
    <3>1. prev' = prev /\ data' = data
      BY <1>3, Zenon DEF CodecNext, Compress, Decompress, CountSame, StartLiterals, StoreLiteral,
         StartSame, Trim, CopyPrev, EnterLiterals, CopyLiteral, EnterSame, Finish
    <3>2. \/ offset' = offset
          \/ offset < StateSize /\ offset' = offset + 1
          \/ offset' = 0
      BY <1>3, Zenon DEF CodecNext, Compress, Decompress, CountSame, StartLiterals, StoreLiteral,
         StartSame, Trim, CopyPrev, EnterLiterals, CopyLiteral, EnterSame, Finish, Compressing,
         Decompressing
    <3>3. offset' \in 0 .. StateSize
      BY <3>0, <3>2
    <3>4. \/ malloc_size' = malloc_size
          \/ malloc_size' = malloc_size * 2
          \/ Trim /\ malloc_size' = data_pos
      BY <1>3, Zenon DEF CodecNext, Compress, Decompress, CountSame, StartLiterals, StoreLiteral,
         StartSame, Trim, CopyPrev, EnterLiterals, CopyLiteral, EnterSame, Finish, Grown
    <3>5. ASSUME Trim PROVE data_pos \in Nat
      <4>1. AtSame \/ AtLiteral
        BY <2>1, <3>5, PlaceOf, Zenon DEF Trim
      <4>2. CASE AtSame
        <5>1. PICK K \in Nat, at, first, mid \in [Nat -> Nat] : CompressingSame(K, at, first, mid)
          BY <4>2, Zenon DEF AtSame
        <5>2. data_pos = at[K] + 2
          BY <5>1, Zenon DEF CompressingSame
        <5> QED BY <5>2
      <4>3. CASE AtLiteral
        <5>1. PICK K \in Nat, at, first, mid \in [Nat -> Nat] :
                 CompressingLiteral(K, at, first, mid)
          BY <4>3, Zenon DEF AtLiteral
        <5>2. data_pos = at[K] + 4 + first[K + 1] - mid[K] /\ BlockShape(K, K + 1, at, first, mid)
          BY <5>1, Zenon DEF CompressingLiteral, Encoded
        <5>3. K \in 0 .. (K + 1) - 1
          OBVIOUS
        <5>4. mid[K] <= first[K + 1]
          BY <5>2, <5>3, Zenon DEF BlockShape
        <5>5. data_pos = at[K] + 4 + first[K + 1] - mid[K]
          BY <5>2, Zenon
        <5> QED BY <5>4, <5>5
      <4> QED BY <4>1, <4>2, <4>3, Zenon
    <3>6. malloc_size' \in Nat
      <4>1. malloc_size * 2 \in Nat
        BY <3>0
      <4> QED BY <4>1, <3>0, <3>4, <3>5, Zenon
    <3>7. prev' \in Input /\ data' \in Input
      BY <3>0, <3>1, Zenon
    <3> QED BY <3>3, <3>6, <3>7, Zenon DEF CodecBase, Input
  <2> QED BY <2>2, <2>3, Zenon DEF CodecInv
<1> QED BY <1>1, <1>2, <1>3, Zenon

(* And it is what the property needs. *)
LEMMA CodecInvSafe == CodecInv => EncodingIsExact
<1>1. SUFFICES ASSUME CodecBase, CodecPlace PROVE EncodingIsExact
  BY Zenon DEF CodecInv
<1>0. malloc_size \in Nat
  BY <1>1, Zenon DEF CodecBase
<1>2. CASE AtSame
  <2>1. PICK K \in Nat, at, first, mid \in [Nat -> Nat] : CompressingSame(K, at, first, mid)
    BY <1>2, Zenon DEF AtSame
  <2>2. DOMAIN memory = 0 .. data_pos - 1 /\ phase = "compress"
    BY <2>1, Zenon DEF CompressingSame, Encoded, EndPos
  <2>3. data_pos \in Int /\ data_pos <= malloc_size
    <3>1. data_pos = at[K] + 2 /\ data_pos <= malloc_size
      BY <2>1, Zenon DEF CompressingSame
    <3> QED BY <3>1
  <2>4. 0 .. data_pos - 1 \subseteq 0 .. malloc_size - 1
    BY <2>3, <1>0
  <2>5. phase # "decompress" /\ phase # "done"
    BY <2>2
  <2> QED BY <2>2, <2>4, <2>5, Zenon DEF EncodingIsExact, NoOverrun, ReadsWhatWasWritten,
          RoundTrip, Decompressing
<1>3. CASE AtLiteral
  <2>1. PICK K \in Nat, at, first, mid \in [Nat -> Nat] : CompressingLiteral(K, at, first, mid)
    BY <1>3, Zenon DEF AtLiteral
  <2>0. K # K + 1
    OBVIOUS
  <2>2. DOMAIN memory = 0 .. data_pos - 1 /\ phase = "compress"
    BY <2>0, <2>1, Zenon DEF CompressingLiteral, Encoded, EndPos
  <2>3. data_pos \in Int /\ data_pos < malloc_size
    <3>1. data_pos = at[K] + 4 + first[K + 1] - mid[K] /\ data_pos < malloc_size
      BY <2>1, Zenon DEF CompressingLiteral
    <3> QED BY <3>1
  <2>4. 0 .. data_pos - 1 \subseteq 0 .. malloc_size - 1
    BY <2>3, <1>0
  <2>5. phase # "decompress" /\ phase # "done"
    BY <2>2
  <2> QED BY <2>2, <2>4, <2>5, Zenon DEF EncodingIsExact, NoOverrun, ReadsWhatWasWritten,
          RoundTrip, Decompressing
<1>4. CASE InSame
  <2>1. PICK K \in Nat, at, first, mid \in [Nat -> Nat] : \E L \in Half(K), c \in 0 .. K :
           DecompressingSame(K, L, at, first, mid, c)
    BY <1>4, Zenon DEF InSame
  <2>2. PICK L \in Half(K), c \in 0 .. K : DecompressingSame(K, L, at, first, mid, c)
    BY <2>1, Zenon
  <2>3. /\ DOMAIN memory = 0 .. malloc_size - 1 /\ phase = "decompress" /\ prev_mode
        /\ counter_pos = at[c] /\ BlockShape(K, L, at, first, mid)
        /\ malloc_size = EndPos(K, L, at, first, mid)
    BY <2>2, Zenon DEF DecompressingSame, DecodingSame
  <2>4. at[c] + 2 <= malloc_size
    BY <2>3, Bounds, Zenon
  <2>5. at[c] \in 0 .. malloc_size - 1 /\ at[c] + 1 \in 0 .. malloc_size - 1
    BY <2>4, <1>0
  <2>6. {counter_pos, counter_pos + 1} \subseteq DOMAIN memory
    BY <2>3, <2>5, Zenon
  <2>7. phase # "done"
    BY <2>3
  <2> QED BY <2>3, <2>6, <2>7, Zenon DEF EncodingIsExact, NoOverrun, ReadsWhatWasWritten,
          RoundTrip
<1>5. CASE InLiteral
  <2>1. PICK K \in Nat, at, first, mid \in [Nat -> Nat] :
           \E L \in Half(K) : \E c \in 0 .. L - 1 : DecompressingLiteral(K, L, at, first, mid, c)
    BY <1>5, Zenon DEF InLiteral
  <2>a. PICK L \in Half(K) : \E c \in 0 .. L - 1 : DecompressingLiteral(K, L, at, first, mid, c)
    BY <2>1, Zenon
  <2>2. PICK c \in 0 .. L - 1 : DecompressingLiteral(K, L, at, first, mid, c)
    BY <2>a, Zenon
  <2>3. /\ DOMAIN memory = 0 .. malloc_size - 1 /\ phase = "decompress" /\ ~prev_mode
        /\ counter_pos = at[c] + 2 /\ data_pos = at[c] + 4 + (offset - mid[c])
        /\ DecodingLiteral(memory, prev, data, K, L, at, first, mid, c, offset)
        /\ BlockShape(K, L, at, first, mid) /\ malloc_size = EndPos(K, L, at, first, mid)
    BY <2>2, Zenon DEF DecompressingLiteral, DecodingLiteral
  <2>4. mid[c] <= first[c + 1] /\ at[c] + 4 + first[c + 1] - mid[c] <= malloc_size
    BY <2>3, Bounds, Zenon
  <2>5. at[c] + 2 \in 0 .. malloc_size - 1 /\ at[c] + 2 + 1 \in 0 .. malloc_size - 1
    BY <2>4, <1>0
  <2>6. {counter_pos, counter_pos + 1} \subseteq DOMAIN memory
    BY <2>3, <2>5, Zenon
  <2>8. ASSUME Counter # 0 PROVE data_pos \in DOMAIN memory
    <3>1. offset \in Nat
      <4>1. offset \in 0 .. StateSize
        BY <1>1, Zenon DEF CodecBase
      <4> QED BY <4>1, CodecAssumption
    <3>2. first[c + 1] - offset # 0 /\ mid[c] <= offset /\ offset <= first[c + 1]
      BY <2>3, <2>8, Zenon DEF DecodingLiteral, Counter
    <3>3. offset < first[c + 1]
      <4>1. \A x, y \in Nat : x - y # 0 /\ y <= x => y < x
        OBVIOUS
      <4>2. first[c + 1] \in Nat
        OBVIOUS
      <4> QED BY <3>1, <3>2, <4>1, <4>2, Zenon
    <3>4. at[c] + 4 + (offset - mid[c]) \in 0 .. malloc_size - 1
      <4>1. mid[c] <= offset
        BY <3>2, Zenon
      <4> QED BY <4>1, <3>1, <3>3, <2>4, <1>0
    <3> QED BY <3>4, <2>3, Zenon
  <2>7. phase # "done"
    BY <2>3
  <2> QED BY <2>3, <2>6, <2>7, <2>8, Zenon DEF EncodingIsExact, NoOverrun, ReadsWhatWasWritten,
          RoundTrip
<1>6. CASE DecodedAll
  <2>1. phase # "decompress"
    BY <1>6 DEF DecodedAll
  <2> QED BY <1>6, <2>1, Zenon DEF DecodedAll, EncodingIsExact, NoOverrun, ReadsWhatWasWritten,
          RoundTrip, Decompressing
<1> QED BY <1>1, <1>2, <1>3, <1>4, <1>5, <1>6, Zenon DEF CodecPlace

(* Whatever the two states, the size of a state and the largest count are, *)
(* the encoding stays in its allocation, the decoder reads only bytes that *)
(* were written, and it gives back the state that was encoded.             *)
THEOREM EncodingIsExactTheorem == CodecSpec => []EncodingIsExact
<1>1. CodecInit => CodecInv
  BY CodecInitInv
<1>2. CodecInv /\ [CodecNext]_codecVars => CodecInv'
  BY CodecStepInv
<1>3. CodecInv => EncodingIsExact
  BY CodecInvSafe
<1> QED BY <1>1, <1>2, <1>3, PTL DEF CodecSpec
=============================================================================
