-------------------------- MODULE GeneratorProofs --------------------------
(***************************************************************************)
(* Proofs about ApuRun: where GB_apu_run cuts the cycles into batches      *)
(* makes no difference to a generator.                                     *)
(*                                                                         *)
(* A batch that is one cycle longer goes through the same rounds of its    *)
(* loop, and either has a cycle more left or one round more; in both cases *)
(* it ends where one cycle of the abstract generator leads from the end of *)
(* the shorter one.  A batch is therefore its cycles one by one, two       *)
(* batches are one, and the cycles that are pending lead the lazy          *)
(* generator to the eager one, whatever was written between them.          *)
(***************************************************************************)
EXTENDS ApuRun, WellFoundedInduction, TLAPS

-----------------------------------------------------------------------------
(* A set of natural numbers has a least one. *)
LEMMA LeastPlace ==
    ASSUME NEW S, S \subseteq Nat, S # {}
    PROVE  \E x \in S : \A y \in S : x <= y
<1>1. PICK low \in S : \A y \in S : <<y, low>> \notin OpToRel(<, Nat)
  BY NatLessThanWellFounded, WFMin
<1>2. \A y \in S : ~(y < low)
  BY <1>1 DEF OpToRel
<1>3. \A y \in S : low <= y
  <2> SUFFICES ASSUME NEW y \in S PROVE low <= y
    OBVIOUS
  <2>1. y \in Nat /\ low \in Nat /\ ~(y < low)
    BY <1>2
  <2> QED  BY <2>1
<1> QED  BY <1>3

-----------------------------------------------------------------------------
(* The while loops of GB_apu_run, of whichever generator *)

(* The equation of a loop's rounds, and its solutions up to one of them.   *)
Rounds(g, cycles, last, after) ==
    [n \in 0 .. last |-> IF n = 0 THEN <<g, cycles>> ELSE Round(after[n - 1])]

LEMMA LoopIsChosen ==
    \A g, cycles :
        Loop(g, cycles) = (CHOOSE after : after = Rounds(g, cycles, cycles, after))[cycles]
  BY DEF Loop, Rounds

LEMMA RoundsExist ==
    ASSUME NEW g, NEW cycles, NEW last \in Nat
    PROVE  \E after : after = Rounds(g, cycles, last, after)
<1> DEFINE Missing == {k \in Nat : ~\E after : after = Rounds(g, cycles, k, after)}
<1> SUFFICES ASSUME Missing # {} PROVE FALSE
  OBVIOUS
<1>1. PICK m \in Missing : \A y \in Missing : m <= y
  <2> Missing \subseteq Nat
    OBVIOUS
  <2> HIDE DEF Missing
  <2> QED  BY LeastPlace
<1>2. CASE m = 0
  <2> DEFINE first == [n \in 0 .. 0 |-> <<g, cycles>>]
  <2>1. first = Rounds(g, cycles, 0, first)
    <3>1. \A n \in 0 .. 0 : n = 0
      OBVIOUS
    <3> QED  BY <3>1 DEF Rounds
  <2> QED  BY <1>2, <2>1
<1>3. CASE m # 0
  <2>1. m \in Nat /\ m - 1 \in Nat /\ ~(m <= m - 1)
    BY <1>3
  <2>2. PICK f : f = Rounds(g, cycles, m - 1, f)
    BY <1>1, <2>1
  <2> DEFINE h == [n \in 0 .. m |-> IF n = 0 THEN <<g, cycles>> ELSE Round(f[n - 1])]
  <2>3. \A n \in 0 .. m - 1 : f[n] = IF n = 0 THEN <<g, cycles>> ELSE Round(f[n - 1])
    BY <2>2 DEF Rounds
  <2>4. \A n \in 0 .. m - 1 : h[n] = f[n]
    BY <2>1, <2>3
  <2>5. \A n \in 0 .. m : n # 0 => n - 1 \in 0 .. m - 1
    BY <2>1
  <2>6. h = Rounds(g, cycles, m, h)
    <3> DEFINE r == Rounds(g, cycles, m, h)
    <3>1. \A n \in 0 .. m : r[n] = IF n = 0 THEN <<g, cycles>> ELSE Round(h[n - 1])
      BY DEF Rounds
    <3>2. \A n \in 0 .. m : r[n] = h[n]
      BY <2>4, <2>5, <3>1
    <3>3. r = [n \in 0 .. m |-> r[n]]
      BY DEF Rounds
    <3> HIDE DEF r
    <3>4. h = [n \in 0 .. m |-> h[n]]
      OBVIOUS
    <3> HIDE DEF h
    <3> QED  BY <3>2, <3>3, <3>4 DEF r
  <2> QED  BY <2>1, <2>6
<1> QED  BY <1>2, <1>3

(* What the rounds of a loop are. *)
Unrolls(after, g, cycles) ==
    /\ after[0] = <<g, cycles>>
    /\ \A n \in 1 .. cycles : after[n] = Round(after[n - 1])
    /\ Loop(g, cycles) = after[cycles]

LEMMA LoopUnrolls ==
    ASSUME NEW g, NEW cycles \in Nat
    PROVE  \E after : Unrolls(after, g, cycles)
<1> DEFINE after == CHOOSE after : after = Rounds(g, cycles, cycles, after)
<1>1. after = Rounds(g, cycles, cycles, after)
  <2>1. \E f : f = Rounds(g, cycles, cycles, f)
    BY RoundsExist
  <2> QED  BY <2>1, Zenon
<1>2. Loop(g, cycles) = after[cycles]
  BY LoopIsChosen, Zenon
<1> HIDE DEF after
<1>3. \A n \in 0 .. cycles : after[n] = IF n = 0 THEN <<g, cycles>> ELSE Round(after[n - 1])
  BY <1>1 DEF Rounds
<1>4. \A n \in 1 .. cycles : n \in 0 .. cycles /\ n # 0
  OBVIOUS
<1>5. 0 \in 0 .. cycles
  OBVIOUS
<1> QED  BY <1>2, <1>3, <1>4, <1>5 DEF Unrolls

(* What else a cycle does to a generator, which its rounds do not see.     *)
Shifted(g) ==
    CASE run_kind = "square" -> SquareTimed(g)
      [] run_kind = "wave" -> g
      [] run_kind = "noise" -> Timed(g, 1)

LEMMA RoundIs ==
    \A g, left : Round(<<g, left>>) =
        IF left >= Takes(g) THEN <<Expired(g), left - Takes(g)>> ELSE <<g, left>>
  BY DEF Round

(* States that the rounds do not leave, and whose rounds do not see it.    *)
RoundsClosed(S) ==
    \A h \in S : /\ Expired(h) \in S /\ Shifted(h) \in S
                /\ Takes(h) \in Nat /\ Takes(h) > 0 /\ Takes(Shifted(h)) = Takes(h)
                /\ Expired(Shifted(h)) = Shifted(Expired(h))

(* A batch that is a cycle longer goes through the same rounds, with a     *)
(* cycle more left, and through one more where that cycle completes it.    *)
OneLonger(g, c, h, left) ==
    /\ Loop(g, c) = <<h, left>>
    /\ left < Takes(h)
    /\ left + 1 = Takes(h) => Loop(Shifted(g), c + 1) = <<Shifted(Expired(h)), 0>>
    /\ left + 1 # Takes(h) => Loop(Shifted(g), c + 1) = <<Shifted(h), left + 1>>

LEMMA LoopOneLonger ==
    ASSUME NEW S, RoundsClosed(S), NEW g \in S, NEW c \in Nat
    PROVE  \E h \in S, left \in Nat : OneLonger(g, c, h, left)
<1>0. \A h \in S : /\ Expired(h) \in S /\ Shifted(h) \in S
                  /\ Takes(h) \in Nat /\ Takes(h) > 0 /\ Takes(Shifted(h)) = Takes(h)
                  /\ Expired(Shifted(h)) = Shifted(Expired(h))
  BY DEF RoundsClosed
<1>1. PICK a : Unrolls(a, g, c)
  BY LoopUnrolls
<1>2. PICK b : Unrolls(b, Shifted(g), c + 1)
  <2>1. c + 1 \in Nat
    OBVIOUS
  <2> DEFINE f == Shifted(g)
  <2> HIDE DEF f
  <2>2. \E b : Unrolls(b, f, c + 1)
    BY <2>1, LoopUnrolls
  <2> QED  BY <2>2 DEF f
<1> DEFINE Behind(n, h, left) ==
               /\ a[n] = <<h, left>>
               /\ left <= c - n \/ left < Takes(h)
               /\ \/ b[n] = <<Shifted(h), left + 1>>
                  \/ left + 1 = Takes(h) /\ b[n] = <<Shifted(Expired(h)), 0>>
           Related(n) == \E h \in S, left \in Nat : Behind(n, h, left)
<1>3. Related(0)
  <2>1. Behind(0, g, c)
    BY <1>1, <1>2 DEF Unrolls
  <2> QED  BY <2>1
<1>4. ASSUME NEW n \in Nat, n < c, Related(n) PROVE Related(n + 1)
  <2>1. PICK h \in S, left \in Nat : Behind(n, h, left)
    BY <1>4
  <2>2. a[n + 1] = Round(a[n]) /\ b[n + 1] = Round(b[n])
    <3>1. n + 1 \in 1 .. c /\ n + 1 \in 1 .. c + 1 /\ (n + 1) - 1 = n
      BY <1>4
    <3> QED  BY <1>1, <1>2, <3>1 DEF Unrolls
  <2> DEFINE t == Takes(h)
             e == Expired(h)
             u == Takes(Shifted(e))
  <2>3. /\ t \in Nat /\ t > 0 /\ e \in S /\ Takes(Shifted(h)) = t
        /\ Expired(Shifted(h)) = Shifted(e) /\ Shifted(h) \in S /\ u \in Nat /\ u > 0
    BY <1>0
  <2>4. a[n + 1] = IF left >= t THEN <<e, left - t>> ELSE <<h, left>>
    BY <2>1, <2>2, RoundIs
  <2>5. CASE b[n] = <<Shifted(h), left + 1>>
    <3>1. b[n + 1] = IF left + 1 >= t THEN <<Shifted(e), (left + 1) - t>>
                     ELSE <<Shifted(h), left + 1>>
      BY <2>2, <2>3, <2>5, RoundIs
    <3>2. CASE left >= t
      <4>1. Behind(n + 1, e, left - t)
        <5> HIDE DEF t, e, u
        <5>1. left - t \in Nat /\ (left + 1) - t = (left - t) + 1 /\ left + 1 >= t
          BY <2>3, <3>2
        <5>2. left - t <= c - (n + 1)
          BY <1>4, <2>1, <2>3, <3>2 DEF t
        <5> QED  BY <2>4, <3>1, <3>2, <5>1, <5>2
      <4>2. left - t \in Nat
        BY <2>3, <3>2
      <4> QED  BY <2>3, <4>1, <4>2
    <3>3. CASE left + 1 = t
      <4>1. Behind(n + 1, h, left)
        <5> HIDE DEF e, u
        <5>1. ~(left >= t) /\ left + 1 >= t /\ (left + 1) - t = 0 /\ left < t
          BY <2>3, <3>3
        <5> QED  BY <2>4, <3>1, <3>3, <5>1 DEF e
      <4> QED  BY <4>1
    <3>4. CASE left + 1 < t
      <4>1. Behind(n + 1, h, left)
        <5> HIDE DEF e, u
        <5>1. ~(left >= t) /\ ~(left + 1 >= t) /\ left < t
          BY <2>3, <3>4
        <5> QED  BY <2>4, <3>1, <3>4, <5>1
      <4> QED  BY <4>1
    <3> HIDE DEF t
    <3> QED  BY <2>3, <3>2, <3>3, <3>4
  <2>6. CASE left + 1 = t /\ b[n] = <<Shifted(e), 0>>
    <3>1. b[n + 1] = <<Shifted(e), 0>>
      <4>1. ~(0 >= u)
        BY <2>3
      <4> HIDE DEF u
      <4> QED  BY <2>2, <2>6, <4>1, RoundIs DEF u
    <3>2. ~(left >= t) /\ left < t
      BY <2>3, <2>6
    <3>3. Behind(n + 1, h, left)
      BY <2>4, <2>6, <3>1, <3>2
    <3> QED  BY <3>3
  <2> QED  BY <2>1, <2>5, <2>6
<1> DEFINE Others == {n \in 0 .. c : ~Related(n)}
<1>5. Others = {}
  <2> SUFFICES ASSUME Others # {} PROVE FALSE
    OBVIOUS
  <2>1. PICK m \in Others : \A y \in Others : m <= y
    <3>1. Others \subseteq Nat
      OBVIOUS
    <3> HIDE DEF Others
    <3> QED  BY <3>1, LeastPlace
  <2> HIDE DEF Related
  <2>2. m # 0
    BY <1>3
  <2> DEFINE k == m - 1
  <2>3. k \in Nat /\ k < c /\ k + 1 = m /\ ~(m <= k) /\ k \in 0 .. c
    BY <2>2
  <2> HIDE DEF k
  <2>4. Related(k)
    BY <2>1, <2>3
  <2>5. Related(m)
    BY <1>4, <2>3, <2>4
  <2> QED  BY <2>5
<1>6. Related(c)
  <2> HIDE DEF Related
  <2> QED  BY <1>5
<1>7. PICK h \in S, left \in Nat : Behind(c, h, left)
  BY <1>6
<1> DEFINE t == Takes(h)
           e == Expired(h)
           u == Takes(Shifted(e))
<1>8. /\ t \in Nat /\ t > 0 /\ e \in S /\ Takes(Shifted(h)) = t
      /\ Expired(Shifted(h)) = Shifted(e) /\ u \in Nat /\ u > 0
  BY <1>0
<1>9. left < t
  <2> HIDE DEF e, u
  <2>1. left <= c - c \/ left < t
    BY <1>7
  <2> HIDE DEF t
  <2> QED  BY <1>8, <2>1
<1>10. b[c + 1] = Round(b[c])
  <2>1. c + 1 \in 1 .. c + 1 /\ (c + 1) - 1 = c
    OBVIOUS
  <2> QED  BY <1>2, <2>1 DEF Unrolls
<1>11. left + 1 = t => b[c + 1] = <<Shifted(e), 0>>
  <2> SUFFICES ASSUME left + 1 = t PROVE b[c + 1] = <<Shifted(e), 0>>
    OBVIOUS
  <2>1. CASE b[c] = <<Shifted(h), left + 1>>
    <3>0. left + 1 >= t
      BY <1>8
    <3>1. Round(<<Shifted(h), left + 1>>) = <<Shifted(e), (left + 1) - t>>
      <4>1. Round(<<Shifted(h), left + 1>>)
                = IF left + 1 >= t THEN <<Shifted(e), (left + 1) - t>>
                  ELSE <<Shifted(h), left + 1>>
        BY <1>8, RoundIs, Zenon
      <4> QED  BY <3>0, <4>1, Zenon
    <3>2. (left + 1) - t = 0
      BY <1>8
    <3> QED  BY <1>10, <2>1, <3>1, <3>2
  <2>2. CASE b[c] = <<Shifted(e), 0>>
    <3>1. ~(0 >= u)
      BY <1>8
    <3> HIDE DEF u
    <3> QED  BY <1>10, <2>2, <3>1, RoundIs DEF u
  <2> QED  BY <1>7, <2>1, <2>2
<1>12. left + 1 # t => b[c + 1] = <<Shifted(h), left + 1>>
  <2> SUFFICES ASSUME left + 1 # t PROVE b[c + 1] = <<Shifted(h), left + 1>>
    OBVIOUS
  <2>1. b[c] = <<Shifted(h), left + 1>>
    BY <1>7
  <2>2. ~(left + 1 >= t)
    BY <1>8, <1>9
  <2>3. Round(<<Shifted(h), left + 1>>) = <<Shifted(h), left + 1>>
    BY <1>8, <2>2, RoundIs
  <2> QED  BY <1>10, <2>1, <2>3
<1>13. Loop(g, c) = <<h, left>>
  BY <1>1, <1>7 DEF Unrolls
<1>14. Loop(Shifted(g), c + 1) = b[c + 1]
  BY <1>2 DEF Unrolls
<1>15. OneLonger(g, c, h, left)
  BY <1>9, <1>11, <1>12, <1>13, <1>14 DEF OneLonger
<1> QED  BY <1>15

-----------------------------------------------------------------------------
(***************************************************************************)
(* The square channels.                                                    *)
(*                                                                         *)
(* Their states, and those of the other channels, are changed one field    *)
(* at a time, which keeps a type and commutes with the change of another.  *)
(***************************************************************************)
Put(g, field, value) == [g EXCEPT ![field] = value]

Lengths == 0 .. 2047

Squares ==
    [on : BOOLEAN, length : Lengths, countdown : Nat, index : Nat, delay : Nat,
     surpressed : BOOLEAN, did_tick : BOOLEAN, just_reloaded : BOOLEAN, lf_div : 0 .. 1]

SquaresOn == {g \in Squares : g.on}

LEMMA OtherField ==
    ASSUME NEW g, NEW field, NEW other, field # other, NEW value
    PROVE  Put(g, field, value)[other] = g[other]
  BY DEF Put

LEMMA SquarePutNat ==
    \A g \in Squares : \A f \in {"countdown", "index", "delay"} : \A v \in Nat :
        Put(g, f, v) \in Squares
  BY DEF Squares, Put

LEMMA SquarePutFlag ==
    \A g \in Squares : \A f \in {"on", "surpressed", "did_tick", "just_reloaded"} :
        \A v \in BOOLEAN : Put(g, f, v) \in Squares
  BY DEF Squares, Put

LEMMA SquarePutLength == \A g \in Squares : \A v \in Lengths : Put(g, "length", v) \in Squares
  BY DEF Squares, Put

LEMMA SquarePutDiv == \A g \in Squares : \A v \in 0 .. 1 : Put(g, "lf_div", v) \in Squares
  BY DEF Squares, Put

LEMMA SquareReads ==
    ASSUME NEW g \in Squares, NEW v
    PROVE  /\ Put(g, "countdown", v).countdown = v
           /\ Put(g, "lf_div", v).lf_div = v
           /\ Put(g, "length", v).length = v
           /\ Put(g, "on", v).on = v
           /\ Put(g, "delay", v).delay = v
  BY DEF Squares, Put

LEMMA SquareTypes ==
    ASSUME NEW g \in Squares
    PROVE  /\ g.length \in Lengths /\ g.countdown \in Nat /\ g.index \in Nat
           /\ g.delay \in Nat /\ g.lf_div \in 0 .. 1
           /\ SquareReload(g) \in Nat
<1>1. /\ g.length \in Lengths /\ g.countdown \in Nat /\ g.index \in Nat
      /\ g.delay \in Nat /\ g.lf_div \in 0 .. 1
  BY DEF Squares
<1>2. SquareReload(g) \in Nat
  <2> DEFINE n == g.length
  <2>1. n \in 0 .. 2047
    BY <1>1 DEF Lengths
  <2> HIDE DEF n
  <2>2. 2 * (2047 - n) + 1 \in Nat
    BY <2>1
  <2> QED  BY <2>2 DEF SquareReload, Period, n
<1> QED  BY <1>1, <1>2

LEMMA SquareFlags ==
    ASSUME NEW g \in Squares
    PROVE  /\ g.on \in BOOLEAN /\ g.surpressed \in BOOLEAN /\ g.did_tick \in BOOLEAN
           /\ g.just_reloaded \in BOOLEAN
  BY DEF Squares

LEMMA SquareExpiredPuts ==
    \A g : SquareExpired(g) =
        Put(Put(Put(Put(g, "countdown", SquareReload(g)), "index", (g.index + 1) % 8),
                "surpressed", FALSE), "did_tick", TRUE)
  BY DEF Put, SquareExpired

LEMMA SquareTimedPuts ==
    \A g : SquareTimed(g) =
        Put(Put(g, "lf_div", 1 - g.lf_div),
            "delay", IF g.on /\ g.delay > 0 THEN g.delay - 1 ELSE g.delay)
  BY DEF Put, SquareTimed

LEMMA SquareExpiredTyped ==
    ASSUME NEW g \in Squares
    PROVE  SquareExpired(g) \in Squares /\ SquareExpired(g).on = g.on
<1> DEFINE r == SquareReload(g)
           i == (g.index + 1) % 8
           no == FALSE
           yes == TRUE
           a == Put(g, "countdown", r)
           b == Put(a, "index", i)
           c == Put(b, "surpressed", no)
           d == Put(c, "did_tick", yes)
<1>1. r \in Nat /\ i \in Nat
  BY SquareTypes
<1>2. SquareExpired(g) = d
  BY SquareExpiredPuts
<1>3. no \in BOOLEAN /\ yes \in BOOLEAN
  OBVIOUS
<1> HIDE DEF r, i, no, yes
<1>4. d.on = g.on
  BY OtherField
<1>5. a \in Squares
  BY <1>1, SquarePutNat
<1> HIDE DEF a
<1>6. b \in Squares
  BY <1>1, <1>5, SquarePutNat
<1> HIDE DEF b
<1>7. c \in Squares
  BY <1>3, <1>6, SquarePutFlag
<1> HIDE DEF c
<1>8. d \in Squares
  BY <1>3, <1>7, SquarePutFlag
<1> QED  BY <1>2, <1>4, <1>8

LEMMA SquareTimedTyped ==
    ASSUME NEW g \in Squares
    PROVE  /\ SquareTimed(g) \in Squares
           /\ SquareTimed(g).on = g.on /\ SquareTimed(g).countdown = g.countdown
<1> DEFINE l == 1 - g.lf_div
           y == IF g.on /\ g.delay > 0 THEN g.delay - 1 ELSE g.delay
<1>1. l \in 0 .. 1 /\ y \in Nat
  BY SquareTypes
<1>2. SquareTimed(g) = Put(Put(g, "lf_div", l), "delay", y)
  BY SquareTimedPuts
<1> HIDE DEF l, y
<1>3. SquareTimed(g) \in Squares
  <2> DEFINE a == Put(g, "lf_div", l)
  <2>1. a \in Squares
    BY <1>1, SquarePutDiv
  <2>2. SquareTimed(g) = Put(a, "delay", y)
    BY <1>2
  <2> HIDE DEF a
  <2> QED  BY <1>1, <2>1, <2>2, SquarePutNat
<1>4. SquareTimed(g).on = g.on /\ SquareTimed(g).countdown = g.countdown
  BY <1>2, OtherField
<1> QED  BY <1>3, <1>4

LEMMA SquareCommutes ==
    ASSUME NEW g \in Squares
    PROVE  SquareExpired(SquareTimed(g)) = SquareTimed(SquareExpired(g))
<1> DEFINE r == SquareReload(g)
           i == (g.index + 1) % 8
           l == 1 - g.lf_div
           y == IF g.on /\ g.delay > 0 THEN g.delay - 1 ELSE g.delay
           t == Put(Put(g, "lf_div", l), "delay", y)
           e == Put(Put(Put(Put(g, "countdown", r), "index", i), "surpressed", FALSE),
                    "did_tick", TRUE)
<1>1. SquareTimed(g) = t /\ SquareExpired(g) = e
  BY SquareTimedPuts, SquareExpiredPuts
<1>2. SquareReload(t) = r /\ (t.index + 1) % 8 = i
  <2>1. t.length = g.length /\ t.index = g.index
    <3> HIDE DEF l, y
    <3> QED  BY OtherField
  <2> HIDE DEF t
  <2> QED  BY <2>1 DEF SquareReload
<1>3. 1 - e.lf_div = l /\ (IF e.on /\ e.delay > 0 THEN e.delay - 1 ELSE e.delay) = y
  <2>1. e.lf_div = g.lf_div /\ e.on = g.on /\ e.delay = g.delay
    <3> DEFINE no == FALSE
               yes == TRUE
    <3>1. e = Put(Put(Put(Put(g, "countdown", r), "index", i), "surpressed", no), "did_tick", yes)
      OBVIOUS
    <3> HIDE DEF e, r, i, no, yes
    <3> QED  BY <3>1, OtherField
  <2> HIDE DEF e
  <2> QED  BY <2>1
<1>4. SquareExpired(t) = Put(Put(Put(Put(t, "countdown", r), "index", i), "surpressed", FALSE),
                             "did_tick", TRUE)
  <2> HIDE DEF t, r, i
  <2> QED  BY <1>2, SquareExpiredPuts
<1>5. SquareTimed(e) = Put(Put(e, "lf_div", l), "delay", y)
  <2> HIDE DEF e, l, y
  <2> QED  BY <1>3, SquareTimedPuts
<1>6. SquareExpired(t) = SquareTimed(e)
  <2> HIDE DEF l, y, r, i
  <2> QED  BY <1>4, <1>5 DEF Put
<1> HIDE DEF t, e
<1> QED  BY <1>1, <1>6

LEMMA SquareClosed ==
    ASSUME run_kind = "square", NEW h \in SquaresOn
    PROVE  /\ Expired(h) \in SquaresOn /\ Shifted(h) \in SquaresOn
           /\ Takes(h) \in Nat /\ Takes(h) > 0 /\ Takes(Shifted(h)) = Takes(h)
           /\ Expired(Shifted(h)) = Shifted(Expired(h))
<1>1. h \in Squares /\ h.on
  BY DEF SquaresOn
<1>2. \A x : Expired(x) = SquareExpired(x) /\ Shifted(x) = SquareTimed(x)
             /\ Takes(x) = x.countdown + 1
  BY DEF Expired, Shifted, Takes
<1>3. Expired(h) \in SquaresOn
  BY <1>1, <1>2, SquareExpiredTyped DEF SquaresOn
<1>4. Shifted(h) \in SquaresOn
  BY <1>1, <1>2, SquareTimedTyped DEF SquaresOn
<1>5. Takes(h) \in Nat /\ Takes(h) > 0 /\ Takes(Shifted(h)) = Takes(h)
  BY <1>1, <1>2, SquareTimedTyped, SquareTypes
<1> QED  BY <1>1, <1>2, <1>3, <1>4, <1>5, SquareCommutes

(* A batch of no cycles has no rounds. *)
LEMMA LoopNothing == \A g : Loop(g, 0) = <<g, 0>>
<1> TAKE g
<1>1. PICK a : Unrolls(a, g, 0)
  <2>1. 0 \in Nat
    OBVIOUS
  <2> QED  BY <2>1, LoopUnrolls
<1> QED  BY <1>1 DEF Unrolls

(* A batch of a square channel, as far as its rounds and after them.       *)
SquareBegun(g, c) ==
    Put(Put(g, "lf_div", (g.lf_div + c) % 2),
        "delay", IF g.delay < c THEN 0 ELSE g.delay - c)
SquareEnded(h, left) ==
    Put(Put(h, "countdown", h.countdown - left), "just_reloaded", left = 0)

LEMMA RunSquareIs ==
    ASSUME NEW g \in Squares, NEW c
    PROVE  /\ ~g.on => RunSquare(g, c) = Put(g, "lf_div", (g.lf_div + c) % 2)
           /\ g.on => RunSquare(g, c) = SquareEnded(Loop(SquareBegun(g, c), c)[1],
                                                    Loop(SquareBegun(g, c), c)[2])
<1> DEFINE l == (g.lf_div + c) % 2
           timed == [g EXCEPT !.lf_div = l]
<1>1. timed = Put(g, "lf_div", l) /\ timed.delay = g.delay
  <2> HIDE DEF l
  <2> QED  BY DEF Put
<1>2. [timed EXCEPT !.delay = IF timed.delay < c THEN 0 ELSE timed.delay - c] = SquareBegun(g, c)
  <2>1. SquareBegun(g, c) = Put(timed, "delay", IF g.delay < c THEN 0 ELSE g.delay - c)
    BY <1>1 DEF SquareBegun
  <2> HIDE DEF timed
  <2> QED  BY <1>1, <2>1 DEF Put
<1> DEFINE end == Loop(SquareBegun(g, c), c)
<1>3. RunSquare(g, c) =
          IF ~g.on THEN timed
          ELSE [end[1] EXCEPT !.countdown = @ - end[2], !.just_reloaded = end[2] = 0]
  <2> DEFINE begun == [timed EXCEPT !.delay = IF timed.delay < c THEN 0 ELSE timed.delay - c]
  <2>1. RunSquare(g, c) =
          IF ~g.on THEN timed
          ELSE [Loop(begun, c)[1] EXCEPT !.countdown = @ - Loop(begun, c)[2],
                                         !.just_reloaded = Loop(begun, c)[2] = 0]
    BY DEF RunSquare
  <2>2. begun = SquareBegun(g, c)
    BY <1>2
  <2> HIDE DEF begun, timed
  <2> QED  BY <2>1, <2>2
<1>4. [end[1] EXCEPT !.countdown = @ - end[2], !.just_reloaded = end[2] = 0]
          = SquareEnded(end[1], end[2])
  <2> DEFINE h == end[1]
             z == end[2] = 0
             d == h.countdown - end[2]
  <2>1. [h EXCEPT !.countdown = d, !.just_reloaded = z]
          = Put(Put(h, "countdown", d), "just_reloaded", z)
    <3> HIDE DEF h, z, d
    <3> QED  BY DEF Put
  <2> QED  BY <2>1 DEF SquareEnded
<1> QED  BY <1>1, <1>3, <1>4

LEMMA SquareBegins ==
    ASSUME NEW g \in SquaresOn, NEW c \in Nat
    PROVE  /\ SquareBegun(g, c) \in SquaresOn
           /\ SquareBegun(g, c + 1) = SquareTimed(SquareBegun(g, c))
<1> DEFINE l == (g.lf_div + c) % 2
           y == IF g.delay < c THEN 0 ELSE g.delay - c
           a == Put(g, "lf_div", l)
           b == Put(a, "delay", y)
<1>1. g \in Squares /\ g.on /\ g.lf_div \in 0 .. 1 /\ g.delay \in Nat
  BY SquareTypes DEF SquaresOn
<1>2. l \in 0 .. 1 /\ y \in Nat
  BY <1>1
<1>3. a \in Squares
  <2> HIDE DEF l
  <2> QED  BY <1>1, <1>2, SquarePutDiv
<1>4. b \in Squares
  <2> HIDE DEF y, a
  <2> QED  BY <1>2, <1>3, SquarePutNat
<1>5. b.on = g.on /\ b.lf_div = l /\ b.delay = y
  <2>1. b.on = g.on
    <3> HIDE DEF l, y
    <3> QED  BY OtherField
  <2>2. b.lf_div = l
    <3>1. a.lf_div = l
      <4> HIDE DEF l
      <4> QED  BY <1>1, SquareReads
    <3> HIDE DEF y, a
    <3> QED  BY <3>1, OtherField
  <2>3. b.delay = y
    <3> HIDE DEF y, a
    <3> QED  BY <1>3, SquareReads
  <2> QED  BY <2>1, <2>2, <2>3
<1>6. SquareBegun(g, c) = b
  BY DEF SquareBegun
<1>7. SquareTimed(b) = SquareBegun(g, c + 1)
  <2> DEFINE m == (g.lf_div + (c + 1)) % 2
             z == IF g.delay < c + 1 THEN 0 ELSE g.delay - (c + 1)
  <2>1. 1 - l = m
    BY <1>1
  <2>2. (IF b.on /\ b.delay > 0 THEN b.delay - 1 ELSE b.delay) = z
    <3>1. (IF y > 0 THEN y - 1 ELSE y) = z
      BY <1>1
    <3> HIDE DEF b, y, z
    <3> QED  BY <1>1, <1>5, <3>1
  <2>3. SquareTimed(b) = Put(Put(b, "lf_div", m), "delay", z)
    <3> HIDE DEF b, l, z, m
    <3> QED  BY <1>5, <2>1, <2>2, SquareTimedPuts
  <2>4. SquareBegun(g, c + 1) = Put(Put(g, "lf_div", m), "delay", z)
    BY DEF SquareBegun
  <2>5. Put(Put(b, "lf_div", m), "delay", z) = Put(Put(g, "lf_div", m), "delay", z)
    <3> HIDE DEF l, y, m, z
    <3> QED  BY DEF Put
  <2> HIDE DEF b, m, z
  <2> QED  BY <2>3, <2>4, <2>5
<1> HIDE DEF b
<1> QED  BY <1>1, <1>4, <1>5, <1>6, <1>7 DEF SquaresOn

LEMMA SquareBeginsAt ==
    ASSUME NEW g \in Squares
    PROVE  SquareBegun(g, 0) = g
<1> DEFINE l == (g.lf_div + 0) % 2
           y == IF g.delay < 0 THEN 0 ELSE g.delay - 0
<1>1. l = g.lf_div /\ y = g.delay
  BY SquareTypes
<1>2. SquareBegun(g, 0) = Put(Put(g, "lf_div", l), "delay", y)
  BY DEF SquareBegun
<1>3. Put(Put(g, "lf_div", g.lf_div), "delay", g.delay) = g
  BY DEF Put, Squares
<1> HIDE DEF l, y
<1> QED  BY <1>1, <1>2, <1>3

LEMMA SquareEnds ==
    ASSUME NEW h \in Squares, NEW left \in Nat, left <= h.countdown
    PROVE  /\ SquareEnded(h, left) \in Squares
           /\ SquareEnded(h, left).on = h.on
           /\ SquareEnded(h, left).countdown = h.countdown - left
<1> DEFINE d == h.countdown - left
           z == left = 0
           a == Put(h, "countdown", d)
<1>1. d \in Nat
  BY SquareTypes
<1>2. z \in BOOLEAN
  OBVIOUS
<1>3. SquareEnded(h, left) = Put(a, "just_reloaded", z)
  BY DEF SquareEnded
<1> HIDE DEF d, z
<1>4. a \in Squares /\ a.countdown = d /\ a.on = h.on
  BY <1>1, SquarePutNat, SquareReads, OtherField
<1> HIDE DEF a
<1>5. SquareEnded(h, left) \in Squares
  BY <1>2, <1>3, <1>4, SquarePutFlag
<1>6. SquareEnded(h, left).on = h.on /\ SquareEnded(h, left).countdown = d
  BY <1>3, <1>4, OtherField
<1> QED  BY <1>5, <1>6 DEF d

LEMMA SquareOff ==
    ASSUME NEW g \in Squares, ~g.on, NEW c \in Nat
    PROVE  /\ RunSquare(g, c) \in Squares /\ ~RunSquare(g, c).on
           /\ RunSquare(g, c + 1) = ClockSquare(RunSquare(g, c))
<1> DEFINE l == (g.lf_div + c) % 2
           m == (g.lf_div + (c + 1)) % 2
           x == Put(g, "lf_div", l)
<1>1. l \in 0 .. 1 /\ m = 1 - l
  BY SquareTypes
<1>2. RunSquare(g, c) = x /\ RunSquare(g, c + 1) = Put(g, "lf_div", m)
  BY RunSquareIs
<1> HIDE DEF l, m
<1>3. x \in Squares /\ x.on = g.on /\ x.lf_div = l /\ x.delay = g.delay
  BY <1>1, SquarePutDiv, SquareReads, OtherField
<1>4. ClockSquare(x) = Put(Put(x, "lf_div", m), "delay", g.delay)
  <2> HIDE DEF x
  <2>1. ClockSquare(x) = SquareTimed(x)
    BY <1>3 DEF ClockSquare
  <2>2. SquareTimed(x) = Put(Put(x, "lf_div", 1 - x.lf_div), "delay", x.delay)
    <3>1. SquareTimed(x) = Put(Put(x, "lf_div", 1 - x.lf_div),
                               "delay", IF x.on /\ x.delay > 0 THEN x.delay - 1 ELSE x.delay)
      BY SquareTimedPuts
    <3>2. (IF x.on /\ x.delay > 0 THEN x.delay - 1 ELSE x.delay) = x.delay
      BY <1>3
    <3> QED  BY <3>1, <3>2
  <2> QED  BY <1>1, <1>3, <2>1, <2>2
<1>5. Put(Put(x, "lf_div", m), "delay", g.delay) = Put(g, "lf_div", m)
  BY DEF Put, Squares
<1> HIDE DEF x
<1> QED  BY <1>2, <1>3, <1>4, <1>5

(* Its last round, and one cycle more. *)
LEMMA SquareEndsRunning ==
    ASSUME NEW h \in Squares, h.on, NEW left \in Nat, left < h.countdown
    PROVE  ClockSquare(SquareEnded(h, left)) = SquareEnded(SquareTimed(h), left + 1)
<1> DEFINE d == h.countdown - left
           z == left = 0
           x == SquareEnded(h, left)
           l == 1 - h.lf_div
           y == IF h.on /\ h.delay > 0 THEN h.delay - 1 ELSE h.delay
           no == FALSE
<1>1. h.countdown \in Nat
  BY SquareTypes
<1>2. x.on = h.on /\ x.countdown = d /\ x.countdown # 0 /\ x \in Squares
  <2>1. left <= h.countdown /\ d # 0
    BY <1>1
  <2> HIDE DEF x
  <2> QED  BY <2>1, SquareEnds DEF x
<1>3. x = Put(Put(h, "countdown", d), "just_reloaded", z)
  BY DEF SquareEnded
<1>4. x.lf_div = h.lf_div /\ x.delay = h.delay
  <2> HIDE DEF d, z, x
  <2> QED  BY <1>3, OtherField
<1>5. SquareTimed(x) = Put(Put(x, "lf_div", l), "delay", y)
  <2> HIDE DEF x
  <2> QED  BY <1>2, <1>4, SquareTimedPuts
<1>6. SquareTimed(x).countdown = d
  <2> HIDE DEF x
  <2> QED  BY <1>2, SquareTimedTyped
<1>7. ClockSquare(x) = Put(Put(SquareTimed(x), "countdown", d - 1), "just_reloaded", no)
  <2> DEFINE t == SquareTimed(x)
             e == d - 1
  <2>1. ClockSquare(x) = [t EXCEPT !.countdown = @ - 1, !.just_reloaded = FALSE]
    <3> HIDE DEF x
    <3> QED  BY <1>2 DEF ClockSquare
  <2> HIDE DEF t
  <2>2. ClockSquare(x) = [t EXCEPT !.countdown = e, !.just_reloaded = no]
    BY <1>6, <2>1 DEF t
  <2> HIDE DEF e, no, x
  <2>3. [t EXCEPT !.countdown = e, !.just_reloaded = no]
          = Put(Put(t, "countdown", e), "just_reloaded", no)
    BY DEF Put
  <2> QED  BY <2>2, <2>3 DEF t, e
<1>8. SquareEnded(SquareTimed(h), left + 1)
          = Put(Put(SquareTimed(h), "countdown", d - 1), "just_reloaded", no)
  <2>1. SquareTimed(h).countdown = h.countdown
    BY SquareTimedTyped
  <2>2. h.countdown - (left + 1) = d - 1 /\ (left + 1 = 0) = no
    BY <1>1
  <2> HIDE DEF d, no
  <2> QED  BY <2>1, <2>2 DEF SquareEnded
<1>9. SquareTimed(h) = Put(Put(h, "lf_div", l), "delay", y)
  BY SquareTimedPuts
<1>10. Put(Put(Put(Put(x, "lf_div", l), "delay", y), "countdown", d - 1), "just_reloaded", no)
           = Put(Put(Put(Put(h, "lf_div", l), "delay", y), "countdown", d - 1), "just_reloaded", no)
  <2> DEFINE e == d - 1
  <2> HIDE DEF d, z, l, y, no, x, e
  <2>1. Put(Put(Put(Put(Put(Put(h, "countdown", d), "just_reloaded", z), "lf_div", l), "delay",
             y), "countdown", e), "just_reloaded", no)
           = Put(Put(Put(Put(h, "lf_div", l), "delay", y), "countdown", e), "just_reloaded", no)
    BY DEF Put
  <2> QED  BY <1>3, <2>1 DEF e
<1> HIDE DEF x, d, l, y, no
<1> QED  BY <1>5, <1>7, <1>8, <1>9, <1>10 DEF x

LEMMA SquareEndsExpiring ==
    ASSUME NEW h \in Squares, h.on
    PROVE  ClockSquare(SquareEnded(h, h.countdown)) = SquareEnded(SquareTimed(SquareExpired(h)), 0)
<1> DEFINE d == h.countdown - h.countdown
           z == h.countdown = 0
           x == SquareEnded(h, h.countdown)
           t == SquareTimed(x)
           yes == TRUE
<1>1. h.countdown \in Nat /\ h.countdown <= h.countdown /\ d = 0
  BY SquareTypes
<1>2. x.on = h.on /\ x.countdown = 0 /\ x \in Squares
  <2> HIDE DEF x
  <2> QED  BY <1>1, SquareEnds DEF x
<1>3. ClockSquare(x) = Put(SquareExpired(t), "just_reloaded", yes)
  <2> HIDE DEF x
  <2>1. ClockSquare(x) = [SquareExpired(t) EXCEPT !.just_reloaded = TRUE]
    BY <1>2 DEF ClockSquare
  <2> QED  BY <2>1 DEF Put
<1>4. SquareExpired(t) = SquareTimed(SquareExpired(x))
  <2> HIDE DEF x
  <2> QED  BY <1>2, SquareCommutes
<1>5. SquareExpired(x) = Put(SquareExpired(h), "just_reloaded", z)
  <2> DEFINE r == SquareReload(h)
             i == (h.index + 1) % 8
             no == FALSE
  <2>1. x = Put(Put(h, "countdown", d), "just_reloaded", z)
    BY DEF SquareEnded
  <2>2. x.length = h.length /\ x.index = h.index
    <3> HIDE DEF d, z, x
    <3> QED  BY <2>1, OtherField
  <2>3. SquareReload(x) = r /\ (x.index + 1) % 8 = i
    <3> HIDE DEF x
    <3> QED  BY <2>2 DEF SquareReload
  <2>4. SquareExpired(x)
          = Put(Put(Put(Put(x, "countdown", r), "index", i), "surpressed", no), "did_tick", yes)
    <3> HIDE DEF x, r, i
    <3> QED  BY <2>3, SquareExpiredPuts
  <2>5. SquareExpired(h)
          = Put(Put(Put(Put(h, "countdown", r), "index", i), "surpressed", no), "did_tick", yes)
    BY SquareExpiredPuts
  <2>6. Put(Put(Put(Put(Put(Put(h, "countdown", d), "just_reloaded", z), "countdown", r),
             "index", i), "surpressed", no), "did_tick", yes)
          = Put(Put(Put(Put(Put(h, "countdown", r), "index", i), "surpressed", no), "did_tick",
                     yes), "just_reloaded", z)
    <3> HIDE DEF d, z, r, i, no, yes
    <3> QED  BY DEF Put
  <2> HIDE DEF d, z, r, i, no, yes, x
  <2> QED  BY <2>1, <2>4, <2>5, <2>6
<1>6. SquareTimed(Put(SquareExpired(h), "just_reloaded", z))
        = Put(SquareTimed(SquareExpired(h)), "just_reloaded", z)
  <2> DEFINE e == SquareExpired(h)
             f == Put(e, "just_reloaded", z)
             l == 1 - e.lf_div
             y == IF e.on /\ e.delay > 0 THEN e.delay - 1 ELSE e.delay
  <2> HIDE DEF e, z
  <2>1. f.on = e.on /\ f.lf_div = e.lf_div /\ f.delay = e.delay
    BY OtherField
  <2>2. SquareTimed(f) = Put(Put(f, "lf_div", l), "delay", y)
    <3> HIDE DEF f
    <3> QED  BY <2>1, SquareTimedPuts
  <2>3. SquareTimed(e) = Put(Put(e, "lf_div", l), "delay", y)
    BY SquareTimedPuts
  <2>4. Put(Put(Put(e, "just_reloaded", z), "lf_div", l), "delay", y)
           = Put(Put(Put(e, "lf_div", l), "delay", y), "just_reloaded", z)
    <3> HIDE DEF l, y
    <3> QED  BY DEF Put
  <2> HIDE DEF l, y
  <2> QED  BY <2>2, <2>3, <2>4 DEF e
<1> DEFINE q == SquareTimed(SquareExpired(h))
<1>7. q \in Squares /\ q.countdown \in Nat
  BY SquareExpiredTyped, SquareTimedTyped, SquareTypes
<1>8. SquareEnded(q, 0) = Put(q, "just_reloaded", yes)
  <2> HIDE DEF q
  <2>1. q.countdown - 0 = q.countdown /\ (0 = 0) = yes
    BY <1>7
  <2>2. SquareEnded(q, 0) = Put(Put(q, "countdown", q.countdown), "just_reloaded", yes)
    BY <2>1 DEF SquareEnded
  <2>3. Put(q, "countdown", q.countdown) = q
    BY <1>7 DEF Put, Squares
  <2> QED  BY <2>2, <2>3
<1>9. Put(Put(q, "just_reloaded", z), "just_reloaded", yes) = Put(q, "just_reloaded", yes)
  <2> HIDE DEF q, z, yes
  <2> QED  BY DEF Put
<1> HIDE DEF q, z, yes, x, t
<1> QED  BY <1>3, <1>4, <1>5, <1>6, <1>8, <1>9 DEF q, x

(* A batch of a square channel is its cycles one by one. *)
LEMMA SquareBatch ==
    ASSUME run_kind = "square", NEW g \in Squares, NEW c \in Nat
    PROVE  /\ RunSquare(g, c) \in Squares
           /\ RunSquare(g, c + 1) = ClockSquare(RunSquare(g, c))
<1>1. CASE ~g.on
  BY <1>1, SquareOff
<1>2. CASE g.on
  <2> DEFINE b == SquareBegun(g, c)
  <2>1. g \in SquaresOn /\ b \in SquaresOn /\ SquareBegun(g, c + 1) = Shifted(b)
    <3>1. g \in SquaresOn
      BY <1>2 DEF SquaresOn
    <3>2. \A x : Shifted(x) = SquareTimed(x)
      BY DEF Shifted
    <3> HIDE DEF b
    <3> QED  BY <3>1, <3>2, SquareBegins DEF b
  <2> HIDE DEF b
  <2>2. PICK h \in SquaresOn, left \in Nat : OneLonger(b, c, h, left)
    <3>1. RoundsClosed(SquaresOn)
      BY SquareClosed DEF RoundsClosed
    <3> QED  BY <2>1, <3>1, LoopOneLonger
  <2>3. h \in Squares /\ h.on /\ h.countdown \in Nat
    BY SquareTypes DEF SquaresOn
  <2>4. \A x : Expired(x) = SquareExpired(x) /\ Shifted(x) = SquareTimed(x)
               /\ Takes(x) = x.countdown + 1
    BY DEF Expired, Shifted, Takes
  <2>5. RunSquare(g, c) = SquareEnded(h, left)
    BY <1>2, <2>2, RunSquareIs DEF b, OneLonger
  <2>6. RunSquare(g, c + 1) = SquareEnded(Loop(Shifted(b), c + 1)[1], Loop(Shifted(b), c + 1)[2])
    BY <1>2, <2>1, RunSquareIs
  <2>7. left <= h.countdown /\ (left + 1 # Takes(h) => left < h.countdown)
        /\ (left + 1 = Takes(h) => left = h.countdown)
    <3> DEFINE n == h.countdown
    <3>1. n \in Nat /\ Takes(h) = n + 1
      BY <2>3, <2>4
    <3> HIDE DEF n
    <3> QED  BY <2>2, <3>1 DEF n, OneLonger
  <2>8. SquareEnded(h, left) \in Squares
    BY <2>3, <2>7, SquareEnds
  <2>9. CASE left + 1 = Takes(h)
    <3>1. RunSquare(g, c + 1) = SquareEnded(SquareTimed(SquareExpired(h)), 0)
      BY <2>2, <2>4, <2>6, <2>9 DEF OneLonger
    <3> QED  BY <2>3, <2>5, <2>7, <2>8, <2>9, <3>1, SquareEndsExpiring
  <2>10. CASE left + 1 # Takes(h)
    <3>1. RunSquare(g, c + 1) = SquareEnded(SquareTimed(h), left + 1)
      BY <2>2, <2>4, <2>6, <2>10 DEF OneLonger
    <3> QED  BY <2>3, <2>5, <2>7, <2>8, <2>10, <3>1, SquareEndsRunning
  <2> QED  BY <2>9, <2>10
<1> QED  BY <1>1, <1>2, SquareFlags

(* A batch of no cycles changes no more than the next cycle does. *)
LEMMA SquareNothing ==
    ASSUME NEW g \in Squares
    PROVE  ClockSquare(RunSquare(g, 0)) = ClockSquare(g)
<1>1. CASE ~g.on
  <2>1. (g.lf_div + 0) % 2 = g.lf_div
    BY SquareTypes
  <2>2. Put(g, "lf_div", g.lf_div) = g
    BY DEF Put, Squares
  <2> QED  BY <1>1, <2>1, <2>2, RunSquareIs
<1>2. CASE g.on
  <2> DEFINE yes == TRUE
             x == Put(g, "just_reloaded", yes)
             l == 1 - g.lf_div
             y == IF g.on /\ g.delay > 0 THEN g.delay - 1 ELSE g.delay
             t == Put(Put(g, "lf_div", l), "delay", y)
             s == Put(Put(x, "lf_div", l), "delay", y)
  <2>1. RunSquare(g, 0) = SquareEnded(g, 0)
    BY <1>2, SquareBeginsAt, LoopNothing, RunSquareIs
  <2>2. SquareEnded(g, 0) = x
    <3>1. g.countdown - 0 = g.countdown /\ (0 = 0) = yes
      BY SquareTypes
    <3>2. Put(g, "countdown", g.countdown) = g
      BY DEF Put, Squares
    <3> QED  BY <3>1, <3>2 DEF SquareEnded
  <2> HIDE DEF yes
  <2>3. /\ x.on = g.on /\ x.countdown = g.countdown /\ x.lf_div = g.lf_div /\ x.delay = g.delay
        /\ x.length = g.length /\ x.index = g.index
    BY OtherField
  <2>4. SquareTimed(x) = s /\ SquareTimed(g) = t
    <3> HIDE DEF x, l, y
    <3> QED  BY <2>3, SquareTimedPuts DEF l, y
  <2>5. s = Put(t, "just_reloaded", yes)
    <3> HIDE DEF l, y
    <3> QED  BY DEF Put
  <2>6. CASE g.countdown = 0
    <3> DEFINE r == SquareReload(t)
               i == (t.index + 1) % 8
               no == FALSE
    <3>1. ClockSquare(x) = [SquareExpired(s) EXCEPT !.just_reloaded = TRUE]
          /\ ClockSquare(g) = [SquareExpired(t) EXCEPT !.just_reloaded = TRUE]
      <4> HIDE DEF x, s, t
      <4> QED  BY <1>2, <2>3, <2>4, <2>6 DEF ClockSquare
    <3> HIDE DEF s, t
    <3>2. s.length = t.length /\ s.index = t.index
      BY <2>5, OtherField
    <3>3. SquareReload(s) = r /\ (s.index + 1) % 8 = i
      BY <3>2 DEF SquareReload
    <3>4. SquareExpired(s)
            = Put(Put(Put(Put(s, "countdown", r), "index", i), "surpressed", no), "did_tick", yes)
      <4> HIDE DEF r, i
      <4> QED  BY <3>3, SquareExpiredPuts DEF yes
    <3>5. SquareExpired(t)
            = Put(Put(Put(Put(t, "countdown", r), "index", i), "surpressed", no), "did_tick", yes)
      BY SquareExpiredPuts DEF yes
    <3>6. Put(Put(Put(Put(Put(Put(t, "just_reloaded", yes), "countdown", r), "index", i),
               "surpressed", no), "did_tick", yes), "just_reloaded", yes)
            = Put(Put(Put(Put(Put(t, "countdown", r), "index", i), "surpressed", no), "did_tick",
                       yes), "just_reloaded", yes)
      <4> HIDE DEF r, i, no, yes
      <4> QED  BY DEF Put
    <3>7. \A q : [q EXCEPT !.just_reloaded = TRUE] = Put(q, "just_reloaded", yes)
      BY DEF Put, yes
    <3> HIDE DEF r, i, no, x
    <3> QED  BY <2>1, <2>2, <2>5, <3>1, <3>4, <3>5, <3>6, <3>7
  <2>7. CASE g.countdown # 0
    <3> DEFINE no == FALSE
    <3>1. ClockSquare(x) = [s EXCEPT !.countdown = @ - 1, !.just_reloaded = FALSE]
          /\ ClockSquare(g) = [t EXCEPT !.countdown = @ - 1, !.just_reloaded = FALSE]
      <4> HIDE DEF x, s, t
      <4> QED  BY <1>2, <2>3, <2>4, <2>7 DEF ClockSquare
    <3> HIDE DEF s, t, no
    <3> DEFINE d == t.countdown - 1
    <3>2. s.countdown = t.countdown
      BY <2>5, OtherField
    <3>3. [s EXCEPT !.countdown = @ - 1, !.just_reloaded = FALSE]
            = [s EXCEPT !.countdown = d, !.just_reloaded = no]
      BY <3>2 DEF no
    <3>4. [t EXCEPT !.countdown = @ - 1, !.just_reloaded = FALSE]
            = [t EXCEPT !.countdown = d, !.just_reloaded = no]
      BY DEF no
    <3> HIDE DEF d
    <3>5. [Put(t, "just_reloaded", yes) EXCEPT !.countdown = d, !.just_reloaded = no]
            = [t EXCEPT !.countdown = d, !.just_reloaded = no]
      BY DEF Put
    <3> HIDE DEF x
    <3> QED  BY <2>1, <2>2, <2>5, <3>1, <3>3, <3>4, <3>5
  <2> HIDE DEF x
  <2> QED  BY <2>6, <2>7
<1> QED  BY <1>1, <1>2, SquareFlags

(* The registers of a square channel. *)
LEMMA WithLengthTyped ==
    ASSUME NEW g \in Squares, NEW length \in Lengths
    PROVE  WithLength(g, length) \in Squares
<1> DEFINE set == Put(g, "length", length)
           r == SquareReload(set)
<1>1. WithLength(g, length) = IF g.just_reloaded THEN Put(set, "countdown", r) ELSE set
  BY DEF WithLength, Put
<1>2. set \in Squares
  BY SquarePutLength
<1> HIDE DEF set
<1>3. r \in Nat
  BY <1>2, SquareTypes
<1> HIDE DEF r
<1>4. Put(set, "countdown", r) \in Squares
  BY <1>2, <1>3, SquarePutNat
<1> QED  BY <1>1, <1>2, <1>4

LEMMA SquareFrequencyTyped ==
    ASSUME NEW g \in Squares, NEW length \in Lengths
    PROVE  SquareFrequency(g, length) \in Squares
<1> DEFINE leaves == g.on /\ g.length \div 256 = 7 /\ length \div 256 # 7
           back == /\ leaves /\ (DOrE \/ g.countdown % 2 = 1)
                   /\ g.did_tick /\ g.countdown \div 2 = Period(g.length)
           i == (g.index + 7) % 8
           no == FALSE
           back_in_time == Put(Put(g, "index", i), "surpressed", no)
           corrected == IF back THEN back_in_time ELSE g
<1>1. SquareFrequency(g, length) = WithLength(corrected, length)
  BY DEF SquareFrequency, Put
<1>2. i \in Nat /\ no \in BOOLEAN
  BY SquareTypes
<1> HIDE DEF i, no
<1>3. back_in_time \in Squares
  <2> DEFINE a == Put(g, "index", i)
  <2>1. a \in Squares
    BY <1>2, SquarePutNat
  <2> HIDE DEF a
  <2>2. Put(a, "surpressed", no) \in Squares
    BY <1>2, <2>1, SquarePutFlag
  <2> QED  BY <2>2 DEF a
<1> HIDE DEF back_in_time, back
<1>4. corrected \in Squares
  BY <1>3
<1> HIDE DEF corrected
<1> QED  BY <1>1, <1>4, WithLengthTyped

LEMMA SquareStartTyped ==
    ASSUME NEW g \in Squares, NEW length \in Lengths
    PROVE  SquareStart(g, length) \in Squares
<1> DEFINE no == FALSE
           yes == TRUE
           set == [WithLength(g, length) EXCEPT !.did_tick = FALSE]
           low == ~Has(length \div 256, 4)
           phantom == /\ DOrE /\ low /\ (g.on => ~set.just_reloaded)
                      /\ ~Has(HalfOf(set.countdown - (IF g.on THEN 1 ELSE 0) - set.delay), \h400)
           extra == /\ DOrE /\ g.on /\ ~phantom
                    /\ length = 2047 /\ g.length # 2047 /\ set.surpressed
           delay == (IF g.on THEN 4 ELSE 6) - set.lf_div + (IF extra THEN 2 ELSE 0)
           i == IF phantom THEN (set.index + 1) % 8 ELSE set.index
           u == IF phantom THEN FALSE ELSE set.surpressed \/ ~g.on
           n == 2 * Period(length) + delay
<1>1. no \in BOOLEAN /\ yes \in BOOLEAN /\ WithLength(g, length) \in Squares
  BY WithLengthTyped
<1>2. set = Put(WithLength(g, length), "did_tick", no)
  BY DEF Put
<1>3. SquareStart(g, length) =
          [set EXCEPT !.on = TRUE, !.index = i, !.surpressed = u, !.delay = delay, !.countdown = n]
  BY DEF SquareStart
<1>4. set \in Squares
  <2> HIDE DEF no, set
  <2> QED  BY <1>1, <1>2, SquarePutFlag
<1> HIDE DEF set, no
<1>5. set.lf_div \in 0 .. 1 /\ set.index \in Nat /\ set.surpressed \in BOOLEAN
        /\ length \in 0 .. 2047
  BY <1>4, SquareTypes, SquareFlags DEF Lengths
<1>6. delay \in Nat
  <2> HIDE DEF extra
  <2> QED  BY <1>5
<1>7. i \in Nat
  <2> HIDE DEF phantom
  <2> QED  BY <1>5
<1>8. u \in BOOLEAN
  <2>1. \A p, q, r : (IF p THEN FALSE ELSE q \/ ~r) \in BOOLEAN
    BY Zenon
  <2> HIDE DEF phantom
  <2> QED  BY <2>1, Zenon
<1>9. n \in Nat
  <2> HIDE DEF delay
  <2> QED  BY <1>5, <1>6 DEF Period
<1> HIDE DEF i, u, delay, n
<1> DEFINE a == Put(set, "on", yes)
           b == Put(a, "index", i)
           c == Put(b, "surpressed", u)
           d == Put(c, "delay", delay)
           e == Put(d, "countdown", n)
<1>10. SquareStart(g, length) = e
  BY <1>3 DEF Put
<1> HIDE DEF yes
<1>11. a \in Squares
  BY <1>1, <1>4, SquarePutFlag
<1> HIDE DEF a
<1>12. b \in Squares
  BY <1>7, <1>11, SquarePutNat
<1> HIDE DEF b
<1>13. c \in Squares
  BY <1>8, <1>12, SquarePutFlag
<1> HIDE DEF c
<1>14. d \in Squares
  BY <1>6, <1>13, SquarePutNat
<1> HIDE DEF d
<1>15. e \in Squares
  BY <1>9, <1>14, SquarePutNat
<1> HIDE DEF e
<1> QED  BY <1>10, <1>15

-----------------------------------------------------------------------------
(* The wave channel *)

Rams == [0 .. 15 -> Nat]
Indices == 0 .. 31
Waves ==
    [on : BOOLEAN, enable : BOOLEAN, length : Lengths, countdown : Nat, index : Indices,
     byte : Nat, just_read : BOOLEAN, ram : Rams]

WavesOn == {g \in Waves : g.on}

LEMMA WavePutNat ==
    \A g \in Waves : \A f \in {"countdown", "byte"} : \A v \in Nat : Put(g, f, v) \in Waves
  BY DEF Waves, Put

LEMMA WavePutFlag ==
    \A g \in Waves : \A f \in {"on", "enable", "just_read"} :
        \A v \in BOOLEAN : Put(g, f, v) \in Waves
  BY DEF Waves, Put

LEMMA WavePutLength == \A g \in Waves : \A v \in Lengths : Put(g, "length", v) \in Waves
  BY DEF Waves, Put

LEMMA WavePutIndex == \A g \in Waves : \A v \in Indices : Put(g, "index", v) \in Waves
  BY DEF Waves, Put

LEMMA WavePutRam == \A g \in Waves : \A v \in Rams : Put(g, "ram", v) \in Waves
  BY DEF Waves, Put

LEMMA WaveReads ==
    ASSUME NEW g \in Waves, NEW v
    PROVE  Put(g, "countdown", v).countdown = v /\ Put(g, "just_read", v).just_read = v
  BY DEF Waves, Put

LEMMA WaveTypes ==
    ASSUME NEW g \in Waves
    PROVE  /\ g.length \in Lengths /\ g.countdown \in Nat /\ g.index \in Indices
           /\ g.byte \in Nat /\ g.ram \in Rams
           /\ Period(g.length) \in Nat
<1>1. /\ g.length \in Lengths /\ g.countdown \in Nat /\ g.index \in Indices
      /\ g.byte \in Nat /\ g.ram \in Rams
  BY DEF Waves
<1>2. Period(g.length) \in Nat
  <2> DEFINE n == g.length
  <2>1. n \in 0 .. 2047
    BY <1>1 DEF Lengths
  <2> HIDE DEF n
  <2>2. 2047 - n \in Nat
    BY <2>1
  <2> QED  BY <2>2 DEF Period, n
<1> QED  BY <1>1, <1>2

LEMMA WaveFlags ==
    ASSUME NEW g \in Waves
    PROVE  g.on \in BOOLEAN /\ g.enable \in BOOLEAN /\ g.just_read \in BOOLEAN
  BY DEF Waves

LEMMA WaveExpiredPuts ==
    \A g : WaveExpired(g) =
        Put(Put(Put(Put(g, "countdown", Period(g.length)), "index", (g.index + 1) % 32),
                "byte", g.ram[((g.index + 1) % 32) \div 2]), "just_read", TRUE)
  BY DEF Put, WaveExpired

LEMMA RamTyped == \A ram \in Rams : \A i \in Indices : ram[i \div 2] \in Nat
  BY DEF Rams, Indices

LEMMA WaveExpiredTyped ==
    ASSUME NEW g \in Waves
    PROVE  /\ WaveExpired(g) \in Waves /\ WaveExpired(g).on = g.on
           /\ WaveExpired(g).just_read = TRUE
<1> DEFINE p == Period(g.length)
           i == (g.index + 1) % 32
           y == g.ram[i \div 2]
           yes == TRUE
           a == Put(g, "countdown", p)
           b == Put(a, "index", i)
           c == Put(b, "byte", y)
           d == Put(c, "just_read", yes)
<1>1. p \in Nat /\ g.ram \in Rams
  BY WaveTypes
<1>2. i \in Indices
  <2>1. \A n \in 0 .. 31 : (n + 1) % 32 \in 0 .. 31
    OBVIOUS
  <2>2. g.index \in 0 .. 31
    BY WaveTypes DEF Indices
  <2> QED  BY <2>1, <2>2 DEF Indices
<1>3. y \in Nat
  <2> HIDE DEF i
  <2> QED  BY <1>1, <1>2, RamTyped
<1>4. WaveExpired(g) = d
  BY WaveExpiredPuts
<1>5. yes \in BOOLEAN
  OBVIOUS
<1> HIDE DEF p, i, y, yes
<1>6. d.on = g.on
  BY OtherField
<1>7. a \in Waves
  BY <1>1, WavePutNat
<1> HIDE DEF a
<1>8. b \in Waves
  BY <1>2, <1>7, WavePutIndex
<1> HIDE DEF b
<1>9. c \in Waves
  BY <1>3, <1>8, WavePutNat
<1> HIDE DEF c
<1>10. d \in Waves
  BY <1>5, <1>9, WavePutFlag
<1>11. d.just_read = yes
  BY <1>9, WaveReads
<1> HIDE DEF d
<1> QED  BY <1>4, <1>6, <1>10, <1>11 DEF yes

LEMMA WaveClosed ==
    ASSUME run_kind = "wave"
    PROVE  RoundsClosed(WavesOn)
<1> SUFFICES ASSUME NEW h \in WavesOn
             PROVE  /\ Expired(h) \in WavesOn /\ Shifted(h) \in WavesOn
                    /\ Takes(h) \in Nat /\ Takes(h) > 0 /\ Takes(Shifted(h)) = Takes(h)
                    /\ Expired(Shifted(h)) = Shifted(Expired(h))
  BY DEF RoundsClosed
<1>1. h \in Waves /\ h.on
  BY DEF WavesOn
<1>2. \A x : Expired(x) = WaveExpired(x) /\ Shifted(x) = x /\ Takes(x) = x.countdown + 1
  BY DEF Expired, Shifted, Takes
<1>3. WaveExpired(h) \in WavesOn
  BY <1>1, WaveExpiredTyped DEF WavesOn
<1>4. h.countdown + 1 \in Nat /\ h.countdown + 1 > 0
  BY <1>1, WaveTypes
<1> QED  BY <1>2, <1>3, <1>4

WaveEnded(h, left) ==
    Put(Put(h, "countdown", h.countdown - left), "just_read", h.just_read /\ left = 0)

LEMMA RunWaveIs ==
    ASSUME NEW g, NEW c
    PROVE  /\ ~g.on => RunWave(g, c) = Put(g, "just_read", FALSE)
           /\ g.on => RunWave(g, c) = WaveEnded(Loop(Put(g, "just_read", FALSE), c)[1],
                                                Loop(Put(g, "just_read", FALSE), c)[2])
<1> DEFINE unread == Put(g, "just_read", FALSE)
           h == Loop(unread, c)[1]
           left == Loop(unread, c)[2]
           d == h.countdown - left
           z == h.just_read /\ left = 0
<1>1. unread = [g EXCEPT !.just_read = FALSE]
  BY DEF Put
<1> HIDE DEF unread
<1>2. RunWave(g, c) = IF ~g.on THEN unread
                      ELSE [h EXCEPT !.countdown = @ - left, !.just_read = @ /\ left = 0]
  BY <1>1 DEF RunWave
<1> HIDE DEF h, left
<1>3. [h EXCEPT !.countdown = @ - left, !.just_read = @ /\ left = 0]
          = [h EXCEPT !.countdown = d, !.just_read = z]
  OBVIOUS
<1>4. [h EXCEPT !.countdown = d, !.just_read = z] = Put(Put(h, "countdown", d), "just_read", z)
  <2> HIDE DEF d, z
  <2> QED  BY DEF Put
<1> QED  BY <1>2, <1>3, <1>4 DEF WaveEnded, h, left, unread

LEMMA WaveEndedTyped ==
    ASSUME NEW h \in Waves, NEW left \in Nat, left <= h.countdown
    PROVE  /\ WaveEnded(h, left) \in Waves /\ WaveEnded(h, left).on = h.on
           /\ WaveEnded(h, left).countdown = h.countdown - left
<1> DEFINE d == h.countdown - left
           z == h.just_read /\ left = 0
           a == Put(h, "countdown", d)
<1>1. d \in Nat
  BY WaveTypes
<1>2. z \in BOOLEAN
  OBVIOUS
<1>3. WaveEnded(h, left) = Put(a, "just_read", z)
  BY DEF WaveEnded
<1> HIDE DEF d, z
<1>4. a \in Waves /\ a.countdown = d /\ a.on = h.on
  BY <1>1, WavePutNat, WaveReads, OtherField
<1> HIDE DEF a
<1>5. WaveEnded(h, left) \in Waves
  BY <1>2, <1>3, <1>4, WavePutFlag
<1>6. WaveEnded(h, left).on = h.on /\ WaveEnded(h, left).countdown = d
  BY <1>3, <1>4, OtherField
<1> QED  BY <1>5, <1>6 DEF d

LEMMA ReadNothing ==
    ASSUME NEW q \in Waves
    PROVE  (q.just_read /\ 0 = 0) = q.just_read
<1>1. \A p \in BOOLEAN : (p /\ 0 = 0) = p
  BY Zenon
<1> QED  BY <1>1, WaveFlags, Zenon

LEMMA WaveEndsRunning ==
    ASSUME NEW h \in Waves, h.on, NEW left \in Nat, left < h.countdown
    PROVE  ClockWave(WaveEnded(h, left)) = WaveEnded(h, left + 1)
<1> DEFINE d == h.countdown - left
           e == h.countdown - (left + 1)
           z == h.just_read /\ left = 0
           x == WaveEnded(h, left)
           no == FALSE
<1>1. h.countdown \in Nat /\ e = d - 1 /\ d # 0 /\ left <= h.countdown
  BY WaveTypes
<1>2. x.on = h.on /\ x.countdown = d
  BY <1>1, WaveEndedTyped
<1>3. ClockWave(x) = [x EXCEPT !.countdown = @ - 1, !.just_read = FALSE]
  <2> HIDE DEF x, d
  <2> QED  BY <1>1, <1>2 DEF ClockWave
<1>4. [x EXCEPT !.countdown = @ - 1, !.just_read = FALSE]
        = [x EXCEPT !.countdown = e, !.just_read = no]
  <2> HIDE DEF x, e, d
  <2> QED  BY <1>1, <1>2
<1>5. x = Put(Put(h, "countdown", d), "just_read", z)
  BY DEF WaveEnded
<1>6. WaveEnded(h, left + 1) = Put(Put(h, "countdown", e), "just_read", no)
  <2>1. (h.just_read /\ left + 1 = 0) = no
    OBVIOUS
  <2> QED  BY <2>1 DEF WaveEnded
<1>7. [Put(Put(h, "countdown", d), "just_read", z) EXCEPT !.countdown = e, !.just_read = no]
          = Put(Put(h, "countdown", e), "just_read", no)
  <2> HIDE DEF d, e, z, no
  <2> QED  BY DEF Put
<1> HIDE DEF d, e, z, no, x
<1> QED  BY <1>3, <1>4, <1>5, <1>6, <1>7 DEF x

LEMMA WaveEndsExpiring ==
    ASSUME NEW h \in Waves, h.on
    PROVE  ClockWave(WaveEnded(h, h.countdown)) = WaveEnded(WaveExpired(h), 0)
<1> DEFINE d == h.countdown - h.countdown
           z == h.just_read /\ h.countdown = 0
           x == WaveEnded(h, h.countdown)
           p == Period(h.length)
           i == (h.index + 1) % 32
           y == h.ram[i \div 2]
           yes == TRUE
           q == WaveExpired(h)
<1>1. h.countdown \in Nat /\ d = 0 /\ h.countdown <= h.countdown
  BY WaveTypes
<1>2. x.on = h.on /\ x.countdown = 0
  BY <1>1, WaveEndedTyped
<1>3. ClockWave(x) = WaveExpired(x)
  <2> HIDE DEF x
  <2> QED  BY <1>2 DEF ClockWave
<1>4. x = Put(Put(h, "countdown", d), "just_read", z)
  BY DEF WaveEnded
<1>5. x.length = h.length /\ x.index = h.index /\ x.ram = h.ram
  <2> HIDE DEF x, d, z
  <2> QED  BY <1>4, OtherField
<1>6. WaveExpired(x) = Put(Put(Put(Put(x, "countdown", p), "index", i), "byte", y), "just_read",
           yes)
  <2> HIDE DEF x
  <2> QED  BY <1>5, WaveExpiredPuts
<1>7. q = Put(Put(Put(Put(h, "countdown", p), "index", i), "byte", y), "just_read", yes)
  BY WaveExpiredPuts
<1>8. Put(Put(Put(Put(Put(Put(h, "countdown", d), "just_read", z), "countdown", p), "index", i),
           "byte", y), "just_read", yes)
          = Put(Put(Put(Put(h, "countdown", p), "index", i), "byte", y), "just_read", yes)
  <2> HIDE DEF d, z, p, i, y, yes
  <2> QED  BY DEF Put
<1>9. WaveEnded(q, 0) = q
  <2>1. q \in Waves /\ q.just_read = TRUE /\ q.countdown \in Nat
    BY WaveExpiredTyped, WaveTypes
  <2> HIDE DEF q
  <2>2. q.countdown - 0 = q.countdown
    BY <2>1
  <2>3. WaveEnded(q, 0) = Put(Put(q, "countdown", q.countdown), "just_read", q.just_read)
    BY <2>1, <2>2, ReadNothing DEF WaveEnded
  <2>4. Put(q, "countdown", q.countdown) = q /\ Put(q, "just_read", q.just_read) = q
    BY <2>1 DEF Put, Waves
  <2> QED  BY <2>3, <2>4
<1> HIDE DEF d, z, p, i, y, yes, q, x
<1> QED  BY <1>3, <1>4, <1>6, <1>7, <1>8, <1>9 DEF x, q

(* A batch of the wave channel is its cycles one by one. *)
LEMMA WaveBatch ==
    ASSUME run_kind = "wave", NEW g \in Waves, NEW c \in Nat
    PROVE  /\ RunWave(g, c) \in Waves
           /\ RunWave(g, c + 1) = ClockWave(RunWave(g, c))
<1> DEFINE no == FALSE
           b == Put(g, "just_read", no)
<1>0. no \in BOOLEAN
  OBVIOUS
<1>1. b \in Waves /\ b.on = g.on
  <2> HIDE DEF no
  <2> QED  BY <1>0, WavePutFlag, OtherField
<1>2. /\ \A n : ~g.on => RunWave(g, n) = b
      /\ \A n : g.on => RunWave(g, n) = WaveEnded(Loop(b, n)[1], Loop(b, n)[2])
  BY RunWaveIs
<1>3. CASE ~g.on
  <2>1. ClockWave(b) = Put(b, "just_read", no)
    <3> HIDE DEF b
    <3> QED  BY <1>1, <1>3 DEF ClockWave, Put
  <2>2. Put(b, "just_read", no) = b
    <3> HIDE DEF no
    <3> QED  BY DEF Put
  <2> HIDE DEF b
  <2> QED  BY <1>1, <1>2, <1>3, <2>1, <2>2
<1>4. CASE g.on
  <2> HIDE DEF b
  <2>1. b \in WavesOn
    BY <1>1, <1>4 DEF WavesOn
  <2>2. PICK h \in WavesOn, left \in Nat : OneLonger(b, c, h, left)
    BY <2>1, WaveClosed, LoopOneLonger
  <2>3. h \in Waves /\ h.on /\ h.countdown \in Nat
    BY WaveTypes DEF WavesOn
  <2>4. \A x : Expired(x) = WaveExpired(x) /\ Shifted(x) = x /\ Takes(x) = x.countdown + 1
    BY DEF Expired, Shifted, Takes
  <2>5. RunWave(g, c) = WaveEnded(h, left)
    BY <1>2, <1>4, <2>2 DEF OneLonger
  <2>6. RunWave(g, c + 1) = WaveEnded(Loop(b, c + 1)[1], Loop(b, c + 1)[2])
    BY <1>2, <1>4
  <2>7. left <= h.countdown /\ (left + 1 # Takes(h) => left < h.countdown)
        /\ (left + 1 = Takes(h) => left = h.countdown)
    <3> DEFINE n == h.countdown
    <3>1. n \in Nat /\ Takes(h) = n + 1
      BY <2>3, <2>4
    <3> HIDE DEF n
    <3> QED  BY <2>2, <3>1 DEF n, OneLonger
  <2>8. WaveEnded(h, left) \in Waves
    BY <2>3, <2>7, WaveEndedTyped
  <2>9. CASE left + 1 = Takes(h)
    <3>1. RunWave(g, c + 1) = WaveEnded(WaveExpired(h), 0)
      BY <2>2, <2>4, <2>6, <2>9 DEF OneLonger
    <3> QED  BY <2>3, <2>5, <2>7, <2>8, <2>9, <3>1, WaveEndsExpiring
  <2>10. CASE left + 1 # Takes(h)
    <3>1. RunWave(g, c + 1) = WaveEnded(h, left + 1)
      BY <2>2, <2>4, <2>6, <2>10 DEF OneLonger
    <3> QED  BY <2>3, <2>5, <2>7, <2>8, <2>10, <3>1, WaveEndsRunning
  <2> QED  BY <2>9, <2>10
<1> QED  BY <1>3, <1>4, WaveFlags

LEMMA WaveNothing ==
    ASSUME NEW g \in Waves
    PROVE  ClockWave(RunWave(g, 0)) = ClockWave(g)
<1> DEFINE no == FALSE
           b == Put(g, "just_read", no)
<1>1. no \in BOOLEAN
  OBVIOUS
<1>2. b \in Waves /\ b.on = g.on /\ b.countdown = g.countdown
      /\ b.length = g.length /\ b.index = g.index /\ b.ram = g.ram /\ b.just_read = no
  <2> HIDE DEF no
  <2> QED  BY <1>1, WavePutFlag, WaveReads, OtherField
<1>3. RunWave(g, 0) = b
  <2>1. g.on => WaveEnded(b, 0) = b
    <3> HIDE DEF b
    <3>1. b.countdown - 0 = b.countdown
      BY <1>2, WaveTypes
    <3>2. WaveEnded(b, 0) = Put(Put(b, "countdown", b.countdown), "just_read", b.just_read)
      BY <1>2, <3>1, ReadNothing DEF WaveEnded
    <3>3. Put(b, "countdown", b.countdown) = b /\ Put(b, "just_read", b.just_read) = b
      BY <1>2 DEF Put, Waves
    <3> QED  BY <3>2, <3>3
  <2>2. Loop(b, 0) = <<b, 0>>
    BY LoopNothing
  <2>3. /\ ~g.on => RunWave(g, 0) = b
        /\ g.on => RunWave(g, 0) = WaveEnded(Loop(b, 0)[1], Loop(b, 0)[2])
    BY RunWaveIs
  <2> HIDE DEF b
  <2> QED  BY <2>1, <2>2, <2>3
<1> HIDE DEF b
<1>4. CASE ~g.on
  <2>1. ClockWave(b) = Put(b, "just_read", no) /\ ClockWave(g) = Put(g, "just_read", no)
    BY <1>2, <1>4 DEF ClockWave, Put
  <2>2. Put(Put(g, "just_read", no), "just_read", no) = Put(g, "just_read", no)
    <3> HIDE DEF no
    <3> QED  BY DEF Put
  <2> QED  BY <1>3, <2>1, <2>2 DEF b
<1>5. CASE g.on /\ g.countdown = 0
  <2> DEFINE p == Period(g.length)
             i == (g.index + 1) % 32
             y == g.ram[i \div 2]
             yes == TRUE
  <2>1. ClockWave(b) = WaveExpired(b) /\ ClockWave(g) = WaveExpired(g)
    BY <1>2, <1>5 DEF ClockWave
  <2>2. WaveExpired(b)
          = Put(Put(Put(Put(b, "countdown", p), "index", i), "byte", y), "just_read", yes)
    BY <1>2, WaveExpiredPuts
  <2>3. WaveExpired(g)
          = Put(Put(Put(Put(g, "countdown", p), "index", i), "byte", y), "just_read", yes)
    BY WaveExpiredPuts
  <2>4. Put(Put(Put(Put(Put(g, "just_read", no), "countdown", p), "index", i), "byte", y),
             "just_read", yes)
          = Put(Put(Put(Put(g, "countdown", p), "index", i), "byte", y), "just_read", yes)
    <3> HIDE DEF no, p, i, y, yes
    <3> QED  BY DEF Put
  <2> HIDE DEF p, i, y, yes, no
  <2> QED  BY <1>3, <2>1, <2>2, <2>3, <2>4 DEF b
<1>6. CASE g.on /\ g.countdown # 0
  <2> DEFINE d == g.countdown - 1
  <2>1. ClockWave(b) = [b EXCEPT !.countdown = d, !.just_read = no]
        /\ ClockWave(g) = [g EXCEPT !.countdown = d, !.just_read = no]
    BY <1>2, <1>6 DEF ClockWave
  <2>2. [Put(g, "just_read", no) EXCEPT !.countdown = d, !.just_read = no]
          = [g EXCEPT !.countdown = d, !.just_read = no]
    <3> HIDE DEF d, no
    <3> QED  BY DEF Put
  <2> HIDE DEF d, no
  <2> QED  BY <1>3, <2>1, <2>2 DEF b
<1> QED  BY <1>4, <1>5, <1>6

(* The registers and the RAM of the wave channel. *)
LEMMA RamPut == \A ram \in Rams : \A i : \A v \in Nat : Put(ram, i, v) \in Rams
  BY DEF Rams, Put

LEMMA SpoiltTyped ==
    ASSUME NEW g \in Waves
    PROVE  Spoilt(g) \in Rams
<1> DEFINE offset == ((g.index + 1) \div 2) % 16
           ram == g.ram
           low == offset - (offset % 4)
           copied == [i \in 0 .. 15 |-> IF i < 4 THEN ram[low + i] ELSE ram[i]]
<1>1. ram \in Rams
  BY WaveTypes
<1>2. offset \in 0 .. 15 /\ offset \div 2 \in 0 .. 15
  <2>1. \A n \in 0 .. 31 : ((n + 1) \div 2) % 16 \in 0 .. 15
    OBVIOUS
  <2>2. g.index \in 0 .. 31
    BY WaveTypes DEF Indices
  <2>3. offset \in 0 .. 15
    BY <2>1, <2>2
  <2> HIDE DEF offset
  <2> QED  BY <2>3
<1>3. Spoilt(g) = ram \/ Spoilt(g) = Put(ram, 0, ram[offset]) \/ Spoilt(g) = copied
  BY DEF Spoilt, Put
<1> HIDE DEF offset, ram
<1>4. ram[offset] \in Nat
  BY <1>1, <1>2 DEF Rams
<1>5. copied \in Rams
  <2>1. \A i \in 0 .. 15 : i < 4 => low + i \in 0 .. 15
    BY <1>2
  <2> HIDE DEF low
  <2>2. \A i \in 0 .. 15 : (IF i < 4 THEN ram[low + i] ELSE ram[i]) \in Nat
    BY <1>1, <2>1 DEF Rams
  <2> QED  BY <2>2 DEF Rams
<1> HIDE DEF copied
<1> QED  BY <1>1, <1>3, <1>4, <1>5, RamPut

LEMMA WaveStartTyped ==
    ASSUME NEW g \in Waves, NEW length \in Lengths
    PROVE  WaveStart(g, length) \in Waves
<1> DEFINE ram == Spoilt(g)
           y == IF g.on /\ g.countdown = 0 THEN ram[0] ELSE g.byte
           o == g.on \/ g.enable
           n == Period(length) + 3
           zero == 0
           a == Put(g, "ram", ram)
           b == Put(a, "length", length)
           c == Put(b, "index", zero)
           d == Put(c, "byte", y)
           e == Put(d, "on", o)
           f == Put(e, "countdown", n)
<1>1. ram \in Rams /\ zero \in Indices
  BY SpoiltTyped DEF Indices
<1>2. WaveStart(g, length)
          = [g EXCEPT !.ram = ram, !.length = length, !.index = zero, !.byte = y, !.on = o,
                      !.countdown = n]
  BY DEF WaveStart
<1> HIDE DEF ram, zero
<1>3. y \in Nat
  <2>1. ram[0] \in Nat
    BY <1>1 DEF Rams
  <2> QED  BY <2>1, WaveTypes
<1>4. n \in Nat
  BY DEF Lengths, Period
<1>5. o \in BOOLEAN
  BY WaveFlags
<1> HIDE DEF y, n, o
<1>6. WaveStart(g, length) = f
  BY <1>2 DEF Put
<1>7. a \in Waves
  BY <1>1, WavePutRam
<1> HIDE DEF a
<1>8. b \in Waves
  BY <1>7, WavePutLength
<1> HIDE DEF b
<1>9. c \in Waves
  BY <1>1, <1>8, WavePutIndex
<1> HIDE DEF c
<1>10. d \in Waves
  BY <1>3, <1>9, WavePutNat
<1> HIDE DEF d
<1>11. e \in Waves
  BY <1>5, <1>10, WavePutFlag
<1> HIDE DEF e
<1>12. f \in Waves
  BY <1>4, <1>11, WavePutNat
<1> QED  BY <1>6, <1>12

LEMMA WaveLengthTyped ==
    ASSUME NEW g \in Waves, NEW length \in Lengths
    PROVE  [g EXCEPT !.length = length] \in Waves
  BY WavePutLength DEF Put

LEMMA WaveEnableTyped ==
    ASSUME NEW g \in Waves, NEW enable \in BOOLEAN
    PROVE  WaveEnable(g, enable) \in Waves
<1> DEFINE o == g.on /\ enable
           a == Put(g, "enable", enable)
<1>1. o \in BOOLEAN
  BY WaveFlags
<1>2. WaveEnable(g, enable) = [g EXCEPT !.enable = enable, !.on = o]
  BY DEF WaveEnable
<1> HIDE DEF o
<1>3. WaveEnable(g, enable) = Put(a, "on", o)
  BY <1>2 DEF Put
<1>4. a \in Waves
  BY WavePutFlag
<1> HIDE DEF a
<1> QED  BY <1>1, <1>3, <1>4, WavePutFlag

LEMMA WaveWriteTyped ==
    ASSUME NEW g \in Waves, NEW address
    PROVE  WaveWrite(g, address) \in Waves
<1> DEFINE r == Put(g.ram, address, 1)
           s == Put(g.ram, g.index \div 2, 1)
<1>1. r \in Rams /\ s \in Rams
  BY WaveTypes, RamPut
<1>2. WaveWrite(g, address) = [g EXCEPT !.ram = r] \/ WaveWrite(g, address) = g
      \/ WaveWrite(g, address) = [g EXCEPT !.ram = s]
  BY DEF WaveWrite, Put
<1> HIDE DEF r, s
<1> QED  BY <1>1, <1>2, WavePutRam DEF Put

-----------------------------------------------------------------------------
(* The noise channel *)

Polynomial == [shift : 0 .. 15, narrow : BOOLEAN, divisor : 0 .. 7]
Bits == 0 .. 1
Bytes == 0 .. 255
Registers == SUBSET Int
Noises ==
    [on : BOOLEAN, nr43 : Polynomial, countdown : Nat, counter : Nat, lfsr : Registers,
     sample : BOOLEAN, delta : Nat, reloaded : BOOLEAN, alignment : Bytes, delayed : Nat,
     lf_div : Bits]

LEMMA NoisePutNat ==
    \A g \in Noises : \A f \in {"countdown", "counter", "delta", "delayed"} : \A v \in Nat :
        Put(g, f, v) \in Noises
  BY DEF Noises, Put

LEMMA NoisePutFlag ==
    \A g \in Noises : \A f \in {"on", "sample", "reloaded"} : \A v \in BOOLEAN :
        Put(g, f, v) \in Noises
  BY DEF Noises, Put

LEMMA NoisePutPolynomial == \A g \in Noises : \A v \in Polynomial : Put(g, "nr43", v) \in Noises
  BY DEF Noises, Put

LEMMA NoisePutLfsr == \A g \in Noises : \A v \in Registers : Put(g, "lfsr", v) \in Noises
  BY DEF Noises, Put

LEMMA NoisePutDiv == \A g \in Noises : \A v \in Bits : Put(g, "lf_div", v) \in Noises
  BY DEF Noises, Put

LEMMA NoisePutAlignment == \A g \in Noises : \A v \in Bytes : Put(g, "alignment", v) \in Noises
  BY DEF Noises, Put

LEMMA NoiseReads ==
    ASSUME NEW g \in Noises, NEW v
    PROVE  /\ Put(g, "countdown", v).countdown = v /\ Put(g, "on", v).on = v
           /\ Put(g, "alignment", v).alignment = v /\ Put(g, "delayed", v).delayed = v
           /\ Put(g, "lf_div", v).lf_div = v
  BY DEF Noises, Put

LEMMA NoiseSame ==
    ASSUME NEW g \in Noises
    PROVE  /\ Put(g, "countdown", g.countdown) = g /\ Put(g, "delayed", g.delayed) = g
           /\ Put(g, "lf_div", g.lf_div) = g /\ Put(g, "alignment", g.alignment) = g
  BY DEF Noises, Put

LEMMA PutsCommute ==
    ASSUME NEW g, NEW f, NEW h, f # h, NEW v, NEW w
    PROVE  Put(Put(g, f, v), h, w) = Put(Put(g, h, w), f, v)
  BY DEF Put

LEMMA PutAgain ==
    ASSUME NEW g, NEW f, NEW v, NEW w
    PROVE  Put(Put(g, f, v), f, w) = Put(g, f, w)
  BY DEF Put

LEMMA NoiseTypes ==
    ASSUME NEW g \in Noises
    PROVE  /\ g.countdown \in Nat /\ g.counter \in Nat /\ g.delta \in Nat /\ g.delayed \in Nat
           /\ g.alignment \in Bytes /\ g.lf_div \in Bits /\ g.lfsr \in Registers
           /\ g.nr43 \in Polynomial /\ Divisor(g) \in Nat /\ Divisor(g) > 1
<1>1. /\ g.countdown \in Nat /\ g.counter \in Nat /\ g.delta \in Nat /\ g.delayed \in Nat
      /\ g.alignment \in Bytes /\ g.lf_div \in Bits /\ g.lfsr \in Registers
      /\ g.nr43 \in Polynomial
  BY DEF Noises
<1>2. Divisor(g) \in Nat /\ Divisor(g) > 1
  <2> DEFINE n == g.nr43.divisor
  <2>1. n \in 0 .. 7
    BY <1>1 DEF Polynomial
  <2> HIDE DEF n
  <2>2. (IF n = 0 THEN 2 ELSE 4 * n) \in Nat /\ (IF n = 0 THEN 2 ELSE 4 * n) > 1
    BY <2>1
  <2> QED  BY <2>2 DEF Divisor, n
<1> QED  BY <1>1, <1>2

LEMMA NoiseFlags ==
    ASSUME NEW g \in Noises
    PROVE  g.on \in BOOLEAN /\ g.sample \in BOOLEAN /\ g.reloaded \in BOOLEAN
  BY DEF Noises

NextLfsr(lfsr, narrow) ==
    LET shifted == {b - 1 : b \in lfsr \ {0}}
        high == IF narrow THEN {6, 14} ELSE {14}
    IN  IF 0 \in lfsr <=> 1 \in lfsr THEN shifted \cup high ELSE shifted \ high

LEMMA NextLfsrTyped == \A lfsr \in Registers : \A n : NextLfsr(lfsr, n) \in Registers
<1> SUFFICES ASSUME NEW lfsr \in Registers, NEW n PROVE NextLfsr(lfsr, n) \in Registers
  OBVIOUS
<1> DEFINE shifted == {b - 1 : b \in lfsr \ {0}}
           high == IF n THEN {6, 14} ELSE {14}
<1>1. shifted \subseteq Int
  BY DEF Registers
<1>2. high \subseteq Int
  OBVIOUS
<1> HIDE DEF shifted, high
<1>3. shifted \cup high \subseteq Int /\ shifted \ high \subseteq Int
  BY <1>1, <1>2
<1>4. NextLfsr(lfsr, n) = shifted \cup high \/ NextLfsr(lfsr, n) = shifted \ high
  BY DEF NextLfsr, shifted, high
<1> QED  BY <1>3, <1>4 DEF Registers

LEMMA StepLfsrPuts ==
    \A g, narrow : StepLfsr(g, narrow) =
        Put(Put(g, "lfsr", NextLfsr(g.lfsr, narrow)), "sample", 0 \in NextLfsr(g.lfsr, narrow))
<1> TAKE g, narrow
<1> DEFINE next == NextLfsr(g.lfsr, narrow)
           s == 0 \in next
<1>1. StepLfsr(g, narrow) = [g EXCEPT !.lfsr = next, !.sample = s]
  BY DEF StepLfsr, NextLfsr
<1> HIDE DEF next, s
<1>2. StepLfsr(g, narrow) = Put(Put(g, "lfsr", next), "sample", s)
  BY <1>1 DEF Put
<1> QED  BY <1>2 DEF next, s

LEMMA StepLfsrTyped ==
    ASSUME NEW g \in Noises, NEW narrow
    PROVE  /\ StepLfsr(g, narrow) \in Noises
           /\ StepLfsr(g, narrow).countdown = g.countdown
           /\ StepLfsr(g, narrow).on = g.on
           /\ StepLfsr(g, narrow).alignment = g.alignment
           /\ StepLfsr(g, narrow).delayed = g.delayed
<1> DEFINE next == NextLfsr(g.lfsr, narrow)
           s == 0 \in next
           a == Put(g, "lfsr", next)
<1>1. next \in Registers
  BY NoiseTypes, NextLfsrTyped
<1>2. StepLfsr(g, narrow) = Put(a, "sample", s)
  BY StepLfsrPuts
<1>3. s \in BOOLEAN
  OBVIOUS
<1> HIDE DEF next, s
<1>4. a \in Noises
  BY <1>1, NoisePutLfsr
<1>5. a.countdown = g.countdown /\ a.on = g.on /\ a.alignment = g.alignment /\ a.delayed = g.delayed
  BY OtherField
<1> HIDE DEF a
<1>6. Put(a, "sample", s) \in Noises
  BY <1>3, <1>4, NoisePutFlag
<1> QED  BY <1>2, <1>5, <1>6, OtherField

LEMMA StepLfsrPut ==
    ASSUME NEW g, NEW f, f # "lfsr", f # "sample", NEW v, NEW narrow
    PROVE  StepLfsr(Put(g, f, v), narrow) = Put(StepLfsr(g, narrow), f, v)
<1> DEFINE next == NextLfsr(g.lfsr, narrow)
           s == 0 \in next
           x == Put(g, f, v)
<1>1. x.lfsr = g.lfsr
  BY OtherField
<1>2. StepLfsr(x, narrow) = Put(Put(x, "lfsr", next), "sample", s)
  <2> HIDE DEF x
  <2> QED  BY <1>1, StepLfsrPuts
<1>3. StepLfsr(g, narrow) = Put(Put(g, "lfsr", next), "sample", s)
  BY StepLfsrPuts
<1> HIDE DEF next, s
<1>4. Put(x, "lfsr", next) = Put(Put(g, "lfsr", next), f, v)
  BY PutsCommute
<1> DEFINE y == Put(g, "lfsr", next)
<1> HIDE DEF x, y
<1>5. Put(Put(y, f, v), "sample", s) = Put(Put(y, "sample", s), f, v)
  BY PutsCommute
<1> QED  BY <1>2, <1>3, <1>4, <1>5 DEF y, x

NextCounter(g) == (g.counter + 1) % 16384
Rises(g) == Selected(NextCounter(g), g.nr43.shift) > Selected(g.counter, g.nr43.shift)
Counted(g) ==
    Put(Put(Put(g, "countdown", Divisor(g) + g.delta), "delta", 0), "counter", NextCounter(g))

LEMMA NoiseExpiredIs ==
    \A g : NoiseExpired(g) =
        IF Rises(g) THEN StepLfsr(Counted(g), g.nr43.narrow) ELSE Counted(g)
<1> TAKE g
<1> DEFINE next == NextCounter(g)
           n == Divisor(g) + g.delta
           zero == 0
           counted == [g EXCEPT !.countdown = n, !.delta = zero, !.counter = next]
<1>1. counted = Counted(g)
  <2>1. Counted(g) = Put(Put(Put(g, "countdown", n), "delta", zero), "counter", next)
    BY DEF Counted
  <2> HIDE DEF n, next, zero
  <2> QED  BY <2>1 DEF Put
<1>2. NoiseExpired(g) = IF Rises(g) THEN StepLfsr(counted, g.nr43.narrow) ELSE counted
  BY DEF NoiseExpired, Rises, NextCounter
<1> HIDE DEF counted
<1> QED  BY <1>1, <1>2

LEMMA CountedTyped ==
    ASSUME NEW g \in Noises
    PROVE  /\ Counted(g) \in Noises
           /\ Counted(g).countdown = Divisor(g) + g.delta
           /\ Counted(g).on = g.on
           /\ Counted(g).alignment = g.alignment
           /\ Counted(g).delayed = g.delayed
<1> DEFINE n == Divisor(g) + g.delta
           next == NextCounter(g)
           zero == 0
           a == Put(g, "countdown", n)
           b == Put(a, "delta", zero)
           c == Put(b, "counter", next)
<1>1. n \in Nat /\ next \in Nat /\ zero \in Nat
  <2>1. Divisor(g) \in Nat /\ g.delta \in Nat /\ g.counter \in Nat
    BY NoiseTypes
  <2> QED  BY <2>1 DEF NextCounter
<1>2. Counted(g) = c
  BY DEF Counted
<1> HIDE DEF n, next, zero
<1>3. a \in Noises
  BY <1>1, NoisePutNat
<1>3a. a.countdown = n
  BY NoiseReads
<1>3b. a.on = g.on /\ a.alignment = g.alignment /\ a.delayed = g.delayed
  BY OtherField
<1> HIDE DEF a
<1>4. b \in Noises
  BY <1>1, <1>3, NoisePutNat
<1>4b. b.countdown = n /\ b.on = g.on /\ b.alignment = g.alignment /\ b.delayed = g.delayed
  BY <1>3a, <1>3b, OtherField
<1> HIDE DEF b
<1>5. c \in Noises
  BY <1>1, <1>4, NoisePutNat
<1>5b. c.countdown = n /\ c.on = g.on /\ c.alignment = g.alignment /\ c.delayed = g.delayed
  BY <1>4b, OtherField
<1> HIDE DEF c
<1> QED  BY <1>2, <1>5, <1>5b DEF n

LEMMA NoiseExpiredTyped ==
    ASSUME NEW g \in Noises
    PROVE  /\ NoiseExpired(g) \in Noises
           /\ NoiseExpired(g).countdown \in Nat /\ NoiseExpired(g).countdown > 1
           /\ NoiseExpired(g).on = g.on
           /\ NoiseExpired(g).alignment = g.alignment
           /\ NoiseExpired(g).delayed = g.delayed
<1> DEFINE c == Counted(g)
           s == StepLfsr(c, g.nr43.narrow)
<1>1. NoiseExpired(g) = c \/ NoiseExpired(g) = s
  BY NoiseExpiredIs
<1>2. c \in Noises /\ c.countdown = Divisor(g) + g.delta /\ c.on = g.on
      /\ c.alignment = g.alignment /\ c.delayed = g.delayed
  BY CountedTyped
<1> HIDE DEF c
<1>3. s \in Noises /\ s.countdown = c.countdown /\ s.on = c.on
      /\ s.alignment = c.alignment /\ s.delayed = c.delayed
  BY <1>2, StepLfsrTyped
<1> HIDE DEF s
<1>4. c.countdown \in Nat /\ c.countdown > 1
  BY <1>2, NoiseTypes
<1> QED  BY <1>1, <1>2, <1>3, <1>4

Unread == {"lf_div", "alignment", "delayed", "reloaded", "on"}

LEMMA UnreadPut ==
    ASSUME NEW g, NEW f \in Unread, NEW v
    PROVE  /\ Divisor(Put(g, f, v)) = Divisor(g)
           /\ NextCounter(Put(g, f, v)) = NextCounter(g)
           /\ Rises(Put(g, f, v)) = Rises(g)
           /\ Counted(Put(g, f, v)) = Put(Counted(g), f, v)
<1> DEFINE x == Put(g, f, v)
<1>0. f # "nr43" /\ f # "counter" /\ f # "delta" /\ f # "countdown"
  BY DEF Unread
<1>1. x.nr43 = g.nr43 /\ x.counter = g.counter /\ x.delta = g.delta
  BY <1>0, OtherField
<1>2. Divisor(x) = Divisor(g) /\ NextCounter(x) = NextCounter(g)
  <2> HIDE DEF x
  <2> QED  BY <1>1 DEF Divisor, NextCounter
<1>3. Rises(x) = Rises(g)
  <2> HIDE DEF x
  <2> QED  BY <1>1, <1>2 DEF Rises
<1> DEFINE n == Divisor(g) + g.delta
           next == NextCounter(g)
           zero == 0
           a == Put(g, "countdown", n)
           b == Put(a, "delta", zero)
<1>4. Counted(x) = Put(Put(Put(x, "countdown", n), "delta", zero), "counter", next)
  <2> HIDE DEF x
  <2> QED  BY <1>1, <1>2 DEF Counted
<1>5. Counted(g) = Put(b, "counter", next)
  BY DEF Counted
<1> HIDE DEF n, next, zero
<1>6. Put(x, "countdown", n) = Put(a, f, v)
  BY <1>0, PutsCommute
<1> HIDE DEF a, x
<1>7. Put(Put(a, f, v), "delta", zero) = Put(b, f, v)
  BY <1>0, PutsCommute
<1> HIDE DEF b
<1>8. Put(Put(b, f, v), "counter", next) = Put(Put(b, "counter", next), f, v)
  BY <1>0, PutsCommute
<1>9. Counted(x) = Put(Counted(g), f, v)
  BY <1>4, <1>5, <1>6, <1>7, <1>8
<1> QED  BY <1>2, <1>3, <1>9 DEF x

LEMMA NoiseExpiredPut ==
    ASSUME NEW g, NEW f \in Unread, NEW v
    PROVE  NoiseExpired(Put(g, f, v)) = Put(NoiseExpired(g), f, v)
<1> DEFINE x == Put(g, f, v)
           c == Counted(g)
<1>0. f # "nr43" /\ f # "lfsr" /\ f # "sample"
  BY DEF Unread
<1>1. x.nr43 = g.nr43
  BY <1>0, OtherField
<1>2. Rises(x) = Rises(g) /\ Counted(x) = Put(c, f, v)
  BY UnreadPut
<1>3. NoiseExpired(x) = IF Rises(g) THEN StepLfsr(Put(c, f, v), g.nr43.narrow) ELSE Put(c, f, v)
  <2> HIDE DEF x, c
  <2> QED  BY <1>1, <1>2, NoiseExpiredIs
<1>4. NoiseExpired(g) = IF Rises(g) THEN StepLfsr(c, g.nr43.narrow) ELSE c
  BY NoiseExpiredIs
<1> HIDE DEF c
<1>5. StepLfsr(Put(c, f, v), g.nr43.narrow) = Put(StepLfsr(c, g.nr43.narrow), f, v)
  BY <1>0, StepLfsrPut
<1> HIDE DEF x
<1>6. NoiseExpired(x) = Put(NoiseExpired(g), f, v)
  <2>1. CASE Rises(g)
    BY <1>3, <1>4, <1>5, <2>1
  <2>2. CASE ~Rises(g)
    BY <1>3, <1>4, <2>2
  <2> QED  BY <2>1, <2>2
<1> QED  BY <1>6 DEF x

(* The countdown that expires is overwritten. *)
LEMMA NoiseExpiredCountdown ==
    ASSUME NEW g, NEW v
    PROVE  NoiseExpired(Put(g, "countdown", v)) = NoiseExpired(g)
<1> DEFINE x == Put(g, "countdown", v)
           n == Divisor(g) + g.delta
<1>1. x.nr43 = g.nr43 /\ x.counter = g.counter /\ x.delta = g.delta
  BY OtherField
<1>2. Put(x, "countdown", n) = Put(g, "countdown", n)
  <2> HIDE DEF n
  <2> QED  BY PutAgain
<1> HIDE DEF x
<1>3. Rises(x) = Rises(g) /\ Counted(x) = Counted(g)
  BY <1>1, <1>2 DEF Rises, NextCounter, Divisor, Counted
<1>4. NoiseExpired(x) = NoiseExpired(g)
  BY <1>1, <1>3, NoiseExpiredIs
<1> QED  BY <1>4 DEF x

(* Timers of the channel, and the countdown that begins. *)
LEMMA TimedPuts ==
    \A g, c : Timed(g, c) =
        Put(Put(g, "lf_div", (g.lf_div + c) % 2), "alignment", (g.alignment + c) % 256)
  BY DEF Timed, Put

LEMMA ArmedPuts ==
    \A g : Armed(g) = Put(g, "countdown", IF g.countdown = 0 THEN Divisor(g) ELSE g.countdown)
  BY DEF Armed, Put

LEMMA TimedTyped ==
    ASSUME NEW g \in Noises, NEW c \in Nat
    PROVE  /\ Timed(g, c) \in Noises
           /\ Timed(g, c).countdown = g.countdown /\ Timed(g, c).on = g.on
           /\ Timed(g, c).delayed = g.delayed
           /\ Timed(g, c).lf_div = (g.lf_div + c) % 2
           /\ Timed(g, c).alignment = (g.alignment + c) % 256
           /\ Divisor(Timed(g, c)) = Divisor(g)
<1> DEFINE l == (g.lf_div + c) % 2
           n == (g.alignment + c) % 256
           a == Put(g, "lf_div", l)
           b == Put(a, "alignment", n)
<1>1. l \in Bits /\ n \in Bytes
  <2> DEFINE p == g.lf_div
             q == g.alignment
  <2>1. p \in 0 .. 1 /\ q \in 0 .. 255
    BY NoiseTypes DEF Bits, Bytes
  <2> HIDE DEF p, q
  <2>2. (p + c) % 2 \in 0 .. 1 /\ (q + c) % 256 \in 0 .. 255
    BY <2>1
  <2> QED  BY <2>2 DEF Bits, Bytes, p, q
<1>2. Timed(g, c) = b
  BY TimedPuts
<1> HIDE DEF l, n
<1>3. a \in Noises /\ a.countdown = g.countdown /\ a.on = g.on /\ a.delayed = g.delayed
      /\ a.lf_div = l /\ a.nr43 = g.nr43
  BY <1>1, NoisePutDiv, NoiseReads, OtherField
<1> HIDE DEF a
<1>4. b \in Noises /\ b.countdown = g.countdown /\ b.on = g.on /\ b.delayed = g.delayed
      /\ b.lf_div = l /\ b.alignment = n /\ b.nr43 = g.nr43
  BY <1>1, <1>3, NoisePutAlignment, NoiseReads, OtherField
<1> HIDE DEF b
<1> QED  BY <1>2, <1>4 DEF Divisor, l, n

LEMMA TimedNothing == \A g \in Noises : Timed(g, 0) = g
<1> TAKE g \in Noises
<1>1. (g.lf_div + 0) % 2 = g.lf_div /\ (g.alignment + 0) % 256 = g.alignment
  <2>1. g.lf_div \in 0 .. 1 /\ g.alignment \in 0 .. 255
    BY NoiseTypes DEF Bits, Bytes
  <2> QED  BY <2>1
<1>2. Timed(g, 0) = Put(Put(g, "lf_div", g.lf_div), "alignment", g.alignment)
  BY <1>1, TimedPuts
<1> QED  BY <1>2, NoiseSame

LEMMA TimedTwice ==
    ASSUME NEW g \in Noises, NEW c \in Nat
    PROVE  Timed(Timed(g, c), 1) = Timed(g, c + 1)
<1> DEFINE x == Timed(g, c)
           l == (g.lf_div + c) % 2
           n == (g.alignment + c) % 256
           m == (g.lf_div + (c + 1)) % 2
           k == (g.alignment + (c + 1)) % 256
<1>1. (l + 1) % 2 = m /\ (n + 1) % 256 = k
  <2> DEFINE p == g.lf_div
             q == g.alignment
  <2>1. p \in 0 .. 1 /\ q \in 0 .. 255
    BY NoiseTypes DEF Bits, Bytes
  <2> HIDE DEF p, q
  <2>2. (((p + c) % 2) + 1) % 2 = (p + (c + 1)) % 2
    BY <2>1
  <2>3. (((q + c) % 256) + 1) % 256 = (q + (c + 1)) % 256
    BY <2>1
  <2> QED  BY <2>2, <2>3 DEF p, q
<1>2. x.lf_div = l /\ x.alignment = n
  BY TimedTyped
<1>3. x = Put(Put(g, "lf_div", l), "alignment", n)
  BY TimedPuts
<1>4. Timed(g, c + 1) = Put(Put(g, "lf_div", m), "alignment", k)
  BY TimedPuts
<1> HIDE DEF x
<1>5. Timed(x, 1) = Put(Put(x, "lf_div", m), "alignment", k)
  BY <1>1, <1>2, TimedPuts
<1> HIDE DEF l, n, m, k
<1>6. Put(Put(Put(Put(g, "lf_div", l), "alignment", n), "lf_div", m), "alignment", k)
         = Put(Put(g, "lf_div", m), "alignment", k)
  BY DEF Put
<1> QED  BY <1>3, <1>4, <1>5, <1>6 DEF x

(* What neither timers nor rounds read commutes with them. *)
LEMMA TimedPut ==
    ASSUME NEW g, NEW f, f # "lf_div", f # "alignment", NEW v, NEW c
    PROVE  Timed(Put(g, f, v), c) = Put(Timed(g, c), f, v)
<1> DEFINE x == Put(g, f, v)
           l == (g.lf_div + c) % 2
           n == (g.alignment + c) % 256
           a == Put(g, "lf_div", l)
<1>1. x.lf_div = g.lf_div /\ x.alignment = g.alignment
  BY OtherField
<1>2. Timed(x, c) = Put(Put(x, "lf_div", l), "alignment", n)
  <2> HIDE DEF x
  <2> QED  BY <1>1, TimedPuts
<1>3. Timed(g, c) = Put(a, "alignment", n)
  BY TimedPuts
<1> HIDE DEF l, n
<1>4. Put(x, "lf_div", l) = Put(a, f, v)
  BY PutsCommute
<1> HIDE DEF a, x
<1>5. Put(Put(a, f, v), "alignment", n) = Put(Put(a, "alignment", n), f, v)
  BY PutsCommute
<1> QED  BY <1>2, <1>3, <1>4, <1>5 DEF x

Counts(g) == g.on \/ ~RunsCgb
NoisesCounting == {g \in Noises : g.countdown > 0 /\ Counts(g)}

LEMMA ArmedTyped ==
    ASSUME NEW g \in Noises
    PROVE  /\ Armed(g) \in Noises /\ Armed(g).countdown \in Nat /\ Armed(g).countdown > 0
           /\ Armed(g).on = g.on
           /\ Armed(g).delayed = g.delayed /\ Armed(g).alignment = g.alignment
           /\ g.countdown > 0 => Armed(g) = g
<1> DEFINE n == IF g.countdown = 0 THEN Divisor(g) ELSE g.countdown
<1>1. n \in Nat /\ n > 0
  BY NoiseTypes
<1>2. Armed(g) = Put(g, "countdown", n)
  BY ArmedPuts
<1>3. g.countdown > 0 => n = g.countdown
  BY NoiseTypes
<1>4. g.countdown > 0 => Armed(g) = g
  BY <1>2, <1>3, NoiseSame
<1> HIDE DEF n
<1>5. Put(g, "countdown", n) \in Noises
  BY <1>1, NoisePutNat
<1>6. Put(g, "countdown", n).countdown = n
  BY NoiseReads
<1>7. Armed(g).on = g.on /\ Armed(g).delayed = g.delayed /\ Armed(g).alignment = g.alignment
  BY <1>2, OtherField
<1> QED  BY <1>1, <1>2, <1>4, <1>5, <1>6, <1>7

LEMMA NoiseExpiredTimed ==
    ASSUME NEW g \in Noises
    PROVE  NoiseExpired(Timed(g, 1)) = Timed(NoiseExpired(g), 1)
<1> DEFINE l == (g.lf_div + 1) % 2
           n == (g.alignment + 1) % 256
           a == Put(g, "lf_div", l)
           e == NoiseExpired(g)
<1>1. Timed(g, 1) = Put(a, "alignment", n)
  BY TimedPuts
<1>2. e.lf_div = g.lf_div /\ e.alignment = g.alignment
  <2>1. e.alignment = g.alignment
    BY NoiseExpiredTyped
  <2>2. e.lf_div = g.lf_div
    <3>1. \A c, r : StepLfsr(c, r).lf_div = c.lf_div
      <4> TAKE c, r
      <4> DEFINE next == NextLfsr(c.lfsr, r)
                 s == 0 \in next
      <4>1. StepLfsr(c, r) = Put(Put(c, "lfsr", next), "sample", s)
        BY StepLfsrPuts
      <4> HIDE DEF next, s
      <4> QED  BY <4>1, OtherField
    <3>2. Counted(g).lf_div = g.lf_div
      <4> DEFINE d == Divisor(g) + g.delta
                 zero == 0
                 k == NextCounter(g)
      <4>1. Counted(g) = Put(Put(Put(g, "countdown", d), "delta", zero), "counter", k)
        BY DEF Counted
      <4> HIDE DEF d, zero, k
      <4> QED  BY <4>1, OtherField
    <3> QED  BY <3>1, <3>2, NoiseExpiredIs
  <2> QED  BY <2>1, <2>2
<1>3. Timed(e, 1) = Put(Put(e, "lf_div", l), "alignment", n)
  <2> HIDE DEF e
  <2> QED  BY <1>2, TimedPuts
<1> HIDE DEF l, n
<1>4. NoiseExpired(a) = Put(e, "lf_div", l)
  BY NoiseExpiredPut DEF Unread
<1> HIDE DEF a, e
<1>5. NoiseExpired(Put(a, "alignment", n)) = Put(NoiseExpired(a), "alignment", n)
  BY NoiseExpiredPut DEF Unread
<1> QED  BY <1>1, <1>3, <1>4, <1>5 DEF e

LEMMA NoiseClosed ==
    ASSUME run_kind = "noise"
    PROVE  RoundsClosed(NoisesCounting)
<1> SUFFICES ASSUME NEW h \in NoisesCounting
             PROVE  /\ Expired(h) \in NoisesCounting /\ Shifted(h) \in NoisesCounting
                    /\ Takes(h) \in Nat /\ Takes(h) > 0 /\ Takes(Shifted(h)) = Takes(h)
                    /\ Expired(Shifted(h)) = Shifted(Expired(h))
  BY DEF RoundsClosed
<1>1. h \in Noises /\ h.countdown > 0 /\ Counts(h)
  BY DEF NoisesCounting
<1>2. \A x : Expired(x) = NoiseExpired(x) /\ Shifted(x) = Timed(x, 1) /\ Takes(x) = x.countdown
  BY DEF Expired, Shifted, Takes
<1>3. NoiseExpired(h) \in NoisesCounting
  <2> DEFINE e == NoiseExpired(h)
  <2>1. e \in Noises /\ e.countdown \in Nat /\ e.countdown > 1 /\ e.on = h.on
    BY <1>1, NoiseExpiredTyped
  <2> HIDE DEF e
  <2>2. e.countdown > 0
    BY <2>1
  <2> QED  BY <1>1, <2>1, <2>2 DEF NoisesCounting, Counts, e
<1>4. Timed(h, 1) \in NoisesCounting /\ Timed(h, 1).countdown = h.countdown
  BY <1>1, TimedTyped DEF NoisesCounting, Counts
<1>5. h.countdown \in Nat
  BY <1>1, NoiseTypes
<1> QED  BY <1>1, <1>2, <1>3, <1>4, <1>5, NoiseExpiredTimed

NoiseEnded(h, left) ==
    Put(Put(h, "countdown", h.countdown - left), "reloaded", left = 0)

LEMMA NoiseEndedTyped ==
    ASSUME NEW h \in Noises, NEW left \in Nat, left < h.countdown
    PROVE  /\ NoiseEnded(h, left) \in Noises /\ NoiseEnded(h, left).on = h.on
           /\ NoiseEnded(h, left).countdown = h.countdown - left
           /\ NoiseEnded(h, left).countdown > 0
<1> DEFINE d == h.countdown - left
           z == left = 0
           a == Put(h, "countdown", d)
<1>1. d \in Nat /\ d > 0
  BY NoiseTypes
<1>2. z \in BOOLEAN
  OBVIOUS
<1>3. NoiseEnded(h, left) = Put(a, "reloaded", z)
  BY DEF NoiseEnded
<1> HIDE DEF d, z
<1>4. a \in Noises /\ a.countdown = d
  BY <1>1, NoisePutNat, NoiseReads
<1>5. a.on = h.on
  BY OtherField
<1> HIDE DEF a
<1>6. NoiseEnded(h, left) \in Noises
  BY <1>2, <1>3, <1>4, NoisePutFlag
<1>7. NoiseEnded(h, left).on = h.on /\ NoiseEnded(h, left).countdown = d
  BY <1>3, <1>4, <1>5, OtherField
<1> QED  BY <1>1, <1>6, <1>7 DEF d

LEMMA GeneratedIs ==
    ASSUME NEW g, NEW c
    PROVE  /\ c = 0 => Generated(g, c) = g
           /\ c # 0 /\ ~Counts(g) => Generated(g, c) = Timed(g, c)
           /\ c # 0 /\ Counts(g) =>
                  Generated(g, c) = NoiseEnded(Loop(Armed(Timed(g, c)), c)[1],
                                               Loop(Armed(Timed(g, c)), c)[2])
<1> DEFINE h == Loop(Armed(Timed(g, c)), c)[1]
           left == Loop(Armed(Timed(g, c)), c)[2]
           d == h.countdown - left
           z == left = 0
<1>1. Generated(g, c) = IF c = 0 THEN g
                        ELSE IF ~g.on /\ RunsCgb THEN Timed(g, c)
                        ELSE [h EXCEPT !.countdown = @ - left, !.reloaded = left = 0]
  BY DEF Generated
<1> HIDE DEF h, left
<1>2. [h EXCEPT !.countdown = @ - left, !.reloaded = left = 0]
          = [h EXCEPT !.countdown = d, !.reloaded = z]
  OBVIOUS
<1>3. [h EXCEPT !.countdown = d, !.reloaded = z] = Put(Put(h, "countdown", d), "reloaded", z)
  <2> HIDE DEF d, z
  <2> QED  BY DEF Put
<1>4. [h EXCEPT !.countdown = @ - left, !.reloaded = left = 0] = NoiseEnded(h, left)
  BY <1>2, <1>3 DEF NoiseEnded
<1> QED  BY <1>1, <1>4 DEF Counts, h, left

LEMMA ClockCounterIs ==
    ASSUME NEW g
    PROVE  /\ ~Counts(g) => ClockCounter(g) = Timed(g, 1)
           /\ Counts(g) /\ Armed(Timed(g, 1)).countdown = 1 =>
                  ClockCounter(g) = Put(NoiseExpired(Armed(Timed(g, 1))), "reloaded", TRUE)
           /\ Counts(g) /\ Armed(Timed(g, 1)).countdown # 1 =>
                  ClockCounter(g) = Put(Put(Armed(Timed(g, 1)), "countdown",
                                            Armed(Timed(g, 1)).countdown - 1),
                                        "reloaded", FALSE)
<1> DEFINE a == Armed(Timed(g, 1))
           e == NoiseExpired(a)
           n == a.countdown - 1
           yes == TRUE
           no == FALSE
<1>1. ClockCounter(g) = IF ~g.on /\ RunsCgb THEN Timed(g, 1)
                        ELSE IF a.countdown = 1 THEN [e EXCEPT !.reloaded = yes]
                        ELSE [a EXCEPT !.countdown = @ - 1, !.reloaded = no]
  BY DEF ClockCounter
<1> HIDE DEF a, e, yes, no
<1>2. [a EXCEPT !.countdown = @ - 1, !.reloaded = no] = [a EXCEPT !.countdown = n, !.reloaded = no]
  OBVIOUS
<1>3. [a EXCEPT !.countdown = n, !.reloaded = no] = Put(Put(a, "countdown", n), "reloaded", no)
  <2> HIDE DEF n
  <2> QED  BY DEF Put
<1>4. [e EXCEPT !.reloaded = yes] = Put(e, "reloaded", yes)
  BY DEF Put
<1> QED  BY <1>1, <1>2, <1>3, <1>4 DEF Counts, a, e, yes, no

(* One cycle after a round that has cycles left, and after one that ends.  *)
LEMMA NoiseEndsRunning ==
    ASSUME NEW h \in Noises, Counts(h), NEW left \in Nat, left + 1 < h.countdown
    PROVE  ClockCounter(NoiseEnded(h, left)) = NoiseEnded(Timed(h, 1), left + 1)
<1> DEFINE x == NoiseEnded(h, left)
           d == h.countdown - left
           e == h.countdown - (left + 1)
           z == left = 0
           no == FALSE
           t == Timed(h, 1)
           u == Timed(x, 1)
<1>1. h.countdown \in Nat /\ left < h.countdown /\ e = d - 1 /\ d # 1 /\ (left + 1 = 0) = no
  BY NoiseTypes
<1>2. x \in Noises /\ x.on = h.on /\ x.countdown = d /\ x.countdown > 0
  BY <1>1, NoiseEndedTyped
<1>3. u \in Noises /\ u.countdown = x.countdown /\ Counts(x)
  <2>1. h.on \/ ~RunsCgb
    BY DEF Counts
  <2> HIDE DEF x
  <2>2. Counts(x)
    BY <1>2, <2>1, Zenon DEF Counts
  <2>3. \A q \in Noises : Timed(q, 1) \in Noises /\ Timed(q, 1).countdown = q.countdown
    BY TimedTyped
  <2>4. u \in Noises /\ u.countdown = x.countdown
    BY <1>2, <2>3, Zenon
  <2> QED  BY <2>2, <2>4
<1>4. Armed(u) = u
  <2> HIDE DEF u, x
  <2> QED  BY <1>2, <1>3, ArmedTyped
<1>5. u = Put(Put(t, "countdown", d), "reloaded", z)
  <2>1. x = Put(Put(h, "countdown", d), "reloaded", z)
    BY DEF NoiseEnded
  <2> HIDE DEF d, z, x
  <2>2. Timed(Put(h, "countdown", d), 1) = Put(t, "countdown", d)
    BY TimedPut
  <2> DEFINE y == Put(h, "countdown", d)
  <2> HIDE DEF y, t
  <2>3. Timed(Put(y, "reloaded", z), 1) = Put(Timed(y, 1), "reloaded", z)
    BY TimedPut
  <2> QED  BY <2>1, <2>2, <2>3 DEF y
<1>6. ClockCounter(x) = Put(Put(u, "countdown", e), "reloaded", no)
  <2> HIDE DEF x, u, d, e, no
  <2>1. ClockCounter(x) = Put(Put(u, "countdown", u.countdown - 1), "reloaded", FALSE)
    BY <1>1, <1>2, <1>3, <1>4, ClockCounterIs DEF u
  <2> QED  BY <1>1, <1>2, <1>3, <2>1 DEF no
<1>7. NoiseEnded(t, left + 1) = Put(Put(t, "countdown", e), "reloaded", no)
  <2>1. t.countdown = h.countdown
    BY TimedTyped
  <2> HIDE DEF t, no
  <2> QED  BY <1>1, <2>1 DEF NoiseEnded
<1>8. Put(Put(Put(Put(t, "countdown", d), "reloaded", z), "countdown", e), "reloaded", no)
         = Put(Put(t, "countdown", e), "reloaded", no)
  <2> HIDE DEF t, d, z, e, no
  <2> QED  BY DEF Put
<1> HIDE DEF x, u, t, d, e, z, no
<1>9. ClockCounter(x) = NoiseEnded(t, left + 1)
  BY <1>5, <1>6, <1>7, <1>8
<1> QED  BY <1>9 DEF x, t

LEMMA NoiseEndsExpiring ==
    ASSUME NEW h \in Noises, Counts(h), NEW left \in Nat, left + 1 = h.countdown
    PROVE  ClockCounter(NoiseEnded(h, left)) = NoiseEnded(Timed(NoiseExpired(h), 1), 0)
<1> DEFINE x == NoiseEnded(h, left)
           d == h.countdown - left
           z == left = 0
           yes == TRUE
           t == Timed(h, 1)
           u == Timed(x, 1)
           q == Timed(NoiseExpired(h), 1)
<1>1. h.countdown \in Nat /\ left < h.countdown /\ d = 1
  BY NoiseTypes
<1>2. x \in Noises /\ x.on = h.on /\ x.countdown = 1 /\ x.countdown > 0
  BY <1>1, NoiseEndedTyped
<1>3. u \in Noises /\ u.countdown = 1 /\ u.countdown > 0 /\ Counts(x)
  <2> HIDE DEF x
  <2>0. x \in Noises
    BY <1>2
  <2>1. u \in Noises /\ u.countdown = x.countdown
    BY <2>0, TimedTyped
  <2> QED  BY <1>2, <2>1 DEF Counts
<1>4. Armed(u) = u
  <2> HIDE DEF u, x
  <2> QED  BY <1>3, ArmedTyped
<1>5. ClockCounter(x) = Put(NoiseExpired(u), "reloaded", yes)
  <2> HIDE DEF x, u, yes
  <2> QED  BY <1>3, <1>4, ClockCounterIs DEF u, yes
<1>6. NoiseExpired(u) = Put(q, "reloaded", z)
  <2>1. x = Put(Put(h, "countdown", d), "reloaded", z)
    BY DEF NoiseEnded
  <2>2. NoiseExpired(u) = Timed(NoiseExpired(x), 1)
    <3> HIDE DEF x
    <3> QED  BY <1>2, NoiseExpiredTimed
  <2> HIDE DEF d, z, x, u
  <2> DEFINE y == Put(h, "countdown", d)
  <2>3. NoiseExpired(y) = NoiseExpired(h)
    BY NoiseExpiredCountdown
  <2> HIDE DEF y
  <2>4. NoiseExpired(Put(y, "reloaded", z)) = Put(NoiseExpired(y), "reloaded", z)
    BY NoiseExpiredPut DEF Unread
  <2>5. NoiseExpired(x) = Put(NoiseExpired(h), "reloaded", z)
    BY <2>1, <2>3, <2>4 DEF y
  <2> DEFINE e == NoiseExpired(h)
  <2> HIDE DEF e
  <2>6. Timed(Put(e, "reloaded", z), 1) = Put(Timed(e, 1), "reloaded", z)
    BY TimedPut
  <2> QED  BY <2>2, <2>5, <2>6 DEF e
<1>7. q \in Noises /\ q.countdown \in Nat
  <2> DEFINE e == NoiseExpired(h)
  <2>1. e \in Noises
    BY NoiseExpiredTyped
  <2> HIDE DEF e
  <2>2. Timed(e, 1) \in Noises
    BY <2>1, TimedTyped
  <2> QED  BY <2>2, NoiseTypes DEF e
<1>8. NoiseEnded(q, 0) = Put(q, "reloaded", yes)
  <2> HIDE DEF q
  <2>1. q.countdown - 0 = q.countdown /\ (0 = 0) = yes
    BY <1>7
  <2> HIDE DEF yes
  <2> QED  BY <1>7, <2>1, NoiseSame DEF NoiseEnded
<1>9. Put(Put(q, "reloaded", z), "reloaded", yes) = Put(q, "reloaded", yes)
  <2> HIDE DEF q, z, yes
  <2> QED  BY PutAgain
<1> HIDE DEF x, u, q, z, yes
<1> QED  BY <1>5, <1>6, <1>8, <1>9 DEF x, q

(* A batch of no cycles arms the countdown, which the next cycle does too. *)
LEMMA NoiseNothing ==
    ASSUME NEW g \in Noises, Counts(g)
    PROVE  ClockCounter(NoiseEnded(Armed(g), 0)) = ClockCounter(g)
<1> DEFINE a == Armed(g)
           x == NoiseEnded(a, 0)
           yes == TRUE
           no == FALSE
           n == IF g.countdown = 0 THEN Divisor(g) ELSE g.countdown
           t == Timed(g, 1)
           s == Armed(t)
           u == Timed(x, 1)
<1>1. a \in Noises /\ a.countdown \in Nat /\ a.countdown > 0 /\ a.on = g.on
  BY ArmedTyped
<1>2. x = Put(a, "reloaded", yes)
  <2> HIDE DEF a
  <2>1. a.countdown - 0 = a.countdown /\ (0 = 0) = yes
    BY <1>1
  <2> HIDE DEF yes
  <2> QED  BY <1>1, <2>1, NoiseSame DEF NoiseEnded
<1>3. x \in Noises /\ x.countdown = a.countdown /\ x.countdown > 0 /\ x.on = g.on
  <2> HIDE DEF a
  <2>1. a.countdown - 0 = a.countdown
    BY <1>1
  <2>2. 0 < a.countdown
    BY <1>1
  <2> QED  BY <1>1, <2>1, <2>2, NoiseEndedTyped
<1>4. s = Put(t, "countdown", n)
  <2>1. t.countdown = g.countdown /\ Divisor(t) = Divisor(g)
    BY TimedTyped
  <2> HIDE DEF t
  <2> QED  BY <2>1, ArmedPuts
<1>5. u = Put(s, "reloaded", yes)
  <2>1. Timed(a, 1) = s
    <3>1. a = Put(g, "countdown", n)
      BY ArmedPuts
    <3> HIDE DEF a, n, s, t
    <3> QED  BY <1>4, <3>1, TimedPut DEF t
  <2> HIDE DEF a, x, s, yes
  <2>2. Timed(Put(a, "reloaded", yes), 1) = Put(Timed(a, 1), "reloaded", yes)
    BY TimedPut
  <2> QED  BY <1>2, <2>1, <2>2
<1>6. s \in Noises /\ s.countdown \in Nat /\ s.countdown > 0
  <2>1. t \in Noises
    BY TimedTyped
  <2> HIDE DEF t
  <2> QED  BY <2>1, ArmedTyped
<1>7. Armed(u) = u /\ u.countdown = s.countdown /\ Counts(x)
  <2>1. u \in Noises /\ u.countdown > 0
    <3> HIDE DEF x
    <3> QED  BY <1>3, TimedTyped
  <2>2. Armed(u) = u
    <3> HIDE DEF u
    <3> QED  BY <2>1, ArmedTyped
  <2>3. u.countdown = s.countdown
    <3> HIDE DEF u, s, yes
    <3> QED  BY <1>5, OtherField
  <2> HIDE DEF x
  <2> QED  BY <1>3, <2>2, <2>3 DEF Counts
<1> DEFINE d == s.countdown - 1
<1> HIDE DEF a, x, n, t, s, u
<1>8. CASE s.countdown = 1
  <2>1. ClockCounter(x) = Put(NoiseExpired(u), "reloaded", yes)
    BY <1>7, <1>8, ClockCounterIs DEF u
  <2>2. ClockCounter(g) = Put(NoiseExpired(s), "reloaded", yes)
    BY <1>8, ClockCounterIs DEF s, t
  <2>3. NoiseExpired(u) = Put(NoiseExpired(s), "reloaded", yes)
    BY <1>5, NoiseExpiredPut DEF Unread
  <2> DEFINE e == NoiseExpired(s)
  <2> HIDE DEF yes, e
  <2>4. Put(Put(e, "reloaded", yes), "reloaded", yes) = Put(e, "reloaded", yes)
    BY PutAgain
  <2> QED  BY <2>1, <2>2, <2>3, <2>4 DEF e, x, a
<1>9. CASE s.countdown # 1
  <2>1. ClockCounter(x) = Put(Put(u, "countdown", d), "reloaded", no)
    BY <1>7, <1>9, ClockCounterIs DEF u
  <2>2. ClockCounter(g) = Put(Put(s, "countdown", d), "reloaded", no)
    BY <1>9, ClockCounterIs DEF s, t
  <2> HIDE DEF yes, no, d
  <2>3. Put(Put(Put(s, "reloaded", yes), "countdown", d), "reloaded", no)
           = Put(Put(s, "countdown", d), "reloaded", no)
    BY DEF Put
  <2> QED  BY <1>5, <2>1, <2>2, <2>3 DEF x, a
<1> QED  BY <1>8, <1>9

(* A batch without a late start is its cycles one by one. *)
LEMMA GeneratedNext ==
    ASSUME run_kind = "noise", NEW g \in Noises, NEW c \in Nat
    PROVE  Generated(g, c + 1) = ClockCounter(Generated(g, c))
<1>0. c + 1 # 0
  OBVIOUS
<1>1. CASE ~Counts(g)
  <2>1. Generated(g, c + 1) = Timed(g, c + 1)
    BY <1>0, <1>1, GeneratedIs
  <2> DEFINE x == Timed(g, c)
  <2>2. Generated(g, c) = x
    BY <1>1, GeneratedIs, TimedNothing
  <2>3. x.on = g.on
    BY TimedTyped
  <2>4. Timed(x, 1) = Timed(g, c + 1)
    BY TimedTwice
  <2> HIDE DEF x
  <2>5. ClockCounter(x) = Timed(x, 1)
    BY <1>1, <2>3, ClockCounterIs DEF Counts
  <2> QED  BY <2>1, <2>2, <2>4, <2>5
<1>2. CASE Counts(g)
  <2> DEFINE t == Timed(g, c)
             b == Armed(t)
  <2>1. t \in Noises /\ t.on = g.on /\ t.countdown = g.countdown /\ Divisor(t) = Divisor(g)
    BY TimedTyped
  <2>2. b \in NoisesCounting
    <3> HIDE DEF t
    <3> QED  BY <1>2, <2>1, ArmedTyped DEF NoisesCounting, Counts
  <2>3. Armed(Timed(g, c + 1)) = Timed(b, 1)
    <3> DEFINE n == IF g.countdown = 0 THEN Divisor(g) ELSE g.countdown
    <3>1. b = Put(t, "countdown", n)
      <4> HIDE DEF t
      <4> QED  BY <2>1, ArmedPuts
    <3>2. Timed(t, 1) = Timed(g, c + 1)
      BY TimedTwice
    <3>3. Timed(t, 1).countdown = g.countdown /\ Divisor(Timed(t, 1)) = Divisor(g)
      <4> HIDE DEF t
      <4> QED  BY <2>1, TimedTyped
    <3> DEFINE s == Timed(t, 1)
    <3>4. Armed(s) = Put(s, "countdown", n)
      <4> HIDE DEF s
      <4> QED  BY <3>3, ArmedPuts DEF s
    <3> HIDE DEF t, n, b
    <3>5. Timed(Put(t, "countdown", n), 1) = Put(s, "countdown", n)
      BY TimedPut
    <3> QED  BY <3>1, <3>2, <3>4, <3>5
  <2> HIDE DEF b
  <2>4. PICK h \in NoisesCounting, left \in Nat : OneLonger(b, c, h, left)
    BY <2>2, NoiseClosed, LoopOneLonger
  <2>5. h \in Noises /\ Counts(h) /\ h.countdown \in Nat
    BY NoiseTypes DEF NoisesCounting
  <2>6. \A x : Expired(x) = NoiseExpired(x) /\ Shifted(x) = Timed(x, 1) /\ Takes(x) = x.countdown
    BY DEF Expired, Shifted, Takes
  <2>7. left < h.countdown /\ (left + 1 # Takes(h) => left + 1 < h.countdown)
    <3> DEFINE n == h.countdown
    <3>1. n \in Nat /\ Takes(h) = n
      BY <2>5, <2>6
    <3> HIDE DEF n
    <3> QED  BY <2>4, <3>1 DEF n, OneLonger
  <2>8. ClockCounter(NoiseEnded(h, left)) = ClockCounter(Generated(g, c))
    <3>1. CASE c = 0
      <4>1. b = Armed(g)
        BY <3>1, TimedNothing DEF b
      <4>2. h = b /\ left = 0
        BY <2>4, <3>1, LoopNothing DEF OneLonger
      <4>3. Generated(g, c) = g
        BY <3>1, GeneratedIs
      <4> QED  BY <1>2, <4>1, <4>2, <4>3, NoiseNothing
    <3>2. CASE c # 0
      <4>1. Generated(g, c) = NoiseEnded(h, left)
        BY <1>2, <2>4, <3>2, GeneratedIs DEF OneLonger, b
      <4> QED  BY <4>1
    <3> QED  BY <3>1, <3>2
  <2>9. Generated(g, c + 1) = NoiseEnded(Loop(Timed(b, 1), c + 1)[1], Loop(Timed(b, 1), c + 1)[2])
    BY <1>0, <1>2, <2>3, GeneratedIs
  <2>10. CASE left + 1 = Takes(h)
    <3>1. Generated(g, c + 1) = NoiseEnded(Timed(NoiseExpired(h), 1), 0)
      BY <2>4, <2>6, <2>9, <2>10 DEF OneLonger
    <3> QED  BY <2>5, <2>6, <2>8, <2>10, <3>1, NoiseEndsExpiring
  <2>11. CASE left + 1 # Takes(h)
    <3>1. Generated(g, c + 1) = NoiseEnded(Timed(h, 1), left + 1)
      BY <2>4, <2>6, <2>9, <2>11 DEF OneLonger
    <3> QED  BY <2>5, <2>7, <2>8, <2>11, <3>1, NoiseEndsRunning
  <2> QED  BY <2>10, <2>11
<1> QED  BY <1>1, <1>2

(* Every number of cycles is reached one by one. *)
LEMMA StepsReach ==
    ASSUME NEW S, 0 \in S, \A n \in Nat : n \in S => n + 1 \in S
    PROVE  \A n \in Nat : n \in S
<1> DEFINE Others == {n \in Nat : n \notin S}
<1> SUFFICES ASSUME Others # {} PROVE FALSE
  OBVIOUS
<1>1. PICK m \in Others : \A y \in Others : m <= y
  <2>1. Others \subseteq Nat
    OBVIOUS
  <2> HIDE DEF Others
  <2> QED  BY <2>1, LeastPlace
<1>2. m \in Nat /\ m # 0
  OBVIOUS
<1> DEFINE k == m - 1
<1>3. k \in Nat /\ k + 1 = m /\ ~(m <= k)
  BY <1>2
<1> HIDE DEF k
<1>4. k \in S
  BY <1>1, <1>3
<1> QED  BY <1>3, <1>4

LEMMA ClockCounterTyped ==
    ASSUME NEW g \in Noises
    PROVE  /\ ClockCounter(g) \in Noises
           /\ ClockCounter(g).alignment = (g.alignment + 1) % 256
           /\ ClockCounter(g).delayed = g.delayed
<1> DEFINE t == Timed(g, 1)
           a == Armed(t)
           e == NoiseExpired(a)
           n == (g.alignment + 1) % 256
           yes == TRUE
           no == FALSE
<1>1. t \in Noises /\ t.alignment = n /\ t.delayed = g.delayed
  BY TimedTyped
<1>2. a \in Noises /\ a.alignment = n /\ a.delayed = g.delayed
  <2> HIDE DEF t, n
  <2> QED  BY <1>1, ArmedTyped
<1>3. a.countdown \in Nat /\ a.countdown > 0
  <2> HIDE DEF t, n
  <2> QED  BY <1>1, ArmedTyped
<1>4. e \in Noises /\ e.alignment = n /\ e.delayed = g.delayed
  <2> HIDE DEF a, n
  <2> QED  BY <1>2, NoiseExpiredTyped
<1> DEFINE d == a.countdown - 1
           r == Put(e, "reloaded", yes)
           b == Put(a, "countdown", d)
           s == Put(b, "reloaded", no)
<1>5. ClockCounter(g) = t \/ ClockCounter(g) = r \/ ClockCounter(g) = s
  BY ClockCounterIs
<1>6. d \in Nat
  BY <1>3
<1>7. yes \in BOOLEAN /\ no \in BOOLEAN
  OBVIOUS
<1> HIDE DEF t, a, e, d, n, yes, no
<1>8. r \in Noises
  BY <1>4, <1>7, NoisePutFlag
<1>9. r.alignment = n /\ r.delayed = g.delayed
  BY <1>4, OtherField
<1>10. b \in Noises
  BY <1>2, <1>6, NoisePutNat
<1>11. b.alignment = n /\ b.delayed = g.delayed
  BY <1>2, OtherField
<1> HIDE DEF b, r
<1>12. s \in Noises
  BY <1>7, <1>10, NoisePutFlag
<1>13. s.alignment = n /\ s.delayed = g.delayed
  BY <1>11, OtherField
<1> HIDE DEF s
<1> QED  BY <1>1, <1>5, <1>8, <1>9, <1>12, <1>13 DEF n

LEMMA ClockCounterPut ==
    ASSUME NEW g \in Noises, NEW v
    PROVE  ClockCounter(Put(g, "delayed", v)) = Put(ClockCounter(g), "delayed", v)
<1> DEFINE x == Put(g, "delayed", v)
           t == Timed(g, 1)
           u == Timed(x, 1)
           a == Armed(t)
           b == Armed(u)
           e == NoiseExpired(a)
           d == a.countdown - 1
           yes == TRUE
           no == FALSE
           n == IF t.countdown = 0 THEN Divisor(t) ELSE t.countdown
<1>1. x.on = g.on
  BY OtherField
<1>2. u = Put(t, "delayed", v)
  BY TimedPut
<1>3. a = Put(t, "countdown", n)
  BY ArmedPuts
<1> HIDE DEF x, t, u
<1>4. u.countdown = t.countdown /\ Divisor(u) = Divisor(t)
  BY <1>2, OtherField, UnreadPut DEF Unread
<1>5. b = Put(u, "countdown", n)
  BY <1>4, ArmedPuts
<1> HIDE DEF n, a, b
<1>6. b = Put(a, "delayed", v)
  BY <1>2, <1>3, <1>5, PutsCommute
<1>7. b.countdown = a.countdown
  BY <1>6, OtherField
<1>8. NoiseExpired(b) = Put(e, "delayed", v)
  BY <1>6, NoiseExpiredPut DEF Unread
<1> HIDE DEF yes, no, d, e
<1>9. CASE ~Counts(g)
  <2>1. ClockCounter(x) = u /\ ClockCounter(g) = t
    BY <1>1, <1>9, ClockCounterIs DEF u, t, Counts
  <2> QED  BY <1>2, <2>1 DEF x
<1>10. CASE Counts(g) /\ a.countdown = 1
  <2>1. ClockCounter(x) = Put(NoiseExpired(b), "reloaded", yes)
    BY <1>1, <1>7, <1>10, ClockCounterIs DEF u, b, Counts, yes
  <2>2. ClockCounter(g) = Put(e, "reloaded", yes)
    BY <1>10, ClockCounterIs DEF t, a, e, yes
  <2>3. Put(Put(e, "delayed", v), "reloaded", yes) = Put(Put(e, "reloaded", yes), "delayed", v)
    BY PutsCommute
  <2> QED  BY <1>8, <2>1, <2>2, <2>3 DEF x
<1>11. CASE Counts(g) /\ a.countdown # 1
  <2>1. ClockCounter(x) = Put(Put(b, "countdown", d), "reloaded", no)
    BY <1>1, <1>7, <1>11, ClockCounterIs DEF u, b, Counts, no, d
  <2>2. ClockCounter(g) = Put(Put(a, "countdown", d), "reloaded", no)
    BY <1>11, ClockCounterIs DEF t, a, no, d
  <2>3. Put(Put(Put(a, "delayed", v), "countdown", d), "reloaded", no)
           = Put(Put(Put(a, "countdown", d), "reloaded", no), "delayed", v)
    BY DEF Put
  <2> QED  BY <1>6, <2>1, <2>2, <2>3 DEF x
<1> QED  BY <1>9, <1>10, <1>11

LEMMA GeneratedNothing == \A g : Generated(g, 0) = g
  BY GeneratedIs

LEMMA GeneratedTyped ==
    ASSUME run_kind = "noise", NEW g \in Noises, NEW c \in Nat
    PROVE  /\ Generated(g, c) \in Noises
           /\ Generated(g, c).alignment = (g.alignment + c) % 256
           /\ Generated(g, c).delayed = g.delayed
<1> DEFINE S == {n \in Nat : /\ Generated(g, n) \in Noises
                             /\ Generated(g, n).alignment = (g.alignment + n) % 256
                             /\ Generated(g, n).delayed = g.delayed}
<1>0. g.alignment \in 0 .. 255
  BY NoiseTypes DEF Bytes
<1>1. 0 \in S
  <2>1. (g.alignment + 0) % 256 = g.alignment
    BY <1>0
  <2> QED  BY <2>1, GeneratedNothing
<1>2. ASSUME NEW n \in Nat, n \in S PROVE n + 1 \in S
  <2> DEFINE x == Generated(g, n)
             q == g.alignment
  <2>1. x \in Noises /\ x.alignment = (q + n) % 256 /\ x.delayed = g.delayed
    BY <1>2
  <2>2. Generated(g, n + 1) = ClockCounter(x)
    BY GeneratedNext
  <2> HIDE DEF x
  <2>3. ClockCounter(x) \in Noises /\ ClockCounter(x).alignment = (x.alignment + 1) % 256
        /\ ClockCounter(x).delayed = x.delayed
    BY <2>1, ClockCounterTyped
  <2>4. (((q + n) % 256) + 1) % 256 = (q + (n + 1)) % 256
    <3> HIDE DEF q
    <3> QED  BY <1>0 DEF q
  <2> QED  BY <2>1, <2>2, <2>3, <2>4
<1> HIDE DEF S
<1>3. c \in S
  BY <1>1, <1>2, StepsReach
<1> QED  BY <1>3 DEF S

LEMMA GeneratedPut ==
    ASSUME run_kind = "noise", NEW g \in Noises, NEW c \in Nat, NEW v \in Nat
    PROVE  Generated(Put(g, "delayed", v), c) = Put(Generated(g, c), "delayed", v)
<1> DEFINE x == Put(g, "delayed", v)
           S == {n \in Nat : Generated(x, n) = Put(Generated(g, n), "delayed", v)}
<1>0. x \in Noises
  BY NoisePutNat
<1>1. 0 \in S
  BY GeneratedNothing
<1>2. ASSUME NEW n \in Nat, n \in S PROVE n + 1 \in S
  <2>1. Generated(x, n) = Put(Generated(g, n), "delayed", v)
    BY <1>2
  <2> HIDE DEF x
  <2>2. Generated(x, n + 1) = ClockCounter(Generated(x, n))
    BY <1>0, GeneratedNext
  <2>3. Generated(g, n + 1) = ClockCounter(Generated(g, n))
    BY GeneratedNext
  <2>4. ClockCounter(Put(Generated(g, n), "delayed", v))
           = Put(ClockCounter(Generated(g, n)), "delayed", v)
    BY GeneratedTyped, ClockCounterPut
  <2> QED  BY <2>1, <2>2, <2>3, <2>4
<1> HIDE DEF S
<1>3. c \in S
  BY <1>1, <1>2, StepsReach
<1> QED  BY <1>3 DEF S

(* The countdown that a trigger sets is at least two. *)
StartValue(g) ==
    LET aligned == Alignments[(g.alignment % 4) + 1]
        early == (g.alignment + 1) % 4 < 2
        base == IF Divisor(g) = 2
                THEN 6 + (IF ~RunsUpToC THEN 1 - g.lf_div
                          ELSE IF double THEN g.lf_div ELSE g.lf_div - 1)
                ELSE (Divisor(g) + 4 + aligned)
                         - (IF ~early THEN 0 ELSE IF g.nr43.divisor = 1 THEN 2 ELSE 4)
        quirk == IF ~RunsUpToC THEN 0
                 ELSE IF ~double THEN -2
                 ELSE IF g.nr43.shift = 0 /\ g.nr43.divisor # 0 THEN -1
                 ELSE IF g.nr43.shift # 0 /\ g.nr43.divisor = 0 THEN 1
                 ELSE 0
    IN  base + quirk

StartDelta(g) ==
    IF Divisor(g) # 2 /\ (g.alignment + 1) % 4 < 2 /\ g.nr43.divisor = 1 THEN 2 ELSE 0

LEMMA AlignmentsTyped == \A n \in Nat : Alignments[(n % 4) + 1] \in Nat
<1> SUFFICES ASSUME NEW n \in Nat PROVE Alignments[(n % 4) + 1] \in Nat
  OBVIOUS
<1> DEFINE i == (n % 4) + 1
<1>1. i \in 1 .. 4
  OBVIOUS
<1> HIDE DEF i
<1>2. <<2, 1, 4, 3>>[i] \in Nat /\ <<2, 1, 0, 3>>[i] \in Nat
  <2>1. i = 1 \/ i = 2 \/ i = 3 \/ i = 4
    BY <1>1
  <2> QED  BY <2>1
<1>3. Alignments[i] \in Nat
  <2>1. CASE RunsUpToC
    BY <1>2, <2>1 DEF Alignments
  <2>2. CASE ~RunsUpToC
    BY <1>2, <2>2 DEF Alignments
  <2> QED  BY <2>1, <2>2
<1> QED  BY <1>3 DEF i

LEMMA StartValueTyped ==
    ASSUME NEW g \in Noises
    PROVE  StartValue(g) \in Nat
<1> DEFINE n == Alignments[(g.alignment % 4) + 1]
           d == g.nr43.divisor
           w == Divisor(g)
           l == g.lf_div
           early == (g.alignment + 1) % 4 < 2
           short == g.nr43.shift = 0
           x == IF ~RunsUpToC THEN 1 - l ELSE IF double THEN l ELSE l - 1
           y == IF ~early THEN 0 ELSE IF d = 1 THEN 2 ELSE 4
           q == IF ~RunsUpToC THEN 0
                ELSE IF ~double THEN -2
                ELSE IF g.nr43.shift = 0 /\ d # 0 THEN -1
                ELSE IF g.nr43.shift # 0 /\ d = 0 THEN 1
                ELSE 0
<1>1. n \in Nat
  <2>1. g.alignment \in Nat
    BY NoiseTypes DEF Bytes
  <2> QED  BY <2>1, AlignmentsTyped
<1>2. w = 2 \/ (w \in Nat /\ w >= 4)
  <2>1. d \in 0 .. 7
    BY NoiseTypes DEF Polynomial
  <2>2. w = IF d = 0 THEN 2 ELSE 4 * d
    BY DEF Divisor
  <2> HIDE DEF d, w
  <2> QED  BY <2>1, <2>2
<1>3. l \in 0 .. 1
  BY NoiseTypes DEF Bits
<1>4. StartValue(g) = (IF w = 2 THEN 6 + x ELSE (w + 4 + n) - y) + q
  BY DEF StartValue
<1> HIDE DEF n, d, w, l
<1>5. x \in {-1, 0, 1}
  BY <1>3
<1>6. y \in {0, 2, 4}
  OBVIOUS
<1>7. q \in {-2, -1, 0, 1}
  OBVIOUS
<1> HIDE DEF x, y, q
<1>8. (IF w = 2 THEN 6 + x ELSE (w + 4 + n) - y) + q \in Nat
  BY <1>1, <1>2, <1>5, <1>6, <1>7
<1> QED  BY <1>4, <1>8

LEMMA StartCountdownTyped ==
    ASSUME NEW g \in Noises
    PROVE  /\ StartCountdown(g) \in Noises
           /\ StartCountdown(g).alignment = g.alignment
           /\ StartCountdown(g).delayed = g.delayed
<1> DEFINE n == StartValue(g)
           k == StartDelta(g)
           none == {}
           yes == TRUE
           no == FALSE
           a == Put(g, "countdown", n)
           b == Put(a, "delta", k)
           c == Put(b, "lfsr", none)
           d == Put(c, "sample", no)
           e == Put(d, "on", yes)
<1>1. n \in Nat
  BY StartValueTyped
<1>2. k \in Nat
  BY DEF StartDelta
<1>3. none \in Registers /\ yes \in BOOLEAN /\ no \in BOOLEAN
  BY DEF Registers
<1>4. StartCountdown(g) = [g EXCEPT !.countdown = n, !.delta = k, !.lfsr = none, !.sample = no,
                                    !.on = yes]
  BY DEF StartCountdown, StartValue, StartDelta
<1> HIDE DEF n, k, none, yes, no
<1>5. StartCountdown(g) = e
  BY <1>4 DEF Put
<1>6. e.alignment = g.alignment /\ e.delayed = g.delayed
  BY OtherField
<1>7. a \in Noises
  BY <1>1, NoisePutNat
<1> HIDE DEF a
<1>8. b \in Noises
  BY <1>2, <1>7, NoisePutNat
<1> HIDE DEF b
<1>9. c \in Noises
  BY <1>3, <1>8, NoisePutLfsr
<1> HIDE DEF c
<1>10. d \in Noises
  BY <1>3, <1>9, NoisePutFlag
<1> HIDE DEF d
<1>11. e \in Noises
  BY <1>3, <1>10, NoisePutFlag
<1> HIDE DEF e
<1> QED  BY <1>5, <1>6, <1>11

(* A start that waits is one that will be aligned. *)
Aligned(g) == g.delayed # 0 => (g.alignment + g.delayed) % 4 = 0

LEMMA StartNoiseTyped ==
    ASSUME NEW g \in Noises
    PROVE  /\ StartNoise(g) \in Noises
           /\ StartNoise(g).alignment = g.alignment
           /\ g.alignment % 4 = 0 => StartNoise(g).delayed = g.delayed
           /\ RunsCgb => StartNoise(g).delayed = g.delayed
           /\ Aligned(g) /\ (RunsCgb \/ g.alignment % 2 = 0) => Aligned(StartNoise(g))
<1> DEFINE six == 6
           x == Put(g, "delayed", six)
           s == StartCountdown(g)
<1>1. s \in Noises /\ s.alignment = g.alignment /\ s.delayed = g.delayed
  BY StartCountdownTyped
<1>2. six \in Nat
  OBVIOUS
<1>3. x \in Noises /\ x.delayed = six
  <2> HIDE DEF six
  <2> QED  BY <1>2, NoisePutNat, NoiseReads
<1>4. x.alignment = g.alignment
  <2> HIDE DEF six
  <2> QED  BY OtherField
<1>5. StartNoise(g) = IF ~RunsCgb /\ g.alignment % 4 # 0 THEN x ELSE s
  BY DEF StartNoise, Put
<1> HIDE DEF x, s
<1>6. CASE ~RunsCgb /\ g.alignment % 4 # 0
  <2>1. StartNoise(g) = x
    BY <1>5, <1>6
  <2>2. g.alignment % 2 = 0 => (x.alignment + x.delayed) % 4 = 0
    <3> DEFINE q == g.alignment
    <3>1. q \in Nat /\ q % 4 # 0
      BY <1>6, NoiseTypes DEF Bytes
    <3> HIDE DEF q
    <3>2. q % 2 = 0 => (q + 6) % 4 = 0
      BY <3>1
    <3> QED  BY <1>3, <1>4, <3>2 DEF q
  <2> QED  BY <1>3, <1>4, <1>6, <2>1, <2>2 DEF Aligned
<1>7. CASE ~(~RunsCgb /\ g.alignment % 4 # 0)
  <2>1. StartNoise(g) = s
    BY <1>5, <1>7
  <2> QED  BY <1>1, <2>1 DEF Aligned
<1> QED  BY <1>6, <1>7

(* The other registers of the noise channel. *)
LEMMA NoisePolynomialTyped ==
    ASSUME NEW g \in Noises, NEW value \in Polynomial
    PROVE  /\ NoisePolynomial(g, value) \in Noises
           /\ NoisePolynomial(g, value).alignment = g.alignment
           /\ NoisePolynomial(g, value).delayed = g.delayed
<1> DEFINE set == Put(g, "nr43", value)
           aligned == IF Divisor(set) = 2 THEN 0 ELSE Alignments[(g.alignment % 4) + 1]
           n == Divisor(set) + aligned
           zero == 0
           a == Put(set, "countdown", n)
           b == Put(a, "delta", zero)
           reloaded == IF g.reloaded
                       THEN [set EXCEPT !.countdown = n, !.delta = zero]
                       ELSE set
           narrow == RunsUpToC \/ value.narrow
           s == StepLfsr(reloaded, narrow)
<1>1. NoisePolynomial(g, value) = reloaded \/ NoisePolynomial(g, value) = s
  BY DEF NoisePolynomial, Put
<1>2. set \in Noises
  BY NoisePutPolynomial
<1>3. set.alignment = g.alignment /\ set.delayed = g.delayed
  BY OtherField
<1> HIDE DEF set
<1>4. n \in Nat /\ zero \in Nat
  <2>1. g.alignment \in Nat
    BY NoiseTypes DEF Bytes
  <2>2. aligned \in Nat
    BY <2>1, AlignmentsTyped
  <2>3. Divisor(set) \in Nat
    BY <1>2, NoiseTypes
  <2> HIDE DEF aligned
  <2> QED  BY <2>2, <2>3
<1> HIDE DEF n, zero, narrow
<1>5. a \in Noises
  BY <1>2, <1>4, NoisePutNat
<1>6. a.alignment = g.alignment /\ a.delayed = g.delayed
  BY <1>3, OtherField
<1>7. reloaded = b \/ reloaded = set
  BY DEF Put
<1> HIDE DEF a
<1>8. b \in Noises
  BY <1>4, <1>5, NoisePutNat
<1>9. b.alignment = g.alignment /\ b.delayed = g.delayed
  BY <1>6, OtherField
<1> HIDE DEF b, reloaded
<1>10. reloaded \in Noises /\ reloaded.alignment = g.alignment /\ reloaded.delayed = g.delayed
  BY <1>2, <1>3, <1>7, <1>8, <1>9
<1>11. s \in Noises /\ s.alignment = g.alignment /\ s.delayed = g.delayed
  BY <1>10, StepLfsrTyped
<1> QED  BY <1>1, <1>10, <1>11

NoisesAligned == {g \in Noises : Aligned(g)}

LEMMA WaitedPuts ==
    \A g, c : Waited(g, c) = Put(g, "delayed", IF g.delayed > c THEN g.delayed - c ELSE 0)
  BY DEF Waited, Put

(***************************************************************************)
(* A batch with a late start, too: the start is aligned when it comes, so  *)
(* that it does not wait again, and the rest of the batch is one without.  *)
(***************************************************************************)
LEMMA NoiseBatch ==
    ASSUME run_kind = "noise", NEW g \in NoisesAligned, NEW c \in Nat
    PROVE  /\ RunNoise(g, c) \in NoisesAligned
           /\ RunNoise(g, c).alignment = (g.alignment + c) % 256
           /\ RunNoise(g, c + 1) = ClockNoise(RunNoise(g, c))
<1> DEFINE d == g.delayed
           q == g.alignment
<1>1. g \in Noises /\ d \in Nat /\ q \in 0 .. 255 /\ (d # 0 => (q + d) % 4 = 0)
  BY NoiseTypes DEF NoisesAligned, Bytes, Aligned
<1> DEFINE W(n) == Put(g, "delayed", n)
<1>2. \A n \in Nat : /\ W(n) \in Noises /\ W(n).delayed = n /\ W(n).alignment = q
  <2> TAKE n \in Nat
  <2>1. W(n) \in Noises
    BY <1>1, NoisePutNat
  <2>2. W(n).delayed = n /\ W(n).alignment = q
    BY <1>1, NoiseReads, OtherField
  <2> QED  BY <2>1, <2>2
<1>3. \A x \in Noises : \A n \in Nat : Put(x, "delayed", n) \in Noises
  BY NoisePutNat
<1>4. \A x \in Noises : x.delayed = 0 => ClockNoise(x) = ClockCounter(x)
  <2> TAKE x \in Noises
  <2> SUFFICES ASSUME x.delayed = 0 PROVE ClockNoise(x) = ClockCounter(x)
    OBVIOUS
  <2>1. Waited(x, 1) = Put(x, "delayed", x.delayed)
    BY WaitedPuts
  <2>2. Waited(x, 1) = x
    BY <2>1, NoiseSame
  <2> QED  BY <2>2 DEF ClockNoise
<1>5. CASE d = 0 \/ c < d
  <2> DEFINE n == IF d > c THEN d - c ELSE 0
             x == Generated(W(n), c)
  <2>1. n \in Nat /\ (d = 0 => n = 0) /\ (d # 0 => n = d - c /\ n # 0)
    BY <1>1, <1>5
  <2>2. RunNoise(g, c) = x
    <3>1. ~StartsLate(g, c)
      BY <1>1, <1>5 DEF StartsLate
    <3>2. Waited(g, c) = W(n)
      BY WaitedPuts
    <3> QED  BY <3>1, <3>2 DEF RunNoise
  <2> HIDE DEF n
  <2>3. W(n) \in Noises /\ W(n).delayed = n /\ W(n).alignment = q
    BY <1>2, <2>1
  <2>4. x \in Noises /\ x.alignment = (q + c) % 256 /\ x.delayed = n
    <3> HIDE DEF W
    <3> QED  BY <2>3, GeneratedTyped
  <2>5. x \in NoisesAligned
    <3>1. n # 0 => (((q + c) % 256) + n) % 4 = 0
      <4> HIDE DEF q, d, x, W
      <4> SUFFICES ASSUME n # 0 PROVE (((q + c) % 256) + n) % 4 = 0
        OBVIOUS
      <4>1. n = d - c /\ (q + d) % 4 = 0
        BY <1>1, <2>1
      <4>2. (((q + c) % 256) + (d - c)) % 4 = (q + d) % 4
        BY <1>1
      <4> QED  BY <4>1, <4>2
    <3> HIDE DEF x, q, d
    <3> QED  BY <2>4, <3>1 DEF NoisesAligned, Aligned
  <2>6. RunNoise(g, c + 1) = ClockNoise(x)
    <3>1. CASE d = 0
      <4>1. ~StartsLate(g, c + 1) /\ Waited(g, c + 1) = W(0)
        <5>1. ~(d > c + 1)
          BY <3>1
        <5> QED  BY <3>1, <5>1, WaitedPuts DEF StartsLate
      <4>2. RunNoise(g, c + 1) = Generated(W(0), c + 1)
        BY <4>1 DEF RunNoise
      <4>3. Generated(W(0), c + 1) = ClockCounter(Generated(W(0), c))
        <5> DEFINE w == W(0)
        <5>1. w \in Noises
          BY <1>2
        <5> HIDE DEF w, W
        <5> QED  BY <5>1, GeneratedNext DEF w
      <4>4. n = 0
        BY <2>1, <3>1
      <4> HIDE DEF W
      <4> QED  BY <1>4, <2>4, <4>2, <4>3, <4>4
    <3>2. CASE d # 0 /\ c + 1 < d
      <4> DEFINE m == n - 1
      <4>1. m \in Nat /\ n > 1 /\ m = d - (c + 1)
        BY <1>1, <2>1, <3>2
      <4>2. ~StartsLate(g, c + 1)
        BY <1>1, <3>2 DEF StartsLate
      <4>3. Waited(g, c + 1) = W(m)
        <5>1. d > c + 1
          BY <1>1, <3>2
        <5> QED  BY <4>1, <5>1, WaitedPuts
      <4>4. Waited(x, 1) = Put(x, "delayed", m)
        <5>1. Waited(x, 1) = Put(x, "delayed", IF n > 1 THEN n - 1 ELSE 0)
          <6> HIDE DEF x
          <6> QED  BY <2>4, WaitedPuts
        <5> QED  BY <4>1, <5>1
      <4>5. n # 1
        BY <4>1
      <4>6. ClockNoise(x) = ClockCounter(Put(x, "delayed", m))
        <5> HIDE DEF x, m
        <5> QED  BY <2>4, <4>4, <4>5 DEF ClockNoise
      <4> HIDE DEF m
      <4>7. Put(x, "delayed", m) = Generated(W(m), c)
        <5>1. Put(W(n), "delayed", m) = W(m)
          BY PutAgain
        <5> HIDE DEF W
        <5>2. Generated(Put(W(n), "delayed", m), c) = Put(Generated(W(n), c), "delayed", m)
          BY <2>3, <4>1, GeneratedPut
        <5> QED  BY <5>1, <5>2
      <4>8. Generated(W(m), c + 1) = ClockCounter(Generated(W(m), c))
        <5> DEFINE w == W(m)
        <5>1. w \in Noises
          BY <1>2, <4>1
        <5> HIDE DEF w
        <5> QED  BY <5>1, GeneratedNext DEF w
      <4>9. RunNoise(g, c + 1) = Generated(W(m), c + 1)
        BY <4>2, <4>3 DEF RunNoise
      <4> QED  BY <4>6, <4>7, <4>8, <4>9
    <3>3. CASE d # 0 /\ ~(c + 1 < d)
      <4> DEFINE y == Generated(W(0), c + 1)
      <4>1. d = c + 1 /\ n = 1
        <5> HIDE DEF d, q, x, W, y
        <5> QED  BY <1>1, <1>5, <2>1, <3>3
      <4>2. StartsLate(g, c + 1) /\ Waited(g, d) = W(0)
        <5>1. ~(d > d) /\ d <= c + 1
          BY <1>1, <4>1
        <5> QED  BY <3>3, <5>1, WaitedPuts DEF StartsLate
      <4>3. RunNoise(g, c + 1) = StartNoise(y)
        <5>1. RunNoise(g, c + 1) = Generated(StartNoise(Generated(W(0), d)), (c + 1) - d)
          BY <4>2 DEF RunNoise
        <5>2. (c + 1) - d = 0
          BY <1>1, <4>1
        <5> QED  BY <4>1, <5>1, <5>2, GeneratedNothing
      <4>4. Waited(x, 1) = Put(x, "delayed", 0)
        <5>1. ~(n > 1)
          BY <4>1
        <5> HIDE DEF x
        <5> QED  BY <2>4, <5>1, WaitedPuts
      <4>5. ClockNoise(x) = StartNoise(ClockCounter(Put(x, "delayed", 0)))
        <5> HIDE DEF x
        <5> QED  BY <2>4, <4>1, <4>4 DEF ClockNoise
      <4> DEFINE zero == 0
      <4>6. zero \in Nat
        OBVIOUS
      <4>7. W(zero) \in Noises
        BY <1>2
      <4> HIDE DEF zero
      <4>8. Put(x, "delayed", zero) = Generated(W(zero), c)
        <5>1. Put(W(n), "delayed", zero) = W(zero)
          BY PutAgain
        <5> HIDE DEF W
        <5>2. Generated(Put(W(n), "delayed", zero), c) = Put(Generated(W(n), c), "delayed", zero)
          BY <2>3, <4>6, GeneratedPut
        <5> QED  BY <5>1, <5>2
      <4>9. Generated(W(zero), c + 1) = ClockCounter(Generated(W(zero), c))
        <5> HIDE DEF W
        <5> QED  BY <4>7, GeneratedNext
      <4> HIDE DEF W, x
      <4> QED  BY <4>3, <4>5, <4>8, <4>9 DEF zero
    <3> HIDE DEF d, x
    <3> QED  BY <3>1, <3>2, <3>3
  <2> HIDE DEF x, q
  <2> QED  BY <2>2, <2>4, <2>5, <2>6 DEF q
<1>6. CASE d # 0 /\ d <= c
  <2> DEFINE y == Generated(W(0), d)
             s == StartNoise(y)
             x == Generated(s, c - d)
  <2>1. y \in Noises /\ y.alignment = (q + d) % 256 /\ y.delayed = 0
    <3> DEFINE w == W(0)
    <3>1. w \in Noises /\ w.delayed = 0 /\ w.alignment = q
      BY <1>2
    <3> HIDE DEF w, W, q, d
    <3>2. Generated(w, d) \in Noises /\ Generated(w, d).alignment = (w.alignment + d) % 256
          /\ Generated(w, d).delayed = w.delayed
      <4>1. d \in Nat
        BY <1>1
      <4>2. w \in Noises
        BY <3>1
      <4> QED  BY <4>1, <4>2, GeneratedTyped
    <3> QED  BY <3>1, <3>2 DEF w
  <2>2. ((q + d) % 256) % 4 = 0
    <3>1. (q + d) % 4 = 0
      BY <1>1, <1>6
    <3> HIDE DEF q, d
    <3> QED  BY <1>1, <3>1
  <2>3. s \in Noises /\ s.alignment = (q + d) % 256 /\ s.delayed = 0
    <3> HIDE DEF y, q
    <3>1. y.alignment % 4 = 0
      BY <2>1, <2>2
    <3> QED  BY <2>1, <3>1, StartNoiseTyped
  <2>4. c - d \in Nat /\ (c + 1) - d \in Nat /\ (c + 1) - d = (c - d) + 1
    <3> HIDE DEF d
    <3> QED  BY <1>1, <1>6
  <2>5. x \in Noises /\ x.alignment = (((q + d) % 256) + (c - d)) % 256 /\ x.delayed = 0
    <3> DEFINE k == c - d
    <3>1. k \in Nat
      BY <2>4
    <3> HIDE DEF s, q, d, k
    <3>2. Generated(s, k) \in Noises /\ Generated(s, k).alignment = (s.alignment + k) % 256
          /\ Generated(s, k).delayed = s.delayed
      BY <2>3, <3>1, GeneratedTyped
    <3> QED  BY <2>3, <3>2 DEF k
  <2>6. (((q + d) % 256) + (c - d)) % 256 = (q + c) % 256
    <3> HIDE DEF q, d
    <3> QED  BY <1>1
  <2>7. Waited(g, d) = W(0)
    <3>1. ~(d > d)
      BY <1>1
    <3> QED  BY <3>1, WaitedPuts
  <2>8. RunNoise(g, c) = x
    <3>1. StartsLate(g, c)
      BY <1>6 DEF StartsLate
    <3> QED  BY <2>7, <3>1 DEF RunNoise
  <2>9. RunNoise(g, c + 1) = Generated(s, (c + 1) - d)
    <3>1. StartsLate(g, c + 1)
      <4>1. d <= c + 1
        BY <1>1, <1>6
      <4> QED  BY <1>6, <4>1 DEF StartsLate
    <3> QED  BY <2>7, <3>1 DEF RunNoise
  <2>10. Generated(s, (c - d) + 1) = ClockCounter(x)
    <3> HIDE DEF s
    <3> QED  BY <2>3, <2>4, GeneratedNext DEF s
  <2> HIDE DEF x
  <2>11. ClockNoise(x) = ClockCounter(x)
    BY <1>4, <2>5
  <2>12. x \in NoisesAligned
    BY <2>5 DEF NoisesAligned, Aligned
  <2> QED  BY <2>4, <2>5, <2>6, <2>8, <2>9, <2>10, <2>11, <2>12
<1>7. (d = 0 \/ c < d) \/ (d # 0 /\ d <= c)
  BY <1>1
<1> QED  BY <1>5, <1>6, <1>7

-----------------------------------------------------------------------------
(* Batches at two moments of a run, of one channel of one model *)

(* A batch's outcome is the same before and after a step that leaves these *)
(* alone; the loop is the same function, as its equation is the same.      *)
Steady == UNCHANGED <<run_kind, run_model, double>>

LEMMA ExpiredSteady == Steady => \A g : Expired(g)' = Expired(g)
  BY DEF Steady, Expired

LEMMA TakesSteady == Steady => \A g : Takes(g)' = Takes(g)
  BY DEF Steady, Takes

LEMMA RoundSteady == Steady => \A p : Round(p)' = Round(p)
  BY ExpiredSteady, TakesSteady DEF Round

EveryLoopUnrolls == \A g : \A c \in Nat : \E after : Unrolls(after, g, c)

LEMMA LoopHasRounds == EveryLoopUnrolls
  BY LoopUnrolls DEF EveryLoopUnrolls

LEMMA LoopSteady == Steady => \A g : \A c \in Nat : Loop(g, c)' = Loop(g, c)
<1> SUFFICES ASSUME Steady, NEW g, NEW c \in Nat PROVE Loop(g, c)' = Loop(g, c)
  OBVIOUS
<1>1. PICK a : Unrolls(a, g, c)
  BY LoopUnrolls
<1>2. EveryLoopUnrolls'
  BY LoopHasRounds, PTL
<1>3. PICK b : Unrolls(b, g, c)'
  BY <1>2 DEF EveryLoopUnrolls
<1>4. b[0] = <<g, c>> /\ (\A n \in 1 .. c : b[n] = Round(b[n - 1])) /\ Loop(g, c)' = b[c]
  BY <1>3, RoundSteady DEF Unrolls
<1> DEFINE S == {n \in Nat : n <= c => a[n] = b[n]}
<1>5. 0 \in S
  BY <1>1, <1>4 DEF Unrolls
<1>6. ASSUME NEW n \in Nat, n \in S PROVE n + 1 \in S
  <2> SUFFICES ASSUME n + 1 <= c PROVE a[n + 1] = b[n + 1]
    OBVIOUS
  <2>1. n + 1 \in 1 .. c /\ (n + 1) - 1 = n /\ n <= c
    OBVIOUS
  <2> QED  BY <1>1, <1>4, <1>6, <2>1 DEF Unrolls
<1> HIDE DEF S
<1>7. c \in S
  BY <1>5, <1>6, StepsReach
<1> QED  BY <1>1, <1>4, <1>7 DEF S, Unrolls

LEMMA RunSquareSteady ==
    ASSUME Steady, NEW g, NEW c \in Nat PROVE RunSquare(g, c)' = RunSquare(g, c)
<1> DEFINE begun == [[g EXCEPT !.lf_div = (@ + c) % 2] EXCEPT !.delay = IF @ < c THEN 0 ELSE @ - c]
<1>1. Loop(begun, c)' = Loop(begun, c)
  <2> HIDE DEF begun
  <2> QED  BY LoopSteady
<1>2. RunSquare(g, c) = IF ~g.on THEN [g EXCEPT !.lf_div = (@ + c) % 2]
          ELSE [Loop(begun, c)[1] EXCEPT !.countdown = @ - Loop(begun, c)[2],
                                         !.just_reloaded = Loop(begun, c)[2] = 0]
  BY DEF RunSquare
<1>3. RunSquare(g, c)' = IF ~g.on THEN [g EXCEPT !.lf_div = (@ + c) % 2]
          ELSE [Loop(begun, c)'[1] EXCEPT !.countdown = @ - Loop(begun, c)'[2],
                                          !.just_reloaded = Loop(begun, c)'[2] = 0]
  BY DEF RunSquare
<1> HIDE DEF begun
<1> QED  BY <1>1, <1>2, <1>3

LEMMA RunWaveSteady ==
    ASSUME Steady, NEW g, NEW c \in Nat PROVE RunWave(g, c)' = RunWave(g, c)
  BY LoopSteady DEF RunWave

LEMMA GeneratedSteady ==
    ASSUME Steady, NEW g, NEW c \in Nat PROVE Generated(g, c)' = Generated(g, c)
<1>1. RunsCgb' = RunsCgb
  BY DEF Steady, RunsCgb
<1> QED  BY <1>1, LoopSteady DEF Generated

LEMMA StartNoiseSteady ==
    ASSUME Steady, NEW g PROVE StartNoise(g)' = StartNoise(g)
<1>1. RunsCgb' = RunsCgb /\ RunsUpToC' = RunsUpToC /\ double' = double
  BY DEF Steady, RunsCgb, RunsUpToC
<1>2. Alignments' = Alignments
  BY <1>1 DEF Alignments
<1>3. StartCountdown(g)' = StartCountdown(g)
  BY <1>1, <1>2 DEF StartCountdown
<1> QED  BY <1>1, <1>3 DEF StartNoise

LEMMA RunNoiseSteady ==
    ASSUME Steady, NEW g \in NoisesAligned, NEW c \in Nat PROVE RunNoise(g, c)' = RunNoise(g, c)
<1>1. g.delayed \in Nat
  BY NoiseTypes DEF NoisesAligned
<1>2. CASE StartsLate(g, c)
  <2>1. g.delayed <= c
    BY <1>2 DEF StartsLate
  <2>2. c - g.delayed \in Nat
    BY <1>1, <2>1
  <2>3. /\ RunNoise(g, c) = Generated(StartNoise(Generated(Waited(g, g.delayed), g.delayed)),
                                     c - g.delayed)
        /\ RunNoise(g, c)' = Generated(StartNoise(Generated(Waited(g, g.delayed), g.delayed)),
                                      c - g.delayed)'
    BY <1>2 DEF RunNoise
  <2> QED  BY <1>1, <2>2, <2>3, GeneratedSteady, StartNoiseSteady
<1>3. CASE ~StartsLate(g, c)
  <2>1. RunNoise(g, c) = Generated(Waited(g, c), c) /\ RunNoise(g, c)' = Generated(Waited(g, c), c)'
    BY <1>3 DEF RunNoise
  <2> QED  BY <2>1, GeneratedSteady
<1> QED  BY <1>2, <1>3

-----------------------------------------------------------------------------
(* The run *)

(* The states of a run, of whichever kind it is. *)
RunStates ==
    IF run_kind = "square" THEN Squares
    ELSE IF run_kind = "wave" THEN Waves ELSE NoisesAligned
RunKinds == {"square", "wave", "noise"}

LEMMA RunStatesAre ==
    /\ run_kind = "square" => RunStates = Squares
    /\ run_kind = "wave" => RunStates = Waves
    /\ run_kind = "noise" => RunStates = NoisesAligned
  BY DEF RunStates

LEMMA RanIs ==
    ASSUME NEW g, NEW c
    PROVE  /\ c = 0 => Ran(g, c) = g
           /\ c # 0 /\ run_kind = "square" => Ran(g, c) = RunSquare(g, c)
           /\ c # 0 /\ run_kind = "wave" => Ran(g, c) = RunWave(g, c)
           /\ c # 0 /\ run_kind = "noise" => Ran(g, c) = RunNoise(g, c)
  BY DEF Ran

LEMMA RanWillBe ==
    ASSUME Steady, NEW g, NEW c
    PROVE  /\ c = 0 => Ran(g, c)' = g
           /\ c # 0 /\ run_kind = "square" => Ran(g, c)' = RunSquare(g, c)'
           /\ c # 0 /\ run_kind = "wave" => Ran(g, c)' = RunWave(g, c)'
           /\ c # 0 /\ run_kind = "noise" => Ran(g, c)' = RunNoise(g, c)'
<1>1. run_kind' = run_kind
  BY DEF Steady
<1> QED  BY <1>1 DEF Ran

LEMMA RanSteady ==
    ASSUME Steady, run_kind \in RunKinds, NEW g \in RunStates, NEW c \in Nat
    PROVE  Ran(g, c)' = Ran(g, c) /\ RunStates' = RunStates
<1>1. run_kind' = run_kind
  BY DEF Steady
<1>2. RunStates' = RunStates
  BY <1>1 DEF RunStates
<1>3. CASE run_kind = "square"
  <2>1. RunSquare(g, c)' = RunSquare(g, c)
    BY RunSquareSteady
  <2> QED  BY <1>2, <1>3, <2>1, RanIs, RanWillBe
<1>4. CASE run_kind = "wave"
  <2>1. RunWave(g, c)' = RunWave(g, c)
    BY RunWaveSteady
  <2> QED  BY <1>2, <1>4, <2>1, RanIs, RanWillBe
<1>5. CASE run_kind = "noise"
  <2>1. g \in NoisesAligned
    BY <1>5, RunStatesAre
  <2>2. RunNoise(g, c)' = RunNoise(g, c)
    BY <2>1, RunNoiseSteady
  <2> QED  BY <1>2, <1>5, <2>2, RanIs, RanWillBe
<1> QED  BY <1>3, <1>4, <1>5 DEF RunKinds

LEMMA RunNoiseNothing ==
    ASSUME NEW g \in NoisesAligned PROVE RunNoise(g, 0) = g
<1>1. g \in Noises /\ g.delayed \in Nat
  BY NoiseTypes DEF NoisesAligned
<1>2. ~StartsLate(g, 0)
  BY <1>1 DEF StartsLate
<1> DEFINE n == IF g.delayed > 0 THEN g.delayed - 0 ELSE 0
<1>3. n = g.delayed
  BY <1>1
<1>4. Waited(g, 0) = Put(g, "delayed", n)
  BY WaitedPuts
<1> HIDE DEF n
<1>5. Waited(g, 0) = g
  BY <1>1, <1>3, <1>4, NoiseSame
<1> QED  BY <1>2, <1>5, GeneratedNothing DEF RunNoise

(* A batch is the cycles before its last one, and the last one. *)
LEMMA RanNext ==
    ASSUME run_kind \in RunKinds, NEW g \in RunStates, NEW c \in Nat
    PROVE  /\ Ran(g, c) \in RunStates
           /\ Ran(g, c + 1) = OneCycle(Ran(g, c))
<1>0. c + 1 # 0
  OBVIOUS
<1>1. CASE run_kind = "square"
  <2>1. g \in Squares /\ RunStates = Squares
    BY <1>1, RunStatesAre
  <2>2. \A x : OneCycle(x) = ClockSquare(x)
    BY <1>1 DEF OneCycle
  <2>3. RunSquare(g, c) \in Squares /\ RunSquare(g, c + 1) = ClockSquare(RunSquare(g, c))
    BY <1>1, <2>1, SquareBatch
  <2>4. c = 0 => ClockSquare(RunSquare(g, c)) = ClockSquare(g)
    BY <2>1, SquareNothing
  <2>5. Ran(g, c + 1) = RunSquare(g, c + 1)
    BY <1>0, <1>1, RanIs
  <2> QED  BY <1>1, <2>1, <2>2, <2>3, <2>4, <2>5, RanIs
<1>2. CASE run_kind = "wave"
  <2>1. g \in Waves /\ RunStates = Waves
    BY <1>2, RunStatesAre
  <2>2. \A x : OneCycle(x) = ClockWave(x)
    BY <1>2 DEF OneCycle
  <2>3. RunWave(g, c) \in Waves /\ RunWave(g, c + 1) = ClockWave(RunWave(g, c))
    BY <1>2, <2>1, WaveBatch
  <2>4. c = 0 => ClockWave(RunWave(g, c)) = ClockWave(g)
    BY <2>1, WaveNothing
  <2>5. Ran(g, c + 1) = RunWave(g, c + 1)
    BY <1>0, <1>2, RanIs
  <2> QED  BY <1>2, <2>1, <2>2, <2>3, <2>4, <2>5, RanIs
<1>3. CASE run_kind = "noise"
  <2>1. g \in NoisesAligned /\ RunStates = NoisesAligned
    BY <1>3, RunStatesAre
  <2>2. \A x : OneCycle(x) = ClockNoise(x)
    BY <1>3 DEF OneCycle
  <2>3. RunNoise(g, c) \in NoisesAligned /\ RunNoise(g, c + 1) = ClockNoise(RunNoise(g, c))
    BY <1>3, <2>1, NoiseBatch
  <2>4. c = 0 => RunNoise(g, c) = g
    BY <2>1, RunNoiseNothing
  <2>5. Ran(g, c + 1) = RunNoise(g, c + 1)
    BY <1>0, <1>3, RanIs
  <2> QED  BY <1>3, <2>1, <2>2, <2>3, <2>4, <2>5, RanIs
<1> QED  BY <1>1, <1>2, <1>3 DEF RunKinds

(* Where a batch is cut makes no difference. *)
LEMMA RanSplit ==
    ASSUME run_kind \in RunKinds, NEW g \in RunStates, NEW k \in Nat, NEW c \in Nat
    PROVE  Ran(Ran(g, k), c) = Ran(g, k + c)
<1> DEFINE h == Ran(g, k)
           S == {n \in Nat : Ran(h, n) = Ran(g, k + n)}
<1>0. h \in RunStates
  BY RanNext
<1>1. 0 \in S
  <2>1. k + 0 = k
    OBVIOUS
  <2>2. Ran(h, 0) = h
    BY RanIs
  <2> QED  BY <2>1, <2>2
<1> HIDE DEF h
<1>2. ASSUME NEW n \in Nat, n \in S PROVE n + 1 \in S
  <2>1. Ran(h, n) = Ran(g, k + n)
    BY <1>2
  <2>2. Ran(h, n + 1) = OneCycle(Ran(h, n))
    BY <1>0, RanNext
  <2>3. Ran(g, (k + n) + 1) = OneCycle(Ran(g, k + n))
    <3> DEFINE m == k + n
    <3>1. m \in Nat
      OBVIOUS
    <3> HIDE DEF m
    <3>2. Ran(g, m + 1) = OneCycle(Ran(g, m))
      BY <3>1, RanNext
    <3> QED  BY <3>2 DEF m
  <2>4. (k + n) + 1 = k + (n + 1)
    OBVIOUS
  <2> QED  BY <2>1, <2>2, <2>3, <2>4
<1> HIDE DEF S
<1>3. c \in S
  BY <1>1, <1>2, StepsReach
<1> QED  BY <1>3 DEF S, h

(* On a DMG, cycles come in pairs: a start is late by an even number, and  *)
(* aligned when it comes. *)
Paired(g, cycles) == run_kind = "noise" /\ ~RunsCgb => (g.alignment + cycles) % 2 = 0

(***************************************************************************)
(* The pending cycles lead the lazy generator to the eager one; on a DMG   *)
(* the channel is at an even cycle with them, and so is every write.       *)
(***************************************************************************)
RunInv ==
    /\ run_kind \in RunKinds
    /\ double \in BOOLEAN /\ (~RunsCgb => ~double)
    /\ apu_cycles \in Nat
    /\ lazy \in RunStates
    /\ eager = Ran(lazy, apu_cycles)
    /\ Paired(lazy, apu_cycles)

LEMMA RanPaired ==
    ASSUME run_kind \in RunKinds, NEW g \in RunStates, NEW c \in Nat, NEW d \in Nat
    PROVE  Paired(Ran(g, c), d) = Paired(g, c + d)
<1>1. CASE run_kind = "noise"
  <2>1. g \in NoisesAligned
    BY <1>1, RunStatesAre
  <2> DEFINE q == g.alignment
             x == Ran(g, c)
  <2>2. q \in 0 .. 255
    BY <2>1, NoiseTypes DEF NoisesAligned, Bytes
  <2>3. x.alignment = (q + c) % 256
    <3>1. CASE c = 0
      <4>1. x = g
        BY <3>1, RanIs
      <4> HIDE DEF x
      <4>2. (q + c) % 256 = q
        <5> HIDE DEF q
        <5> QED  BY <2>2, <3>1
      <4> QED  BY <4>1, <4>2
    <3>2. CASE c # 0
      <4>1. x = RunNoise(g, c)
        BY <1>1, <3>2, RanIs
      <4>2. RunNoise(g, c).alignment = (g.alignment + c) % 256
        BY <1>1, <2>1, NoiseBatch
      <4> QED  BY <4>1, <4>2
    <3> QED  BY <3>1, <3>2
  <2>4. ((((q + c) % 256) + d) % 2 = 0) = ((q + (c + d)) % 2 = 0)
    <3> HIDE DEF q
    <3>1. (((q + c) % 256) + d) % 2 = (q + (c + d)) % 2
      BY <2>2
    <3> QED  BY <3>1
  <2>5. ((x.alignment + d) % 2 = 0) = ((q + (c + d)) % 2 = 0)
    BY <2>3, <2>4
  <2> HIDE DEF x
  <2> QED  BY <2>5 DEF Paired, x
<1>2. CASE run_kind # "noise"
  BY <1>2 DEF Paired
<1> QED  BY <1>1, <1>2

LEMMA RunInvInitially == RunInit => RunInv
<1> SUFFICES ASSUME RunInit PROVE RunInv
  OBVIOUS
<1>1. PICK g \in Generators : run_kind = g[1] /\ run_model = g[2]
  BY DEF RunInit
<1>2. run_kind \in RunKinds
  BY <1>1, RunAssumption DEF RunKinds
<1>3. double \in BOOLEAN /\ (~RunsCgb => ~double) /\ apu_cycles = 0 /\ eager = lazy
  BY DEF RunInit, RunsCgb
<1>4. PICK counter :
          counter \in Counters /\
          lazy = CASE run_kind = "square" -> Square
                   [] run_kind = "wave" -> Wave
                   [] run_kind = "noise" -> Noise(counter)
  BY DEF RunInit
<1>5. CASE run_kind = "square"
  <2>1. lazy = Square
    BY <1>4, <1>5
  <2>2. Square \in Squares
    BY DEF Square, Squares, Lengths
  <2>3. RunStates = Squares /\ Paired(lazy, apu_cycles)
    BY <1>5, RunStatesAre DEF Paired
  <2> QED  BY <1>2, <1>3, <2>1, <2>2, <2>3, RanIs DEF RunInv
<1>6. CASE run_kind = "wave"
  <2>1. lazy = Wave
    BY <1>4, <1>6
  <2>2. Wave \in Waves
    <3>1. [i \in 0 .. 15 |-> 16 + i] \in Rams
      BY DEF Rams
    <3> DEFINE ram == [i \in 0 .. 15 |-> 16 + i]
    <3> HIDE DEF ram
    <3> QED  BY <3>1 DEF Wave, Waves, Lengths, Indices, ram
  <2>3. RunStates = Waves /\ Paired(lazy, apu_cycles)
    BY <1>6, RunStatesAre DEF Paired
  <2> QED  BY <1>2, <1>3, <2>1, <2>2, <2>3, RanIs DEF RunInv
<1>7. CASE run_kind = "noise"
  <2>0. counter \in Counters
    BY <1>4
  <2>1. lazy = Noise(counter)
    BY <1>4, <1>7
  <2>2. counter \in Nat
    <3>1. Counters \subseteq 0 .. 16383
      BY RunAssumption
    <3>2. counter \in 0 .. 16383
      BY <2>0, <3>1, SMT
    <3> QED  BY <3>2
  <2>3. Noise(counter) \in Noises
    <3> DEFINE zero == [shift |-> 0, narrow |-> FALSE, divisor |-> 0]
    <3>1. zero \in Polynomial
      BY DEF Polynomial
    <3> HIDE DEF zero
    <3> QED  BY <2>2, <3>1 DEF Noise, Noises, Registers, Bytes, Bits, zero
  <2>4. Noise(counter).delayed = 0 /\ Noise(counter).alignment = 0
    BY DEF Noise
  <2>5. Noise(counter) \in NoisesAligned
    BY <2>3, <2>4 DEF NoisesAligned, Aligned
  <2>6. RunStates = NoisesAligned /\ Paired(lazy, apu_cycles)
    BY <1>3, <1>7, <2>1, <2>4, RunStatesAre DEF Paired
  <2> QED  BY <1>2, <1>3, <2>1, <2>5, <2>6, RanIs DEF RunInv
<1> QED  BY <1>2, <1>5, <1>6, <1>7 DEF RunKinds

LEMMA SteadyModel == Steady => (RunsCgb' = RunsCgb) /\ \A g, c : Paired(g, c)' = Paired(g, c)
  BY DEF Steady, RunsCgb, Paired

(* A step that leaves the invariant's relation, however it was made. *)
LEMMA KeepsInv ==
    ASSUME RunInv, Steady, NEW c \in Nat, NEW x \in RunStates,
           apu_cycles' = c, lazy' = x, eager' = Ran(x, c), Paired(x, c)
    PROVE  RunInv'
<1>1. run_kind \in RunKinds
  BY DEF RunInv
<1>2. Ran(x, c)' = Ran(x, c) /\ RunStates' = RunStates
  BY <1>1, RanSteady
<1>3. Ran(lazy, apu_cycles)' = Ran(x, c)
  BY <1>2
<1>4. Paired(lazy, apu_cycles)'
  BY SteadyModel
<1>5. run_kind' = run_kind /\ double' = double /\ RunsCgb' = RunsCgb
  BY SteadyModel DEF Steady
<1> QED  BY <1>1, <1>2, <1>3, <1>4, <1>5 DEF RunInv

LEMMA RegisterKeeps ==
    ASSUME RunInv, Steady, apu_cycles' = 0, NEW x \in RunStates, lazy' = x, eager' = x,
           run_kind = "noise" => x.alignment = eager.alignment
    PROVE  RunInv'
<1>1. run_kind \in RunKinds /\ eager = Ran(lazy, apu_cycles) /\ lazy \in RunStates
      /\ apu_cycles \in Nat /\ Paired(lazy, apu_cycles)
  BY DEF RunInv
<1>2. Paired(eager, 0)
  <2>1. Paired(eager, 0) = Paired(lazy, apu_cycles + 0)
    BY <1>1, RanPaired
  <2>2. apu_cycles + 0 = apu_cycles
    BY <1>1
  <2> QED  BY <1>1, <2>1, <2>2
<1>3. Paired(x, 0)
  BY <1>2 DEF Paired
<1>4. Ran(x, 0) = x
  BY RanIs
<1> QED  BY <1>1, <1>3, <1>4, KeepsInv

LEMMA RunInvKept == RunInv /\ [RunNext]_runVars => RunInv'
<1> SUFFICES ASSUME RunInv, [RunNext]_runVars PROVE RunInv'
  OBVIOUS
<1>0. /\ run_kind \in RunKinds /\ lazy \in RunStates /\ apu_cycles \in Nat
      /\ eager = Ran(lazy, apu_cycles) /\ double \in BOOLEAN /\ (~RunsCgb => ~double)
      /\ Paired(lazy, apu_cycles)
  BY DEF RunInv
<1>1. eager \in RunStates
  BY <1>0, RanNext
<1>2. CASE Pass
  <2>1. Steady /\ lazy' = lazy
    BY <1>2 DEF Pass, Steady
  <2>2. CASE double
    <3>1. apu_cycles' = apu_cycles + 1 /\ eager' = OneCycle(eager)
      BY <1>2, <2>2 DEF Pass, Advance
    <3>2. eager' = Ran(lazy, apu_cycles + 1)
      BY <1>0, <3>1, RanNext
    <3>3. Paired(lazy, apu_cycles + 1)
      BY <1>0, <2>2 DEF Paired
    <3>4. apu_cycles + 1 \in Nat
      BY <1>0
    <3> QED  BY <1>0, <2>1, <3>1, <3>2, <3>3, <3>4, KeepsInv
  <2>3. CASE ~double
    <3>1. apu_cycles' = apu_cycles + 2 /\ eager' = OneCycle(OneCycle(eager))
      BY <1>2, <2>3 DEF Pass, Advance
    <3>2. OneCycle(eager) = Ran(lazy, apu_cycles + 1)
      BY <1>0, RanNext
    <3>3. OneCycle(Ran(lazy, apu_cycles + 1)) = Ran(lazy, (apu_cycles + 1) + 1)
      <4> DEFINE n == apu_cycles + 1
      <4>1. n \in Nat
        BY <1>0
      <4> HIDE DEF n
      <4>2. Ran(lazy, n + 1) = OneCycle(Ran(lazy, n))
        BY <1>0, <4>1, RanNext
      <4> QED  BY <4>2 DEF n
    <3>4. (apu_cycles + 1) + 1 = apu_cycles + 2 /\ apu_cycles + 2 \in Nat
      BY <1>0
    <3>5. eager' = Ran(lazy, apu_cycles + 2)
      BY <3>1, <3>2, <3>3, <3>4
    <3>6. Paired(lazy, apu_cycles + 2)
      <4> SUFFICES ASSUME run_kind = "noise", ~RunsCgb
                   PROVE  (lazy.alignment + (apu_cycles + 2)) % 2 = 0
        BY DEF Paired
      <4>1. (lazy.alignment + apu_cycles) % 2 = 0
        BY <1>0 DEF Paired
      <4>2. lazy \in Noises
        BY <1>0, RunStatesAre DEF NoisesAligned
      <4> DEFINE q == lazy.alignment
      <4>3. q \in 0 .. 255
        BY <4>2, NoiseTypes DEF Bytes
      <4> HIDE DEF q
      <4>4. (q + apu_cycles) % 2 = 0 => (q + (apu_cycles + 2)) % 2 = 0
        BY <1>0, <4>3
      <4> QED  BY <4>1, <4>4 DEF q
    <3> QED  BY <1>0, <2>1, <3>1, <3>4, <3>5, <3>6, KeepsInv
  <2> QED  BY <1>0, <2>2, <2>3
<1>3. CASE CatchUp
  <2>1. Steady /\ eager' = eager
    BY <1>3 DEF CatchUp, Steady
  <2>2. PICK cycles \in 1 .. apu_cycles :
            lazy' = Ran(lazy, cycles) /\ apu_cycles' = apu_cycles - cycles
    BY <1>3 DEF CatchUp
  <2> DEFINE left == apu_cycles - cycles
             x == Ran(lazy, cycles)
  <2>3. cycles \in Nat /\ left \in Nat /\ cycles + left = apu_cycles
    BY <1>0
  <2> HIDE DEF left
  <2>4. Ran(x, left) = eager
    BY <1>0, <2>3, RanSplit
  <2>5. x \in RunStates
    BY <1>0, <2>3, RanNext
  <2>6. Paired(x, left)
    BY <1>0, <2>3, RanPaired
  <2> QED  BY <2>1, <2>2, <2>3, <2>4, <2>5, <2>6, KeepsInv DEF left
<1>4. ASSUME NEW length \in Frequencies, WriteSquare(length) PROVE RunInv'
  <2>1. run_kind = "square" /\ length \in Lengths
    BY <1>4, RunAssumption DEF WriteSquare, Lengths
  <2>2. Steady /\ apu_cycles' = 0
    BY <1>4 DEF WriteSquare, WriteRegister, Steady
  <2>3. \/ lazy' = SquareFrequency(eager, length) /\ eager' = SquareFrequency(eager, length)
        \/ lazy' = SquareStart(eager, length) /\ eager' = SquareStart(eager, length)
    BY <1>0, <1>4 DEF WriteSquare, WriteRegister
  <2>4. eager \in Squares /\ RunStates = Squares
    BY <1>1, <2>1, RunStatesAre
  <2>5. SquareFrequency(eager, length) \in RunStates /\ SquareStart(eager, length) \in RunStates
    BY <2>1, <2>4, SquareFrequencyTyped, SquareStartTyped
  <2> QED  BY <2>1, <2>2, <2>3, <2>5, RegisterKeeps
<1>5. CASE WriteWave
  <2>1. run_kind = "wave" /\ Steady /\ apu_cycles' = 0
    BY <1>5 DEF WriteWave, WriteRegister, Steady
  <2>2. eager \in Waves /\ RunStates = Waves
    BY <1>1, <2>1, RunStatesAre
  <2>3. \E x \in Waves : lazy' = x /\ eager' = x
    <3>1. ASSUME NEW length \in Frequencies, WriteRegister(LAMBDA g : WaveStart(g, length))
          PROVE  \E x \in Waves : lazy' = x /\ eager' = x
      <4>1. lazy' = WaveStart(eager, length) /\ eager' = WaveStart(eager, length)
        BY <1>0, <3>1 DEF WriteRegister
      <4>2. length \in Lengths
        BY RunAssumption DEF Lengths
      <4> QED  BY <2>2, <4>1, <4>2, WaveStartTyped
    <3>2. ASSUME NEW length \in Frequencies,
                 WriteRegister(LAMBDA g : [g EXCEPT !.length = length])
          PROVE  \E x \in Waves : lazy' = x /\ eager' = x
      <4>1. lazy' = [eager EXCEPT !.length = length] /\ eager' = [eager EXCEPT !.length = length]
        BY <1>0, <3>2 DEF WriteRegister
      <4>2. length \in Lengths
        BY RunAssumption DEF Lengths
      <4>3. [eager EXCEPT !.length = length] \in Waves
        BY <2>2, <4>2, WaveLengthTyped
      <4> QED  BY <4>1, <4>3
    <3>3. ASSUME NEW enable \in BOOLEAN, WriteRegister(LAMBDA g : WaveEnable(g, enable))
          PROVE  \E x \in Waves : lazy' = x /\ eager' = x
      <4>1. lazy' = WaveEnable(eager, enable) /\ eager' = WaveEnable(eager, enable)
        BY <1>0, <3>3 DEF WriteRegister
      <4> QED  BY <2>2, <4>1, WaveEnableTyped
    <3>4. ASSUME NEW address \in {1, 8}, WriteRegister(LAMBDA g : WaveWrite(g, address))
          PROVE  \E x \in Waves : lazy' = x /\ eager' = x
      <4>1. lazy' = WaveWrite(eager, address) /\ eager' = WaveWrite(eager, address)
        BY <1>0, <3>4 DEF WriteRegister
      <4> QED  BY <2>2, <4>1, WaveWriteTyped
    <3> QED  BY <1>5, <3>1, <3>2, <3>3, <3>4 DEF WriteWave
  <2> QED  BY <2>1, <2>2, <2>3, RegisterKeeps
<1>6. CASE WriteNoise
  <2>1. run_kind = "noise" /\ Steady /\ apu_cycles' = 0
    BY <1>6 DEF WriteNoise, WriteRegister, Steady
  <2>2. eager \in Noises /\ Aligned(eager) /\ RunStates = NoisesAligned
    BY <1>1, <2>1, RunStatesAre DEF NoisesAligned
  <2>3. RunsCgb \/ eager.alignment % 2 = 0
    <3>1. Paired(eager, 0)
      <4>1. Paired(eager, 0) = Paired(lazy, apu_cycles + 0)
        BY <1>0, RanPaired
      <4>2. apu_cycles + 0 = apu_cycles
        BY <1>0
      <4> QED  BY <1>0, <4>1, <4>2
    <3> DEFINE q == eager.alignment
    <3>2. q \in Nat
      BY <2>2, NoiseTypes DEF Bytes
    <3>3. RunsCgb \/ (q + 0) % 2 = 0
      BY <2>1, <3>1 DEF Paired
    <3> HIDE DEF q
    <3>4. q + 0 = q
      BY <3>2
    <3> QED  BY <3>3, <3>4 DEF q
  <2>4. ASSUME WriteRegister(StartNoise) PROVE RunInv'
    <3> DEFINE x == StartNoise(eager)
    <3>1. lazy' = x /\ eager' = x
      BY <1>0, <2>4 DEF WriteRegister
    <3>2. x \in RunStates /\ x.alignment = eager.alignment
      BY <2>2, <2>3, StartNoiseTyped DEF NoisesAligned
    <3> QED  BY <2>1, <3>1, <3>2, RegisterKeeps
  <2>5. ASSUME NEW value \in Polynomials, WriteRegister(LAMBDA g : NoisePolynomial(g, value))
        PROVE  RunInv'
    <3> DEFINE x == NoisePolynomial(eager, value)
    <3>1. lazy' = x /\ eager' = x
      BY <1>0, <2>5 DEF WriteRegister
    <3>2. value \in Polynomial
      BY RunAssumption DEF Polynomial
    <3>3. x \in Noises /\ x.alignment = eager.alignment /\ x.delayed = eager.delayed
      BY <2>2, <3>2, NoisePolynomialTyped
    <3> HIDE DEF x
    <3>4. x \in RunStates
      BY <2>2, <3>3 DEF NoisesAligned, Aligned
    <3> QED  BY <2>1, <3>1, <3>3, <3>4, RegisterKeeps
  <2> QED  BY <1>6, <2>4, <2>5 DEF WriteNoise
<1>7. CASE UNCHANGED runVars
  <2>1. Steady /\ lazy' = lazy /\ eager' = eager /\ apu_cycles' = apu_cycles
    BY <1>7 DEF runVars, Steady
  <2> QED  BY <1>0, <2>1, KeepsInv
<1> QED  BY <1>2, <1>3, <1>4, <1>5, <1>6, <1>7 DEF RunNext

(***************************************************************************)
(* GB_apu_run: for any frequencies, polynomials, counters and models, any  *)
(* order of register writes, and batches of any length, a generator that   *)
(* catches up with its pending cycles at once is where it would have been, *)
(* had it been clocked cycle by cycle.                                     *)
(***************************************************************************)
THEOREM LazyTheorem == RunSpec => []LazyIsEager
<1>1. RunInv => LazyIsEager
  BY DEF RunInv, LazyIsEager
<1> QED  BY <1>1, RunInvInitially, RunInvKept, PTL DEF RunSpec
=============================================================================
