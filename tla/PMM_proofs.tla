----------------------------- MODULE PMM_proofs ----------------------------
(***************************************************************************)
(* Theorems about the physical memory manager, for every size of bitmap    *)
(* and page and for every memory map.                                      *)
(*                                                                         *)
(* The first part computes what the padding loop of fill_from_to leaves: a *)
(* closed form, checked round by round (the loop runs at most six times,   *)
(* so no induction is needed).  The second turns it into an interval of    *)
(* frames, the third relates bytes to frames, and the last is the          *)
(* inductive invariant of the allocator.                                   *)
(***************************************************************************)
EXTENDS PMM, TLAPS

-----------------------------------------------------------------------------
(* The padding loop.                                                       *)

\* What i <= 6 rounds of the padding loop leave: the single frames are used up
\* first, then one whole byte is opened.
PadAfter(rest, i) ==
    LET F == rest \div 8
        p == rest % 8
    IN  IF i <= p THEN [full |-> F, part |-> p - i, returned |-> FALSE]
        ELSE IF F = 0 THEN [full |-> 0, part |-> 0, returned |-> TRUE]
        ELSE [full |-> F - 1, part |-> 7 - (i - p), returned |-> FALSE]

\* The three things a round may do.
LEMMA RoundPart ==
    ASSUME NEW F \in Int, NEW p \in Int, p # 0
    PROVE  PadRound([full |-> F, part |-> p, returned |-> FALSE]) =
             [full |-> F, part |-> p - 1, returned |-> FALSE]
  BY DEF PadRound

LEMMA RoundBorrow ==
    ASSUME NEW F \in Int, F # 0
    PROVE  PadRound([full |-> F, part |-> 0, returned |-> FALSE]) =
             [full |-> F - 1, part |-> 6, returned |-> FALSE]
<1> DEFINE b == [full |-> F, part |-> 0, returned |-> FALSE]
<1>1. b.returned = FALSE /\ b.full = F /\ b.part = 0
  OBVIOUS
<1> HIDE DEF b
<1>2. ~ (b.returned \/ (b.full = 0 /\ b.part = 0)) /\ (b.part = 0)
  BY <1>1
<1>3. PadRound(b) = [full |-> b.full - 1, part |-> 6, returned |-> FALSE]
  BY <1>2, Zenon DEF PadRound
<1>4. QED BY <1>1, <1>3, Zenon DEF b
LEMMA RoundReturns ==
    ASSUME NEW r \in BOOLEAN
    PROVE  PadRound([full |-> 0, part |-> 0, returned |-> r]) =
             [full |-> 0, part |-> 0, returned |-> TRUE]
<1> DEFINE b == [full |-> 0, part |-> 0, returned |-> r]
<1>1. b.returned = r /\ b.full = 0 /\ b.part = 0
  BY Zenon
<1> HIDE DEF b
<1>2. (b.returned \/ (b.full = 0 /\ b.part = 0))
  BY <1>1
<1>3. PadRound(b) = [full |-> b.full, part |-> b.part, returned |-> TRUE]
  BY <1>2, Zenon DEF PadRound
<1>4. QED BY <1>1, <1>3, Zenon DEF b

\* A round of the loop takes what i - 1 rounds leave to what i rounds leave.
LEMMA PadAfterStep ==
    ASSUME NEW rest \in Nat, NEW i \in 1 .. 6
    PROVE  PadRound(PadAfter(rest, i - 1)) = PadAfter(rest, i)
<1>1. PICK F \in Nat, p \in 0 .. 7 : F = rest \div 8 /\ p = rest % 8
  OBVIOUS
<1>2. PadAfter(rest, i) =
        IF i <= p THEN [full |-> F, part |-> p - i, returned |-> FALSE]
        ELSE IF F = 0 THEN [full |-> 0, part |-> 0, returned |-> TRUE]
        ELSE [full |-> F - 1, part |-> 7 - (i - p), returned |-> FALSE]
  BY <1>1 DEF PadAfter
<1>3. PadAfter(rest, i - 1) =
        IF i - 1 <= p THEN [full |-> F, part |-> p - (i - 1), returned |-> FALSE]
        ELSE IF F = 0 THEN [full |-> 0, part |-> 0, returned |-> TRUE]
        ELSE [full |-> F - 1, part |-> 7 - (i - 1 - p), returned |-> FALSE]
  BY <1>1 DEF PadAfter
<1>4. CASE i <= p
  <2>1. i - 1 <= p /\ p - (i - 1) \in Int /\ p - (i - 1) # 0
          /\ p - (i - 1) - 1 = p - i
    BY <1>4
  <2>2. PadAfter(rest, i - 1) =
          [full |-> F, part |-> p - (i - 1), returned |-> FALSE]
    BY <1>3, <2>1, Zenon
  <2>3. PadAfter(rest, i) = [full |-> F, part |-> p - i, returned |-> FALSE]
    BY <1>2, <1>4, Zenon
  <2>4. PadRound(PadAfter(rest, i - 1)) =
          [full |-> F, part |-> p - (i - 1) - 1, returned |-> FALSE]
    BY <2>1, <2>2, RoundPart
  <2> QED
    BY <2>1, <2>3, <2>4, Zenon
<1>5. CASE i = p + 1
  <2>1. i - 1 <= p /\ ~ (i <= p) /\ p - (i - 1) = 0 /\ 7 - (i - p) = 6 /\ F \in Int
    BY <1>5
  <2>2. PadAfter(rest, i - 1) = [full |-> F, part |-> 0, returned |-> FALSE]
    BY <1>3, <2>1, Zenon
  <2>3. CASE F = 0
    <3>1. PadAfter(rest, i) = [full |-> 0, part |-> 0, returned |-> TRUE]
      BY <1>2, <2>1, <2>3, Zenon
    <3>2. PadRound([full |-> 0, part |-> 0, returned |-> FALSE]) =
            [full |-> 0, part |-> 0, returned |-> TRUE]
      BY RoundReturns
    <3> QED
      BY <2>2, <2>3, <3>1, <3>2, Zenon
  <2>4. CASE F # 0
    <3>1. PadAfter(rest, i) = [full |-> F - 1, part |-> 6, returned |-> FALSE]
      BY <1>2, <2>1, <2>4, Zenon
    <3> QED
      BY <2>1, <2>2, <2>4, <3>1, RoundBorrow
  <2> QED
    BY <2>3, <2>4
<1>6. CASE i > p + 1
  <2>1. ~ (i - 1 <= p) /\ ~ (i <= p) /\ 7 - (i - 1 - p) \in Int
          /\ 7 - (i - 1 - p) # 0 /\ 7 - (i - 1 - p) - 1 = 7 - (i - p)
          /\ F - 1 \in Int
    BY <1>6
  <2>2. CASE F = 0
    <3>1. PadAfter(rest, i) = [full |-> 0, part |-> 0, returned |-> TRUE]
      BY <1>2, <2>1, <2>2, Zenon
    <3>2. PadAfter(rest, i - 1) = [full |-> 0, part |-> 0, returned |-> TRUE]
      BY <1>3, <2>1, <2>2, Zenon
    <3>3. PadRound([full |-> 0, part |-> 0, returned |-> TRUE]) =
            [full |-> 0, part |-> 0, returned |-> TRUE]
      BY RoundReturns
    <3> QED
      BY <3>1, <3>2, <3>3, Zenon
  <2>3. CASE F # 0
    <3>1. PadAfter(rest, i) =
            [full |-> F - 1, part |-> 7 - (i - p), returned |-> FALSE]
      BY <1>2, <2>1, <2>3, Zenon
    <3>2. PadAfter(rest, i - 1) =
            [full |-> F - 1, part |-> 7 - (i - 1 - p), returned |-> FALSE]
      BY <1>3, <2>1, <2>3, Zenon
    <3>3. PadRound(PadAfter(rest, i - 1)) =
            [full |-> F - 1, part |-> 7 - (i - 1 - p) - 1, returned |-> FALSE]
      BY <2>1, <3>2, RoundPart
    <3> QED
      BY <2>1, <3>1, <3>3, Zenon
  <2> QED
    BY <2>2, <2>3
<1> QED
  BY <1>4, <1>5, <1>6

\* The padding loop computes PadAfter.
LEMMA PaddingValue ==
    ASSUME NEW rest \in Nat, NEW rounds \in 0 .. 6
    PROVE  Padding(rest, rounds) = PadAfter(rest, rounds)
<1> DEFINE Start == [full |-> rest \div 8, part |-> rest % 8, returned |-> FALSE]
           Body(f) == [i \in 0 .. rounds |->
                         IF i = 0 THEN Start ELSE PadRound(f[i - 1])]
           g == [i \in 0 .. rounds |-> PadAfter(rest, i)]
           pad == CHOOSE f : f = Body(f)
<1>1. Padding(rest, rounds) = pad[rounds]
  BY DEF Padding
<1>0. PadAfter(rest, 0) = Start
  BY DEF PadAfter
<1>2. g = Body(g)
  <2>2. \A i \in 1 .. rounds : PadRound(g[i - 1]) = PadAfter(rest, i)
    BY PadAfterStep
  <2> QED
    BY <1>0, <2>2
<1>3. \E f : f = Body(f)
  BY <1>2
<1> HIDE DEF Body
<1>4. pad = Body(pad)
  BY <1>3, Zenon
<1> USE DEF Body
<1> HIDE DEF pad
<1>5. pad[0] = PadAfter(rest, 0)
  <2> HIDE DEF Start
  <2>1. pad[0] = Start
    BY <1>4
  <2> QED
    BY <1>0, <2>1
<1>6. \A i \in 1 .. rounds : pad[i] = PadRound(pad[i - 1])
  <2>1. ASSUME NEW f, NEW i \in 1 .. rounds
        PROVE  Body(f)[i] = PadRound(f[i - 1])
    OBVIOUS
  <2> HIDE DEF Body
  <2> QED
    BY <1>4, <2>1, Zenon
<1>7. ASSUME NEW i \in 1 .. 6, i <= rounds, pad[i - 1] = PadAfter(rest, i - 1)
      PROVE  pad[i] = PadAfter(rest, i)
  BY <1>6, <1>7, PadAfterStep
<1>8. \A i \in 1 .. 6 : i <= rounds /\ pad[i - 1] = PadAfter(rest, i - 1)
                           => pad[i] = PadAfter(rest, i)
  BY <1>7
<1> HIDE DEF Body, Start, g
<1>11. 1 <= rounds => pad[1] = PadAfter(rest, 1)
  BY <1>8, <1>5
<1>12. 2 <= rounds => pad[2] = PadAfter(rest, 2)
  BY <1>8, <1>11
<1>13. 3 <= rounds => pad[3] = PadAfter(rest, 3)
  BY <1>8, <1>12
<1>14. 4 <= rounds => pad[4] = PadAfter(rest, 4)
  BY <1>8, <1>13
<1>15. 5 <= rounds => pad[5] = PadAfter(rest, 5)
  BY <1>8, <1>14
<1>16. 6 <= rounds => pad[6] = PadAfter(rest, 6)
  BY <1>8, <1>15
<1> QED
  BY <1>1, <1>5, <1>11, <1>12, <1>13, <1>14, <1>15, <1>16
-----------------------------------------------------------------------------
(* What fill_from_to marks, for every region.                              *)

\* Of n frames from frame s on, at most the one behind them is marked besides,
\* and all of them are when they reach the end of the first bitmap byte.
LEMMA MarkedForm ==
    ASSUME NEW s \in Nat, NEW n \in Nat \ {0}
    PROVE  /\ s \in Marked(s, n)
           /\ Marked(s, n) \subseteq s .. s + n
           /\ (s % 8) + n >= 8 => s .. s + n - 1 \subseteq Marked(s, n)
<1>1. PICK b \in Nat, k \in 0 .. 7 : b = s \div 8 /\ k = s % 8 /\ s = 8 * b + k
  OBVIOUS
<1>2. PICK R \in 0 .. 6 : R = IF k <= 6 THEN 6 - k ELSE 0
  OBVIOUS
<1>3. PICK F \in Nat, p \in 0 .. 7 :
        F = (n - 1) \div 8 /\ p = (n - 1) % 8 /\ n - 1 = 8 * F + p
  OBVIOUS
<1>4. PICK end : end = Padding(n - 1, R)
  OBVIOUS
<1>5. end = PadAfter(n - 1, R)
  BY <1>3, <1>4, PaddingValue
<1>6. end = IF R <= p THEN [full |-> F, part |-> p - R, returned |-> FALSE]
            ELSE IF F = 0 THEN [full |-> 0, part |-> 0, returned |-> TRUE]
            ELSE [full |-> F - 1, part |-> 7 - (R - p), returned |-> FALSE]
  BY <1>3, <1>5 DEF PadAfter
<1>7. Marked(s, n) =
        IF n = 1 \/ end.returned THEN {s}
        ELSE {s} \cup (8 * b + 7 - R .. 8 * b + 7)
               \cup (8 * (b + 1) .. 8 * (b + 1 + end.full) - 1)
               \cup (8 * (b + 1 + end.full)
                       .. 8 * (b + 1 + end.full) + end.part - 1)
  BY <1>1, <1>2, <1>4 DEF Marked
<1>8. CASE n = 1
  <2>1. Marked(s, n) = {s}
    BY <1>7, <1>8, Zenon
  <2> QED
    BY <2>1, <1>8
<1>9. CASE n # 1 /\ R > p /\ F = 0
  <2>1. end = [full |-> 0, part |-> 0, returned |-> TRUE]
    <3>1. ~ (R <= p)
      BY <1>9
    <3> QED
      BY <1>6, <1>9, <3>1, Zenon
  <2>2. Marked(s, n) = {s}
    BY <1>7, <2>1
  <2>3. ~ ((s % 8) + n >= 8)
    BY <1>1, <1>2, <1>3, <1>9
  <2> QED
    BY <2>2, <2>3
<1>10. CASE n # 1 /\ ~ (R > p /\ F = 0)
  <2>1. PICK full \in Nat, part \in 0 .. 7 :
           /\ end.full = full /\ end.part = part /\ end.returned = FALSE
           /\ 8 * full + part = n - 1 - R \/ 8 * full + part = n - 2 - R
           /\ R <= p => 8 * full + part = n - 1 - R
    <3>1. CASE R <= p
      <4>1. end = [full |-> F, part |-> p - R, returned |-> FALSE]
        BY <1>6, <3>1, Zenon
      <4>2. end.full = F /\ end.part = p - R /\ end.returned = FALSE
        BY <4>1
      <4>3. p - R \in 0 .. 7 /\ 8 * F + (p - R) = n - 1 - R
        BY <1>3, <3>1
      <4> QED
        BY <4>2, <4>3
    <3>2. CASE R > p
      <4>0. ~ (R <= p) /\ F # 0
        BY <1>10, <3>2
      <4>1. end = [full |-> F - 1, part |-> 7 - (R - p), returned |-> FALSE]
        BY <1>6, <4>0, Zenon
      <4>2. end.full = F - 1 /\ end.part = 7 - (R - p) /\ end.returned = FALSE
        BY <4>1
      <4>3. F - 1 \in Nat /\ 7 - (R - p) \in 0 .. 7
              /\ 8 * (F - 1) + (7 - (R - p)) = n - 2 - R
        BY <1>3, <3>2, <4>0
      <4> QED
        BY <4>0, <4>2, <4>3
    <3>3. R <= p \/ R > p
      OBVIOUS
    <3> QED
      BY <3>1, <3>2, <3>3, Zenon
  <2>2. Marked(s, n) = {s} \cup (8 * b + 7 - R .. 8 * b + 7)
               \cup (8 * (b + 1) .. 8 * (b + 1 + full) - 1)
               \cup (8 * (b + 1 + full) .. 8 * (b + 1 + full) + part - 1)
    BY <1>7, <1>10, <2>1, Zenon
  <2>3. PICK last \in Nat : last = 8 * (b + 1 + full) + part - 1
    BY <2>1
  <2>4. Marked(s, n) = {s} \cup (8 * b + 7 - R .. last)
    BY <2>2, <2>3
  <2>5. 8 * b + 7 - R = IF k = 7 THEN s ELSE s + 1
    BY <1>1, <1>2
  <2>6. Marked(s, n) = s .. last
    BY <2>3, <2>4, <2>5, <1>1, <1>2
  <2>7. last \in s + n - 1 .. s + n
    BY <1>1, <1>2, <1>3, <2>1, <2>3
  <2> QED
    BY <2>6, <2>7
<1> QED
  BY <1>8, <1>9, <1>10
-----------------------------------------------------------------------------
(* Bytes and frames.                                                       *)

\* The wrapping of a byte index leaves every frame of the bitmap alone.
LEMMA Widths ==
    /\ U32 \in Nat /\ U32 > 7 /\ 8 * U32 \in Nat \ {0}
    /\ Frames \subseteq Bits /\ 8 * PMM_ENTRIES \in Nat
    /\ U32 = 8 * PMM_ENTRIES * PageSize
    /\ \A f \in Nat : f % (8 * U32) \in Bits
    /\ \A f \in Bits : f % (8 * U32) = f
<1>1. PMM_ENTRIES \in Nat \ {0} /\ PageSize \in Nat \ {0}
  BY PMMAssumption
<1>2. PICK E \in Nat : E = 8 * PMM_ENTRIES /\ E > 7
  BY <1>1
<1>3. E * PageSize \in Nat /\ E * PageSize >= E
  BY <1>1
<1>4. PICK u \in Nat : u = U32 /\ u >= E /\ u = E * PageSize
  BY <1>2, <1>3 DEF U32
<1>5. PICK w \in Nat \ {0} : w = 8 * u /\ w >= E
  BY <1>2, <1>4
<1>6. \A f \in Nat : f % w \in 0 .. w - 1
  BY <1>5
<1>7. \A f \in 0 .. w - 1 : f % w = f
  BY <1>5
<1>8. Bits = 0 .. w - 1 /\ Frames = 0 .. E - 1 /\ 8 * U32 = w
  BY <1>2, <1>4, <1>5 DEF Bits, Frames
<1>9. Frames \subseteq Bits
  BY <1>5, <1>8
<1>10. (\A f \in Nat : f % (8 * U32) \in Bits) /\ (\A f \in Bits : f % (8 * U32) = f)
  BY <1>6, <1>7, <1>8, Zenon
<1>11. U32 \in Nat /\ U32 > 7 /\ 8 * U32 \in Nat \ {0} /\ 8 * PMM_ENTRIES \in Nat
  BY <1>2, <1>4, <1>5
<1>12. U32 = 8 * PMM_ENTRIES * PageSize
  BY DEF U32
<1> QED
  BY <1>9, <1>10, <1>11, <1>12

\* The frames a size needs, as bytes.
LEMMA CalcFrames ==
    ASSUME NEW x \in Nat
    PROVE  /\ calc_frames(x) \in Nat /\ start_frame(x) \in Nat
           /\ x # 0 => calc_frames(x) # 0
           /\ x = 0 => calc_frames(x) = 0
           /\ x < U32 - 1 => /\ x <= calc_frames(x) * PageSize
                             /\ calc_frames(x) * PageSize < x + PageSize
                             /\ start_frame(x) = calc_frames(x)
<1>1. PageSize \in Nat \ {0}
  BY PMMAssumption
<1>2. PICK u \in Nat : u = U32 /\ u > 7
  BY Widths
<1>3. PICK y \in Nat : y = x + PageSize - 1
  BY <1>1
<1>4. PICK q \in Nat : q = y \div PageSize /\ y < q * PageSize + PageSize
                         /\ q * PageSize <= y
  BY <1>1, <1>3
<1>5. calc_frames(x) = IF x >= u - 1 THEN u - 1 ELSE q
  BY <1>2, <1>3, <1>4 DEF calc_frames
<1>6. x <= q * PageSize /\ q * PageSize < x + PageSize
  BY <1>1, <1>3, <1>4
<1>7. x # 0 => q # 0
  BY <1>1, <1>6
<1>8. x = 0 => q = 0
  BY <1>1, <1>3, <1>4
<1>9. start_frame(x) = IF x >= u - 1 THEN 8 * u - 1 ELSE calc_frames(x)
  BY <1>2 DEF start_frame
<1>10. CASE x >= u - 1
  <2>1. calc_frames(x) = u - 1 /\ start_frame(x) = 8 * u - 1
    BY <1>5, <1>9, <1>10
  <2> QED
    BY <1>2, <1>10, <2>1
<1>11. CASE ~ (x >= u - 1)
  <2>1. calc_frames(x) = q /\ start_frame(x) = q
    BY <1>5, <1>9, <1>11
  <2> QED
    BY <1>2, <1>6, <1>7, <1>8, <1>11, <2>1
<1> QED
  BY <1>10, <1>11

\* The call truncates nothing of a region in memory.
LEMMA InMemoryLow ==
    ASSUME NEW r \in Regions, InMemory(r)
    PROVE  /\ r[1] \in Nat /\ r[2] \in Nat /\ r[1] < U32 - 1 /\ r[2] < U32 - 1
           /\ Low32(r[1]) = r[1] /\ Low32(r[2]) = r[2]
<1>1. r[1] \in Nat /\ r[2] \in Nat
  BY PMMAssumption
<1>2. PICK u \in Nat : u = U32 /\ u > 7
  BY Widths
<1>3. PICK a \in Nat, b \in Nat : a = r[1] /\ b = r[2]
  BY <1>1
<1>4. a < u - 1 /\ b < u - 1
  BY <1>2, <1>3 DEF InMemory
<1>5. a % u = a /\ b % u = b
  BY <1>2, <1>4
<1> QED
  BY <1>2, <1>3, <1>4, <1>5 DEF Low32

\* A regular region of Regions is marked completely.
LEMMA RegularMarked ==
    ASSUME NEW r \in Regions, Regular(r)
    PROVE  /\ r[2] # 0
           /\ Touched(r) \subseteq Marked(start_frame(r[1]), calc_frames(r[2]))
<1>0. InMemory(r)
  BY DEF Regular
<1>1. PageSize \in Nat \ {0} /\ r[1] \in Nat /\ r[2] \in Nat
        /\ r[1] < U32 - 1 /\ r[2] < U32 - 1
  BY <1>0, InMemoryLow, PMMAssumption
<1>2. PICK first \in Nat : first = r[1] \div PageSize /\ r[1] = first * PageSize
  BY <1>1 DEF Regular
<1>3. start_frame(r[1]) = first
  <2>1. PICK s \in Nat : s = start_frame(r[1]) /\ r[1] <= s * PageSize
                           /\ s * PageSize < r[1] + PageSize
    BY <1>1, CalcFrames
  <2>2. first * PageSize <= s * PageSize /\ s * PageSize < (first + 1) * PageSize
    BY <1>1, <1>2, <2>1
  <2>3. first <= s /\ s < first + 1
    BY <1>1, <2>2
  <2> QED
    BY <2>1, <2>3
<1>4. PICK n \in Nat : n = calc_frames(r[2]) /\ r[2] <= n * PageSize
                         /\ (r[2] = 0 => n = 0)
  BY <1>1, CalcFrames
<1>5. (first % 8) + n >= 8
  BY <1>2, <1>4 DEF Regular
<1>6. n # 0 /\ r[2] # 0
  BY <1>4, <1>5
<1>7. first .. first + n - 1 \subseteq Marked(first, n)
  BY <1>5, <1>6, MarkedForm
<1>8. ASSUME NEW f \in Touched(r)
      PROVE  f \in first .. first + n - 1
  <2>1. f \in Nat /\ f * PageSize < r[1] + r[2] /\ (f + 1) * PageSize > r[1]
    BY PMMAssumption DEF Touched, Frames
  <2>2. f * PageSize < (first + n) * PageSize
    BY <1>1, <1>2, <1>4, <2>1
  <2>3. f < first + n
    BY <1>1, <2>1, <2>2
  <2>4. first * PageSize < (f + 1) * PageSize
    BY <1>1, <1>2, <2>1
  <2>5. first < f + 1
    BY <1>1, <2>1, <2>4
  <2> QED
    BY <2>1, <2>3, <2>5
<1> QED
  BY <1>3, <1>4, <1>6, <1>7, <1>8

\* What a region in memory marks ends at most one bit behind the bit that
\* follows the bitmap: one for the base and one for the length that round up.
LEMMA InMemoryMarked ==
    ASSUME NEW r \in Regions, InMemory(r)
    PROVE  start_frame(r[1]) + calc_frames(r[2]) <= 8 * PMM_ENTRIES + 1
<1>1. PageSize \in Nat \ {0} /\ r[1] \in Nat /\ r[2] \in Nat
        /\ r[1] < U32 - 1 /\ r[2] < U32 - 1 /\ r[1] + r[2] <= U32
  BY InMemoryLow, PMMAssumption DEF InMemory
<1>2. PICK s \in Nat : s = start_frame(r[1]) /\ s * PageSize < r[1] + PageSize
  BY <1>1, CalcFrames
<1>3. PICK n \in Nat : n = calc_frames(r[2]) /\ n * PageSize < r[2] + PageSize
  BY <1>1, CalcFrames
<1>4. PICK E \in Nat : E = 8 * PMM_ENTRIES /\ U32 = E * PageSize
  BY Widths
<1>5. (s + n) * PageSize < (E + 2) * PageSize
  BY <1>1, <1>2, <1>3, <1>4
<1>6. s + n < E + 2
  BY <1>1, <1>2, <1>3, <1>4, <1>5
<1> QED
  BY <1>2, <1>3, <1>4, <1>6

-----------------------------------------------------------------------------
(* The inductive invariant.                                                *)

\* What is handed out is marked, nothing is handed out before boot is over, the
\* frames of a regular region are marked without an owner, and what boot marks
\* belongs to some region.
FrameInv ==
    /\ TypeOK
    /\ owned \subseteq bitmap
    /\ ~booted => owned = {}
    /\ \A r \in reserved : Regular(r) => Touched(r) \subseteq bitmap \ owned
    /\ OneFrameTooMany
    /\ SpillBounded

LEMMA InitFrameInv == Init => FrameInv
  BY DEF Init, FrameInv, TypeOK, OneFrameTooMany, SpillBounded

LEMMA ReserveFrameInv == FrameInv /\ Reserve => FrameInv'
<1> SUFFICES ASSUME FrameInv, Reserve
             PROVE  FrameInv'
  OBVIOUS
<1>0. PICK r \in Regions : /\ fill_from_to(Low32(r[1]), Low32(r[2]))
                           /\ reserved' = reserved \cup {r}
  BY DEF Reserve
<1>1. booted' = booted /\ owned' = owned /\ owned = {} /\ ~booted
  BY DEF Reserve, FrameInv
<1>2. Low32(r[1]) \in Nat /\ Low32(r[2]) \in Nat
  <2>1. r[1] \in Nat /\ r[2] \in Nat
    BY PMMAssumption
  <2>2. PICK u \in Nat \ {0} : u = U32
    BY Widths
  <2> QED
    BY <2>1, <2>2 DEF Low32
<1>3. PICK s \in Nat, n \in Nat :
        /\ s = start_frame(Low32(r[1])) /\ n = calc_frames(Low32(r[2]))
        /\ Low32(r[2]) # 0 => n # 0
  BY <1>2, CalcFrames
<1>4. bitmap' = IF Low32(r[2]) = 0 THEN bitmap
                ELSE bitmap \cup {f % (8 * U32) : f \in Marked(s, n)}
  BY <1>0, <1>3 DEF fill_from_to
<1>4a. Low32(r[2]) # 0 => Marked(s, n) \subseteq s .. s + n
  BY <1>3, MarkedForm
<1>5. bitmap \subseteq bitmap' /\ bitmap' \subseteq Bits
  <2>1. bitmap \subseteq Bits
    BY DEF FrameInv, TypeOK
  <2>2. Low32(r[2]) # 0 => Marked(s, n) \subseteq Nat
    BY <1>3, <1>4a
  <2>3. Low32(r[2]) # 0 => {f % (8 * U32) : f \in Marked(s, n)} \subseteq Bits
    BY <2>2, Widths
  <2> QED
    BY <1>4, <2>1, <2>3
<1>6. TypeOK'
  BY <1>0, <1>1, <1>5 DEF FrameInv, TypeOK
<1>7. (\A q \in reserved : Regular(q) => Touched(q) \subseteq bitmap \ owned)'
  <2>1. ASSUME NEW q \in reserved', Regular(q)
        PROVE  Touched(q) \subseteq bitmap'
    <3>1. CASE q \in reserved
      BY <1>5, <2>1, <3>1 DEF FrameInv
    <3>2. CASE q = r
      <4>0. Low32(r[1]) = r[1] /\ Low32(r[2]) = r[2]
        BY <2>1, <3>2, InMemoryLow DEF Regular
      <4>1. Low32(r[2]) # 0 /\ Touched(r) \subseteq Marked(s, n)
        BY <1>3, <2>1, <3>2, <4>0, RegularMarked
      <4>2. Touched(r) \subseteq Bits
        BY Widths DEF Touched
      <4>3. \A f \in Touched(r) : f % (8 * U32) = f
        BY <4>2, Widths
      <4> QED
        BY <1>4, <3>2, <4>1, <4>3
    <3> QED
      BY <1>0, <3>1, <3>2
  <2> QED
    BY <1>1, <2>1 DEF Regular, Touched
<1>8. OneFrameTooMany'
  <2>1. ASSUME NEW f \in bitmap'
        PROVE  \E q \in reserved' : \E k \in 0 .. calc_frames(Low32(q[2])) :
                 f = (start_frame(Low32(q[1])) + k) % (8 * U32)
    <3>1. CASE f \in bitmap
      BY <1>0, <1>1, <3>1 DEF FrameInv, OneFrameTooMany
    <3>2. CASE f \notin bitmap
      <4>1. PICK g \in Marked(s, n) : Low32(r[2]) # 0 /\ f = g % (8 * U32)
        BY <1>4, <2>1, <3>2
      <4>2. g \in s .. s + n
        BY <1>4a, <4>1
      <4>3. PICK k \in 0 .. n : g = s + k
        <5>1. g - s \in 0 .. n /\ g = s + (g - s)
          BY <1>3, <4>2
        <5> QED
          BY <5>1
      <4> QED
        BY <1>0, <1>3, <4>1, <4>3
    <3> QED
      BY <3>1, <3>2
  <2> QED
    BY <2>1 DEF OneFrameTooMany
<1>9. SpillBounded'
  <2> SUFFICES ASSUME \A q \in reserved' : InMemory(q)
               PROVE  bitmap' \subseteq 0 .. 8 * PMM_ENTRIES + 1
    BY DEF SpillBounded, InMemory
  <2>1. bitmap \subseteq 0 .. 8 * PMM_ENTRIES + 1
    BY <1>0 DEF FrameInv, SpillBounded
  <2>2. InMemory(r)
    BY <1>0
  <2>3. s + n <= 8 * PMM_ENTRIES + 1
    BY <1>3, <2>2, InMemoryLow, InMemoryMarked
  <2>4. ASSUME NEW g \in Marked(s, n), Low32(r[2]) # 0
        PROVE  g % (8 * U32) \in 0 .. 8 * PMM_ENTRIES + 1
    <3>0. PICK E \in Nat : E = 8 * PMM_ENTRIES
      BY Widths
    <3>1. g \in Nat /\ g <= E + 1
      <4>1. g \in s .. s + n
        BY <1>4a, <2>4
      <4> QED
        BY <1>3, <2>3, <3>0, <4>1
    <3>2. PICK w \in Nat \ {0} : w = 8 * U32
      BY Widths
    <3>3. g % w \in Nat /\ g % w <= g
      BY <3>1, <3>2
    <3> QED
      BY <3>0, <3>1, <3>2, <3>3
  <2> QED
    BY <1>4, <2>1, <2>4
<1> QED
  BY <1>1, <1>6, <1>7, <1>8, <1>9 DEF FrameInv

LEMMA NextFrameInv == FrameInv /\ [Next]_vars => FrameInv'
<1> SUFFICES ASSUME FrameInv, [Next]_vars
             PROVE  FrameInv'
  OBVIOUS
<1> USE DEF FrameInv, TypeOK
<1>1. CASE Reserve
  BY <1>1, ReserveFrameInv
<1>2. CASE Boot
  BY <1>2 DEF Boot, OneFrameTooMany, SpillBounded, Regular, Touched, InMemory
<1>3. CASE Get
  <2>1. PICK f \in Frames : get_free_physical_address(f)
    BY <1>3 DEF Get
  <2>2. f \notin bitmap /\ bitmap' = bitmap \cup {f} /\ owned' = owned \cup {f}
          /\ reserved' = reserved /\ booted' = booted /\ booted
    BY <1>3, <2>1 DEF Get, get_free_physical_address, FirstFree
  <2>3. Frames \subseteq Bits /\ Frames \subseteq 0 .. 8 * PMM_ENTRIES + 1
    <3>1. PMM_ENTRIES \in Nat
      BY PMMAssumption
    <3>2. Frames \subseteq 0 .. 8 * PMM_ENTRIES + 1
      BY <3>1 DEF Frames
    <3>3. Frames \subseteq Bits
      BY Widths, Zenon
    <3> QED
      BY <3>2, <3>3
  <2>4. TypeOK' /\ owned' \subseteq bitmap' /\ (~booted => owned = {})'
    BY <2>2, <2>3
  <2>5. (\A r \in reserved : Regular(r) => Touched(r) \subseteq bitmap \ owned)'
    BY <2>2 DEF Regular, Touched, InMemory
  <2>6. OneFrameTooMany'
    BY <2>2 DEF OneFrameTooMany
  <2>7. SpillBounded'
    BY <2>2, <2>3 DEF SpillBounded, InMemory
  <2> QED
    BY <2>4, <2>5, <2>6, <2>7
<1>4. CASE Free
  <2>1. PICK f \in owned : free_physical_frame(f)
    BY <1>4 DEF Free
  <2>2. bitmap' = bitmap \ {f} /\ owned' = owned \ {f}
          /\ reserved' = reserved /\ booted' = booted /\ booted
    BY <1>4, <2>1 DEF Free, free_physical_frame
  <2> QED
    BY <2>2 DEF OneFrameTooMany, SpillBounded, Regular, Touched, InMemory
<1>5. CASE UNCHANGED vars
  BY <1>5 DEF vars, OneFrameTooMany, SpillBounded, Regular, Touched, InMemory
<1> QED
  BY <1>1, <1>2, <1>3, <1>4, <1>5 DEF Next, GetNothing

LEMMA FrameInvariant == Spec => []FrameInv
  BY InitFrameInv, NextFrameInv, PTL DEF Spec

-----------------------------------------------------------------------------

\* Only bits that a uint32_t index reaches are set, and only frames of the
\* bitmap are handed out.
THEOREM FramesTyped == Spec => []TypeOK
<1>1. FrameInv => TypeOK
  BY DEF FrameInv
<1> QED
  BY <1>1, FrameInvariant, PTL

\* For every memory map and every bitmap, the frames of a region that is aligned
\* and reaches the last frame of its first bitmap byte are never handed out by
\* get_free_physical_address, whatever is freed and reused after boot.
THEOREM ReservedStayReserved == Spec => []ReservedNeverOwned
<1>1. FrameInv => ReservedNeverOwned
  BY DEF FrameInv, ReservedNeverOwned
<1> QED
  BY <1>1, FrameInvariant, PTL

\* For every memory map, fill_from_to takes at most the one frame behind a region
\* away from the frames that can be handed out.
THEOREM FillIsTight == Spec => []OneFrameTooMany
<1>1. FrameInv => OneFrameTooMany
  BY DEF FrameInv
<1> QED
  BY <1>1, FrameInvariant, PTL

\* For every memory map inside the 4 GiB, however its regions are aligned,
\* fill_from_to writes at most the first two bits behind the bitmap's last byte.
THEOREM SpillIsTwoBits == Spec => []SpillBounded
<1>1. FrameInv => SpillBounded
  BY DEF FrameInv
<1> QED
  BY <1>1, FrameInvariant, PTL

\* No sequence of get_free_physical_address and free_physical_frame leaks a
\* frame, hands one out twice or gives back what boot has reserved.
THEOREM FramesAreConserved == Spec => FramesConserved
<1>1. FrameInv /\ FrameInv' /\ [Next]_vars =>
        [booted => /\ owned' \subseteq bitmap'
                   /\ bitmap' \ owned' = bitmap \ owned]_vars
  <2> SUFFICES ASSUME FrameInv, FrameInv', Next, booted
               PROVE  /\ owned' \subseteq bitmap'
                      /\ bitmap' \ owned' = bitmap \ owned
    OBVIOUS
  <2>1. owned' \subseteq bitmap' /\ owned \subseteq bitmap
    BY DEF FrameInv
  <2>2. CASE Get
    BY <2>1, <2>2 DEF Get, get_free_physical_address, FirstFree
  <2>3. CASE Free
    BY <2>1, <2>3 DEF Free, free_physical_frame
  <2>4. CASE GetNothing
    BY <2>1, <2>4 DEF GetNothing, vars
  <2> QED
    BY <2>1, <2>2, <2>3, <2>4 DEF Next, Reserve, Boot
<1> QED
  BY <1>1, FrameInvariant, PTL DEF Spec, FramesConserved
=============================================================================
