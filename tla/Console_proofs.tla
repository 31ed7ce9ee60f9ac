--------------------------- MODULE Console_proofs ---------------------------
(***************************************************************************)
(* The command line always ends, no text is lost between ESC and the file, *)
(* the cursor never leaves the screen, and the screen shows the command    *)
(* line, the text in the editor and the time, for screens, buffers and     *)
(* positions of any size, any number of keys and handlers interrupted to   *)
(* any depth.                                                              *)
(*                                                                         *)
(* The invariant of the first two leaves out the screen, on which neither  *)
(* depends.  The second part is about the screen: what print, scrolling    *)
(* and Backspace do to the cursor and to the text before it, for texts of  *)
(* any length (ScreenInvariant).  The third follows the line and the text  *)
(* through the keys and handlers that change them.                         *)
(***************************************************************************)
EXTENDS Console, NatInduction

Chars == Letters \cup {"E", NUL, NEWLINE} \cup UNION {Range(l) : l \in Lines}

Handler == [do : Steps, arg : Nat]

\* The handlers under way; a save was called with a value of e_pos.
Handlers ==
    /\ stack \in Seq(Handler)
    /\ \A i \in 1 .. Len(stack) :
         stack[i].do \in SaveSteps => stack[i].arg \in 0 .. POSITIONS - 1

\* What the proof needs to know of the types.
Typed ==
    /\ buff \in [1 .. BUFFER -> Chars] /\ editor_buff \in [1 .. BUFFER -> Chars]
    /\ position \in 0 .. POSITIONS - 1 /\ e_pos \in 0 .. POSITIONS - 1
    /\ Handlers
    /\ files \subseteq Seq(Chars) /\ due \in Seq(Chars)
    /\ wrapped \in BOOLEAN

\* A byte cannot reach the end of the buffer.
LineInv == \A i \in 1 .. BUFFER : i > POSITIONS => buff[i] = NUL

\* s is a prefix of t, character by character.
Starts(s, t) == Len(s) <= Len(t) /\ \A i \in 1 .. Len(s) : s[i] = t[i]

Filed == \E text \in files : Starts(due, text)

SavedBy(steps) == \E i \in 1 .. Len(stack) : stack[i].do \in steps

\* A save that has gone past create_file has left its text in a file; a text that
\* is due and in no file has a save to come, is still in the editor before e_pos,
\* and every save to come was called with a position behind it.
SaveInv ==
    /\ SavedBy(SaveSteps \ {"create"}) => Filed
    /\ Filed \/ due = <<>> \/ SavedBy(SaveSteps)
    /\ ~Filed =>
         /\ Starts(due, editor_buff) /\ Len(due) <= e_pos
         /\ \A i \in 1 .. Len(stack) :
              stack[i].do = "create" => Len(due) <= stack[i].arg

ConsoleInv == Typed /\ LineInv /\ (~wrapped => SaveInv)

-----------------------------------------------------------------------------
(* Buffers, texts and the stack as sequences.                               *)

\* A buffer is a sequence as long as it is wide.
LEMMA BufferSeq ==
    ASSUME NEW n \in Nat, NEW b \in [1 .. n -> Chars]
    PROVE  b \in Seq(Chars) /\ Len(b) = n
OBVIOUS

\* The first n characters of a text.
LEMMA FirstPart ==
    ASSUME NEW b \in Seq(Chars), NEW n \in 0 .. Len(b)
    PROVE  /\ SubSeq(b, 1, n) \in Seq(Chars) /\ Len(SubSeq(b, 1, n)) = n
           /\ \A i \in 1 .. n : SubSeq(b, 1, n)[i] = b[i]
OBVIOUS

\* A character stored in a buffer, wherever the index points.
LEMMA Stored ==
    ASSUME NEW n \in Nat, NEW b \in [1 .. n -> Chars], NEW i, NEW c \in Chars
    PROVE  /\ [b EXCEPT ![i] = c] \in [1 .. n -> Chars]
           /\ \A j \in 1 .. n : [b EXCEPT ![i] = c][j] = IF j = i THEN c ELSE b[j]
OBVIOUS

\* The empty buffer.
LEMMA EmptyBuffer ==
    /\ EMPTY \in [1 .. BUFFER -> Chars]
    /\ \A i \in 1 .. BUFFER : EMPTY[i] = NUL
<1>1. NUL \in Chars
  BY DEF Chars
<1> QED BY <1>1 DEF EMPTY

\* IsPrefix, which compares sequences, compares their characters.
LEMMA PrefixIff ==
    ASSUME NEW s \in Seq(Chars), NEW t \in Seq(Chars)
    PROVE  IsPrefix(s, t) <=> Starts(s, t)
<1>1. ASSUME Starts(s, t) PROVE IsPrefix(s, t)
  BY <1>1 DEF Starts, IsPrefix
<1>2. ASSUME IsPrefix(s, t) PROVE Starts(s, t)
  BY <1>2, FirstPart DEF Starts, IsPrefix
<1> QED BY <1>1, <1>2

\* A call adds a handler behind the ones under way.
LEMMA Called ==
    ASSUME NEW st \in Seq(Handler), NEW d \in Steps, NEW a \in Nat
    PROVE  LET t == Append(st, [do |-> d, arg |-> a])
           IN  /\ t \in Seq(Handler) /\ Len(t) = Len(st) + 1
               /\ t[Len(st) + 1].do = d /\ t[Len(st) + 1].arg = a
               /\ \A i \in 1 .. Len(st) : t[i] = st[i]
BY DEF Handler

\* A return takes the last one away.
LEMMA Returned ==
    ASSUME NEW st \in Seq(Handler), st # <<>>
    PROVE  /\ Front(st) \in Seq(Handler) /\ Len(Front(st)) = Len(st) - 1
           /\ \A i \in 1 .. Len(st) - 1 : Front(st)[i] = st[i]
<1>1. Len(st) \in Nat /\ Len(st) # 0
  OBVIOUS
<1>2. PICK m \in Nat : Len(st) = m + 1
  BY <1>1
<1>3. Front(st) = SubSeq(st, 1, m)
  BY <1>2 DEF Front
<1>4. /\ SubSeq(st, 1, m) \in Seq(Handler) /\ Len(SubSeq(st, 1, m)) = m
      /\ \A i \in 1 .. m : SubSeq(st, 1, m)[i] = st[i]
  BY <1>2
<1> QED BY <1>2, <1>3, <1>4

\* A step of the last handler keeps its argument and the other handlers.
LEMMA Stepped ==
    ASSUME NEW st \in Seq(Handler), st # <<>>, NEW d \in Steps
    PROVE  LET t == [st EXCEPT ![Len(st)].do = d]
           IN  /\ t \in Seq(Handler) /\ Len(t) = Len(st)
               /\ t[Len(st)].do = d /\ t[Len(st)].arg = st[Len(st)].arg
               /\ \A i \in 1 .. Len(st) - 1 : t[i] = st[i]
<1> DEFINE n == Len(st)
           r == [st[n] EXCEPT !.do = d]
           t == [st EXCEPT ![n] = r]
<1>1. n \in Nat /\ n # 0 /\ st[n] \in Handler
  OBVIOUS
<1>2. PICK a \in Nat, e \in Steps : st[n] = [do |-> e, arg |-> a]
  BY <1>1 DEF Handler
<1>3. r = [do |-> d, arg |-> a]
  BY <1>2
<1>4. r \in Handler /\ r.do = d /\ r.arg = st[n].arg
  BY <1>2, <1>3 DEF Handler
<1> HIDE DEF r
<1>5. t \in Seq(Handler) /\ Len(t) = n /\ t[n] = r /\ \A i \in 1 .. n - 1 : t[i] = st[i]
  BY <1>1, <1>4
<1>6. [st EXCEPT ![Len(st)].do = d] = t
  BY DEF r
<1> QED BY <1>4, <1>5, <1>6

-----------------------------------------------------------------------------
(* Facts about the state and the steps.                                     *)

\* The constants and the ranges of the positions, as arithmetic needs them.
LEMMA Ranges ==
    ASSUME Typed
    PROVE  /\ BUFFER \in Nat /\ POSITIONS \in Nat /\ 0 < POSITIONS /\ POSITIONS < BUFFER
           /\ position \in Nat /\ position < POSITIONS
           /\ e_pos \in Nat /\ e_pos < POSITIONS
           /\ editor_buff \in Seq(Chars) /\ Len(editor_buff) = BUFFER
           /\ Len(stack) \in Nat /\ Len(due) \in Nat
<1>1. BUFFER \in Nat /\ POSITIONS \in Nat /\ 0 < POSITIONS /\ POSITIONS < BUFFER
  BY ConsoleAssumption
<1>2. /\ position \in Nat /\ position < POSITIONS
      /\ e_pos \in Nat /\ e_pos < POSITIONS
      /\ Len(stack) \in Nat /\ Len(due) \in Nat
  BY <1>1 DEF Typed, Handlers
<1>3. editor_buff \in Seq(Chars) /\ Len(editor_buff) = BUFFER
  BY <1>1, BufferSeq DEF Typed
<1> QED BY <1>1, <1>2, <1>3

\* A position stays a byte.
LEMMA AdvanceRange ==
    ASSUME NEW p \in Nat, p < POSITIONS
    PROVE  /\ Advance(p) \in 0 .. POSITIONS - 1
           /\ Advance(p) # 0 => Advance(p) = p + 1
<1>1. POSITIONS \in Nat /\ 0 < POSITIONS
  BY ConsoleAssumption
<1>2. CASE p + 1 < POSITIONS
  <2>1. (p + 1) % POSITIONS = p + 1
    BY <1>1, <1>2
  <2> QED BY <1>1, <1>2, <2>1 DEF Advance
<1>3. CASE p + 1 = POSITIONS
  <2>1. (p + 1) % POSITIONS = 0
    BY <1>1, <1>3
  <2> QED BY <1>1, <2>1 DEF Advance
<1> QED BY <1>1, <1>2, <1>3

\* A register of the clock is a number.
LEMMA RegisterNat == \A bcd \in Registers : bcd \in Nat
BY ConsoleAssumption DEF Bytes

\* The handler that runs.
LEMMA Running ==
    ASSUME Typed, NEW d, Runs(d)
    PROVE  /\ stack # <<>> /\ Len(stack) \in 1 .. Len(stack)
           /\ Last(stack) = stack[Len(stack)] /\ stack[Len(stack)].do = d
           /\ Len(stack) \in Nat /\ Len(stack) # 0
BY DEF Typed, Handlers, Runs, Last

-----------------------------------------------------------------------------
(* Types.                                                                   *)

\* The machine starts with a line that fits in front of its position.
LEMMA InitTyped == Init => Typed /\ LineInv
<1> SUFFICES ASSUME Init PROVE Typed /\ LineInv
  OBVIOUS
<1>1. /\ BUFFER \in Nat /\ POSITIONS \in Nat /\ 0 < POSITIONS /\ POSITIONS < BUFFER
  BY ConsoleAssumption
<1>2. PICK l \in Lines : buff = Buffer(l) /\ position = Len(l)
  BY DEF Init
<1>3. l \in Seq(Chars) /\ Len(l) \in Nat /\ Len(l) < POSITIONS
  <2>1. l \in Seq(Range(l)) /\ Len(l) < POSITIONS
    BY ConsoleAssumption
  <2>2. Range(l) \subseteq Chars
    BY DEF Chars
  <2> QED BY <2>1, <2>2
<1>4. buff \in [1 .. BUFFER -> Chars]
  <2>1. NUL \in Chars
    BY DEF Chars
  <2>2. \A i \in 1 .. BUFFER : (IF i <= Len(l) THEN l[i] ELSE NUL) \in Chars
    BY <1>1, <1>3, <2>1
  <2> QED BY <1>2, <2>2 DEF Buffer
<1>5. position \in 0 .. POSITIONS - 1 /\ e_pos \in 0 .. POSITIONS - 1
  BY <1>1, <1>2, <1>3 DEF Init
<1>6. LineInv
  BY <1>1, <1>2, <1>3 DEF LineInv, Buffer
<1>7. Typed
  <2>1. stack \in Seq(Handler) /\ Len(stack) = 0
    BY DEF Init
  <2>2. \A i \in 1 .. Len(stack) : FALSE
    BY <2>1
  <2>3. files \subseteq Seq(Chars) /\ due \in Seq(Chars)
    BY DEF Init
  <2>5. wrapped \in BOOLEAN
    BY DEF Init
  <2>4. editor_buff \in [1 .. BUFFER -> Chars]
    BY EmptyBuffer DEF Init
  <2> QED BY <1>4, <1>5, <2>1, <2>2, <2>3, <2>4, <2>5 DEF Typed, Handlers
<1> QED BY <1>6, <1>7

\* Storing into the command line: never behind a byte's reach.
LEMMA LineStored ==
    ASSUME Typed, LineInv, NEW c \in Chars, inputIntoBuffer(c)
    PROVE  /\ buff' \in [1 .. BUFFER -> Chars] /\ position' \in 0 .. POSITIONS - 1
           /\ wrapped' \in BOOLEAN /\ LineInv' /\ (wrapped => wrapped')
<1>1. position \in Nat /\ position < POSITIONS /\ POSITIONS < BUFFER
      /\ BUFFER \in Nat /\ POSITIONS \in Nat
  BY Ranges
<1>2. /\ buff' = [buff EXCEPT ![position + 1] = c]
      /\ position' = Advance(position)
      /\ wrapped' = (wrapped \/ position' = 0)
  BY <1>1 DEF inputIntoBuffer
<1>3. /\ buff' \in [1 .. BUFFER -> Chars]
      /\ \A j \in 1 .. BUFFER : buff'[j] = IF j = position + 1 THEN c ELSE buff[j]
  BY <1>1, <1>2, Stored DEF Typed
<1>4. position' \in 0 .. POSITIONS - 1
  BY <1>1, <1>2, AdvanceRange
<1>5. wrapped' \in BOOLEAN /\ (wrapped => wrapped')
  BY <1>2
<1>6. LineInv'
  BY <1>1, <1>3 DEF LineInv
<1> QED BY <1>3, <1>4, <1>5, <1>6

\* The command line after a command.
LEMMA LineEmptied ==
    ASSUME Typed, clearBuffer
    PROVE  buff' \in [1 .. BUFFER -> Chars] /\ position' \in 0 .. POSITIONS - 1 /\ LineInv'
BY Ranges, EmptyBuffer DEF clearBuffer, LineInv

\* Taking a character off the command line.
LEMMA LineShortened ==
    ASSUME Typed, LineInv, remove_one_from_buffer
    PROVE  buff' \in [1 .. BUFFER -> Chars] /\ position' \in 0 .. POSITIONS - 1 /\ LineInv'
<1>1. position \in Nat /\ position < POSITIONS /\ BUFFER \in Nat /\ POSITIONS \in Nat
  BY Ranges
<1>2. CASE position = 0
  BY <1>2 DEF remove_one_from_buffer, lineVars, Typed, LineInv
<1>3. CASE position # 0
  <2>1. buff' = [buff EXCEPT ![position] = NUL] /\ position' = position - 1
    BY <1>3 DEF remove_one_from_buffer
  <2>2. NUL \in Chars
    BY DEF Chars
  <2>3. /\ buff' \in [1 .. BUFFER -> Chars]
        /\ \A j \in 1 .. BUFFER : buff'[j] = IF j = position THEN NUL ELSE buff[j]
    BY <1>1, <2>1, <2>2, Stored DEF Typed
  <2>4. LineInv'
    BY <2>3 DEF LineInv
  <2> QED BY <1>1, <1>3, <2>1, <2>3, <2>4
<1> QED BY <1>2, <1>3

\* Storing into the editor: unless the position wraps, behind what is there.
LEMMA EditorStored ==
    ASSUME Typed, NEW c \in Chars, inputIntoEditorBuffer(c)
    PROVE  /\ editor_buff' \in [1 .. BUFFER -> Chars] /\ e_pos' \in 0 .. POSITIONS - 1
           /\ wrapped' \in BOOLEAN /\ (wrapped => wrapped')
           /\ ~wrapped' => e_pos' = e_pos + 1
           /\ \A j \in 1 .. BUFFER : j <= e_pos => editor_buff'[j] = editor_buff[j]
<1>1. /\ position \in Nat /\ position < POSITIONS /\ POSITIONS < BUFFER
      /\ BUFFER \in Nat /\ POSITIONS \in Nat /\ e_pos \in Nat /\ e_pos < POSITIONS
  BY Ranges
<1>2. /\ editor_buff' = [editor_buff EXCEPT ![e_pos + 1] = c]
      /\ e_pos' = Advance(e_pos)
      /\ wrapped' = (wrapped \/ e_pos' = 0)
  BY <1>1 DEF inputIntoEditorBuffer
<1>3. /\ editor_buff' \in [1 .. BUFFER -> Chars]
      /\ \A j \in 1 .. BUFFER :
           editor_buff'[j] = IF j = e_pos + 1 THEN c ELSE editor_buff[j]
  BY <1>1, <1>2, Stored DEF Typed
<1>4. e_pos' \in 0 .. POSITIONS - 1 /\ (e_pos' # 0 => e_pos' = e_pos + 1)
  BY <1>1, <1>2, AdvanceRange
<1>5. wrapped' \in BOOLEAN /\ (wrapped => wrapped') /\ (~wrapped' => e_pos' # 0)
  BY <1>2
<1>6. \A j \in 1 .. BUFFER : j <= e_pos => editor_buff'[j] = editor_buff[j]
  BY <1>1, <1>3
<1> QED BY <1>3, <1>4, <1>5, <1>6

\* Taking a character out of the editor.
LEMMA EditorShortened ==
    ASSUME Typed, remove_one_from_editor_buffer
    PROVE  /\ editor_buff' \in [1 .. BUFFER -> Chars] /\ e_pos' \in 0 .. POSITIONS - 1
           /\ e_pos' <= e_pos
           /\ \A j \in 1 .. BUFFER : j <= e_pos' => editor_buff'[j] = editor_buff[j]
<1>1. e_pos \in Nat /\ e_pos < POSITIONS /\ BUFFER \in Nat /\ POSITIONS \in Nat
  BY Ranges
<1>2. CASE e_pos = 0
  BY <1>2 DEF remove_one_from_editor_buffer, editorVars, Typed
<1>3. CASE e_pos # 0
  <2>1. editor_buff' = [editor_buff EXCEPT ![e_pos] = NUL] /\ e_pos' = e_pos - 1
    BY <1>3 DEF remove_one_from_editor_buffer
  <2>2. NUL \in Chars
    BY DEF Chars
  <2>3. /\ editor_buff' \in [1 .. BUFFER -> Chars]
        /\ \A j \in 1 .. BUFFER :
             editor_buff'[j] = IF j = e_pos THEN NUL ELSE editor_buff[j]
    BY <1>1, <2>1, <2>2, Stored DEF Typed
  <2> QED BY <1>1, <1>3, <2>1, <2>3
<1> QED BY <1>2, <1>3

\* A handler that is interrupted.
LEMMA CallStep ==
    ASSUME Typed, NEW d \in Steps, NEW a \in Nat, Call(d, a),
           d \in SaveSteps => a \in 0 .. POSITIONS - 1
    PROVE  /\ Handlers' /\ Len(stack') = Len(stack) + 1
           /\ stack'[Len(stack) + 1].do = d /\ stack'[Len(stack) + 1].arg = a
           /\ \A i \in 1 .. Len(stack) : stack'[i] = stack[i]
<1>1. stack \in Seq(Handler) /\ Len(stack) \in Nat
  BY DEF Typed, Handlers
<1>2. /\ stack' \in Seq(Handler) /\ Len(stack') = Len(stack) + 1
      /\ stack'[Len(stack) + 1].do = d /\ stack'[Len(stack) + 1].arg = a
      /\ \A i \in 1 .. Len(stack) : stack'[i] = stack[i]
  BY <1>1, Called DEF Call
<1>3. ASSUME NEW i \in 1 .. Len(stack'), stack'[i].do \in SaveSteps
      PROVE  stack'[i].arg \in 0 .. POSITIONS - 1
  <2>1. CASE i = Len(stack) + 1
    BY <1>2, <1>3, <2>1
  <2>2. CASE i # Len(stack) + 1
    <3>1. i \in 1 .. Len(stack)
      BY <1>1, <1>2, <2>2
    <3> QED BY <1>2, <1>3, <3>1 DEF Typed, Handlers
  <2> QED BY <2>1, <2>2
<1> QED BY <1>2, <1>3 DEF Handlers

\* A step of the last handler.
LEMMA ThenStep ==
    ASSUME Typed, NEW d, Runs(d), NEW e \in Steps, Then(e),
           e \in SaveSteps => d \in SaveSteps
    PROVE  /\ Handlers' /\ Len(stack') = Len(stack)
           /\ stack'[Len(stack)].do = e /\ stack'[Len(stack)].arg = stack[Len(stack)].arg
           /\ \A i \in 1 .. Len(stack) - 1 : stack'[i] = stack[i]
<1>1. /\ stack \in Seq(Handler) /\ Len(stack) \in Nat /\ Len(stack) # 0 /\ stack # <<>>
      /\ Len(stack) \in 1 .. Len(stack) /\ stack[Len(stack)].do = d
  BY Running DEF Typed, Handlers
<1>2. /\ stack' \in Seq(Handler) /\ Len(stack') = Len(stack)
      /\ stack'[Len(stack)].do = e /\ stack'[Len(stack)].arg = stack[Len(stack)].arg
      /\ \A i \in 1 .. Len(stack) - 1 : stack'[i] = stack[i]
  BY <1>1, Stepped DEF Then
<1>3. ASSUME NEW i \in 1 .. Len(stack'), stack'[i].do \in SaveSteps
      PROVE  stack'[i].arg \in 0 .. POSITIONS - 1
  <2>1. CASE i = Len(stack)
    BY <1>1, <1>2, <1>3, <2>1 DEF Typed, Handlers
  <2>2. CASE i # Len(stack)
    <3>1. i \in 1 .. Len(stack) - 1 /\ i \in 1 .. Len(stack)
      BY <1>1, <1>2, <2>2
    <3> QED BY <1>2, <1>3, <3>1 DEF Typed, Handlers
  <2> QED BY <2>1, <2>2
<1> QED BY <1>2, <1>3 DEF Handlers

\* The end of the last handler.
LEMMA ReturnStep ==
    ASSUME Typed, NEW d, Runs(d), Return
    PROVE  /\ Handlers' /\ Len(stack') = Len(stack) - 1
           /\ \A i \in 1 .. Len(stack) - 1 : stack'[i] = stack[i]
<1>1. stack \in Seq(Handler) /\ Len(stack) \in Nat /\ Len(stack) # 0 /\ stack # <<>>
  BY Running DEF Typed, Handlers
<1>2. /\ stack' \in Seq(Handler) /\ Len(stack') = Len(stack) - 1
      /\ \A i \in 1 .. Len(stack) - 1 : stack'[i] = stack[i]
  BY <1>1, Returned DEF Return
<1>3. \A i \in 1 .. Len(stack') : i \in 1 .. Len(stack) - 1 /\ i \in 1 .. Len(stack)
  BY <1>1, <1>2
<1>4. ASSUME NEW i \in 1 .. Len(stack'), stack'[i].do \in SaveSteps
      PROVE  stack'[i].arg \in 0 .. POSITIONS - 1
  BY <1>2, <1>3, <1>4 DEF Typed, Handlers
<1> QED BY <1>2, <1>4 DEF Handlers

-----------------------------------------------------------------------------
(* Every step keeps the types and the end of the line.                      *)

\* Characters, Backspace and Enter in the editor.
LEMMA KeysTyped ==
    ASSUME Typed, LineInv,
           \/ \E c \in Letters \cup {"E"} : KeyLetter(c)
           \/ KeyBackspace \/ EnterInEditor
    PROVE  Typed' /\ LineInv' /\ (wrapped => wrapped')
<1>1. ASSUME NEW c \in Letters \cup {"E"}, KeyLetter(c)
      PROVE  Typed' /\ LineInv' /\ (wrapped => wrapped')
  <2>1. c \in Chars
    BY DEF Chars
  <2>2. UNCHANGED <<stack, files, due>>
    BY <1>1 DEF KeyLetter, fileVars
  <2>3. CASE inputIntoBuffer(c) /\ UNCHANGED editorVars
    BY <2>1, <2>2, <2>3, LineStored DEF Typed, Handlers, editorVars
  <2>4. CASE inputIntoEditorBuffer(c) /\ UNCHANGED lineVars
    BY <2>1, <2>2, <2>4, EditorStored DEF Typed, Handlers, lineVars, LineInv
  <2> QED BY <1>1, <2>3, <2>4 DEF KeyLetter
<1>2. CASE KeyBackspace
  <2>1. UNCHANGED <<stack, files, wrapped>>
    BY <1>2 DEF KeyBackspace
  <2>2. CASE remove_one_from_buffer /\ UNCHANGED <<editorVars, due>>
    BY <2>1, <2>2, LineShortened DEF Typed, Handlers, editorVars
  <2>3. CASE /\ remove_one_from_editor_buffer /\ UNCHANGED lineVars
             /\ due' = IF stack # <<>> /\ e_pos' < Len(due) THEN SubSeq(due, 1, e_pos')
                       ELSE due
    <3>1. e_pos' \in 0 .. POSITIONS - 1 /\ editor_buff' \in [1 .. BUFFER -> Chars]
      BY <2>3, EditorShortened
    <3>2. due' \in Seq(Chars)
      <4>1. CASE e_pos' < Len(due)
        <5>1. due \in Seq(Chars) /\ e_pos' \in 0 .. Len(due)
          BY <3>1, <4>1, Ranges DEF Typed
        <5> QED BY <2>3, <5>1, FirstPart DEF Typed
      <4> QED BY <2>3, <4>1 DEF Typed
    <3> QED BY <2>1, <2>3, <3>1, <3>2 DEF Typed, Handlers, lineVars, LineInv
  <2> QED BY <1>2, <2>2, <2>3 DEF KeyBackspace
<1>3. CASE EnterInEditor
  <2>1. NEWLINE \in Chars
    BY DEF Chars
  <2>2. UNCHANGED <<stack, files, due, buff, position>>
    BY <1>3 DEF EnterInEditor, fileVars, lineVars
  <2> QED BY <1>3, <2>1, <2>2, EditorStored DEF EnterInEditor, Typed, Handlers, LineInv
<1> QED BY <1>1, <1>2, <1>3

\* The commands and ESC.
LEMMA CommandsTyped ==
    ASSUME Typed, LineInv,
           EnterPrints \/ EnterClear \/ EnterWrite \/ EnterGetTime \/ KeyEscape
    PROVE  Typed' /\ LineInv' /\ wrapped' = wrapped
<1>1. CASE EnterPrints
  <2>1. UNCHANGED <<editor_buff, e_pos, stack, files, wrapped>> /\ clearBuffer
    BY <1>1 DEF EnterPrints, editorVars
  <2>2. due' \in Seq(Chars)
    BY <1>1 DEF EnterPrints, Typed
  <2> QED BY <2>1, <2>2, LineEmptied DEF Typed, Handlers
<1>2. CASE EnterClear \/ EnterWrite
  <2>1. UNCHANGED <<editor_buff, e_pos, stack, files, due, wrapped>> /\ clearBuffer
    BY <1>2 DEF EnterClear, EnterWrite, editorVars, fileVars
  <2> QED BY <2>1, LineEmptied DEF Typed, Handlers
<1>3. CASE EnterGetTime
  <2>1. UNCHANGED <<position, editor_buff, e_pos, files, due, wrapped>> /\ buff' = Split
    BY <1>3 DEF EnterGetTime, editorVars, fileVars
  <2>2. buff' \in [1 .. BUFFER -> Chars] /\ LineInv'
    <3>1. CASE HasArg
      <4>1. NUL \in Chars /\ BUFFER \in Nat
        BY Ranges DEF Chars
      <4>2. PICK i : buff' = [buff EXCEPT ![i] = NUL]
        BY <2>1, <3>1 DEF Split
      <4>3. /\ buff' \in [1 .. BUFFER -> Chars]
            /\ \A j \in 1 .. BUFFER : buff'[j] = IF j = i THEN NUL ELSE buff[j]
        BY <4>1, <4>2, Stored DEF Typed
      <4> QED BY <4>3 DEF LineInv
    <3>2. CASE ~HasArg
      BY <2>1, <3>2 DEF Split, Typed, LineInv
    <3> QED BY <3>1, <3>2
  <2>3. Handlers'
    <3>1. PICK bcd \in Registers : Call("print_time", bcd)
      BY <1>3 DEF EnterGetTime
    <3>2. bcd \in Nat /\ "print_time" \in Steps /\ "print_time" \notin SaveSteps
      BY RegisterNat DEF Steps, SaveSteps
    <3> QED BY <3>1, <3>2, CallStep
  <2> QED BY <2>1, <2>2, <2>3 DEF Typed
<1>4. CASE KeyEscape
  <2>1. UNCHANGED <<buff, position, editor_buff, e_pos, files, wrapped>>
    BY <1>4 DEF KeyEscape, lineVars, editorVars
  <2>2. Handlers'
    <3>1. Call("create", e_pos) /\ "create" \in Steps /\ e_pos \in Nat
      BY <1>4, Ranges DEF KeyEscape, Steps, SaveSteps
    <3> QED BY <3>1, CallStep DEF Typed
  <2>3. due' \in Seq(Chars)
    <3>1. editor_buff \in Seq(Chars) /\ e_pos \in 0 .. Len(editor_buff)
      BY Ranges
    <3>2. SubSeq(editor_buff, 1, e_pos) \in Seq(Chars)
      BY <3>1, FirstPart
    <3> QED BY <1>4, <3>2 DEF KeyEscape, Due, Typed
  <2> QED BY <2>1, <2>2, <2>3 DEF Typed, LineInv
<1> QED BY <1>1, <1>2, <1>3, <1>4

\* The steps of interrupted handlers.
LEMMA HandlersTyped ==
    ASSUME Typed, LineInv, HandlerStep
    PROVE  Typed' /\ LineInv' /\ wrapped' = wrapped
<1> wrapped' = wrapped
  BY DEF HandlerStep
<1>1. CASE print_time
  <2>1. UNCHANGED <<buff, position, editor_buff, e_pos, files, due>>
    BY <1>1 DEF print_time, lineVars, editorVars, fileVars
  <2>2. Runs("print_time") /\ Then("memset") /\ "memset" \in Steps
        /\ "memset" \notin SaveSteps
    BY <1>1 DEF print_time, Steps, SaveSteps
  <2>3. Handlers'
    BY <2>2, ThenStep
  <2> QED BY <2>1, <2>3 DEF Typed, LineInv
<1>2. CASE ClearLine
  <2>1. UNCHANGED <<position, editor_buff, e_pos, files, due>> /\ buff' = EMPTY
    BY <1>2 DEF ClearLine, editorVars, fileVars
  <2>2. Runs("memset") /\ Then("position") /\ "position" \in Steps
        /\ "position" \notin SaveSteps
    BY <1>2 DEF ClearLine, Steps, SaveSteps
  <2>3. Handlers'
    BY <2>2, ThenStep
  <2> QED BY <2>1, <2>3, EmptyBuffer DEF Typed, LineInv
<1>3. CASE ClearPosition
  <2>1. UNCHANGED <<buff, editor_buff, e_pos, files, due>> /\ position' = 0
    BY <1>3 DEF ClearPosition, editorVars, fileVars
  <2>2. Handlers'
    BY <1>3, ReturnStep DEF ClearPosition
  <2> QED BY <2>1, <2>2, Ranges DEF Typed, LineInv
<1>4. CASE CreateFile
  <2>1. /\ UNCHANGED <<buff, position, editor_buff, e_pos, due>>
        /\ files' = files \cup {SubSeq(editor_buff, 1, Last(stack).arg)}
    BY <1>4 DEF CreateFile, lineVars, editorVars
  <2>2. Runs("create") /\ Then("clear") /\ "clear" \in Steps /\ "create" \in SaveSteps
    BY <1>4 DEF CreateFile, Steps, SaveSteps
  <2>3. Handlers'
    BY <2>2, ThenStep
  <2>4. Last(stack).arg \in 0 .. POSITIONS - 1
    BY <2>2, Running DEF Typed, Handlers
  <2>5. editor_buff \in Seq(Chars) /\ Last(stack).arg \in 0 .. Len(editor_buff)
    BY <2>4, Ranges
  <2>6. SubSeq(editor_buff, 1, Last(stack).arg) \in Seq(Chars)
    BY <2>5, FirstPart
  <2> QED BY <2>1, <2>3, <2>6 DEF Typed, LineInv
<1>5. CASE ClearEditor
  <2>1. UNCHANGED <<buff, position, e_pos, files, due>> /\ editor_buff' = EMPTY
    BY <1>5 DEF ClearEditor, lineVars, fileVars
  <2>2. Runs("clear") /\ Then("e_pos") /\ "e_pos" \in Steps /\ "clear" \in SaveSteps
    BY <1>5 DEF ClearEditor, Steps, SaveSteps
  <2>3. Handlers'
    BY <2>2, ThenStep
  <2> QED BY <2>1, <2>3, EmptyBuffer DEF Typed, LineInv
<1>6. CASE ClearEPos
  <2>1. UNCHANGED <<buff, position, editor_buff, files, due>> /\ e_pos' = 0
    BY <1>6 DEF ClearEPos, lineVars, fileVars
  <2>2. Runs("e_pos") /\ Then("mode") /\ "mode" \in Steps /\ "e_pos" \in SaveSteps
    BY <1>6 DEF ClearEPos, Steps, SaveSteps
  <2>3. Handlers'
    BY <2>2, ThenStep
  <2> QED BY <2>1, <2>3, Ranges DEF Typed, LineInv
<1>7. CASE LeaveEditor
  <2>1. UNCHANGED <<buff, position, editor_buff, e_pos, files, due>>
    BY <1>7 DEF LeaveEditor, lineVars, editorVars, fileVars
  <2>2. Runs("mode") /\ Then("window") /\ "window" \in Steps /\ "mode" \in SaveSteps
    BY <1>7 DEF LeaveEditor, Steps, SaveSteps
  <2>3. Handlers'
    BY <2>2, ThenStep
  <2> QED BY <2>1, <2>3 DEF Typed, LineInv
<1>8. CASE retrive_saved_window
  <2>1. UNCHANGED <<buff, position, editor_buff, e_pos, files, due>>
    BY <1>8 DEF retrive_saved_window, lineVars, editorVars, fileVars
  <2>2. Handlers'
    BY <1>8, ReturnStep DEF retrive_saved_window
  <2> QED BY <2>1, <2>2 DEF Typed, LineInv
<1> QED
  BY <1>1, <1>2, <1>3, <1>4, <1>5, <1>6, <1>7, <1>8 DEF HandlerStep

\* Together; and a position that has wrapped is not forgotten.
LEMMA NextTyped ==
    Typed /\ LineInv /\ [Next]_vars => Typed' /\ LineInv' /\ (wrapped => wrapped')
<1> SUFFICES ASSUME Typed, LineInv, [Next]_vars
             PROVE  Typed' /\ LineInv' /\ (wrapped => wrapped')
  OBVIOUS
<1>1. CASE Next
  BY <1>1, KeysTyped, CommandsTyped, HandlersTyped DEF Next
<1>2. CASE UNCHANGED vars
  BY <1>2 DEF vars, lineVars, editorVars, fileVars, Typed, Handlers, LineInv
<1> QED BY <1>1, <1>2

-----------------------------------------------------------------------------
(* Every step keeps a text safe.                                            *)

\* A text that is in a file is safe whatever happens.
LEMMA FiledIsSafe == Filed' => SaveInv'
BY DEF SaveInv

\* A file is not taken away, and a shorter text is in it, too.
LEMMA StaysFiled ==
    ASSUME Typed, Filed, files \subseteq files', Len(due') \in Nat, Len(due') <= Len(due),
           \A i \in 1 .. Len(due') : due'[i] = due[i]
    PROVE  Filed'
<1>1. PICK text \in files : Starts(due, text)
  BY DEF Filed
<1>2. Len(due) \in Nat /\ Len(text) \in Nat
  BY DEF Typed
<1>3. \A i \in 1 .. Len(due') : i \in 1 .. Len(due)
  BY <1>2
<1>4. Len(due') <= Len(text) /\ \A i \in 1 .. Len(due') : due'[i] = text[i]
  BY <1>1, <1>2, <1>3 DEF Starts
<1> QED BY <1>1, <1>4 DEF Filed, Starts

\* Steps of handlers that save nothing.
LEMMA OtherHandlers ==
    ASSUME Typed, SaveInv, UNCHANGED <<editor_buff, e_pos, files, due>>,
           \A i \in 1 .. Len(stack') :
             stack'[i].do \in SaveSteps => i \in 1 .. Len(stack) /\ stack'[i] = stack[i],
           \A i \in 1 .. Len(stack) :
             stack[i].do \in SaveSteps => i \in 1 .. Len(stack') /\ stack'[i] = stack[i]
    PROVE  SaveInv'
<1>1. Filed' <=> Filed
  BY DEF Filed
<1>2. SavedBy(SaveSteps)' <=> SavedBy(SaveSteps)
  BY DEF SavedBy
<1>3. SavedBy(SaveSteps \ {"create"})' => SavedBy(SaveSteps \ {"create"})
  BY DEF SavedBy
<1>4. ASSUME ~Filed
      PROVE  /\ Starts(due, editor_buff) /\ Len(due) <= e_pos
             /\ \A i \in 1 .. Len(stack') :
                  stack'[i].do = "create" => Len(due) <= stack'[i].arg
  BY <1>4 DEF SaveInv, SaveSteps
<1> QED BY <1>1, <1>2, <1>3, <1>4 DEF SaveInv

\* A character stored in the editor is stored behind the text that is due.
LEMMA StoredBehind ==
    ASSUME Typed, SaveInv, ~wrapped', NEW c \in Chars, inputIntoEditorBuffer(c),
           UNCHANGED <<stack, files, due>>
    PROVE  SaveInv'
<1>1. /\ editor_buff' \in [1 .. BUFFER -> Chars] /\ e_pos' = e_pos + 1
      /\ \A j \in 1 .. BUFFER : j <= e_pos => editor_buff'[j] = editor_buff[j]
  BY EditorStored
<1>2. /\ BUFFER \in Nat /\ e_pos \in Nat /\ Len(due) \in Nat
      /\ Len(editor_buff) = BUFFER /\ Len(editor_buff') = BUFFER
  BY <1>1, Ranges, BufferSeq
<1>3. Filed' <=> Filed
  BY DEF Filed
<1>4. /\ SavedBy(SaveSteps)' <=> SavedBy(SaveSteps)
      /\ SavedBy(SaveSteps \ {"create"})' <=> SavedBy(SaveSteps \ {"create"})
  BY DEF SavedBy
<1>5. ASSUME ~Filed
      PROVE  Starts(due, editor_buff') /\ Len(due) <= e_pos'
  <2>1. Starts(due, editor_buff) /\ Len(due) <= e_pos
    BY <1>5 DEF SaveInv
  <2>2. \A i \in 1 .. Len(due) : i \in 1 .. BUFFER /\ i <= e_pos
    BY <1>2, <2>1 DEF Starts
  <2> QED BY <1>1, <1>2, <2>1, <2>2 DEF Starts
<1> QED BY <1>3, <1>4, <1>5 DEF SaveInv

\* What Backspace in the editor leaves of the text that is due.
DueShortened ==
    due' = IF stack # <<>> /\ e_pos' < Len(due) THEN SubSeq(due, 1, e_pos') ELSE due

\* Backspace in the editor.
LEMMA ShortenedIsSafe ==
    ASSUME Typed, SaveInv, remove_one_from_editor_buffer, UNCHANGED <<stack, files>>,
           DueShortened
    PROVE  SaveInv'
<1>1. /\ editor_buff' \in [1 .. BUFFER -> Chars] /\ e_pos' \in Nat /\ e_pos' <= e_pos
      /\ \A j \in 1 .. BUFFER : j <= e_pos' => editor_buff'[j] = editor_buff[j]
  BY EditorShortened, Ranges
<1>2. /\ BUFFER \in Nat /\ e_pos \in Nat /\ Len(due) \in Nat /\ due \in Seq(Chars)
      /\ Len(editor_buff) = BUFFER /\ Len(editor_buff') = BUFFER
  BY <1>1, Ranges, BufferSeq DEF Typed
<1>3. /\ due' \in Seq(Chars) /\ Len(due') \in Nat /\ Len(due') <= Len(due)
      /\ \A i \in 1 .. Len(due') : due'[i] = due[i]
  <2>1. CASE e_pos' < Len(due)
    <3>1. e_pos' \in 0 .. Len(due)
      BY <1>1, <1>2, <2>1
    <3>2. /\ SubSeq(due, 1, e_pos') \in Seq(Chars) /\ Len(SubSeq(due, 1, e_pos')) = e_pos'
          /\ \A i \in 1 .. e_pos' : SubSeq(due, 1, e_pos')[i] = due[i]
      BY <1>2, <3>1, FirstPart
    <3>3. CASE due' = due
      BY <1>2, <3>3
    <3>4. CASE due' = SubSeq(due, 1, e_pos')
      BY <1>1, <2>1, <3>2, <3>4
    <3> QED BY <3>3, <3>4 DEF DueShortened
  <2>2. CASE ~(e_pos' < Len(due))
    <3>1. due' = due
      BY <2>2 DEF DueShortened
    <3> QED BY <1>2, <3>1
  <2> QED BY <2>1, <2>2
<1>4. CASE Filed
  BY <1>3, <1>4, StaysFiled, FiledIsSafe
<1>5. CASE ~Filed
  <2>1. Starts(due, editor_buff) /\ Len(due) <= e_pos
    BY <1>5 DEF SaveInv
  <2>2. Len(due') <= e_pos'
    <3>1. CASE stack = <<>>
      <4>1. ~SavedBy(SaveSteps)
        BY <3>1 DEF SavedBy
      <4>2. due = <<>> /\ due' = due
        BY <1>5, <3>1, <4>1 DEF SaveInv, DueShortened
      <4>3. Len(due') = 0
        BY <4>2
      <4> QED BY <1>1, <4>3
    <3>2. CASE stack # <<>> /\ e_pos' < Len(due)
      <4>1. e_pos' \in 0 .. Len(due)
        BY <1>1, <1>2, <3>2
      <4>2. due' = SubSeq(due, 1, e_pos')
        BY <3>2, Zenon DEF DueShortened
      <4>3. Len(due') = e_pos'
        BY <1>2, <4>1, <4>2, FirstPart
      <4> QED BY <1>1, <4>3
    <3>3. CASE stack # <<>> /\ ~(e_pos' < Len(due))
      <4>1. due' = due
        BY <3>3 DEF DueShortened
      <4> QED BY <1>1, <1>2, <3>3, <4>1
    <3> QED BY <3>1, <3>2, <3>3
  <2>3. Starts(due', editor_buff')
    <3>1. \A i \in 1 .. Len(due') : i \in 1 .. BUFFER /\ i <= e_pos' /\ i \in 1 .. Len(due)
      BY <1>1, <1>2, <1>3, <2>1, <2>2 DEF Starts
    <3> QED BY <1>1, <1>2, <1>3, <2>1, <3>1 DEF Starts
  <2>4. \A i \in 1 .. Len(stack') : stack'[i].do = "create" => Len(due') <= stack'[i].arg
    <3>1. \A i \in 1 .. Len(stack) :
             stack[i].do = "create" => Len(due) <= stack[i].arg /\ stack[i].arg \in Nat
      BY <1>5, Ranges DEF SaveInv, Typed, Handlers, SaveSteps
    <3> QED BY <1>2, <1>3, <3>1
  <2>5. ~SavedBy(SaveSteps \ {"create"})'
    BY <1>5 DEF SaveInv, SavedBy
  <2>6. due' = <<>> \/ SavedBy(SaveSteps)'
    <3>1. CASE due = <<>>
      <4>1. Len(due') = 0
        BY <1>2, <1>3, <3>1
      <4> QED BY <1>3, <4>1
    <3>2. CASE SavedBy(SaveSteps)
      BY <3>2 DEF SavedBy
    <3> QED BY <1>5, <3>1, <3>2 DEF SaveInv
  <2> QED BY <2>2, <2>3, <2>4, <2>5, <2>6 DEF SaveInv
<1> QED BY <1>4, <1>5

\* A text that was deleted.
LEMMA NothingDue ==
    ASSUME Typed, SaveInv, due' = <<>>, UNCHANGED <<editor_buff, e_pos, stack, files>>
    PROVE  SaveInv'
<1>1. Len(due') = 0 /\ e_pos \in Nat /\ BUFFER \in Nat /\ Len(editor_buff) = BUFFER
  BY Ranges
<1>2. SavedBy(SaveSteps \ {"create"})' => Filed'
  <2>1. SUFFICES ASSUME SavedBy(SaveSteps \ {"create"})' PROVE Filed'
    OBVIOUS
  <2>2. PICK text \in files : Starts(due, text)
    BY <2>1 DEF SavedBy, SaveInv, Filed
  <2>3. Len(text) \in Nat
    BY DEF Typed
  <2> QED BY <1>1, <2>2, <2>3 DEF Filed, Starts
<1>3. Starts(due', editor_buff') /\ Len(due') <= e_pos'
  BY <1>1 DEF Starts
<1>4. \A i \in 1 .. Len(stack') : stack'[i].do = "create" => Len(due') <= stack'[i].arg
  BY <1>1, Ranges DEF Typed, Handlers, SaveSteps
<1> QED BY <1>2, <1>3, <1>4 DEF SaveInv

\* ESC, with and without a save under way.
LEMMA EscapeIsSafe ==
    ASSUME Typed, SaveInv, KeyEscape
    PROVE  SaveInv'
<1>1. UNCHANGED <<editor_buff, e_pos, files>> /\ Due /\ Call("create", e_pos)
  BY DEF KeyEscape, editorVars
<1>2. /\ Len(stack') = Len(stack) + 1 /\ Len(stack) \in Nat /\ e_pos \in Nat
      /\ stack'[Len(stack) + 1].do = "create" /\ stack'[Len(stack) + 1].arg = e_pos
      /\ \A i \in 1 .. Len(stack) : stack'[i] = stack[i]
  <2>1. "create" \in Steps /\ e_pos \in Nat /\ e_pos \in 0 .. POSITIONS - 1
    BY Ranges DEF Steps, SaveSteps, Typed
  <2> QED BY <1>1, <2>1, CallStep, Ranges
<1>3. \A i \in 1 .. Len(stack') : i \in 1 .. Len(stack) \/ i = Len(stack) + 1
  BY <1>2
<1>4. SavedBy(SaveSteps)'
  <2>1. Len(stack) + 1 \in 1 .. Len(stack')
    BY <1>2
  <2> QED BY <1>2, <2>1 DEF SavedBy, SaveSteps
<1>5. SavedBy(SaveSteps \ {"create"})' => SavedBy(SaveSteps \ {"create"})
  BY <1>2, <1>3 DEF SavedBy
<1>6. CASE SavedBy(SaveSteps)
  <2>1. due' = due
    BY <1>1, <1>6 DEF Due, SavedBy
  <2>2. Filed' <=> Filed
    BY <1>1, <2>1 DEF Filed
  <2>3. ASSUME ~Filed
        PROVE  /\ Starts(due, editor_buff) /\ Len(due) <= e_pos
               /\ \A i \in 1 .. Len(stack') :
                    stack'[i].do = "create" => Len(due) <= stack'[i].arg
    BY <1>2, <1>3, <2>3 DEF SaveInv
  <2> QED BY <1>1, <1>4, <1>5, <2>1, <2>2, <2>3 DEF SaveInv
<1>7. CASE ~SavedBy(SaveSteps)
  <2>1. due' = SubSeq(editor_buff, 1, e_pos)
    BY <1>1, <1>7 DEF Due, SavedBy
  <2>2. editor_buff \in Seq(Chars) /\ e_pos \in 0 .. Len(editor_buff)
    BY Ranges
  <2>3. Len(due') = e_pos /\ \A i \in 1 .. e_pos : due'[i] = editor_buff[i]
    BY <2>1, <2>2, FirstPart
  <2>4. Starts(due', editor_buff') /\ Len(due') <= e_pos'
    BY <1>1, <1>2, <2>2, <2>3 DEF Starts
  <2>5. ~SavedBy(SaveSteps \ {"create"})'
    BY <1>5, <1>7 DEF SavedBy
  <2>6. \A i \in 1 .. Len(stack') : stack'[i].do = "create" => i = Len(stack) + 1
    BY <1>2, <1>3, <1>7 DEF SavedBy, SaveSteps
  <2>7. \A i \in 1 .. Len(stack') : stack'[i].do = "create" => Len(due') <= stack'[i].arg
    BY <1>2, <2>3, <2>6
  <2> QED BY <1>4, <2>4, <2>5, <2>7 DEF SaveInv
<1> QED BY <1>6, <1>7

\* create_file takes a prefix of the editor that holds the text.
LEMMA CreateIsSafe ==
    ASSUME Typed, SaveInv, CreateFile
    PROVE  SaveInv'
<1> DEFINE n == Last(stack).arg
           text == SubSeq(editor_buff, 1, n)
<1>1. files' = files \cup {text} /\ due' = due /\ Runs("create")
  BY DEF CreateFile
<1>2. CASE Filed
  BY <1>1, <1>2, FiledIsSafe DEF Filed
<1>3. CASE ~Filed
  <2>1. /\ Len(stack) \in 1 .. Len(stack) /\ Last(stack) = stack[Len(stack)]
        /\ stack[Len(stack)].do = "create"
    BY <1>1, Running
  <2>2. n \in 0 .. POSITIONS - 1 /\ Len(due) <= n /\ Starts(due, editor_buff)
    BY <1>3, <2>1 DEF SaveInv, Typed, Handlers, SaveSteps
  <2>3. editor_buff \in Seq(Chars) /\ n \in 0 .. Len(editor_buff) /\ n \in Nat
        /\ Len(due) \in Nat
    BY <2>2, Ranges
  <2> HIDE DEF n
  <2>4. Len(text) = n /\ \A i \in 1 .. n : text[i] = editor_buff[i]
    BY <2>3, FirstPart
  <2>5. \A i \in 1 .. Len(due) : i \in 1 .. n
    BY <2>2, <2>3
  <2> HIDE DEF text
  <2>6. Starts(due, text)
    BY <2>2, <2>4, <2>5 DEF Starts
  <2> QED BY <1>1, <2>6, FiledIsSafe DEF Filed
<1> QED BY <1>2, <1>3

\* The rest of a save.
LEMMA SaveIsDone ==
    ASSUME Typed, SaveInv, NEW d \in SaveSteps \ {"create"}, Runs(d), UNCHANGED <<files, due>>
    PROVE  SaveInv'
<1>1. Len(stack) \in 1 .. Len(stack) /\ stack[Len(stack)].do = d
  BY Running
<1>2. Filed
  BY <1>1 DEF SaveInv, SavedBy
<1> QED BY <1>2, FiledIsSafe DEF Filed

\* Every step.
LEMMA StepIsSafe ==
    ASSUME Typed, SaveInv, ~wrapped', Next
    PROVE  SaveInv'
<1>1. ASSUME UNCHANGED <<editor_buff, e_pos, stack, files, due>>
      PROVE  SaveInv'
  BY <1>1, OtherHandlers
<1>2. ASSUME NEW c \in Letters \cup {"E"}, KeyLetter(c)
      PROVE  SaveInv'
  <2>1. c \in Chars
    BY DEF Chars
  <2>2. UNCHANGED <<stack, files, due>>
    BY <1>2 DEF KeyLetter, fileVars
  <2>3. CASE UNCHANGED editorVars
    BY <1>1, <2>2, <2>3 DEF editorVars
  <2>4. CASE inputIntoEditorBuffer(c)
    BY <2>1, <2>2, <2>4, StoredBehind
  <2> QED BY <1>2, <2>3, <2>4 DEF KeyLetter
<1>3. CASE KeyBackspace
  <2>1. UNCHANGED <<stack, files>>
    BY <1>3 DEF KeyBackspace
  <2>2. CASE UNCHANGED <<editorVars, due>>
    BY <1>1, <2>1, <2>2 DEF editorVars
  <2>3. CASE remove_one_from_editor_buffer /\ DueShortened
    BY <2>1, <2>3, ShortenedIsSafe
  <2> QED BY <1>3, <2>2, <2>3 DEF KeyBackspace, DueShortened
<1>4. CASE EnterInEditor
  <2>1. NEWLINE \in Chars
    BY DEF Chars
  <2>2. UNCHANGED <<stack, files, due>> /\ inputIntoEditorBuffer(NEWLINE)
    BY <1>4 DEF EnterInEditor, fileVars
  <2> QED BY <2>1, <2>2, StoredBehind
<1>5. CASE EnterPrints
  <2>1. UNCHANGED <<editor_buff, e_pos, stack, files>> /\ (due' = <<>> \/ due' = due)
    BY <1>5 DEF EnterPrints, editorVars
  <2> QED BY <1>1, <2>1, NothingDue
<1>6. CASE EnterClear \/ EnterWrite
  BY <1>1, <1>6 DEF EnterClear, EnterWrite, editorVars, fileVars
<1>7. CASE EnterGetTime
  <2>1. UNCHANGED <<editor_buff, e_pos, files, due>>
    BY <1>7 DEF EnterGetTime, editorVars, fileVars
  <2>2. PICK bcd \in Registers : Call("print_time", bcd)
    BY <1>7 DEF EnterGetTime
  <2>3. bcd \in Nat /\ "print_time" \in Steps /\ "print_time" \notin SaveSteps
    BY RegisterNat DEF Steps, SaveSteps
  <2>4. /\ Len(stack') = Len(stack) + 1 /\ Len(stack) \in Nat
        /\ stack'[Len(stack) + 1].do = "print_time"
        /\ \A i \in 1 .. Len(stack) : stack'[i] = stack[i]
    BY <2>2, <2>3, CallStep, Ranges
  <2>5. \A i \in 1 .. Len(stack') : i \in 1 .. Len(stack) \/ i = Len(stack) + 1
    BY <2>4
  <2>6. \A i \in 1 .. Len(stack) : i \in 1 .. Len(stack')
    BY <2>4
  <2> QED BY <2>1, <2>3, <2>4, <2>5, <2>6, OtherHandlers
<1>8. CASE KeyEscape
  BY <1>8, EscapeIsSafe
<1>9. CASE print_time \/ ClearLine
  <2>1. UNCHANGED <<editor_buff, e_pos, files, due>>
    BY <1>9 DEF print_time, ClearLine, editorVars, fileVars
  <2>2. PICK d \in Steps \ SaveSteps, e \in Steps \ SaveSteps : Runs(d) /\ Then(e)
    BY <1>9 DEF print_time, ClearLine, Steps, SaveSteps
  <2>3. /\ Len(stack') = Len(stack) /\ Len(stack) \in Nat
        /\ stack[Len(stack)].do = d /\ stack'[Len(stack)].do = e
        /\ \A i \in 1 .. Len(stack) - 1 : stack'[i] = stack[i]
    BY <2>2, ThenStep, Running
  <2>4. \A i \in 1 .. Len(stack) : i \in 1 .. Len(stack) - 1 \/ i = Len(stack)
    BY <2>3
  <2> QED BY <2>1, <2>2, <2>3, <2>4, OtherHandlers
<1>10. CASE ClearPosition
  <2>1. UNCHANGED <<editor_buff, e_pos, files, due>> /\ Runs("position") /\ Return
    BY <1>10 DEF ClearPosition, editorVars, fileVars
  <2>2. /\ Len(stack') = Len(stack) - 1 /\ Len(stack) \in Nat
        /\ stack[Len(stack)].do = "position"
        /\ \A i \in 1 .. Len(stack) - 1 : stack'[i] = stack[i]
    BY <2>1, ReturnStep, Running
  <2>3. /\ \A i \in 1 .. Len(stack) : i \in 1 .. Len(stack') \/ i = Len(stack)
        /\ \A i \in 1 .. Len(stack') : i \in 1 .. Len(stack)
    BY <2>2
  <2>4. "position" \notin SaveSteps
    BY DEF SaveSteps
  <2> QED BY <2>1, <2>2, <2>3, <2>4, OtherHandlers
<1>11. CASE CreateFile
  BY <1>11, CreateIsSafe
<1>12. CASE ClearEditor \/ ClearEPos \/ LeaveEditor \/ retrive_saved_window
  <2>1. UNCHANGED <<files, due>>
    BY <1>12 DEF ClearEditor, ClearEPos, LeaveEditor, retrive_saved_window, fileVars
  <2>2. PICK d \in SaveSteps \ {"create"} : Runs(d)
    BY <1>12 DEF ClearEditor, ClearEPos, LeaveEditor, retrive_saved_window, SaveSteps
  <2> QED BY <2>1, <2>2, SaveIsDone
<1> QED
  BY <1>2, <1>3, <1>4, <1>5, <1>6, <1>7, <1>8, <1>9, <1>10, <1>11, <1>12
     DEF Next, HandlerStep

-----------------------------------------------------------------------------

\* The invariant holds in every reachable state.
LEMMA ConsoleInvariant == Spec => []ConsoleInv
<1>1. Init => ConsoleInv
  <2> SUFFICES ASSUME Init PROVE ConsoleInv
    OBVIOUS
  <2>1. Typed /\ LineInv
    BY InitTyped
  <2>2. /\ due = <<>> /\ Len(due) = 0 /\ e_pos = 0
        /\ \A i \in 1 .. Len(stack) : FALSE
    BY DEF Init
  <2>3. Starts(due, editor_buff)
    BY <2>1, <2>2, Ranges DEF Starts
  <2>4. SaveInv
    BY <2>2, <2>3 DEF SaveInv, SavedBy
  <2> QED BY <2>1, <2>4 DEF ConsoleInv
<1>2. ConsoleInv /\ [Next]_vars => ConsoleInv'
  <2> SUFFICES ASSUME ConsoleInv, [Next]_vars PROVE ConsoleInv'
    OBVIOUS
  <2>1. Typed /\ Typed' /\ LineInv' /\ (wrapped => wrapped')
    BY NextTyped DEF ConsoleInv
  <2>2. ASSUME ~wrapped' PROVE SaveInv'
    <3>1. SaveInv
      BY <2>1, <2>2 DEF ConsoleInv
    <3>2. CASE Next
      BY <2>1, <2>2, <3>1, <3>2, StepIsSafe
    <3>3. CASE UNCHANGED vars
      BY <2>1, <3>1, <3>3, OtherHandlers DEF vars, editorVars, fileVars
    <3> QED BY <3>2, <3>3
  <2> QED BY <2>1, <2>2 DEF ConsoleInv
<1> QED BY <1>1, <1>2, PTL DEF Spec

\* bufferTestCommand finds the NUL it scans for: position is a byte, and no key,
\* command or interrupted handler stores anything behind what a byte can address.
THEOREM LineAlwaysEnds == Spec => []LineEnds
<1>1. ConsoleInv => LineEnds
  <2> SUFFICES ASSUME ConsoleInv PROVE LineEnds
    OBVIOUS
  <2>1. BUFFER \in Nat /\ POSITIONS \in Nat /\ POSITIONS < BUFFER
    BY ConsoleAssumption
  <2> QED BY <2>1 DEF ConsoleInv, LineInv, LineEnds
<1> QED BY <1>1, ConsoleInvariant, PTL

\* The text in the editor when ESC is pressed is in the editor until it is in a
\* file, however many keys, a further ESC among them, interrupt the save and each
\* other.
THEOREM TextNeverLost == Spec => []TextSafe
<1>1. ConsoleInv => TextSafe
  <2> SUFFICES ASSUME ConsoleInv, ~wrapped
               PROVE  \/ IsPrefix(due, editor_buff)
                      \/ \E text \in files : IsPrefix(due, text)
    BY DEF TextSafe
  <2>1. Typed /\ SaveInv
    BY DEF ConsoleInv
  <2>2. due \in Seq(Chars) /\ editor_buff \in Seq(Chars) /\ files \subseteq Seq(Chars)
    BY <2>1, Ranges DEF Typed
  <2>3. CASE Filed
    <3>1. PICK text \in files : Starts(due, text)
      BY <2>3 DEF Filed
    <3> QED BY <2>2, <3>1, PrefixIff
  <2>4. CASE ~Filed
    <3>1. Starts(due, editor_buff)
      BY <2>1, <2>4 DEF SaveInv
    <3> QED BY <2>2, <3>1, PrefixIff
  <2> QED BY <2>3, <2>4
<1> QED BY <1>1, ConsoleInvariant, PTL

-----------------------------------------------------------------------------
(* The screen.                                                              *)

\* A screen with its cursor on it, or behind the end of a line.
ScreenOK(s) ==
    /\ s = [cells |-> s.cells, row |-> s.row, col |-> s.col]
    /\ DOMAIN s.cells = Cells
    /\ s.row \in 0 .. VGA_HEIGHT - 1 /\ s.col \in 0 .. VGA_WIDTH

\* The sides of the screen, as arithmetic needs them.
LEMMA Sides == VGA_WIDTH \in Nat /\ VGA_HEIGHT \in Nat /\ 0 < VGA_WIDTH /\ 0 < VGA_HEIGHT
BY ScreenAssumption

\* A screen from its parts.
LEMMA ScreenFrom ==
    ASSUME NEW c, DOMAIN c = Cells, NEW r \in 0 .. VGA_HEIGHT - 1, NEW k \in 0 .. VGA_WIDTH
    PROVE  ScreenOK([cells |-> c, row |-> r, col |-> k])
BY DEF ScreenOK

\* The cleared screen.
LEMMA ClearedOK == ScreenOK(Cleared)
<1>1. PICK c : c = [i \in Cells |-> BLACK]
  OBVIOUS
<1>2. DOMAIN c = Cells /\ Cleared = [cells |-> c, row |-> 0, col |-> 0]
  BY <1>1 DEF Cleared
<1>3. 0 \in 0 .. VGA_HEIGHT - 1 /\ 0 \in 0 .. VGA_WIDTH
  BY Sides
<1> QED BY <1>2, <1>3, ScreenFrom

\* A new line, with and without scrolling.
LEMMA NextLineOK ==
    ASSUME NEW s, ScreenOK(s)
    PROVE  ScreenOK(NextLine(s)) /\ NextLine(s).col = 0
<1>1. PICK c, r, k : s = [cells |-> c, row |-> r, col |-> k]
  BY DEF ScreenOK
<1>2. DOMAIN c = Cells /\ r \in 0 .. VGA_HEIGHT - 1 /\ r \in Nat
  BY <1>1, Sides DEF ScreenOK
<1>3. PICK t : t = [cells |-> c, row |-> r + 1, col |-> 0]
  OBVIOUS
<1>4. t = [cells |-> s.cells, row |-> s.row + 1, col |-> 0]
  BY <1>1, <1>3
<1>5. 0 \in 0 .. VGA_WIDTH
  BY Sides
<1>6. CASE r + 1 < VGA_HEIGHT
  <2>1. NextLine(s) = t
    BY <1>3, <1>4, <1>6 DEF NextLine
  <2>2. r + 1 \in 0 .. VGA_HEIGHT - 1
    BY <1>2, <1>6, Sides
  <2> QED BY <1>2, <1>3, <1>5, <2>1, <2>2, ScreenFrom
<1>7. CASE ~(r + 1 < VGA_HEIGHT)
  <2>1. PICK d : d = [i \in Cells |-> IF i < (VGA_HEIGHT - 1) * VGA_WIDTH THEN c[i + VGA_WIDTH]
                                      ELSE IF i < VGA_HEIGHT * VGA_WIDTH THEN BLACK ELSE c[i]]
    OBVIOUS
  <2>2. terminal_scroll(t) = [cells |-> d, row |-> r + 1, col |-> 0]
    BY <1>3, <2>1 DEF terminal_scroll
  <2>3. NextLine(s) = [terminal_scroll(t) EXCEPT !.row = VGA_HEIGHT - 1]
    BY <1>3, <1>4, <1>7 DEF NextLine
  <2>4. NextLine(s) = [cells |-> d, row |-> VGA_HEIGHT - 1, col |-> 0]
    BY <2>2, <2>3
  <2>5. DOMAIN d = Cells
    BY <2>1
  <2>6. VGA_HEIGHT - 1 \in 0 .. VGA_HEIGHT - 1
    BY Sides
  <2> QED BY <1>5, <2>4, <2>5, <2>6, ScreenFrom
<1> QED BY <1>6, <1>7

\* A character is stored wherever the cursor is.
LEMMA PutCharOK ==
    ASSUME NEW s, ScreenOK(s), NEW c
    PROVE  /\ ScreenOK(terminal_put_char(s, c))
           /\ terminal_put_char(s, c).row = s.row /\ terminal_put_char(s, c).col = s.col
<1>1. PICK d, r, k : s = [cells |-> d, row |-> r, col |-> k]
  BY DEF ScreenOK
<1>2. DOMAIN d = Cells /\ r \in 0 .. VGA_HEIGHT - 1 /\ k \in 0 .. VGA_WIDTH
  BY <1>1 DEF ScreenOK
<1>3. PICK f : f = [d EXCEPT ![location(s.row, s.col)] = c]
  OBVIOUS
<1>4. terminal_put_char(s, c) = [cells |-> f, row |-> r, col |-> k]
  BY <1>1, <1>3 DEF terminal_put_char
<1>5. DOMAIN f = Cells
  BY <1>2, <1>3
<1> QED BY <1>1, <1>2, <1>4, <1>5, ScreenFrom

\* terminal_write_char: a column behind the end of the line is left first.
LEMMA WriteCharOK ==
    ASSUME NEW s, ScreenOK(s), NEW c
    PROVE  ScreenOK(terminal_write_char(s, c))
<1>1. CASE c = NEWLINE
  BY <1>1, NextLineOK DEF terminal_write_char
<1>2. CASE c # NEWLINE
  <2>1. PICK t : t = IF s.col >= VGA_WIDTH THEN NextLine(s) ELSE s
    OBVIOUS
  <2>2. ScreenOK(t) /\ t.col < VGA_WIDTH
    <3>1. CASE s.col >= VGA_WIDTH
      BY <2>1, <3>1, NextLineOK, Sides
    <3>2. CASE ~(s.col >= VGA_WIDTH)
      BY <2>1, <3>2, Sides DEF ScreenOK
    <3> QED BY <3>1, <3>2
  <2>3. PICK u : u = terminal_put_char(t, c)
    OBVIOUS
  <2>4. ScreenOK(u) /\ u.col = t.col
    BY <2>2, <2>3, PutCharOK
  <2>5. terminal_write_char(s, c) = [u EXCEPT !.col = @ + 1]
    BY <1>2, <2>1, <2>3 DEF terminal_write_char
  <2>6. PICK d, r, k : u = [cells |-> d, row |-> r, col |-> k]
    BY <2>4 DEF ScreenOK
  <2>7. DOMAIN d = Cells /\ r \in 0 .. VGA_HEIGHT - 1 /\ k \in 0 .. VGA_WIDTH /\ k < VGA_WIDTH
    BY <2>2, <2>4, <2>6 DEF ScreenOK
  <2>8. [u EXCEPT !.col = @ + 1] = [cells |-> d, row |-> r, col |-> k + 1]
    BY <2>6
  <2>9. k + 1 \in 0 .. VGA_WIDTH
    BY <2>7, Sides
  <2> QED BY <2>5, <2>7, <2>8, <2>9, ScreenFrom
<1> QED BY <1>1, <1>2

\* One round of the loop of print.
PrintBody(s, msg, f, i) == IF i = 0 THEN s ELSE terminal_write_char(f[i - 1], msg[i])

IsPrinted(s, msg, f, n) == f = [i \in 0 .. n |-> PrintBody(s, msg, f, i)]

\* The loop is a function.
LEMMA PrintedExists ==
    ASSUME NEW s, NEW msg, NEW n \in Nat
    PROVE  \E f : IsPrinted(s, msg, f, n)
<1> DEFINE S == {m \in Nat : \E f : IsPrinted(s, msg, f, m)}
<1>1. 0 \in S
  <2>1. PICK f : f = [i \in 0 .. 0 |-> s]
    OBVIOUS
  <2>2. \A i \in 0 .. 0 : PrintBody(s, msg, f, i) = s
    BY DEF PrintBody
  <2>3. f = [i \in 0 .. 0 |-> PrintBody(s, msg, f, i)]
    BY <2>1, <2>2
  <2> QED BY <2>3 DEF IsPrinted
<1>2. ASSUME NEW m \in Nat, m \in S
      PROVE  m + 1 \in S
  <2>1. PICK f : IsPrinted(s, msg, f, m)
    BY <1>2
  <2>2. \A i \in 0 .. m : f[i] = PrintBody(s, msg, f, i)
    BY <2>1 DEF IsPrinted
  <2> DEFINE g == [i \in 0 .. m + 1 |-> IF i < m + 1 THEN f[i] ELSE PrintBody(s, msg, f, m + 1)]
  <2>3. \A i \in 0 .. m : g[i] = f[i]
    OBVIOUS
  <2>4. g[m + 1] = PrintBody(s, msg, f, m + 1)
    OBVIOUS
  <2>5. g = [i \in 0 .. m + 1 |-> g[i]]
    OBVIOUS
  <2> HIDE DEF g
  <2>6. ASSUME NEW i \in 0 .. m + 1
        PROVE  PrintBody(s, msg, g, i) = PrintBody(s, msg, f, i)
    <3>1. CASE i = 0
      BY <3>1 DEF PrintBody
    <3>2. CASE i # 0
      <4>1. i - 1 \in 0 .. m
        BY <3>2
      <4>2. g[i - 1] = f[i - 1]
        BY <2>3, <4>1
      <4> QED BY <3>2, <4>2 DEF PrintBody
    <3> QED BY <3>1, <3>2
  <2>7. ASSUME NEW i \in 0 .. m + 1 PROVE g[i] = PrintBody(s, msg, g, i)
    <3>1. CASE i = m + 1
      BY <2>4, <2>6, <3>1
    <3>2. CASE i # m + 1
      <4>1. i \in 0 .. m
        BY <3>2
      <4> QED BY <2>2, <2>3, <2>6, <4>1
    <3> QED BY <3>1, <3>2
  <2>8. IsPrinted(s, msg, g, m + 1)
    BY <2>5, <2>7 DEF IsPrinted
  <2> QED BY <2>8
<1> HIDE DEF S
<1>3. Nat \subseteq S
  BY <1>1, <1>2, StepInduction
<1> QED BY <1>3 DEF S

\* A place before the cursor is on the screen.
LEMMA AtOK ==
    ASSUME NEW s, ScreenOK(s), NEW p \in 0 .. Place(s) - 1
    PROVE  ScreenOK(At(s, p))
<1>1. PICK d, r, k : s = [cells |-> d, row |-> r, col |-> k]
  BY DEF ScreenOK
<1>2. DOMAIN d = Cells /\ r \in 0 .. VGA_HEIGHT - 1 /\ k \in 0 .. VGA_WIDTH
  BY <1>1 DEF ScreenOK
<1>3. PICK e \in Nat \ {0} : e = VGA_WIDTH + 1
  BY Sides
<1>4. Place(s) = r * e + k /\ r \in Nat /\ k \in Nat /\ k < e
  BY <1>1, <1>2, <1>3, Sides DEF Place
<1>5. PICK x \in Nat : x = r * e
  BY <1>4
<1>6. p \in Nat /\ p < x + k
  BY <1>4, <1>5
<1>7. PICK q \in Nat, u \in 0 .. e - 1 : p = e * q + u /\ p \div e = q /\ p % e = u
  BY <1>6
<1>8. ASSUME q > r PROVE FALSE
  <2>1. e * q >= e * (r + 1)
    BY <1>4, <1>8
  <2>2. e * (r + 1) = e * r + e /\ e * r = r * e
    BY <1>4
  <2>3. PICK y \in Int : y = e * q
    OBVIOUS
  <2>4. y >= x + e /\ p = y + u
    BY <1>5, <1>7, <2>1, <2>2, <2>3
  <2> QED BY <1>4, <1>6, <2>3, <2>4
<1>9. q \in 0 .. VGA_HEIGHT - 1 /\ u \in 0 .. VGA_WIDTH
  BY <1>2, <1>3, <1>4, <1>7, <1>8, Sides
<1>10. At(s, p) = [cells |-> d, row |-> q, col |-> u]
  BY <1>1, <1>3, <1>7 DEF At
<1> QED BY <1>2, <1>9, <1>10, ScreenFrom

\* Backspace stops on the screen.
LEMMA BackspaceOK ==
    ASSUME NEW s, ScreenOK(s)
    PROVE  ScreenOK(Backspace(s))
<1>1. PICK stops : stops = {p \in 0 .. Place(s) - 1 : p = 0 \/ cell_attr(s, p) # BLACK}
  OBVIOUS
<1>2. CASE stops = {}
  BY <1>1, <1>2 DEF Backspace
<1>3. CASE stops # {}
  <2>1. stops \subseteq 0 .. Place(s) - 1
    BY <1>1
  <2>2. \E p \in stops : \A q \in stops : q <= p
    <3>1. PICK m \in Int : m = Place(s) - 1
      BY Sides DEF Place, ScreenOK
    <3>2. PICK T : T = {m - p : p \in stops}
      OBVIOUS
    <3>3. T \subseteq Nat /\ T # {}
      <4>1. ASSUME NEW p \in stops PROVE m - p \in Nat
        <5>1. p \in 0 .. m
          BY <2>1, <3>1
        <5> QED BY <3>1, <5>1
      <4>2. T \subseteq Nat
        BY <3>2, <4>1
      <4>3. PICK p \in stops : TRUE
        BY <1>3
      <4>4. m - p \in T
        BY <3>2
      <4> QED BY <4>2, <4>4
    <3>4. PICK t \in T : \A y \in T : t <= y
      BY <3>3, LeastNatural
    <3>5. PICK p \in stops : t = m - p
      BY <3>2, <3>4
    <3>6. ASSUME NEW q \in stops PROVE q <= p
      <4>1. m - p <= m - q
        BY <3>2, <3>4, <3>5
      <4>2. p \in Int /\ q \in Int
        BY <2>1
      <4> QED BY <3>1, <4>1, <4>2
    <3> QED BY <3>6
  <2>3. PICK p \in stops : p = CHOOSE x \in stops : \A q \in stops : q <= x
    BY <2>2
  <2>4. Backspace(s) = terminal_put_char(At(s, p), BLACK)
    BY <1>1, <1>3, <2>3, Zenon DEF Backspace
  <2>5. ScreenOK(At(s, p))
    BY <2>1, <2>3, AtOK
  <2> QED BY <2>4, <2>5, PutCharOK
<1> QED BY <1>2, <1>3

-----------------------------------------------------------------------------
(* What is printed has a length.                                            *)

\* The part of a text before a character is a text.
LEMMA BeforeSeq ==
    ASSUME NEW s \in Seq(Chars), NEW c
    PROVE  Before(s, c) \in Seq(Chars)
<1>1. PICK at : at = {i \in 1 .. Len(s) : s[i] = c}
  OBVIOUS
<1>2. CASE at = {}
  BY <1>1, <1>2 DEF Before
<1>3. CASE at # {}
  <2>1. at \subseteq Nat /\ at \subseteq 1 .. Len(s)
    BY <1>1
  <2>2. \E i \in at : \A j \in at : i <= j
    BY <1>3, <2>1, LeastNatural
  <2>3. PICK m \in at : m = CHOOSE i \in at : \A j \in at : i <= j
    BY <2>2
  <2>4. Before(s, c) = SubSeq(s, 1, m - 1)
    <3>1. Before(s, c) = SubSeq(s, 1, (CHOOSE i \in at : \A j \in at : i <= j) - 1)
      BY <1>1, <1>3 DEF Before
    <3> QED BY <2>3, <3>1
  <2>5. m - 1 \in 0 .. Len(s)
    BY <2>1
  <2> QED BY <2>4, <2>5, FirstPart
<1> QED BY <1>2, <1>3

\* The argument of a command is a text.
LEMMA ArgSeq == ASSUME Typed PROVE Arg \in Seq(Chars)
<1>1. buff \in Seq(Chars)
  BY Ranges, BufferSeq DEF Typed
<1>2. Line \in Seq(Chars)
  BY <1>1, BeforeSeq DEF Line
<1>3. PICK l \in Seq(Chars) : l = Line
  BY <1>2
<1>4. Command \in Seq(Chars)
  BY <1>2, BeforeSeq DEF Command
<1>5. PICK n \in Nat : n = Len(Command) + 2
  BY <1>4
<1>6. Arg = SubSeq(l, n, Len(l)) /\ n >= 2
  BY <1>3, <1>4, <1>5 DEF Arg
<1>7. SubSeq(l, n, Len(l)) \in Seq(Chars)
  BY <1>6
<1> QED BY <1>6, <1>7

\* The digits of a number: one call of itoa's loop.
DigitsBody(d, n) == IF n < 10 THEN <<n>> ELSE Append(d[n \div 10], n % 10)

IsDigits(d, num) == d = [n \in 0 .. num |-> DigitsBody(d, n)]

\* The numbers that itoa divides get smaller.
LEMMA Tenth == ASSUME NEW n \in Nat, ~(n < 10) PROVE n \div 10 \in Nat /\ n \div 10 < n
OBVIOUS

\* So its loop is a function.
LEMMA DigitsExist ==
    ASSUME NEW n \in Nat
    PROVE  \E f : IsDigits(f, n)
<1> DEFINE S == {m \in Nat : \E f : IsDigits(f, m)}
<1>1. 0 \in S
  <2>1. PICK f : f = [i \in 0 .. 0 |-> <<0>>]
    OBVIOUS
  <2>2. \A i \in 0 .. 0 : DigitsBody(f, i) = <<0>>
    BY DEF DigitsBody
  <2>3. f = [i \in 0 .. 0 |-> DigitsBody(f, i)]
    BY <2>1, <2>2
  <2> QED BY <2>3 DEF IsDigits
<1>2. ASSUME NEW m \in Nat, m \in S
      PROVE  m + 1 \in S
  <2>1. PICK f : IsDigits(f, m)
    BY <1>2
  <2>2. \A i \in 0 .. m : f[i] = DigitsBody(f, i)
    BY <2>1 DEF IsDigits
  <2> DEFINE g == [i \in 0 .. m + 1 |-> IF i < m + 1 THEN f[i] ELSE DigitsBody(f, m + 1)]
  <2>3. \A i \in 0 .. m : g[i] = f[i]
    OBVIOUS
  <2>4. g[m + 1] = DigitsBody(f, m + 1)
    OBVIOUS
  <2>5. g = [i \in 0 .. m + 1 |-> g[i]]
    OBVIOUS
  <2> HIDE DEF g
  <2>6. ASSUME NEW i \in 0 .. m + 1
        PROVE  DigitsBody(g, i) = DigitsBody(f, i)
    <3>1. CASE i < 10
      BY <3>1 DEF DigitsBody
    <3>2. CASE ~(i < 10)
      <4>1. i \div 10 \in 0 .. m
        BY <3>2, Tenth
      <4>2. g[i \div 10] = f[i \div 10]
        BY <2>3, <4>1
      <4> QED BY <3>2, <4>2 DEF DigitsBody
    <3> QED BY <3>1, <3>2
  <2>7. ASSUME NEW i \in 0 .. m + 1 PROVE g[i] = DigitsBody(g, i)
    <3>1. CASE i = m + 1
      BY <2>4, <2>6, <3>1
    <3>2. CASE i # m + 1
      <4>1. i \in 0 .. m
        BY <3>2
      <4> QED BY <2>2, <2>3, <2>6, <4>1
    <3> QED BY <3>1, <3>2
  <2>8. IsDigits(g, m + 1)
    BY <2>5, <2>7 DEF IsDigits
  <2> QED BY <2>8
<1> HIDE DEF S
<1>3. Nat \subseteq S
  BY <1>1, <1>2, StepInduction
<1> QED BY <1>3 DEF S

\* The loop of itoa is its definition.
LEMMA ItoaIs ==
    ASSUME NEW num \in Nat
    PROVE  \E d : IsDigits(d, num) /\ itoa(num) = d[num]
<1> DEFINE d == CHOOSE f : f = [n \in 0 .. num |->
                   IF n < 10 THEN <<n>> ELSE Append(f[n \div 10], n % 10)]
<1>1. \E f : IsDigits(f, num)
  BY DigitsExist
<1>2. IsDigits(d, num)
  BY <1>1, Zenon DEF IsDigits, DigitsBody
<1>3. itoa(num) = d[num]
  BY Zenon DEF itoa
<1> QED BY <1>2, <1>3

\* itoa writes digits, and it writes a number of any size.
LEMMA ItoaDigits ==
    ASSUME NEW num \in Nat
    PROVE  itoa(num) \in Seq(0 .. 9)
<1>2. PICK d : IsDigits(d, num) /\ itoa(num) = d[num]
  BY ItoaIs
<1>3. itoa(num) = d[num]
  BY <1>2
<1>4. \A n \in 0 .. num : d[n] = DigitsBody(d, n)
  BY <1>2 DEF IsDigits
<1>5. PICK B : B = {n \in 0 .. num : d[n] \notin Seq(0 .. 9)}
  OBVIOUS
<1>6. CASE B = {}
  BY <1>3, <1>5, <1>6
<1>7. CASE B # {}
  <2>1. B \subseteq Nat
    BY <1>5
  <2>2. PICK n \in B : \A m \in B : n <= m
    BY <1>7, <2>1, LeastNatural
  <2>3. n \in Nat /\ n \in 0 .. num /\ d[n] \notin Seq(0 .. 9)
    BY <1>5, <2>2
  <2>4. CASE n < 10
    <3>1. d[n] = <<n>>
      BY <1>4, <2>3, <2>4 DEF DigitsBody
    <3>2. n \in 0 .. 9
      BY <2>3, <2>4
    <3>3. <<n>> \in Seq(0 .. 9)
      BY <3>2
    <3> QED BY <2>3, <3>1, <3>3
  <2>5. CASE ~(n < 10)
    <3>1. PICK q \in Nat : q = n \div 10 /\ q < n
      BY <2>3, <2>5, Tenth
    <3>2. q \in 0 .. num /\ q \notin B
      BY <2>2, <2>3, <3>1
    <3>3. d[q] \in Seq(0 .. 9)
      BY <1>5, <3>2
    <3>4. d[n] = Append(d[q], n % 10)
      BY <1>4, <2>3, <2>5, <3>1 DEF DigitsBody
    <3>5. PICK r \in 0 .. 9 : r = n % 10
      BY <2>3
    <3>6. Append(d[q], r) \in Seq(0 .. 9)
      BY <3>3
    <3> QED BY <2>3, <3>4, <3>5, <3>6
  <2> QED BY <2>4, <2>5
<1> QED BY <1>6, <1>7

-----------------------------------------------------------------------------
(* The handlers and the flags.                                              *)

\* A handler that does not save was called with a register of the clock.
Registered ==
    \A i \in 1 .. Len(stack) : stack[i].do \notin SaveSteps => stack[i].arg \in Registers

Rest ==
    /\ mode_t \in {"TERMINAL", "EDITOR"} /\ keys \in 0 .. MaxKeys
    /\ nested \in BOOLEAN /\ joined \in BOOLEAN

\* The machine starts with no handler under way.
LEMMA InitRest == Init => Registered /\ Rest
<1> SUFFICES ASSUME Init PROVE Registered /\ Rest
  OBVIOUS
<1>1. \A i \in 1 .. Len(stack) : FALSE
  BY DEF Init
<1>2. keys \in 0 .. MaxKeys
  BY ConsoleAssumption DEF Init
<1>3. Rest
  BY <1>2 DEF Init, Rest
<1> QED BY <1>1, <1>3 DEF Registered

\* Handlers that are called, go on or return keep what they were called with.
LEMMA NextRegistered ==
    ASSUME Typed, Registered, Next
    PROVE  Registered'
<1>1. CASE UNCHANGED stack
  BY <1>1 DEF Registered
<1>2. ASSUME NEW d \in Steps, NEW a \in Nat, Call(d, a),
             d \in SaveSteps => a \in 0 .. POSITIONS - 1,
             d \notin SaveSteps => a \in Registers
      PROVE  Registered'
  <2>1. /\ Len(stack') = Len(stack) + 1 /\ Len(stack) \in Nat
        /\ stack'[Len(stack) + 1].do = d /\ stack'[Len(stack) + 1].arg = a
        /\ \A i \in 1 .. Len(stack) : stack'[i] = stack[i]
    BY <1>2, CallStep, Ranges
  <2>2. \A i \in 1 .. Len(stack') : i \in 1 .. Len(stack) \/ i = Len(stack) + 1
    BY <2>1
  <2> QED BY <1>2, <2>1, <2>2 DEF Registered
<1>3. ASSUME NEW d \in Steps, NEW e \in Steps, Runs(d), Then(e), d \in SaveSteps <=> e \in SaveSteps
      PROVE  Registered'
  <2>1. /\ Len(stack') = Len(stack) /\ Len(stack) \in Nat
        /\ stack'[Len(stack)].do = e /\ stack'[Len(stack)].arg = stack[Len(stack)].arg
        /\ \A i \in 1 .. Len(stack) - 1 : stack'[i] = stack[i]
    BY <1>3, ThenStep, Ranges
  <2>2. Len(stack) \in 1 .. Len(stack) /\ stack[Len(stack)].do = d
    BY <1>3, Running
  <2>3. \A i \in 1 .. Len(stack') :
           i \in 1 .. Len(stack) /\ (i \in 1 .. Len(stack) - 1 \/ i = Len(stack))
    BY <2>1
  <2> QED BY <1>3, <2>1, <2>2, <2>3 DEF Registered
<1>4. ASSUME NEW d, Runs(d), Return PROVE Registered'
  <2>1. /\ Len(stack') = Len(stack) - 1 /\ Len(stack) \in Nat
        /\ \A i \in 1 .. Len(stack) - 1 : stack'[i] = stack[i]
    BY <1>4, ReturnStep, Ranges
  <2>2. \A i \in 1 .. Len(stack') : i \in 1 .. Len(stack) - 1 /\ i \in 1 .. Len(stack)
    BY <2>1
  <2> QED BY <2>1, <2>2 DEF Registered
<1>5. CASE \/ \E c \in Letters \cup {"E"} : KeyLetter(c)
           \/ KeyBackspace \/ EnterInEditor \/ EnterPrints \/ EnterClear \/ EnterWrite
  BY <1>1, <1>5 DEF KeyLetter, KeyBackspace, EnterInEditor, EnterPrints, EnterClear, EnterWrite
<1>6. CASE EnterGetTime
  <2>1. PICK bcd \in Registers : Call("print_time", bcd)
    BY <1>6 DEF EnterGetTime
  <2>2. bcd \in Nat /\ "print_time" \in Steps /\ "print_time" \notin SaveSteps
    BY RegisterNat DEF Steps, SaveSteps
  <2> QED BY <1>2, <2>1, <2>2
<1>7. CASE KeyEscape
  <2>1. Call("create", e_pos)
    BY <1>7 DEF KeyEscape
  <2>2. "create" \in Steps /\ "create" \in SaveSteps /\ e_pos \in Nat /\ e_pos \in 0 .. POSITIONS - 1
    BY Ranges DEF Steps, SaveSteps, Typed
  <2> QED BY <1>2, <2>1, <2>2
<1>8. CASE print_time \/ ClearLine
  <2>1. PICK d \in Steps \ SaveSteps, e \in Steps \ SaveSteps : Runs(d) /\ Then(e)
    BY <1>8 DEF print_time, ClearLine, Steps, SaveSteps
  <2> QED BY <1>3, <2>1
<1>9. CASE CreateFile \/ ClearEditor \/ ClearEPos \/ LeaveEditor
  <2>1. PICK d \in SaveSteps, e \in SaveSteps : Runs(d) /\ Then(e)
    BY <1>9 DEF CreateFile, ClearEditor, ClearEPos, LeaveEditor, SaveSteps
  <2>2. d \in Steps /\ e \in Steps
    BY DEF Steps
  <2> QED BY <1>3, <2>1, <2>2
<1>10. CASE ClearPosition \/ retrive_saved_window
  BY <1>4, <1>10 DEF ClearPosition, retrive_saved_window
<1> QED BY <1>5, <1>6, <1>7, <1>8, <1>9, <1>10 DEF Next, HandlerStep

\* The mode, the keys and the flags.
LEMMA NextRest ==
    ASSUME Rest, Next
    PROVE  Rest'
<1>1. MaxKeys \in Nat
  BY ConsoleAssumption
<1>2. keys' \in 0 .. MaxKeys /\ nested' \in BOOLEAN
  <2>1. CASE Key
    <3>1. keys' \in 0 .. MaxKeys
      BY <1>1, <2>1 DEF Key, Rest
    <3>2. nested' \in BOOLEAN
      BY <2>1 DEF Key
    <3> QED BY <3>1, <3>2
  <2>2. CASE UNCHANGED <<keys, nested>>
    BY <2>2 DEF Rest
  <2> QED
    BY <2>1, <2>2 DEF Next, HandlerStep, KeyLetter, KeyBackspace, EnterInEditor, EnterPrints,
                      EnterClear, EnterWrite, EnterGetTime, KeyEscape
<1>3. mode_t' = mode_t \/ mode_t' \in {"TERMINAL", "EDITOR"}
  <2>1. CASE HandlerStep
    BY <2>1 DEF HandlerStep, print_time, ClearLine, ClearPosition, CreateFile, ClearEditor,
                ClearEPos, LeaveEditor, retrive_saved_window
  <2>2. CASE ~HandlerStep
    BY <2>2 DEF Next, KeyLetter, KeyBackspace, EnterInEditor, EnterPrints,
                EnterClear, EnterWrite, EnterGetTime, KeyEscape
  <2> QED BY <2>1, <2>2
<1>4. joined' \in BOOLEAN
  <2>1. CASE KeyBackspace
    BY <2>1 DEF KeyBackspace, Rest
  <2>2. CASE ~KeyBackspace
    <3>1. joined' = joined
      BY <2>2 DEF Next, KeyLetter, EnterInEditor, EnterPrints, EnterClear, EnterWrite,
                  EnterGetTime, KeyEscape, HandlerStep
    <3> QED BY <3>1 DEF Rest
  <2> QED BY <2>1, <2>2
<1> QED BY <1>2, <1>3, <1>4 DEF Rest

-----------------------------------------------------------------------------
(* Texts and their ends.                                                    *)

\* s is the end of t, character by character.
Suffix(s, t) ==
    /\ Len(s) <= Len(t)
    /\ \A i \in 1 .. Len(s) : s[i] = t[Len(t) - Len(s) + i]

\* IsSuffix, which compares reversed sequences, compares their characters.
LEMMA SuffixIff ==
    ASSUME NEW V, NEW s \in Seq(V), NEW t \in Seq(V), Suffix(s, t)
    PROVE  IsSuffix(s, t)
<1>1. PICK m \in Nat, n \in Nat : m = Len(s) /\ n = Len(t)
  OBVIOUS
<1>2. m <= n /\ \A i \in 1 .. m : s[i] = t[n - m + i]
  BY <1>1 DEF Suffix
<1>3. PICK u : u = Reverse(s)
  OBVIOUS
<1>4. PICK v : v = Reverse(t)
  OBVIOUS
<1>5. u \in [1 .. m -> V] /\ \A i \in 1 .. m : u[i] = s[m - i + 1]
  BY <1>1, <1>3 DEF Reverse
<1>6. v \in [1 .. n -> V] /\ \A i \in 1 .. n : v[i] = t[n - i + 1]
  BY <1>1, <1>4 DEF Reverse
<1>7. u \in Seq(V) /\ Len(u) = m /\ v \in Seq(V) /\ Len(v) = n
  BY <1>5, <1>6
<1>8. \A i \in 1 .. m : u[i] = v[i]
  <2>1. SUFFICES ASSUME NEW i \in 1 .. m PROVE u[i] = v[i]
    OBVIOUS
  <2>2. PICK j \in 1 .. m : j = m - i + 1
    OBVIOUS
  <2>3. s[j] = t[n - m + j] /\ n - m + j = n - i + 1
    BY <1>2, <2>2
  <2>4. u[i] = s[j]
    BY <1>5, <2>2
  <2>5. v[i] = t[n - i + 1]
    BY <1>2, <1>6
  <2> QED BY <2>3, <2>4, <2>5
<1>9. SubSeq(u, 1, m) = SubSeq(v, 1, m)
  BY <1>2, <1>7, <1>8
<1>10. IsPrefix(u, v)
  BY <1>2, <1>7, <1>9 DEF IsPrefix
<1> QED BY <1>3, <1>4, <1>10 DEF IsSuffix

\* Everything ends with nothing and with itself.
LEMMA SuffixTrivial ==
    ASSUME NEW V, NEW t \in Seq(V)
    PROVE  Suffix(<<>>, t) /\ Suffix(t, t)
BY DEF Suffix

\* The end of an end.
LEMMA SuffixTrans ==
    ASSUME NEW V, NEW s \in Seq(V), NEW t \in Seq(V), NEW u \in Seq(V),
           Suffix(s, t), Suffix(t, u)
    PROVE  Suffix(s, u)
<1>1. PICK l \in Nat, m \in Nat, n \in Nat : l = Len(s) /\ m = Len(t) /\ n = Len(u)
  OBVIOUS
<1>2. l <= m /\ m <= n
  BY <1>1 DEF Suffix
<1>3. ASSUME NEW i \in 1 .. l PROVE s[i] = u[n - l + i]
  <2>1. PICK j \in 1 .. m : j = m - l + i
    BY <1>2
  <2>2. s[i] = t[j]
    BY <1>1, <2>1 DEF Suffix
  <2>3. t[j] = u[n - m + j] /\ n - m + j = n - l + i
    BY SMTT(30), <1>1, <2>1 DEF Suffix
  <2> QED BY <2>2, <2>3
<1> QED BY <1>1, <1>2, <1>3 DEF Suffix

\* Of two ends of a text one is an end of the other.
LEMMA SuffixCompare ==
    ASSUME NEW V, NEW s \in Seq(V), NEW t \in Seq(V), NEW u \in Seq(V),
           Suffix(s, u), Suffix(t, u), Len(s) <= Len(t)
    PROVE  Suffix(s, t)
<1>1. PICK l \in Nat, m \in Nat, n \in Nat : l = Len(s) /\ m = Len(t) /\ n = Len(u)
  OBVIOUS
<1>2. l <= m /\ m <= n
  BY <1>1 DEF Suffix
<1>3. \A i \in 1 .. l : s[i] = u[n - l + i]
  BY <1>1 DEF Suffix
<1>4. \A j \in 1 .. m : t[j] = u[n - m + j]
  BY <1>1 DEF Suffix
<1>5. ASSUME NEW i \in 1 .. l PROVE s[i] = t[m - l + i]
  <2>1. PICK j \in 1 .. m : j = m - l + i
    BY <1>2
  <2>2. t[j] = u[n - m + j] /\ n - m + j = n - l + i
    BY <1>4, <2>1
  <2> QED BY <1>3, <2>1, <2>2
<1> QED BY <1>1, <1>2, <1>5 DEF Suffix

\* A character is added to both.
LEMMA SuffixAppend ==
    ASSUME NEW V, NEW s \in Seq(V), NEW t \in Seq(V), NEW c \in V, Suffix(s, t)
    PROVE  Suffix(Append(s, c), Append(t, c))
<1>1. PICK m \in Nat, n \in Nat : m = Len(s) /\ n = Len(t)
  OBVIOUS
<1>2. m <= n /\ \A i \in 1 .. m : s[i] = t[n - m + i]
  BY <1>1 DEF Suffix
<1>3. PICK u \in Seq(V) : u = Append(s, c)
  <2>1. Append(s, c) \in Seq(V)
    OBVIOUS
  <2> QED BY <2>1, Zenon
<1>4. PICK v \in Seq(V) : v = Append(t, c)
  <2>1. Append(t, c) \in Seq(V)
    OBVIOUS
  <2> QED BY <2>1, Zenon
<1>5. Len(u) = m + 1 /\ u[m + 1] = c /\ \A i \in 1 .. m : u[i] = s[i]
  BY <1>1, <1>3
<1>6. Len(v) = n + 1 /\ v[n + 1] = c /\ \A i \in 1 .. n : v[i] = t[i]
  BY <1>1, <1>4
<1>7. ASSUME NEW i \in 1 .. m + 1 PROVE u[i] = v[(n + 1) - (m + 1) + i]
  <2>1. CASE i = m + 1
    <3>1. (n + 1) - (m + 1) + i = n + 1
      BY <2>1
    <3> QED BY <1>5, <1>6, <2>1, <3>1
  <2>2. CASE i # m + 1
    <3>1. i \in 1 .. m
      BY <2>2
    <3>2. PICK j \in 1 .. n : j = n - m + i /\ j = (n + 1) - (m + 1) + i
      BY <1>2, <3>1
    <3> QED BY <1>2, <1>5, <1>6, <3>1, <3>2
  <2> QED BY <2>1, <2>2
<1>8. Suffix(u, v)
  <2>1. Len(u) <= Len(v)
    BY <1>2, <1>5, <1>6
  <2>2. ASSUME NEW i \in 1 .. Len(u) PROVE u[i] = v[Len(v) - Len(u) + i]
    BY <1>5, <1>6, <1>7
  <2> QED BY <2>1, <2>2 DEF Suffix
<1> QED BY <1>3, <1>4, <1>8

\* The last character is taken from both.
LEMMA SuffixDrop ==
    ASSUME NEW V, NEW s \in Seq(V), NEW t \in Seq(V), NEW c \in V, NEW d \in V,
           Suffix(Append(s, c), Append(t, d))
    PROVE  Suffix(s, t)
<1>1. PICK m \in Nat, n \in Nat : m = Len(s) /\ n = Len(t)
  OBVIOUS
<1>3. PICK u \in Seq(V) : u = Append(s, c)
  <2>1. Append(s, c) \in Seq(V)
    OBVIOUS
  <2> QED BY <2>1, Zenon
<1>4. PICK v \in Seq(V) : v = Append(t, d)
  <2>1. Append(t, d) \in Seq(V)
    OBVIOUS
  <2> QED BY <2>1, Zenon
<1>5. Len(u) = m + 1 /\ \A i \in 1 .. m : u[i] = s[i]
  BY <1>1, <1>3
<1>6. Len(v) = n + 1 /\ \A i \in 1 .. n : v[i] = t[i]
  BY <1>1, <1>4
<1>2. Suffix(u, v)
  BY <1>3, <1>4
<1>7. m <= n
  BY <1>2, <1>5, <1>6 DEF Suffix
<1>8. ASSUME NEW i \in 1 .. m PROVE s[i] = t[n - m + i]
  <2>1. i \in 1 .. m + 1
    OBVIOUS
  <2>2. u[i] = v[(n + 1) - (m + 1) + i]
    BY <1>2, <1>5, <1>6, <2>1 DEF Suffix
  <2>3. PICK j \in 1 .. n : j = n - m + i /\ j = (n + 1) - (m + 1) + i
    BY <1>7
  <2> QED BY <1>5, <1>6, <2>2, <2>3
<1> QED BY <1>1, <1>7, <1>8 DEF Suffix

-----------------------------------------------------------------------------
(* The loop of Without.                                                     *)

KeptBody(f, b, k, i) ==
    IF i = 0 THEN <<>> ELSE IF f[i] = b THEN k[i - 1] ELSE Append(k[i - 1], f[i])

IsKept(k, f, n, b) == k = [i \in 0 .. n |-> KeptBody(f, b, k, i)]

\* The loop is a function.
LEMMA KeptExists ==
    ASSUME NEW f, NEW b, NEW n \in Nat
    PROVE  \E k : IsKept(k, f, n, b)
<1> DEFINE S == {m \in Nat : \E k : IsKept(k, f, m, b)}
<1>1. 0 \in S
  <2>1. PICK k : k = [i \in 0 .. 0 |-> <<>>]
    OBVIOUS
  <2>2. \A i \in 0 .. 0 : KeptBody(f, b, k, i) = <<>>
    BY DEF KeptBody
  <2>3. k = [i \in 0 .. 0 |-> KeptBody(f, b, k, i)]
    BY <2>1, <2>2
  <2> QED BY <2>3 DEF IsKept
<1>2. ASSUME NEW m \in Nat, m \in S
      PROVE  m + 1 \in S
  <2>1. PICK k : IsKept(k, f, m, b)
    BY <1>2
  <2>2. \A i \in 0 .. m : k[i] = KeptBody(f, b, k, i)
    BY <2>1 DEF IsKept
  <2> DEFINE g == [i \in 0 .. m + 1 |-> IF i < m + 1 THEN k[i] ELSE KeptBody(f, b, k, m + 1)]
  <2>3. \A i \in 0 .. m : g[i] = k[i]
    OBVIOUS
  <2>4. g[m + 1] = KeptBody(f, b, k, m + 1)
    OBVIOUS
  <2>5. g = [i \in 0 .. m + 1 |-> g[i]]
    OBVIOUS
  <2> HIDE DEF g
  <2>6. ASSUME NEW i \in 0 .. m + 1
        PROVE  KeptBody(f, b, g, i) = KeptBody(f, b, k, i)
    <3>1. CASE i = 0
      BY <3>1 DEF KeptBody
    <3>2. CASE i # 0
      <4>1. i - 1 \in 0 .. m
        BY <3>2
      <4>2. g[i - 1] = k[i - 1]
        BY <2>3, <4>1
      <4> QED BY <3>2, <4>2 DEF KeptBody
    <3> QED BY <3>1, <3>2
  <2>7. ASSUME NEW i \in 0 .. m + 1 PROVE g[i] = KeptBody(f, b, g, i)
    <3>1. CASE i = m + 1
      BY <2>4, <2>6, <3>1
    <3>2. CASE i # m + 1
      <4>1. i \in 0 .. m
        BY <3>2
      <4> QED BY <2>2, <2>3, <2>6, <4>1
    <3> QED BY <3>1, <3>2
  <2>8. IsKept(g, f, m + 1, b)
    BY <2>5, <2>7 DEF IsKept
  <2> QED BY <2>8
<1> HIDE DEF S
<1>3. Nat \subseteq S
  BY <1>1, <1>2, StepInduction
<1> QED BY <1>3 DEF S

\* It is the one of Without.
LEMMA WithoutIs ==
    ASSUME NEW f, NEW b, NEW n \in Nat
    PROVE  \E k : IsKept(k, f, n, b) /\ Without(f, n, b) = k[n]
<1> DEFINE k == CHOOSE h : h = [i \in 0 .. n |->
                   IF i = 0 THEN <<>> ELSE IF f[i] = b THEN h[i - 1] ELSE Append(h[i - 1], f[i])]
<1>1. \E h : IsKept(h, f, n, b)
  BY KeptExists
<1>2. IsKept(k, f, n, b)
  BY <1>1, Zenon DEF IsKept, KeptBody
<1>3. Without(f, n, b) = k[n]
  BY Zenon DEF Without
<1> QED BY <1>2, <1>3

\* Two loops that agree on what they read agree on what they keep.
LEMMA KeptSame ==
    ASSUME NEW f, NEW g, NEW b, NEW m \in Nat, NEW n \in Nat, NEW k, NEW h,
           IsKept(k, f, m, b), IsKept(h, g, n, b),
           NEW l \in Nat, l <= m, l <= n, \A i \in 1 .. l : f[i] = g[i]
    PROVE  k[l] = h[l]
<1>1. \A i \in 0 .. m : k[i] = KeptBody(f, b, k, i)
  BY DEF IsKept
<1>2. \A i \in 0 .. n : h[i] = KeptBody(g, b, h, i)
  BY DEF IsKept
<1> DEFINE S == {i \in Nat : i <= l => k[i] = h[i]}
<1>3. 0 \in S
  <2>1. k[0] = <<>> /\ h[0] = <<>>
    BY <1>1, <1>2 DEF KeptBody
  <2> QED BY <2>1
<1>4. ASSUME NEW i \in Nat, i \in S PROVE i + 1 \in S
  <2>1. CASE i + 1 <= l
    <3>1. i + 1 \in 0 .. m /\ i + 1 \in 0 .. n /\ i + 1 \in 1 .. l /\ i + 1 # 0
          /\ (i + 1) - 1 = i /\ k[i] = h[i]
      BY <1>4, <2>1
    <3>2. f[i + 1] = g[i + 1]
      BY <3>1
    <3>3. k[i + 1] = IF f[i + 1] = b THEN k[i] ELSE Append(k[i], f[i + 1])
      BY <1>1, <3>1 DEF KeptBody
    <3>4. h[i + 1] = IF g[i + 1] = b THEN h[i] ELSE Append(h[i], g[i + 1])
      BY <1>2, <3>1 DEF KeptBody
    <3>5. k[i + 1] = h[i + 1]
      BY <3>1, <3>2, <3>3, <3>4
    <3> QED BY <3>5
  <2>2. CASE ~(i + 1 <= l)
    BY <2>2
  <2> QED BY <2>1, <2>2
<1> HIDE DEF S
<1>5. l \in S
  BY <1>3, <1>4, StepInduction
<1> QED BY <1>5 DEF S

\* What is read later does not matter.
LEMMA WithoutSame ==
    ASSUME NEW f, NEW g, NEW b, NEW n \in Nat, \A i \in 1 .. n : f[i] = g[i]
    PROVE  Without(f, n, b) = Without(g, n, b)
<1>1. PICK k : IsKept(k, f, n, b) /\ Without(f, n, b) = k[n]
  BY WithoutIs
<1>2. PICK h : IsKept(h, g, n, b) /\ Without(g, n, b) = h[n]
  BY WithoutIs
<1>3. k[n] = h[n]
  BY <1>1, <1>2, KeptSame
<1> QED BY <1>1, <1>2, <1>3

\* One element more.
LEMMA WithoutNext ==
    ASSUME NEW f, NEW b, NEW n \in Nat
    PROVE  /\ f[n + 1] = b => Without(f, n + 1, b) = Without(f, n, b)
           /\ f[n + 1] # b => Without(f, n + 1, b) = Append(Without(f, n, b), f[n + 1])
<1>0. n + 1 \in Nat /\ n <= n + 1 /\ n <= n
  OBVIOUS
<1>1. PICK k : IsKept(k, f, n, b) /\ Without(f, n, b) = k[n]
  BY WithoutIs
<1>2. PICK h : IsKept(h, f, n + 1, b) /\ Without(f, n + 1, b) = h[n + 1]
  BY <1>0, WithoutIs
<1>3. h[n] = k[n]
  <2>1. \A i \in 1 .. n : f[i] = f[i]
    OBVIOUS
  <2>2. IsKept(h, f, n + 1, b) /\ IsKept(k, f, n, b)
    BY <1>1, <1>2
  <2>3. PICK m \in Nat : m = n + 1
    OBVIOUS
  <2>4. IsKept(h, f, m, b) /\ n <= m /\ n <= n
    BY <2>2, <2>3
  <2> QED BY <2>1, <2>2, <2>4, KeptSame
<1>4. n + 1 \in 0 .. n + 1 /\ n + 1 # 0 /\ (n + 1) - 1 = n
  OBVIOUS
<1>5. h[n + 1] = KeptBody(f, b, h, n + 1)
  BY <1>2, <1>4 DEF IsKept
<1>6. h[n + 1] = IF f[n + 1] = b THEN h[n] ELSE Append(h[n], f[n + 1])
  BY <1>4, <1>5 DEF KeptBody
<1> QED BY <1>1, <1>2, <1>3, <1>6

\* Nothing is kept of no elements.
LEMMA WithoutNone ==
    ASSUME NEW f, NEW b
    PROVE  Without(f, 0, b) = <<>>
<1>1. PICK k : IsKept(k, f, 0, b) /\ Without(f, 0, b) = k[0]
  BY WithoutIs
<1>2. 0 \in 0 .. 0
  OBVIOUS
<1>3. k[0] = KeptBody(f, b, k, 0)
  BY <1>1, <1>2 DEF IsKept
<1> QED BY <1>1, <1>3 DEF KeptBody

\* What is kept is a text.
LEMMA WithoutSeq ==
    ASSUME NEW V, NEW f, NEW b, NEW n \in Nat, \A i \in 1 .. n : f[i] \in V
    PROVE  Without(f, n, b) \in Seq(V)
<1> DEFINE S == {i \in Nat : i <= n => Without(f, i, b) \in Seq(V)}
<1>1. 0 \in S
  <2>1. Without(f, 0, b) = <<>>
    BY WithoutNone
  <2>2. <<>> \in Seq(V)
    OBVIOUS
  <2> QED BY <2>1, <2>2
<1>2. ASSUME NEW i \in Nat, i \in S PROVE i + 1 \in S
  <2>1. CASE i + 1 <= n
    <3>1. PICK t \in Seq(V) : t = Without(f, i, b)
      BY <1>2, <2>1
    <3>2. f[i + 1] \in V
      BY <2>1
    <3>3. Append(t, f[i + 1]) \in Seq(V)
      BY <3>2
    <3>4. Without(f, i + 1, b) \in Seq(V)
      <4>1. CASE f[i + 1] = b
        BY <3>1, <4>1, WithoutNext
      <4>2. CASE f[i + 1] # b
        BY <3>1, <3>3, <4>2, WithoutNext
      <4> QED BY <4>1, <4>2
    <3> QED BY <3>4
  <2>2. CASE ~(i + 1 <= n)
    BY <2>2
  <2> QED BY <2>1, <2>2
<1> HIDE DEF S
<1>3. n \in S
  BY <1>1, <1>2, StepInduction
<1> QED BY <1>3 DEF S

\* Blanks at the end make no difference.
LEMMA WithoutBlanks ==
    ASSUME NEW f, NEW b, NEW m \in Nat, NEW n \in Nat, m <= n,
           \A i \in 1 .. n : i > m => f[i] = b
    PROVE  Without(f, n, b) = Without(f, m, b)
<1> DEFINE S == {i \in Nat : m <= i /\ i <= n => Without(f, i, b) = Without(f, m, b)}
<1>1. 0 \in S
  <2>1. CASE m = 0
    BY <2>1
  <2>2. CASE m # 0
    BY <2>2
  <2> QED BY <2>1, <2>2
<1>2. ASSUME NEW i \in Nat, i \in S PROVE i + 1 \in S
  <2>1. CASE m <= i /\ i + 1 <= n
    <3>1. i + 1 \in 1 .. n /\ i + 1 > m /\ i <= n
      BY <2>1
    <3>2. f[i + 1] = b
      BY <3>1
    <3>3. Without(f, i, b) = Without(f, m, b)
      BY <1>2, <2>1, <3>1
    <3>4. Without(f, i + 1, b) = Without(f, i, b)
      BY <3>2, WithoutNext
    <3> QED BY <3>3, <3>4
  <2>2. CASE i + 1 = m
    BY <2>2
  <2>3. CASE ~(m <= i + 1 /\ i + 1 <= n)
    BY <2>3
  <2> QED BY <2>1, <2>2, <2>3
<1> HIDE DEF S
<1>3. n \in S
  BY <1>1, <1>2, StepInduction
<1> QED BY <1>3 DEF S

-----------------------------------------------------------------------------
(* Cells before and behind the cursor.                                      *)

Size   == VGA_HEIGHT * VGA_WIDTH
Top    == (VGA_HEIGHT - 1) * VGA_WIDTH
Loc(s) == location(s.row, s.col)

\* All that a screen may show.
Glyphs ==
    Chars \cup {BLACK, "header", "tested", "message"} \cup Range(DIGITS)
          \cup UNION {Range(out) : out \in Replies}

\* Nothing stands behind the cursor.
Neat(s) ==
    /\ ScreenOK(s)
    /\ \A i \in Cells : s.cells[i] \in Glyphs
    /\ \A i \in Cells : i >= Loc(s) => s.cells[i] = BLACK

\* The n cells before the cursor show something.
Full(s, n) ==
    /\ n <= Loc(s)
    /\ \A i \in Cells : Loc(s) - n <= i /\ i < Loc(s) => s.cells[i] # BLACK

\* The rows but the last one and the cells of all.
LEMMA Area ==
    /\ Size \in Nat /\ Top \in Nat /\ Top + VGA_WIDTH = Size /\ Cells = 0 .. Size
    /\ VGA_WIDTH \in Nat /\ 0 < VGA_WIDTH
<1>1. PICK w \in Nat, h \in Nat : w = VGA_WIDTH /\ h = VGA_HEIGHT - 1 /\ VGA_HEIGHT = h + 1 /\ 0 < w
  BY Sides
<1>2. (h + 1) * w = h * w + w /\ h * w \in Nat
  BY <1>1
<1> QED BY <1>1, <1>2 DEF Size, Top, Cells

\* The cursor stands on or just behind a cell.
LEMMA LocRange ==
    ASSUME NEW s, ScreenOK(s)
    PROVE  /\ Loc(s) \in Nat /\ Loc(s) <= Size
           /\ s.col < VGA_WIDTH => Loc(s) < Size
           /\ s.row = VGA_HEIGHT - 1 => Loc(s) = Top + s.col
           /\ s.col \in Nat /\ s.col <= VGA_WIDTH
<1>1. PICK w \in Nat, h \in Nat : w = VGA_WIDTH /\ h = VGA_HEIGHT - 1 /\ VGA_HEIGHT = h + 1 /\ 0 < w
  BY Sides
<1>2. PICK r \in 0 .. h, k \in 0 .. w : r = s.row /\ k = s.col
  BY <1>1 DEF ScreenOK
<1>3. Loc(s) = r * w + k
  BY <1>1, <1>2 DEF Loc, location
<1>4. r * w \in Nat /\ r * w <= h * w
  BY <1>1
<1>5. PICK x \in Nat, y \in Nat : x = r * w /\ y = h * w /\ x <= y
  BY <1>4
<1>6. Size = y + w /\ Top = y
  <2>1. Top = y
    BY <1>1, <1>5 DEF Top
  <2> QED BY <1>1, <2>1, Area
<1>7. r = h => x = y
  BY <1>5
<1> QED BY <1>1, <1>2, <1>3, <1>5, <1>6, <1>7

\* The next line is there.
Moved(s, u) ==
    /\ u.cells = s.cells /\ Loc(u) >= Loc(s)
    /\ s.col = VGA_WIDTH => Loc(u) = Loc(s)

\* The screen is scrolled by a line.
Scrolled(s, u) ==
    /\ Loc(u) = Top /\ s.row = VGA_HEIGHT - 1
    /\ \A i \in Cells : u.cells[i] = IF i < Top THEN s.cells[i + VGA_WIDTH]
                                     ELSE IF i < Size THEN BLACK ELSE s.cells[i]

\* NextLine moves the cursor to the next row or, on the last one, scrolls.
LEMMA NextLineIs ==
    ASSUME NEW s, ScreenOK(s)
    PROVE  Moved(s, NextLine(s)) \/ Scrolled(s, NextLine(s))
<1>1. PICK c, r, k : s = [cells |-> c, row |-> r, col |-> k]
  BY DEF ScreenOK
<1>2. r \in 0 .. VGA_HEIGHT - 1 /\ k \in 0 .. VGA_WIDTH
  BY <1>1 DEF ScreenOK
<1>3. PICK t : t = [cells |-> c, row |-> r + 1, col |-> 0]
  OBVIOUS
<1>4. t.row = r + 1
  BY <1>3
<1>5. CASE r + 1 < VGA_HEIGHT
  <2>1. NextLine(s) = t
    BY <1>1, <1>3, <1>4, <1>5 DEF NextLine
  <2>2. PICK w \in Nat : w = VGA_WIDTH
    BY Sides
  <2>3. Loc(t) = (r + 1) * w /\ Loc(s) = r * w + k
    BY <1>1, <1>2, <1>3, <2>2 DEF Loc, location
  <2>4. (r + 1) * w = r * w + w /\ r * w \in Nat
    BY <1>2, <2>2
  <2>5. PICK x \in Nat : x = r * w
    BY <2>4
  <2>6. Loc(t) = x + w /\ Loc(s) = x + k
    BY <2>3, <2>4, <2>5
  <2>7. Loc(t) >= Loc(s) /\ (k = VGA_WIDTH => Loc(t) = Loc(s))
    BY <1>2, <2>2, <2>5, <2>6
  <2>8. t.cells = s.cells /\ s.col = k
    BY <1>1, <1>3
  <2> QED BY <2>1, <2>7, <2>8 DEF Moved
<1>6. CASE ~(r + 1 < VGA_HEIGHT)
  <2>1. PICK d : d = [i \in Cells |-> IF i < (VGA_HEIGHT - 1) * VGA_WIDTH THEN c[i + VGA_WIDTH]
                                      ELSE IF i < VGA_HEIGHT * VGA_WIDTH THEN BLACK ELSE c[i]]
    OBVIOUS
  <2>2. terminal_scroll(t) = [cells |-> d, row |-> r + 1, col |-> 0]
    BY <1>3, <2>1 DEF terminal_scroll
  <2>3. NextLine(s) = [terminal_scroll(t) EXCEPT !.row = VGA_HEIGHT - 1]
    BY <1>1, <1>3, <1>4, <1>6 DEF NextLine
  <2>4. NextLine(s) = [cells |-> d, row |-> VGA_HEIGHT - 1, col |-> 0]
    BY <2>2, <2>3
  <2>5. PICK u : u = NextLine(s)
    OBVIOUS
  <2>6. u.cells = d /\ u.row = VGA_HEIGHT - 1 /\ u.col = 0
    BY <2>4, <2>5
  <2>7. Loc(u) = Top
    BY <2>6, Area, Sides DEF Loc, location, Top
  <2>8. s.row = VGA_HEIGHT - 1 /\ s.cells = c
    BY <1>1, <1>2, <1>6, Sides
  <2>9. \A i \in Cells : d[i] = IF i < Top THEN c[i + VGA_WIDTH]
                                ELSE IF i < Size THEN BLACK ELSE c[i]
    BY <2>1 DEF Top, Size
  <2> QED BY <2>5, <2>6, <2>7, <2>8, <2>9 DEF Scrolled
<1> QED BY <1>5, <1>6

\* The tape shows the cells.
LEMMA TapeIs ==
    ASSUME NEW s
    PROVE  \A i \in 1 .. Size : Tape(s)[i] = s.cells[i - 1]
BY DEF Tape, Size

\* What can be read is a text.
LEMMA ShownSeq ==
    ASSUME NEW s, Neat(s)
    PROVE  Shown(s) \in Seq(Glyphs)
<1>1. PICK n \in Nat : n = Loc(s) /\ n <= Size
  BY LocRange DEF Neat
<1>2. ASSUME NEW i \in 1 .. n PROVE Tape(s)[i] \in Glyphs
  <2>1. i \in 1 .. Size /\ i - 1 \in Cells
    BY <1>1, Area
  <2> QED BY <2>1, TapeIs DEF Neat
<1>3. Without(Tape(s), n, BLACK) \in Seq(Glyphs)
  BY <1>2, WithoutSeq
<1> QED BY <1>1, <1>3 DEF Shown, Loc

\* What is read of a tape that has moved is the end of what was read.
LEMMA ShiftSuffix ==
    ASSUME NEW V, NEW f, NEW g, NEW b, NEW w \in Nat, NEW n \in Nat,
           \A i \in 1 .. n + w : f[i] \in V, \A i \in 1 .. n : g[i] = f[i + w]
    PROVE  Suffix(Without(g, n, b), Without(f, n + w, b))
<1> DEFINE S == {i \in Nat : i <= n => Suffix(Without(g, i, b), Without(f, i + w, b))}
<1>1. 0 \in S
  <2>1. PICK t : t = Without(f, w, b)
    OBVIOUS
  <2>2. t \in Seq(V)
    <3>1. \A i \in 1 .. w : f[i] \in V
      OBVIOUS
    <3> QED BY <2>1, <3>1, WithoutSeq
  <2>3. Suffix(<<>>, t)
    BY <2>2, SuffixTrivial
  <2>4. Without(g, 0, b) = <<>> /\ 0 + w = w
    BY WithoutNone
  <2> QED BY <2>1, <2>3, <2>4
<1>2. ASSUME NEW i \in Nat, i \in S PROVE i + 1 \in S
  <2>1. CASE i + 1 <= n
    <3>1. PICK m \in Nat : m = i + w
      OBVIOUS
    <3>2. (i + 1) + w = m + 1 /\ i + 1 \in 1 .. n /\ m + 1 \in 1 .. n + w
      BY <2>1, <3>1
    <3>3. g[i + 1] = f[m + 1] /\ f[m + 1] \in V
      BY <3>2
    <3>4. PICK s : s = Without(g, i, b)
      OBVIOUS
    <3>5. PICK t : t = Without(f, m, b)
      OBVIOUS
    <3>6. s \in Seq(V)
      <4>1. \A j \in 1 .. i : g[j] \in V
        <5>1. SUFFICES ASSUME NEW j \in 1 .. i PROVE g[j] \in V
          OBVIOUS
        <5>2. j \in 1 .. n /\ j + w \in 1 .. n + w
          BY <2>1
        <5> QED BY <5>2
      <4> QED BY <3>4, <4>1, WithoutSeq
    <3>7. t \in Seq(V)
      <4>1. \A j \in 1 .. m : f[j] \in V
        BY <2>1, <3>1
      <4> QED BY <3>5, <4>1, WithoutSeq
    <3>8. Suffix(s, t)
      BY <1>2, <2>1, <3>1, <3>4, <3>5
    <3>9. Suffix(Without(g, i + 1, b), Without(f, m + 1, b))
      <4>1. CASE f[m + 1] = b
        BY <3>3, <3>4, <3>5, <3>8, <4>1, WithoutNext
      <4>2. CASE f[m + 1] # b
        <5>1. Without(g, i + 1, b) = Append(s, f[m + 1])
          BY <3>3, <3>4, <4>2, WithoutNext
        <5>2. Without(f, m + 1, b) = Append(t, f[m + 1])
          BY <3>5, <4>2, WithoutNext
        <5> QED BY <3>3, <3>6, <3>7, <3>8, <5>1, <5>2, SuffixAppend
      <4> QED BY <4>1, <4>2
    <3> QED BY <3>2, <3>9
  <2>2. CASE ~(i + 1 <= n)
    BY <2>2
  <2> QED BY <2>1, <2>2
<1> HIDE DEF S
<1>3. n \in S
  BY <1>1, <1>2, StepInduction
<1> QED BY <1>3 DEF S

\* What is not blank is read.
LEMMA WithoutLen ==
    ASSUME NEW V, NEW f, NEW b, NEW n \in Nat, NEW k \in Nat, k <= n,
           \A i \in 1 .. n : f[i] \in V, \A i \in 1 .. n : n - k < i => f[i] # b
    PROVE  Len(Without(f, n, b)) >= k
<1>0. PICK m \in Nat : m = n - k
  OBVIOUS
<1> DEFINE S == {i \in Nat : i <= k => Len(Without(f, m + i, b)) >= i}
<1>1. \A i \in Nat : i <= n => Without(f, i, b) \in Seq(V)
  <2>1. SUFFICES ASSUME NEW i \in Nat, i <= n PROVE Without(f, i, b) \in Seq(V)
    OBVIOUS
  <2>2. \A j \in 1 .. i : f[j] \in V
    BY <2>1
  <2> QED BY <2>2, WithoutSeq
<1>2. 0 \in S
  <2>1. Without(f, m, b) \in Seq(V) /\ m + 0 = m
    BY <1>0, <1>1
  <2> QED BY <2>1
<1>3. ASSUME NEW i \in Nat, i \in S PROVE i + 1 \in S
  <2>1. CASE i + 1 <= k
    <3>1. PICK j \in Nat : j = m + i
      OBVIOUS
    <3>2. j + 1 = m + (i + 1) /\ j + 1 \in 1 .. n /\ n - k < j + 1 /\ j <= n
      BY <1>0, <2>1, <3>1
    <3>3. f[j + 1] # b /\ f[j + 1] \in V
      BY <3>2
    <3>4. PICK t \in Seq(V) : t = Without(f, j, b)
      BY <1>1, <3>2
    <3>5. Len(t) >= i
      BY <1>3, <2>1, <3>1, <3>4
    <3>6. Without(f, j + 1, b) = Append(t, f[j + 1])
      BY <3>3, <3>4, WithoutNext
    <3>7. Len(Append(t, f[j + 1])) = Len(t) + 1
      BY <3>3
    <3>8. Len(Without(f, j + 1, b)) >= i + 1
      BY <3>5, <3>6, <3>7
    <3> QED BY <3>2, <3>8
  <2>2. CASE ~(i + 1 <= k)
    BY <2>2
  <2> QED BY <2>1, <2>2
<1> HIDE DEF S
<1>4. k \in S
  BY <1>2, <1>3, StepInduction
<1>5. m + k = n
  BY <1>0
<1> QED BY <1>4, <1>5 DEF S

-----------------------------------------------------------------------------
(* What the operations of the screen do to what can be read.                *)

\* The text up to any cell behind the cursor is what can be read.
LEMMA ShownUpTo ==
    ASSUME NEW s, Neat(s), NEW n \in Nat, Loc(s) <= n, n <= Size
    PROVE  Shown(s) = Without(Tape(s), n, BLACK)
<1>1. PICK m \in Nat : m = Loc(s) /\ m <= n
  BY LocRange DEF Neat
<1>2. ASSUME NEW i \in 1 .. n, i > m PROVE Tape(s)[i] = BLACK
  <2>1. i \in 1 .. Size /\ i - 1 \in Cells /\ i - 1 >= Loc(s)
    BY <1>1, <1>2, Area
  <2> QED BY <2>1, TapeIs DEF Neat
<1>3. Without(Tape(s), n, BLACK) = Without(Tape(s), m, BLACK)
  BY <1>1, <1>2, WithoutBlanks
<1> QED BY <1>1, <1>3 DEF Shown, Loc

\* So are the cells before the cursor that show something.
LEMMA ShownLen ==
    ASSUME NEW s, Neat(s), NEW k \in Nat, Full(s, k)
    PROVE  Len(Shown(s)) >= k
<1>1. PICK n \in Nat : n = Loc(s) /\ n <= Size
  BY LocRange DEF Neat
<1>2. ASSUME NEW i \in 1 .. n
      PROVE  Tape(s)[i] \in Glyphs /\ (n - k < i => Tape(s)[i] # BLACK)
  <2>1. i \in 1 .. Size /\ i - 1 \in Cells
    BY <1>1, Area
  <2>2. Tape(s)[i] = s.cells[i - 1]
    BY <2>1, TapeIs
  <2>3. n - k < i => n - k <= i - 1 /\ i - 1 < n
    BY <1>1
  <2> QED BY <1>1, <2>1, <2>2, <2>3 DEF Neat, Full
<1>3. \A i \in 1 .. n : Tape(s)[i] \in Glyphs
  BY <1>2
<1>4. \A i \in 1 .. n : n - k < i => Tape(s)[i] # BLACK
  BY <1>2
<1>5. k <= n
  BY <1>1 DEF Full
<1>6. Len(Without(Tape(s), n, BLACK)) >= k
  BY <1>3, <1>4, <1>5, WithoutLen
<1> QED BY <1>1, <1>6 DEF Shown, Loc

\* Nothing is behind the cursor on the next line either.
LEMMA NextLineNeat ==
    ASSUME NEW s, Neat(s)
    PROVE  Neat(NextLine(s))
<1>1. PICK u : u = NextLine(s)
  OBVIOUS
<1>2. ScreenOK(u)
  BY <1>1, NextLineOK DEF Neat
<1>3. CASE Moved(s, u)
  <2>1. u.cells = s.cells /\ Loc(u) >= Loc(s)
    BY <1>3 DEF Moved
  <2>2. Loc(u) \in Nat /\ Loc(s) \in Nat
    BY <1>2, LocRange DEF Neat
  <2>3. \A i \in Cells : i >= Loc(u) => i >= Loc(s)
    BY <2>1, <2>2, Area
  <2> QED BY <1>1, <1>2, <2>1, <2>3 DEF Neat
<1>4. CASE Scrolled(s, u)
  <2>1. /\ Loc(u) = Top
        /\ \A i \in Cells : u.cells[i] = IF i < Top THEN s.cells[i + VGA_WIDTH]
                                         ELSE IF i < Size THEN BLACK ELSE s.cells[i]
    BY <1>4 DEF Scrolled
  <2>2. BLACK \in Glyphs
    BY DEF Glyphs
  <2>3. ASSUME NEW i \in Cells
        PROVE  u.cells[i] \in Glyphs /\ (i >= Top => u.cells[i] = BLACK)
    <3>1. CASE i < Top
      <4>1. i + VGA_WIDTH \in Cells /\ ~(i >= Top)
        BY <3>1, Area
      <4> QED BY <2>1, <3>1, <4>1 DEF Neat
    <3>2. CASE ~(i < Top) /\ i < Size
      BY <2>1, <2>2, <3>2
    <3>3. CASE ~(i < Top) /\ ~(i < Size)
      <4>1. i >= Loc(s)
        BY <3>3, Area, LocRange DEF Neat
      <4>2. s.cells[i] = BLACK
        BY <4>1 DEF Neat
      <4> QED BY <2>1, <2>2, <3>3, <4>2
    <3> QED BY <3>1, <3>2, <3>3
  <2> QED BY <1>1, <1>2, <2>1, <2>3 DEF Neat
<1> QED BY <1>1, <1>3, <1>4, NextLineIs DEF Neat

\* A new line takes at most the first characters away.
LEMMA NextLineShown ==
    ASSUME NEW s, Neat(s)
    PROVE  Suffix(Shown(NextLine(s)), Shown(s))
<1>1. PICK u : u = NextLine(s)
  OBVIOUS
<1>2. Neat(u) /\ ScreenOK(u)
  BY <1>1, NextLineNeat DEF Neat
<1>3. CASE Moved(s, u)
  <2>1. PICK n \in Nat : n = Loc(u) /\ n <= Size /\ Loc(s) <= n
    BY <1>2, <1>3, LocRange DEF Moved
  <2>2. Shown(s) = Without(Tape(s), n, BLACK)
    BY <2>1, ShownUpTo
  <2>3. Shown(u) = Without(Tape(u), n, BLACK)
    BY <2>1 DEF Shown, Loc
  <2>4. Tape(u) = Tape(s)
    BY <1>3 DEF Moved, Tape
  <2>5. Shown(u) = Shown(s)
    BY <2>2, <2>3, <2>4
  <2> QED BY <1>1, <2>5, ShownSeq, SuffixTrivial
<1>4. CASE Scrolled(s, u)
  <2>1. PICK n \in Nat, w \in Nat : n = Top /\ w = VGA_WIDTH /\ n + w = Size
    BY Area
  <2>2. \A i \in 1 .. n + w : Tape(s)[i] \in Glyphs
    <3>1. SUFFICES ASSUME NEW i \in 1 .. n + w PROVE Tape(s)[i] \in Glyphs
      OBVIOUS
    <3>2. i \in 1 .. Size /\ i - 1 \in Cells
      BY <2>1, Area
    <3> QED BY <3>2, TapeIs DEF Neat
  <2>3. \A i \in 1 .. n : Tape(u)[i] = Tape(s)[i + w]
    <3>1. SUFFICES ASSUME NEW i \in 1 .. n PROVE Tape(u)[i] = Tape(s)[i + w]
      OBVIOUS
    <3>2. i \in 1 .. Size /\ i + w \in 1 .. Size /\ i - 1 \in Cells /\ i - 1 < Top
          /\ (i + w) - 1 = (i - 1) + VGA_WIDTH
      BY <2>1, Area
    <3>3. Tape(u)[i] = u.cells[i - 1]
      BY <3>2, TapeIs
    <3>4. Tape(s)[i + w] = s.cells[(i + w) - 1]
      BY <3>2, TapeIs
    <3>5. u.cells[i - 1] = s.cells[(i - 1) + VGA_WIDTH]
      BY <1>4, <3>2 DEF Scrolled
    <3> QED BY <3>2, <3>3, <3>4, <3>5
  <2>4. Suffix(Without(Tape(u), n, BLACK), Without(Tape(s), n + w, BLACK))
    BY <2>2, <2>3, ShiftSuffix
  <2>5. Shown(u) = Without(Tape(u), n, BLACK)
    BY <1>4, <2>1 DEF Scrolled, Shown, Loc
  <2>6. PICK m \in Nat : m = n + w
    OBVIOUS
  <2>7. Shown(s) = Without(Tape(s), m, BLACK)
    <3>1. Loc(s) <= m /\ m <= Size
      BY <2>1, <2>6, LocRange DEF Neat
    <3> QED BY <3>1, ShownUpTo
  <2> QED BY <1>1, <2>4, <2>5, <2>6, <2>7
<1> QED BY <1>1, <1>3, <1>4, NextLineIs DEF Neat

\* A line that is full goes on on the next one.
LEMMA NextLineFull ==
    ASSUME NEW s, Neat(s), NEW k \in Nat, Full(s, k), k <= Top, s.col = VGA_WIDTH
    PROVE  Full(NextLine(s), k)
<1>1. PICK u : u = NextLine(s)
  OBVIOUS
<1>2. ScreenOK(u)
  BY <1>1, NextLineOK DEF Neat
<1>3. CASE Moved(s, u)
  BY <1>1, <1>3 DEF Moved, Full
<1>4. CASE Scrolled(s, u)
  <2>1. PICK n \in Nat, w \in Nat : n = Top /\ w = VGA_WIDTH /\ n + w = Size /\ Cells = 0 .. n + w
    BY Area
  <2>2. Loc(u) = n /\ Loc(s) = n + w
    BY <1>4, <2>1, LocRange DEF Scrolled, Neat
  <2>3. ASSUME NEW i \in Cells, n - k <= i, i < n
        PROVE  u.cells[i] # BLACK
    <3>1. PICK j \in Cells : j = i + w /\ (n + w) - k <= j /\ j < n + w
      BY <2>1, <2>3
    <3>2. s.cells[j] # BLACK
      BY <2>2, <3>1 DEF Full
    <3>3. u.cells[i] = s.cells[j]
      BY <1>4, <2>1, <2>3, <3>1 DEF Scrolled
    <3> QED BY <3>2, <3>3
  <2> QED BY <1>1, <2>1, <2>2, <2>3 DEF Full
<1> QED BY <1>1, <1>3, <1>4, NextLineIs DEF Neat

\* A new line that scrolls leaves what stands below the first row.
LEMMA NextLineLen ==
    ASSUME NEW s, Neat(s), NEW k \in Nat, Full(s, k),
           s.row = VGA_HEIGHT - 1 => k + VGA_WIDTH <= Loc(s)
    PROVE  Len(Shown(NextLine(s))) >= k
<1>1. PICK u : u = NextLine(s)
  OBVIOUS
<1>2. Neat(u) /\ ScreenOK(u)
  BY <1>1, NextLineNeat DEF Neat
<1>3. CASE Moved(s, u)
  <2>1. PICK n \in Nat : n = Loc(u) /\ n <= Size /\ Loc(s) <= n
    BY <1>2, <1>3, LocRange DEF Moved
  <2>2. Shown(s) = Without(Tape(s), n, BLACK)
    BY <2>1, ShownUpTo
  <2>3. Shown(u) = Without(Tape(u), n, BLACK)
    BY <2>1 DEF Shown, Loc
  <2>4. Tape(u) = Tape(s)
    BY <1>3 DEF Moved, Tape
  <2>5. Shown(u) = Shown(s)
    BY <2>2, <2>3, <2>4
  <2> QED BY <1>1, <2>5, ShownLen
<1>4. CASE Scrolled(s, u)
  <2>1. PICK n \in Nat, w \in Nat : n = Top /\ w = VGA_WIDTH /\ n + w = Size /\ Cells = 0 .. n + w
    BY Area
  <2>2. PICK m \in Nat : Loc(s) = m + w /\ k <= m /\ m <= n
    <3>1. Loc(s) \in Nat /\ Loc(s) <= n + w
      BY <2>1, LocRange DEF Neat
    <3>2. k + w <= Loc(s)
      BY <1>4, <2>1 DEF Scrolled
    <3>3. Loc(s) - w \in Nat /\ Loc(s) = (Loc(s) - w) + w /\ k <= Loc(s) - w /\ Loc(s) - w <= n
      BY <2>1, <3>1, <3>2
    <3> QED BY <3>3
  <2>3. \A i \in 1 .. n : i \in 1 .. Size /\ i - 1 \in Cells /\ Tape(u)[i] = u.cells[i - 1]
    BY <2>1, TapeIs
  <2>4. \A i \in 1 .. n : Tape(u)[i] \in Glyphs
    BY <1>2, <2>3 DEF Neat
  <2>5. ASSUME NEW i \in 1 .. n
        PROVE  /\ m - k < i /\ i <= m => Tape(u)[i] # BLACK
               /\ m < i => Tape(u)[i] = BLACK
    <3>1. PICK j \in Cells : j = (i - 1) + w /\ i - 1 < n
      BY <2>1
    <3>2. u.cells[i - 1] = s.cells[j]
      BY <1>4, <2>1, <2>3, <3>1 DEF Scrolled
    <3>3. m - k < i /\ i <= m => Loc(s) - k <= j /\ j < Loc(s)
      BY <2>2, <3>1
    <3>4. m < i => j >= Loc(s)
      BY <2>2, <3>1
    <3> QED BY <2>3, <3>2, <3>3, <3>4 DEF Full, Neat
  <2>6. Shown(u) = Without(Tape(u), n, BLACK)
    BY <1>4, <2>1 DEF Scrolled, Shown, Loc
  <2>7. Without(Tape(u), n, BLACK) = Without(Tape(u), m, BLACK)
    <3>1. \A i \in 1 .. n : i > m => Tape(u)[i] = BLACK
      BY <2>5
    <3> QED BY <2>2, <3>1, WithoutBlanks
  <2>8. Len(Without(Tape(u), m, BLACK)) >= k
    <3>1. \A i \in 1 .. m : Tape(u)[i] \in Glyphs
      BY <2>2, <2>4
    <3>2. \A i \in 1 .. m : m - k < i => Tape(u)[i] # BLACK
      BY <2>2, <2>5
    <3> QED BY <2>2, <3>1, <3>2, WithoutLen
  <2> QED BY <1>1, <2>6, <2>7, <2>8
<1> QED BY <1>1, <1>3, <1>4, NextLineIs DEF Neat

\* A character behind the text, in front of the end of the line.
PutNext(t, c, u) ==
    /\ ScreenOK(u) /\ Loc(u) = Loc(t) + 1 /\ Loc(t) < Size /\ u.col >= 1
    /\ \A i \in Cells : u.cells[i] = IF i = Loc(t) THEN c ELSE t.cells[i]

\* terminal_write_char puts the character behind the text, on a line of its own
\* if need be.
LEMMA WriteCharIs ==
    ASSUME NEW s, Neat(s), NEW c, c # NEWLINE
    PROVE  \E t : /\ t = (IF s.col >= VGA_WIDTH THEN NextLine(s) ELSE s)
                  /\ Neat(t) /\ PutNext(t, c, terminal_write_char(s, c))
<1>1. PICK t : t = IF s.col >= VGA_WIDTH THEN NextLine(s) ELSE s
  OBVIOUS
<1>2. Neat(t) /\ ScreenOK(t) /\ t.col < VGA_WIDTH
  <2>1. CASE s.col >= VGA_WIDTH
    BY <1>1, <2>1, NextLineNeat, NextLineOK, Sides DEF Neat
  <2>2. CASE ~(s.col >= VGA_WIDTH)
    BY <1>1, <2>2, Sides DEF Neat, ScreenOK
  <2> QED BY <2>1, <2>2
<1>3. PICK u : u = terminal_write_char(s, c)
  OBVIOUS
<1>4. PICK d, r, k : t = [cells |-> d, row |-> r, col |-> k]
  BY <1>2 DEF ScreenOK
<1>5. DOMAIN d = Cells /\ r \in Nat /\ k \in Nat
  BY <1>2, <1>4, Sides DEF ScreenOK
<1>6. PICK f : f = [d EXCEPT ![location(t.row, t.col)] = c]
  OBVIOUS
<1>7. terminal_put_char(t, c) = [cells |-> f, row |-> r, col |-> k]
  BY <1>4, <1>6 DEF terminal_put_char
<1>8. u = [terminal_put_char(t, c) EXCEPT !.col = @ + 1]
  BY <1>1, <1>3 DEF terminal_write_char
<1>9. u = [cells |-> f, row |-> r, col |-> k + 1]
  BY <1>7, <1>8
<1>10. ScreenOK(u)
  BY <1>3, WriteCharOK DEF Neat
<1>11. Loc(u) = Loc(t) + 1 /\ u.col >= 1
  <2>1. PICK x \in Int : x = r * VGA_WIDTH
    BY <1>5, Sides
  <2>2. Loc(t) = x + k
    BY <1>4, <2>1 DEF Loc, location
  <2>3. Loc(u) = x + (k + 1) /\ u.col = k + 1
    BY <1>9, <2>1 DEF Loc, location
  <2> QED BY <1>5, <2>1, <2>2, <2>3
<1>12. Loc(t) < Size
  BY <1>2, LocRange
<1>13. \A i \in Cells : u.cells[i] = IF i = Loc(t) THEN c ELSE t.cells[i]
  <2>1. u.cells = f /\ t.cells = d
    BY <1>4, <1>9
  <2>2. \A i \in Cells : f[i] = IF i = Loc(t) THEN c ELSE d[i]
    BY <1>5, <1>6 DEF Loc
  <2> QED BY <2>1, <2>2
<1> QED BY <1>1, <1>2, <1>3, <1>10, <1>11, <1>12, <1>13 DEF PutNext

\* It leaves nothing behind the cursor.
LEMMA PutNeat ==
    ASSUME NEW t, Neat(t), NEW c \in Glyphs, NEW u, PutNext(t, c, u)
    PROVE  Neat(u)
<1>1. PICK n \in Nat : n = Loc(t)
  BY LocRange DEF Neat
<1>2. /\ ScreenOK(u) /\ Loc(u) = n + 1
      /\ \A i \in Cells : u.cells[i] = IF i = n THEN c ELSE t.cells[i]
  BY <1>1 DEF PutNext
<1>3. \A i \in Cells : i >= n + 1 => i # n /\ i >= n
  BY <1>1, Area
<1> QED BY <1>1, <1>2, <1>3 DEF Neat

\* It can be read behind the text.
LEMMA PutShown ==
    ASSUME NEW t, Neat(t), NEW c \in Glyphs, c # BLACK, NEW u, PutNext(t, c, u)
    PROVE  Shown(u) = Append(Shown(t), c)
<1>1. PICK n \in Nat : n = Loc(t)
  BY LocRange DEF Neat
<1>2. /\ Loc(u) = n + 1 /\ n < Size
      /\ \A i \in Cells : u.cells[i] = IF i = n THEN c ELSE t.cells[i]
  BY <1>1 DEF PutNext
<1>3. \A i \in 1 .. n : Tape(u)[i] = Tape(t)[i]
  <2>1. SUFFICES ASSUME NEW i \in 1 .. n PROVE Tape(u)[i] = Tape(t)[i]
    OBVIOUS
  <2>2. i \in 1 .. Size /\ i - 1 \in Cells /\ i - 1 # n
    BY <1>2, Area
  <2> QED BY <1>2, <2>2, TapeIs
<1>4. Tape(u)[n + 1] = c
  <2>1. n + 1 \in 1 .. Size /\ (n + 1) - 1 = n /\ n \in Cells
    BY <1>2, Area
  <2>2. Tape(u)[n + 1] = u.cells[(n + 1) - 1]
    BY <2>1, TapeIs
  <2> QED BY <1>2, <2>1, <2>2
<1>5. Without(Tape(u), n, BLACK) = Without(Tape(t), n, BLACK)
  BY <1>3, WithoutSame
<1>6. Without(Tape(u), n + 1, BLACK) = Append(Without(Tape(u), n, BLACK), c)
  BY <1>4, WithoutNext
<1> QED BY <1>1, <1>2, <1>5, <1>6 DEF Shown, Loc

\* A character at the cursor lengthens the stretch of full cells before it.
LEMMA PutFull ==
    ASSUME NEW t, Neat(t), NEW c, c # BLACK, NEW u, PutNext(t, c, u), NEW k \in Nat, Full(t, k)
    PROVE  Full(u, k + 1)
<1>1. PICK n \in Nat : n = Loc(t)
  BY LocRange DEF Neat
<1>2. /\ Loc(u) = n + 1
      /\ \A i \in Cells : u.cells[i] = IF i = n THEN c ELSE t.cells[i]
  BY <1>1 DEF PutNext
<1>3. k + 1 <= Loc(u)
  BY <1>1, <1>2 DEF Full
<1>4. ASSUME NEW i \in Cells, (n + 1) - (k + 1) <= i, i < n + 1
      PROVE  u.cells[i] # BLACK
  <2>1. CASE i = n
    BY <1>2, <2>1
  <2>2. CASE i # n
    <3>1. n - k <= i /\ i < n
      BY <1>1, <1>4, <2>2, Area
    <3> QED BY <1>1, <1>2, <2>2, <3>1 DEF Full
  <2> QED BY <2>1, <2>2
<1> QED BY <1>2, <1>3, <1>4 DEF Full

\* terminal_write_char: the character stands behind the text, whose beginning may
\* be scrolled away.
LEMMA WriteCharNeat ==
    ASSUME NEW s, Neat(s), NEW c \in Glyphs
    PROVE  Neat(terminal_write_char(s, c))
<1>1. CASE c = NEWLINE
  BY <1>1, NextLineNeat DEF terminal_write_char
<1>2. CASE c # NEWLINE
  <2>1. PICK t : Neat(t) /\ PutNext(t, c, terminal_write_char(s, c))
    BY <1>2, WriteCharIs
  <2> QED BY <2>1, PutNeat
<1> QED BY <1>1, <1>2

\* terminal_write_char appends the character to the text before the cursor, of
\* which a row may scroll away.
LEMMA WriteCharShown ==
    ASSUME NEW s, Neat(s), NEW c \in Glyphs, c # BLACK, c # NEWLINE
    PROVE  /\ Suffix(Shown(terminal_write_char(s, c)), Append(Shown(s), c))
           /\ terminal_write_char(s, c).col >= 1
<1>1. PICK u : u = terminal_write_char(s, c)
  OBVIOUS
<1>2. PICK t : /\ t = (IF s.col >= VGA_WIDTH THEN NextLine(s) ELSE s)
               /\ Neat(t) /\ PutNext(t, c, u)
  BY <1>1, WriteCharIs
<1>3. Shown(u) = Append(Shown(t), c)
  BY <1>2, PutShown
<1>4. Shown(s) \in Seq(Glyphs) /\ Shown(t) \in Seq(Glyphs)
  BY <1>2, ShownSeq
<1>5. Suffix(Shown(t), Shown(s))
  <2>1. CASE s.col >= VGA_WIDTH
    BY <1>2, <2>1, NextLineShown
  <2>2. CASE ~(s.col >= VGA_WIDTH)
    <3>1. t = s
      BY <1>2, <2>2
    <3> QED BY <1>4, <3>1, SuffixTrivial
  <2> QED BY <2>1, <2>2
<1>6. Suffix(Append(Shown(t), c), Append(Shown(s), c))
  BY <1>4, <1>5, SuffixAppend
<1> QED BY <1>1, <1>2, <1>3, <1>6 DEF PutNext

\* It lengthens the stretch of full cells by one as long as the stretch fits in all
\* rows but one, so that scrolling does not touch it.
LEMMA WriteCharFull ==
    ASSUME NEW s, Neat(s), NEW c, c # BLACK, c # NEWLINE,
           NEW k \in Nat, Full(s, k), k <= Top
    PROVE  Full(terminal_write_char(s, c), k + 1)
<1>1. PICK u : u = terminal_write_char(s, c)
  OBVIOUS
<1>2. PICK t : /\ t = (IF s.col >= VGA_WIDTH THEN NextLine(s) ELSE s)
               /\ Neat(t) /\ PutNext(t, c, u)
  BY <1>1, WriteCharIs
<1>3. Full(t, k)
  <2>1. CASE s.col >= VGA_WIDTH
    <3>1. s.col = VGA_WIDTH
      BY <2>1, Sides DEF Neat, ScreenOK
    <3> QED BY <1>2, <2>1, <3>1, NextLineFull
  <2>2. CASE ~(s.col >= VGA_WIDTH)
    BY <1>2, <2>2
  <2> QED BY <2>1, <2>2
<1> QED BY <1>1, <1>2, <1>3, PutFull

\* Places and locations grow together.
LEMMA PlaceOrder ==
    ASSUME NEW w \in Nat, NEW r \in Nat, NEW k \in 0 .. w, NEW q \in Nat, NEW u \in 0 .. w,
           r * w + k < q * w + u
    PROVE  r * (w + 1) + k < q * (w + 1) + u
<1>1. r * (w + 1) = r * w + r /\ q * (w + 1) = q * w + q
  OBVIOUS
<1>2. PICK x \in Nat, y \in Nat : x = r * w /\ y = q * w
  <2>1. r * w \in Nat /\ q * w \in Nat
    OBVIOUS
  <2> QED BY <2>1
<1>3. r <= q
  <2>1. ASSUME r > q PROVE FALSE
    <3>1. r * w >= (q + 1) * w
      BY <2>1
    <3>2. (q + 1) * w = q * w + w
      OBVIOUS
    <3>3. x >= y + w /\ x + k < y + u
      BY <1>2, <3>1, <3>2
    <3> QED BY <1>2, <3>3
  <2> QED BY <2>1
<1>4. x + k < y + u
  BY <1>2
<1>5. (x + r) + k < (y + q) + u
  BY <1>2, <1>3, <1>4
<1> QED BY <1>1, <1>2, <1>5

\* A cell has a place before the end of its line.
LEMMA PlaceOf ==
    ASSUME NEW i \in Nat, i < Size
    PROVE  \E r \in 0 .. VGA_HEIGHT - 1, k \in 0 .. VGA_WIDTH - 1 : i = r * VGA_WIDTH + k
<1>1. PICK w \in Nat \ {0}, h \in Nat : w = VGA_WIDTH /\ h = VGA_HEIGHT /\ 0 < h
  BY Sides
<1>2. PICK r \in Nat, k \in 0 .. w - 1 : i = w * r + k
  <2>1. i = w * (i \div w) + (i % w) /\ i \div w \in Nat /\ i % w \in 0 .. w - 1
    BY <1>1
  <2> QED BY <2>1
<1>3. i < h * w
  BY <1>1 DEF Size
<1>4. r < h
  <2>1. ASSUME r >= h PROVE FALSE
    <3>1. w * r >= w * h
      BY <2>1
    <3>2. w * h = h * w
      BY <1>1
    <3>3. PICK x \in Int, y \in Int : x = w * r /\ y = h * w
      BY <1>1
    <3> QED BY <1>2, <1>3, <3>1, <3>2, <3>3
  <2> QED BY <2>1, <1>1
<1>5. w * r = r * w
  OBVIOUS
<1>6. r \in 0 .. h - 1
  BY <1>1, <1>4
<1> QED BY <1>1, <1>2, <1>5, <1>6

\* What Backspace sees at the place of a cell is the cell.
LEMMA AttrIs ==
    ASSUME NEW s, NEW r \in Nat, NEW k \in 0 .. VGA_WIDTH
    PROVE  /\ cell_attr(s, r * (VGA_WIDTH + 1) + k) = s.cells[r * VGA_WIDTH + k]
           /\ At(s, r * (VGA_WIDTH + 1) + k) = [cells |-> s.cells, row |-> r, col |-> k]
<1>1. PICK e \in Nat \ {0} : e = VGA_WIDTH + 1 /\ k < e
  BY Sides
<1>2. PICK p \in Nat : p = r * e + k
  <2>1. r * e + k \in Nat
    BY <1>1, Sides
  <2> QED BY <2>1
<1>3. p \div e = r /\ p % e = k
  <2>1. PICK q \in Nat, u \in 0 .. e - 1 : p = e * q + u /\ p \div e = q /\ p % e = u
    OBVIOUS
  <2>2. k \in 0 .. e - 1
    BY <1>1, Sides
  <2>3. q = r
    <3>1. ASSUME q < r PROVE FALSE
      <4>1. e * r >= e * (q + 1)
        BY <3>1
      <4>2. e * (q + 1) = e * q + e /\ e * r = r * e
        OBVIOUS
      <4>3. PICK x \in Int, y \in Int : x = e * q /\ y = r * e
        OBVIOUS
      <4>4. y >= x + e /\ y + k = x + u
        BY <1>2, <2>1, <4>1, <4>2, <4>3
      <4> QED BY <2>1, <2>2, <4>3, <4>4
    <3>2. ASSUME r < q PROVE FALSE
      <4>1. e * q >= e * (r + 1)
        BY <3>2
      <4>2. e * (r + 1) = e * r + e /\ e * r = r * e
        OBVIOUS
      <4>3. PICK x \in Int, y \in Int : x = e * q /\ y = r * e
        OBVIOUS
      <4>4. x >= y + e /\ y + k = x + u
        BY <1>2, <2>1, <4>1, <4>2, <4>3
      <4> QED BY <2>1, <2>2, <4>3, <4>4
    <3> QED BY <3>1, <3>2
  <2>4. u = k
    <3>1. e * q = r * e
      BY <2>3
    <3>2. PICK y \in Int : y = r * e
      OBVIOUS
    <3> QED BY <1>2, <2>1, <2>2, <3>1, <3>2
  <2> QED BY <2>1, <2>3, <2>4
<1>4. At(s, p) = [cells |-> s.cells, row |-> r, col |-> k]
  BY <1>1, <1>3 DEF At
<1>5. cell_attr(s, p) = s.cells[r * VGA_WIDTH + k]
  BY <1>4 DEF cell_attr, location
<1> QED BY <1>1, <1>2, <1>4, <1>5

\* Backspace goes back to a cell l, with nothing between it and the cursor, and
\* makes it black; it stops at a black cell only in the corner.
BackTo(s, l, u) ==
    /\ ScreenOK(u) /\ Loc(u) = l /\ l < Loc(s)
    /\ \A i \in Cells : u.cells[i] = IF i = l THEN BLACK ELSE s.cells[i]
    /\ \A i \in Cells : l < i => s.cells[i] = BLACK
    /\ l = 0 \/ s.cells[l] # BLACK

\* Backspace goes back to the nearest cell that is not black, or does nothing at
\* the beginning of the screen.
LEMMA BackspaceIs ==
    ASSUME NEW s, Neat(s)
    PROVE  \/ Loc(s) = 0 /\ Backspace(s) = s
           \/ \E l \in Nat : BackTo(s, l, Backspace(s))
<1>1. PICK stops : stops = {p \in 0 .. Place(s) - 1 : p = 0 \/ cell_attr(s, p) # BLACK}
  OBVIOUS
<1>2. PICK c, r, k : s = [cells |-> c, row |-> r, col |-> k]
  BY DEF Neat, ScreenOK
<1>3. DOMAIN c = Cells /\ r \in Nat /\ k \in 0 .. VGA_WIDTH
  BY <1>2, Sides DEF Neat, ScreenOK
<1>4. PICK w \in Nat \ {0} : w = VGA_WIDTH
  BY Sides
<1>5. Loc(s) = r * w + k /\ Place(s) = r * (w + 1) + k
  BY <1>2, <1>4 DEF Loc, location, Place
<1>6. Place(s) \in Nat /\ Loc(s) \in Nat /\ (Place(s) = 0 <=> Loc(s) = 0)
  <2>1. r * (w + 1) = r * w + r /\ r * w \in Nat
    BY <1>3, <1>4
  <2>2. PICK x \in Nat : x = r * w
    BY <2>1
  <2>3. x = 0 <=> r = 0
    BY <1>3, <1>4, <2>2
  <2>4. Loc(s) = x + k /\ Place(s) = x + r + k
    BY <1>3, <1>5, <2>1, <2>2
  <2> QED BY <1>3, <1>4, <2>2, <2>3, <2>4
<1>7. CASE Place(s) = 0
  <2>1. stops = {}
    BY <1>1, <1>7
  <2>2. Backspace(s) = s
    BY <1>1, <2>1 DEF Backspace
  <2> QED BY <1>6, <1>7, <2>2
<1>8. CASE Place(s) # 0
  <2>1. stops \subseteq 0 .. Place(s) - 1 /\ 0 \in stops
    BY <1>1, <1>6, <1>8
  <2>2. \E p \in stops : \A q \in stops : q <= p
    <3>1. PICK m \in Int : m = Place(s) - 1
      BY <1>6
    <3>2. PICK T : T = {m - p : p \in stops}
      OBVIOUS
    <3>3. T \subseteq Nat /\ T # {}
      <4>1. ASSUME NEW p \in stops PROVE m - p \in Nat
        <5>1. p \in 0 .. m
          BY <2>1, <3>1
        <5> QED BY <3>1, <5>1
      <4>2. T \subseteq Nat
        BY <3>2, <4>1
      <4>4. m - 0 \in T
        BY <2>1, <3>2
      <4> QED BY <4>2, <4>4
    <3>4. PICK t \in T : \A y \in T : t <= y
      BY <3>3, LeastNatural
    <3>5. PICK p \in stops : t = m - p
      BY <3>2, <3>4
    <3>6. ASSUME NEW q \in stops PROVE q <= p
      <4>1. m - p <= m - q
        BY <3>2, <3>4, <3>5
      <4>2. p \in Int /\ q \in Int
        BY <2>1
      <4> QED BY <3>1, <4>1, <4>2
    <3> QED BY <3>6
  <2>3. PICK p \in stops : p = CHOOSE x \in stops : \A q \in stops : q <= x
    BY <2>2
  <2>4. \A q \in stops : q <= p
    BY <2>2, <2>3
  <2>5. Backspace(s) = terminal_put_char(At(s, p), BLACK)
    <3>1. stops # {}
      BY <2>1
    <3> QED BY <1>1, <2>3, <3>1, Zenon DEF Backspace
  <2>6. PICK u : u = Backspace(s)
    OBVIOUS
  <2>7. ScreenOK(u)
    BY <2>6, BackspaceOK DEF Neat
  <2>8. PICK q \in Nat, v \in 0 .. w : p = q * (w + 1) + v
    <3>1. PICK e \in Nat \ {0} : e = w + 1
      OBVIOUS
    <3>2. p \in Nat
      BY <1>6, <2>1
    <3>3. p = e * (p \div e) + (p % e) /\ p \div e \in Nat /\ p % e \in 0 .. e - 1
      BY <3>1, <3>2
    <3>4. PICK q \in Nat, v \in 0 .. e - 1 : p = e * q + v
      BY <3>3
    <3>5. e * q = q * (w + 1) /\ v \in 0 .. w
      BY <3>1
    <3> QED BY <3>4, <3>5
  <2>9. /\ At(s, p) = [cells |-> c, row |-> q, col |-> v]
        /\ cell_attr(s, p) = c[q * w + v]
    <3>1. s.cells = c
      BY <1>2
    <3>2. v \in 0 .. VGA_WIDTH
      BY <1>4
    <3> QED BY <1>4, <2>8, <3>1, <3>2, AttrIs
  <2>10. PICK l \in Nat : l = q * w + v
    <3>1. q * w + v \in Nat
      OBVIOUS
    <3> QED BY <3>1
  <2>11. PICK f : f = [c EXCEPT ![l] = BLACK]
    OBVIOUS
  <2>12. u = [cells |-> f, row |-> q, col |-> v]
    <3>1. PICK t : t = At(s, p)
      OBVIOUS
    <3>2. t.row = q /\ t.col = v
      BY <2>9, <3>1
    <3>3. location(t.row, t.col) = l
      BY <1>4, <2>10, <3>2 DEF location
    <3>4. u = [t EXCEPT !.cells[l] = BLACK]
      BY <2>5, <2>6, <3>1, <3>3 DEF terminal_put_char
    <3> QED BY <2>9, <2>11, <3>1, <3>4
  <2>13. Loc(u) = l
    BY <1>4, <2>10, <2>12 DEF Loc, location
  <2>14. \A i \in Cells : u.cells[i] = IF i = l THEN BLACK ELSE s.cells[i]
    <3>1. u.cells = f /\ s.cells = c
      BY <1>2, <2>12
    <3>2. \A i \in Cells : f[i] = IF i = l THEN BLACK ELSE c[i]
      BY <1>3, <2>11
    <3> QED BY <3>1, <3>2
  <2>15. p = 0 \/ c[l] # BLACK
    BY <1>1, <2>3, <2>9, <2>10
  <2>16. p = 0 => l = 0
    <3>1. CASE q = 0
      <4>1. q * (w + 1) = 0 /\ q * w = 0
        BY <3>1
      <4> QED BY <2>8, <2>10, <4>1
    <3>2. CASE q # 0
      <4>1. q * (w + 1) > 0
        BY <3>2
      <4>2. PICK x \in Int : x = q * (w + 1) /\ x > 0
        BY <4>1
      <4> QED BY <2>8, <4>2
    <3> QED BY <3>1, <3>2
  <2>17. l = 0 \/ s.cells[l] # BLACK
    BY <1>2, <2>15, <2>16
  <2>18. l < Loc(s)
    <3>1. CASE p = 0
      BY <1>6, <1>8, <2>16, <3>1
    <3>2. CASE p # 0
      <4>1. s.cells[l] # BLACK
        BY <1>2, <2>15, <3>2
      <4>2. l \in Cells
        BY <2>7, <2>10, <2>13, LocRange, Area
      <4> QED BY <1>6, <4>1, <4>2 DEF Neat
    <3> QED BY <3>1, <3>2
  <2>19. ASSUME NEW i \in Cells, l < i PROVE s.cells[i] = BLACK
    <3>1. CASE i >= Loc(s)
      BY <3>1 DEF Neat
    <3>2. CASE ~(i >= Loc(s))
      <4>1. i \in Nat /\ i < Loc(s) /\ i < Size
        BY <1>6, <3>2, Area, LocRange DEF Neat
      <4>2. PICK x \in 0 .. VGA_HEIGHT - 1, y \in 0 .. VGA_WIDTH - 1 : i = x * VGA_WIDTH + y
        BY <4>1, PlaceOf
      <4>3. x \in Nat /\ y \in 0 .. w /\ i = x * w + y
        BY <1>4, <4>2, Sides
      <4>4. PICK z \in Nat : z = x * (w + 1) + y
        <5>1. x * (w + 1) + y \in Nat
          BY <4>3
        <5> QED BY <5>1
      <4>5. q * w + v < x * w + y
        BY <2>10, <2>19, <4>3
      <4>6. p < z
        BY <2>8, <4>3, <4>4, <4>5, PlaceOrder
      <4>7. z < Place(s)
        <5>1. x * w + y < r * w + k /\ k \in 0 .. w
          BY <1>3, <1>4, <1>5, <4>1, <4>3
        <5>2. x * (w + 1) + y < r * (w + 1) + k
          BY <1>3, <4>3, <5>1, PlaceOrder
        <5> QED BY <1>5, <4>4, <5>2
      <4>8. z \in 0 .. Place(s) - 1 /\ z \notin stops
        BY <1>6, <2>1, <2>4, <4>4, <4>6, <4>7
      <4>9. cell_attr(s, z) = BLACK
        BY <1>1, <4>8
      <4>10. cell_attr(s, z) = s.cells[i]
        <5>1. y \in 0 .. VGA_WIDTH
          BY <1>4, <4>3
        <5> QED BY <1>4, <4>3, <4>4, <5>1, AttrIs
      <4> QED BY <4>9, <4>10
    <3> QED BY <3>1, <3>2
  <2> QED BY <2>6, <2>7, <2>10, <2>13, <2>14, <2>17, <2>18, <2>19 DEF BackTo
<1> QED BY <1>7, <1>8

\* Backspace leaves nothing behind the cursor.
LEMMA BackspaceNeat ==
    ASSUME NEW s, Neat(s)
    PROVE  Neat(Backspace(s))
<1>1. PICK u : u = Backspace(s)
  OBVIOUS
<1>2. CASE u = s
  BY <1>1, <1>2
<1>3. ASSUME NEW l \in Nat, BackTo(s, l, u) PROVE Neat(u)
  <2>1. /\ ScreenOK(u) /\ Loc(u) = l
        /\ \A i \in Cells : u.cells[i] = IF i = l THEN BLACK ELSE s.cells[i]
        /\ \A i \in Cells : l < i => s.cells[i] = BLACK
    BY <1>3 DEF BackTo
  <2>2. BLACK \in Glyphs
    BY DEF Glyphs
  <2>3. \A i \in Cells : i >= l => i = l \/ l < i
    BY Area
  <2> QED BY <2>1, <2>2, <2>3 DEF Neat
<1> QED BY <1>1, <1>2, <1>3, BackspaceIs

\* It takes the last character that can be read, if there is one.
LEMMA BackspaceShown ==
    ASSUME NEW s, Neat(s)
    PROVE  \/ Shown(s) = <<>> /\ Shown(Backspace(s)) = <<>>
           \/ \E c \in Glyphs : Shown(s) = Append(Shown(Backspace(s)), c)
<1>1. PICK u : u = Backspace(s)
  OBVIOUS
<1>2. CASE Loc(s) = 0 /\ u = s
  <2>1. Shown(s) = <<>>
    BY <1>2, WithoutNone DEF Shown, Loc
  <2> QED BY <1>1, <1>2, <2>1
<1>3. ASSUME NEW l \in Nat, BackTo(s, l, u)
      PROVE  \/ Shown(s) = <<>> /\ Shown(u) = <<>>
             \/ \E c \in Glyphs : Shown(s) = Append(Shown(u), c)
  <2>1. /\ Loc(u) = l /\ l < Loc(s)
        /\ \A i \in Cells : u.cells[i] = IF i = l THEN BLACK ELSE s.cells[i]
        /\ \A i \in Cells : l < i => s.cells[i] = BLACK
        /\ l = 0 \/ s.cells[l] # BLACK
    BY <1>3 DEF BackTo
  <2>2. PICK n \in Nat : n = Loc(s) /\ n <= Size /\ l + 1 <= n
    BY <2>1, LocRange DEF Neat
  <2>3. PICK m \in Nat : m = l + 1
    OBVIOUS
  <2>4. Without(Tape(s), n, BLACK) = Without(Tape(s), m, BLACK)
    <3>1. ASSUME NEW i \in 1 .. n, i > m PROVE Tape(s)[i] = BLACK
      <4>1. i \in 1 .. Size /\ i - 1 \in Cells /\ l < i - 1
        BY <2>2, <2>3, <3>1, Area
      <4> QED BY <2>1, <4>1, TapeIs
    <3>2. m <= n
      BY <2>2, <2>3
    <3> QED BY <3>1, <3>2, WithoutBlanks
  <2>5. Shown(s) = Without(Tape(s), l + 1, BLACK)
    BY <2>2, <2>3, <2>4 DEF Shown, Loc
  <2>6. l \in Cells /\ l + 1 \in 1 .. Size /\ (l + 1) - 1 = l
    BY <2>2, Area
  <2>7. Tape(s)[l + 1] = s.cells[l]
    <3>1. Tape(s)[l + 1] = s.cells[(l + 1) - 1]
      BY <2>6, TapeIs
    <3> QED BY <2>6, <3>1
  <2>8. Without(Tape(u), l, BLACK) = Without(Tape(s), l, BLACK)
    <3>1. \A i \in 1 .. l : Tape(u)[i] = Tape(s)[i]
      <4>1. SUFFICES ASSUME NEW i \in 1 .. l PROVE Tape(u)[i] = Tape(s)[i]
        OBVIOUS
      <4>2. i \in 1 .. Size /\ i - 1 \in Cells /\ i - 1 # l
        BY <2>2, Area
      <4> QED BY <2>1, <4>2, TapeIs
    <3> QED BY <3>1, WithoutSame
  <2>9. Shown(u) = Without(Tape(s), l, BLACK)
    BY <2>1, <2>8 DEF Shown, Loc
  <2>10. CASE s.cells[l] = BLACK
    <3>1. l = 0
      BY <2>1, <2>10
    <3>2. Shown(s) = Without(Tape(s), l, BLACK)
      BY <2>5, <2>7, <2>10, WithoutNext
    <3> QED BY <2>9, <3>1, <3>2, WithoutNone
  <2>11. CASE s.cells[l] # BLACK
    <3>1. Shown(s) = Append(Without(Tape(s), l, BLACK), s.cells[l])
      BY <2>5, <2>7, <2>11, WithoutNext
    <3>2. s.cells[l] \in Glyphs
      BY <2>6 DEF Neat
    <3> QED BY <2>9, <3>1, <3>2
  <2> QED BY <2>10, <2>11
<1> QED BY <1>1, <1>2, <1>3, BackspaceIs

\* It takes one cell from the stretch of full cells before the cursor.
LEMMA BackspaceFull ==
    ASSUME NEW s, Neat(s), NEW k \in Nat, Full(s, k + 1)
    PROVE  Full(Backspace(s), k) /\ Shown(s) # <<>>
<1>1. PICK u : u = Backspace(s)
  OBVIOUS
<1>2. PICK n \in Nat : n = Loc(s) /\ k + 1 <= n /\ n <= Size
  BY LocRange DEF Neat, Full
<1>3. Shown(s) # <<>>
  <2>1. Len(Shown(s)) >= k + 1
    <3>1. PICK j \in Nat : j = k + 1
      OBVIOUS
    <3> QED BY <3>1, ShownLen
  <2>2. Shown(s) \in Seq(Glyphs)
    BY ShownSeq
  <2> QED BY <2>1, <2>2
<1>4. PICK l \in Nat : BackTo(s, l, u)
  BY <1>1, <1>2, BackspaceIs
<1>5. l = n - 1
  <2>1. n - 1 \in Cells /\ n - (k + 1) <= n - 1 /\ n - 1 < n
    BY <1>2, Area
  <2>2. s.cells[n - 1] # BLACK
    BY <1>2, <2>1 DEF Full
  <2>3. ~(l < n - 1)
    BY <1>4, <2>1, <2>2 DEF BackTo
  <2>4. l < n
    BY <1>2, <1>4 DEF BackTo
  <2> QED BY <2>3, <2>4
<1>6. ASSUME NEW i \in Cells, l - k <= i, i < l PROVE u.cells[i] # BLACK
  <2>1. n - (k + 1) <= i /\ i < n /\ i # l
    BY <1>2, <1>5, <1>6, Area
  <2>2. s.cells[i] # BLACK
    BY <1>2, <2>1 DEF Full
  <2>3. u.cells[i] = s.cells[i]
    BY <1>4, <2>1 DEF BackTo
  <2> QED BY <2>2, <2>3
<1>7. Loc(u) = l /\ k <= l
  BY <1>2, <1>4, <1>5 DEF BackTo
<1> QED BY <1>1, <1>3, <1>6, <1>7 DEF Full

-----------------------------------------------------------------------------
(* What print does to what can be read.                                     *)

\* The screens between the characters of msg.
Rounds(s, msg, p) ==
    /\ p[0] = s
    /\ \A i \in 1 .. Len(msg) : p[i] = terminal_write_char(p[i - 1], msg[i])

\* A character behind two texts.
LEMMA AppendConcat ==
    ASSUME NEW s \in Seq(Glyphs), NEW t \in Seq(Glyphs), NEW c \in Glyphs
    PROVE  Append(s \o t, c) = s \o Append(t, c)
<1>1. PICK k \in Nat, l \in Nat : k = Len(s) /\ l = Len(t)
  OBVIOUS
<1>2. PICK a \in Seq(Glyphs) : a = s \o t
  <2>1. s \o t \in Seq(Glyphs)
    OBVIOUS
  <2> QED BY <2>1, Zenon
<1>3. PICK b \in Seq(Glyphs) : b = Append(t, c)
  <2>1. Append(t, c) \in Seq(Glyphs)
    OBVIOUS
  <2> QED BY <2>1, Zenon
<1>4. Len(a) = k + l /\ \A i \in 1 .. k + l : a[i] = IF i <= k THEN s[i] ELSE t[i - k]
  BY <1>1, <1>2
<1>5. Len(b) = l + 1 /\ b[l + 1] = c /\ \A i \in 1 .. l : b[i] = t[i]
  BY <1>1, <1>3
<1>6. PICK d \in Seq(Glyphs) : d = Append(a, c)
  <2>1. Append(a, c) \in Seq(Glyphs)
    OBVIOUS
  <2> QED BY <2>1, Zenon
<1>7. PICK e \in Seq(Glyphs) : e = s \o b
  <2>1. s \o b \in Seq(Glyphs)
    OBVIOUS
  <2> QED BY <2>1, Zenon
<1>8. PICK n \in Nat : n = k + l + 1
  OBVIOUS
<1>9. Len(d) = n /\ \A i \in 1 .. n : d[i] = IF i < n THEN a[i] ELSE c
  BY <1>4, <1>6, <1>8
<1>10. Len(e) = n /\ \A i \in 1 .. n : e[i] = IF i <= k THEN s[i] ELSE b[i - k]
  <2>1. PICK j \in Nat : j = Len(b) /\ k + j = n
    BY <1>5, <1>8
  <2>2. Len(e) = k + j /\ \A i \in 1 .. k + j : e[i] = IF i <= k THEN s[i] ELSE b[i - k]
    BY <1>1, <1>7, <2>1
  <2> QED BY <2>1, <2>2
<1>11. ASSUME NEW i \in 1 .. n PROVE d[i] = e[i]
  <2>1. CASE i <= k
    <3>1. i < n /\ i \in 1 .. k + l
      BY <1>8, <2>1
    <3> QED BY <1>4, <1>9, <1>10, <2>1, <3>1
  <2>2. CASE ~(i <= k) /\ i < n
    <3>1. i \in 1 .. k + l /\ i - k \in 1 .. l
      BY <1>8, <2>2
    <3> QED BY <1>4, <1>5, <1>9, <1>10, <2>2, <3>1
  <2>3. CASE i = n
    <3>1. i - k = l + 1 /\ ~(i <= k) /\ ~(i < n)
      BY <1>8, <2>3
    <3> QED BY <1>5, <1>9, <1>10, <3>1
  <2> QED BY <2>1, <2>2, <2>3
<1>12. d \in [1 .. n -> Glyphs] /\ e \in [1 .. n -> Glyphs]
  BY <1>9, <1>10
<1>13. d = e
  BY <1>11, <1>12
<1> QED BY <1>2, <1>3, <1>6, <1>7, <1>13

\* The loop of print: one screen per character.
LEMMA PrintRounds ==
    ASSUME NEW s, NEW msg, Len(msg) \in Nat
    PROVE  \E p : Rounds(s, msg, p) /\ print(s, msg) = p[Len(msg)]
<1>1. PICK n \in Nat : n = Len(msg)
  OBVIOUS
<1> DEFINE p == CHOOSE f : f = [i \in 0 .. n |->
                   IF i = 0 THEN s ELSE terminal_write_char(f[i - 1], msg[i])]
<1>2. \E f : IsPrinted(s, msg, f, n)
  BY PrintedExists
<1>3. IsPrinted(s, msg, p, n)
  BY <1>2, Zenon DEF IsPrinted, PrintBody
<1>4. print(s, msg) = p[n]
  BY <1>1, Zenon DEF print
<1> HIDE DEF p
<1>5. \A i \in 0 .. n : p[i] = PrintBody(s, msg, p, i)
  BY <1>3 DEF IsPrinted
<1>6. p[0] = s
  BY <1>5 DEF PrintBody
<1>7. \A i \in 1 .. n : i \in 0 .. n /\ i # 0
  OBVIOUS
<1>8. \A i \in 1 .. n : p[i] = terminal_write_char(p[i - 1], msg[i])
  BY <1>5, <1>7 DEF PrintBody
<1> QED BY <1>1, <1>4, <1>6, <1>8 DEF Rounds

\* Nothing stands behind what was printed.
LEMMA PrintNeat ==
    ASSUME NEW s, Neat(s), NEW msg \in Seq(Glyphs)
    PROVE  Neat(print(s, msg))
<1>1. PICK n \in Nat : n = Len(msg)
  OBVIOUS
<1>2. PICK p : Rounds(s, msg, p) /\ print(s, msg) = p[n]
  BY <1>1, PrintRounds
<1> DEFINE S == {i \in Nat : i <= n => Neat(p[i])}
<1>3. 0 \in S
  BY <1>2 DEF Rounds
<1>4. ASSUME NEW i \in Nat, i \in S PROVE i + 1 \in S
  <2>1. CASE i + 1 <= n
    <3>1. Neat(p[i]) /\ i + 1 \in 1 .. n /\ (i + 1) - 1 = i
      BY <1>4, <2>1
    <3>2. p[i + 1] = terminal_write_char(p[i], msg[i + 1])
      BY <1>1, <1>2, <3>1 DEF Rounds
    <3>3. msg[i + 1] \in Glyphs
      BY <1>1, <3>1
    <3>4. Neat(p[i + 1])
      BY <3>1, <3>2, <3>3, WriteCharNeat
    <3> QED BY <3>4
  <2>2. CASE ~(i + 1 <= n)
    BY <2>2
  <2> QED BY <2>1, <2>2
<1> HIDE DEF S
<1>5. n \in S
  BY <1>3, <1>4, StepInduction
<1> QED BY <1>2, <1>5 DEF S

\* Characters that are not newlines stand together before the cursor, unless
\* they are too many, and behind what was there.
LEMMA PrintedText ==
    ASSUME NEW s, Neat(s), NEW msg \in Seq(Glyphs), NEW p, Rounds(s, msg, p),
           NEW n \in Nat, n <= Len(msg), n <= Top,
           \A i \in 1 .. n : msg[i] # BLACK /\ msg[i] # NEWLINE
    PROVE  /\ Neat(p[n]) /\ Full(p[n], n)
           /\ Suffix(SubSeq(msg, 1, n), Shown(p[n]))
           /\ Suffix(Shown(p[n]), Shown(s) \o SubSeq(msg, 1, n))
<1> DEFINE Good(i) == /\ Neat(p[i]) /\ Full(p[i], i)
                      /\ Suffix(SubSeq(msg, 1, i), Shown(p[i]))
                      /\ Suffix(Shown(p[i]), Shown(s) \o SubSeq(msg, 1, i))
           S == {i \in Nat : i <= n => Good(i)}
<1>1. 0 \in S
  <2>1. p[0] = s
    BY DEF Rounds
  <2>2. Full(s, 0)
    <3>1. PICK l \in Nat : l = Loc(s)
      BY LocRange DEF Neat
    <3>2. \A i \in Cells : ~(l - 0 <= i /\ i < l)
      BY <3>1, Area
    <3> QED BY <3>1, <3>2 DEF Full
  <2>3. Shown(s) \in Seq(Glyphs)
    BY ShownSeq
  <2>4. SubSeq(msg, 1, 0) = <<>>
    OBVIOUS
  <2>5. Shown(s) \o <<>> = Shown(s)
    BY <2>3
  <2>6. Suffix(<<>>, Shown(s)) /\ Suffix(Shown(s), Shown(s))
    BY <2>3, SuffixTrivial
  <2>7. Good(0)
    BY <2>1, <2>2, <2>4, <2>5, <2>6
  <2> QED BY <2>7
<1>2. ASSUME NEW i \in Nat, i \in S PROVE i + 1 \in S
  <2>1. CASE i + 1 <= n
    <3>1. i + 1 \in 1 .. n /\ i + 1 \in 1 .. Len(msg) /\ (i + 1) - 1 = i /\ i <= Top
      BY <2>1, Area
    <3>2. PICK c \in Glyphs : c = msg[i + 1]
      BY <3>1
    <3>3. c # BLACK /\ c # NEWLINE
      BY <3>1, <3>2
    <3>4. PICK t : t = p[i]
      OBVIOUS
    <3>5. PICK u : u = p[i + 1]
      OBVIOUS
    <3>6. u = terminal_write_char(t, c)
      BY <3>1, <3>2, <3>4, <3>5 DEF Rounds
    <3>7. Neat(t) /\ Full(t, i)
      BY <1>2, <2>1, <3>4
    <3>8. Neat(u)
      BY <3>6, <3>7, WriteCharNeat
    <3>9. Full(u, i + 1)
      BY <3>1, <3>3, <3>6, <3>7, WriteCharFull
    <3>10. PICK m \in Seq(Glyphs) : m = SubSeq(msg, 1, i) /\ Len(m) = i
      <4>1. SubSeq(msg, 1, i) \in Seq(Glyphs) /\ Len(SubSeq(msg, 1, i)) = i
        BY <3>1
      <4> QED BY <4>1, Zenon
    <3>11. SubSeq(msg, 1, i + 1) = Append(m, c)
      BY <3>1, <3>2, <3>10
    <3>12. PICK x \in Seq(Glyphs) : x = Shown(t)
      BY <3>7, ShownSeq
    <3>13. PICK y \in Seq(Glyphs) : y = Shown(u)
      BY <3>8, ShownSeq
    <3>14. PICK z \in Seq(Glyphs) : z = Shown(s)
      BY ShownSeq
    <3>15. Suffix(m, x) /\ Suffix(x, z \o m)
      BY <1>2, <2>1, <3>4, <3>10, <3>12, <3>14
    <3>16. Suffix(y, Append(x, c))
      BY <3>3, <3>6, <3>7, <3>12, <3>13, WriteCharShown
    <3>17. Append(x, c) \in Seq(Glyphs) /\ Append(m, c) \in Seq(Glyphs) /\ z \o m \in Seq(Glyphs)
           /\ Append(z \o m, c) \in Seq(Glyphs) /\ Len(Append(m, c)) = i + 1
      BY <3>10
    <3>18. Suffix(Append(m, c), y)
      <4>1. Suffix(Append(m, c), Append(x, c))
        BY <3>15, SuffixAppend
      <4>2. Len(y) >= i + 1 /\ Len(y) \in Nat
        <5>1. PICK j \in Nat : j = i + 1
          OBVIOUS
        <5> QED BY <3>8, <3>9, <3>13, <5>1, ShownLen
      <4>3. Len(Append(m, c)) <= Len(y)
        BY <3>17, <4>2
      <4> QED BY <3>16, <3>17, <4>1, <4>3, SuffixCompare
    <3>19. Suffix(y, z \o Append(m, c))
      <4>1. Suffix(Append(x, c), Append(z \o m, c))
        BY <3>15, <3>17, SuffixAppend
      <4>2. Suffix(y, Append(z \o m, c))
        BY <3>16, <3>17, <4>1, SuffixTrans
      <4>3. Append(z \o m, c) = z \o Append(m, c)
        BY AppendConcat
      <4> QED BY <4>2, <4>3
    <3>20. Good(i + 1)
      BY <3>5, <3>8, <3>9, <3>11, <3>13, <3>14, <3>18, <3>19
    <3> QED BY <3>20
  <2>2. CASE ~(i + 1 <= n)
    BY <2>2
  <2> QED BY <2>1, <2>2
<1> HIDE DEF S
<1>3. n \in S
  BY <1>1, <1>2, StepInduction
<1> QED BY <1>3 DEF S

\* One character.
LEMMA PrintOne ==
    ASSUME NEW s, NEW c
    PROVE  print(s, <<c>>) = terminal_write_char(s, c)
<1>1. PICK m : m = <<c>>
  OBVIOUS
<1>2. Len(m) = 1 /\ m[1] = c
  BY <1>1
<1>3. PICK p : Rounds(s, m, p) /\ print(s, m) = p[1]
  BY <1>2, PrintRounds
<1>4. p[0] = s /\ p[1] = terminal_write_char(p[1 - 1], m[1])
  BY <1>2, <1>3 DEF Rounds
<1>5. 1 - 1 = 0
  OBVIOUS
<1> QED BY <1>1, <1>2, <1>3, <1>4, <1>5

\* Enter is two new lines.
LEMMA EchoedIs == Echoed = NextLine(NextLine(screen))
<1>0. PICK s : s = screen
  OBVIOUS
<1>1. PICK m : m = <<NEWLINE, NEWLINE>>
  OBVIOUS
<1>2. Len(m) = 2 /\ m[1] = NEWLINE /\ m[2] = NEWLINE
  BY <1>1
<1>8. Len(m) \in Nat
  BY <1>2
<1>9. PICK p : Rounds(s, m, p) /\ print(s, m) = p[Len(m)]
  BY <1>8, PrintRounds, Zenon
<1>3. Rounds(s, m, p) /\ print(s, m) = p[2]
  BY <1>2, <1>9
<1>4. p[0] = s /\ \A i \in 1 .. 2 : p[i] = terminal_write_char(p[i - 1], m[i])
  BY <1>2, <1>3 DEF Rounds
<1>7. 1 \in 1 .. 2 /\ 2 \in 1 .. 2
  OBVIOUS
<1>5. 1 - 1 = 0 /\ 2 - 1 = 1
  OBVIOUS
<1>6. p[1] = NextLine(s) /\ p[2] = NextLine(p[1])
  <2>1. p[1] = terminal_write_char(p[1 - 1], m[1])
    BY <1>4, <1>7
  <2>2. p[2] = terminal_write_char(p[2 - 1], m[2])
    BY <1>4, <1>7
  <2> QED BY <1>2, <1>4, <1>5, <2>1, <2>2 DEF terminal_write_char
<1> QED BY <1>0, <1>1, <1>3, <1>6 DEF Echoed

\* The two newlines of Enter leave the text before the cursor as it is, but for
\* rows that scroll away.
LEMMA EchoedShown ==
    ASSUME Neat(screen)
    PROVE  Neat(Echoed) /\ Suffix(Shown(Echoed), Shown(screen))
<1>1. PICK t : t = NextLine(screen)
  OBVIOUS
<1>2. Neat(t) /\ Suffix(Shown(t), Shown(screen))
  BY <1>1, NextLineNeat, NextLineShown
<1>3. Neat(NextLine(t)) /\ Suffix(Shown(NextLine(t)), Shown(t))
  BY <1>2, NextLineNeat, NextLineShown
<1>4. Suffix(Shown(NextLine(t)), Shown(screen))
  BY <1>2, <1>3, ShownSeq, SuffixTrans
<1> QED BY <1>1, <1>3, <1>4, EchoedIs

\* A cleared screen is neat.
LEMMA ClearedNeat == Neat(Cleared)
<1>1. PICK c : c = [i \in Cells |-> BLACK]
  OBVIOUS
<1>2. Cleared.cells = c /\ \A i \in Cells : c[i] = BLACK
  BY <1>1 DEF Cleared
<1>3. BLACK \in Glyphs
  BY DEF Glyphs
<1> QED BY <1>2, <1>3, ClearedOK DEF Neat

\* No character needs no cell.
LEMMA FullNone == ASSUME NEW s, Neat(s) PROVE Full(s, 0)
<1>1. PICK l \in Nat : l = Loc(s)
  BY LocRange DEF Neat
<1>2. \A i \in Cells : ~(l - 0 <= i /\ i < l)
  BY <1>1, Area
<1> QED BY <1>1, <1>2 DEF Full

-----------------------------------------------------------------------------
(* What is printed.                                                         *)

\* A character of the keyboard, a line or the editor can be shown.
LEMMA CharGlyphs == Chars \subseteq Glyphs /\ NEWLINE \in Glyphs /\ BLACK \in Glyphs
BY DEF Glyphs, Chars

\* What the editor shows of a file before its text.
LEMMA HeaderGlyphs ==
    ASSUME NEW f \in Seq(Chars)
    PROVE  <<"header">> \o f \o <<NEWLINE, NEWLINE>> \in Seq(Glyphs)
<1>1. "header" \in Glyphs /\ NEWLINE \in Glyphs
  BY DEF Glyphs, Chars
<1>2. f \in Seq(Glyphs)
  BY CharGlyphs
<1>3. <<"header">> \in Seq(Glyphs) /\ <<NEWLINE, NEWLINE>> \in Seq(Glyphs)
  BY <1>1
<1>4. <<"header">> \o f \in Seq(Glyphs)
  BY <1>2, <1>3
<1> QED BY <1>3, <1>4

\* What a command prints.
LEMMA OutputGlyphs == ASSUME NEW out \in Output PROVE out \in Seq(Glyphs)
<1>1. out \in Replies \/ out = <<>> \/ out = <<"tested", NEWLINE>> \/ out = <<"message", NEWLINE>>
  BY DEF Output
<1>2. ASSUME out \in Replies PROVE out \in Seq(Glyphs)
  <2>1. out \in Seq(Range(out))
    BY <1>2, ConsoleAssumption
  <2>2. Range(out) \subseteq Glyphs
    BY <1>2 DEF Glyphs
  <2> QED BY <2>1, <2>2
<1>3. "tested" \in Glyphs /\ "message" \in Glyphs /\ NEWLINE \in Glyphs
  BY DEF Glyphs, Chars
<1>4. <<>> \in Seq(Glyphs) /\ <<"tested", NEWLINE>> \in Seq(Glyphs)
      /\ <<"message", NEWLINE>> \in Seq(Glyphs)
  BY <1>3
<1> QED BY <1>1, <1>2, <1>4

\* The digits of a number as they are printed.
Figures(num) == [i \in 1 .. Len(num) |-> DIGITS[num[i] + 1]]

\* What is printed of a number are characters of the screen.
LEMMA FigureGlyphs ==
    ASSUME NEW num \in Seq(0 .. 9)
    PROVE  /\ Figures(num) \in Seq(Glyphs) /\ Len(Figures(num)) = Len(num)
           /\ \A i \in 1 .. Len(num) : Figures(num)[i] = DIGITS[num[i] + 1]
           /\ Figures(num) \o <<NEWLINE>> \in Seq(Glyphs)
<1>1. \A k \in 0 .. 9 : DIGITS[k + 1] \in Glyphs
  <2>1. SUFFICES ASSUME NEW k \in 0 .. 9 PROVE DIGITS[k + 1] \in Range(DIGITS)
    BY DEF Glyphs
  <2>2. Len(DIGITS) = 10 /\ DOMAIN DIGITS = 1 .. 10
    BY DEF DIGITS
  <2>3. k + 1 \in 1 .. 10
    OBVIOUS
  <2> QED BY <2>2, <2>3 DEF Range
<1>2. PICK n \in Nat : n = Len(num)
  OBVIOUS
<1>3. \A i \in 1 .. n : num[i] \in 0 .. 9
  BY <1>2
<1>4. PICK f : f = [i \in 1 .. n |-> DIGITS[num[i] + 1]]
  OBVIOUS
<1>5. f \in [1 .. n -> Glyphs] /\ \A i \in 1 .. n : f[i] = DIGITS[num[i] + 1]
  BY <1>1, <1>3, <1>4
<1>6. f \in Seq(Glyphs) /\ Len(f) = n
  BY <1>5
<1>7. <<NEWLINE>> \in Seq(Glyphs)
  BY CharGlyphs
<1>8. f \o <<NEWLINE>> \in Seq(Glyphs)
  BY <1>6, <1>7
<1>9. Figures(num) = f
  BY <1>2, <1>4 DEF Figures
<1> QED BY <1>2, <1>5, <1>6, <1>8, <1>9

\* A register is printed as digits.
LEMMA TimeDigits == ASSUME NEW bcd \in Registers PROVE itoa(convert_to_num(bcd)) \in Seq(0 .. 9)
<1>1. PICK x \in Int : x = (bcd \div 16) * 10 + (bcd % 16)
  BY RegisterNat
<1>2. x % 256 \in Nat
  BY <1>1
<1> QED BY <1>1, <1>2, ItoaDigits DEF convert_to_num

-----------------------------------------------------------------------------
(* The screens.                                                             *)

Screens == Neat(screen) /\ Neat(saved_screen)

\* The first line is printed on a cleared screen.
LEMMA InitScreens == Init => Screens
<1> SUFFICES ASSUME Init PROVE Screens
  OBVIOUS
<1>1. PICK l \in Lines : screen = print(Cleared, l)
  BY DEF Init
<1>2. l \in Seq(Glyphs)
  <2>1. l \in Seq(Range(l))
    BY ConsoleAssumption
  <2>2. Range(l) \subseteq Glyphs
    BY CharGlyphs DEF Chars
  <2> QED BY <2>1, <2>2
<1> QED BY <1>1, <1>2, ClearedNeat, PrintNeat DEF Init, Screens

\* print_time.
LEMMA TimePrinted ==
    ASSUME Typed, Registered, print_time
    PROVE  \E bcd \in Registers :
             /\ bcd = Last(stack).arg
             /\ screen' = print(screen, Figures(itoa(convert_to_num(bcd))) \o <<NEWLINE>>)
<1>1. Len(stack) \in 1 .. Len(stack) /\ Last(stack) = stack[Len(stack)]
      /\ stack[Len(stack)].do = "print_time"
  BY Running DEF print_time
<1>2. "print_time" \notin SaveSteps
  BY DEF SaveSteps
<1>3. PICK bcd \in Registers : bcd = Last(stack).arg
  BY <1>1, <1>2 DEF Registered
<1>4. PICK num : num = itoa(convert_to_num(bcd))
  OBVIOUS
<1>5. screen' = print(screen, Figures(num) \o <<NEWLINE>>)
  BY <1>3, <1>4, Zenon DEF print_time, Figures
<1> QED BY <1>3, <1>4, <1>5

\* Every step leaves nothing behind the cursors.
LEMMA NextScreens ==
    ASSUME Typed, Registered, Screens, Next
    PROVE  Screens'
<1> USE DEF Screens
<1>1. ASSUME NEW c \in Letters \cup {"E"}, KeyLetter(c) PROVE Screens'
  <2>1. c \in Glyphs
    BY CharGlyphs DEF Chars
  <2>2. screen' = terminal_write_char(screen, c)
    BY <1>1, PrintOne DEF KeyLetter
  <2> QED BY <1>1, <2>1, <2>2, WriteCharNeat DEF KeyLetter, windowVars
<1>2. CASE KeyBackspace
  BY <1>2, BackspaceNeat DEF KeyBackspace, windowVars
<1>3. CASE EnterInEditor
  BY <1>3, EchoedShown DEF EnterInEditor, windowVars
<1>4. CASE EnterPrints
  <2>1. PICK out \in Output : screen' = print(Echoed, out)
    BY <1>4 DEF EnterPrints
  <2>2. out \in Seq(Glyphs)
    BY OutputGlyphs
  <2>3. Neat(screen')
    BY <2>1, <2>2, EchoedShown, PrintNeat
  <2> QED BY <1>4, <2>3 DEF EnterPrints, windowVars
<1>5. CASE EnterClear
  BY <1>5, ClearedNeat DEF EnterClear, windowVars
<1>6. CASE EnterWrite
  <2>1. screen' = enter_editor_mode(Arg) /\ saved_screen' = Echoed
    BY <1>6 DEF EnterWrite, save_window_content
  <2>2. Arg \in Seq(Chars)
    BY ArgSeq
  <2>3. Neat(enter_editor_mode(Arg))
    BY <2>2, HeaderGlyphs, ClearedNeat, PrintNeat DEF enter_editor_mode
  <2> QED BY <2>1, <2>3, EchoedShown
<1>7. CASE EnterGetTime
  BY <1>7, EchoedShown DEF EnterGetTime, windowVars
<1>8. CASE KeyEscape
  BY <1>8 DEF KeyEscape, windowVars
<1>9. CASE print_time
  <2>1. PICK bcd \in Registers :
          screen' = print(screen, Figures(itoa(convert_to_num(bcd))) \o <<NEWLINE>>)
    BY <1>9, TimePrinted
  <2>2. Figures(itoa(convert_to_num(bcd))) \o <<NEWLINE>> \in Seq(Glyphs)
    BY TimeDigits, FigureGlyphs
  <2>3. Neat(screen')
    BY <2>1, <2>2, PrintNeat
  <2> QED BY <1>9, <2>3 DEF print_time, windowVars
<1>10. CASE ClearLine \/ ClearPosition \/ CreateFile \/ ClearEditor \/ ClearEPos \/ LeaveEditor
  BY <1>10 DEF ClearLine, ClearPosition, CreateFile, ClearEditor, ClearEPos, LeaveEditor, windowVars
<1>11. CASE retrive_saved_window
  BY <1>11 DEF retrive_saved_window, windowVars
<1> QED
  BY <1>1, <1>2, <1>3, <1>4, <1>5, <1>6, <1>7, <1>8, <1>9, <1>10, <1>11 DEF Next, HandlerStep

ScreenInv == Screens /\ Registered /\ Rest

\* Both screens stay neat, whatever interrupts what.
LEMMA ScreenInvariant == Spec => []ScreenInv
<1>1. Init => ScreenInv
  BY InitScreens, InitRest DEF ScreenInv
<1>2. ConsoleInv /\ ScreenInv /\ [Next]_vars => ScreenInv'
  <2> SUFFICES ASSUME ConsoleInv, ScreenInv, [Next]_vars PROVE ScreenInv'
    OBVIOUS
  <2>1. Typed /\ Screens /\ Registered /\ Rest
    BY DEF ConsoleInv, ScreenInv
  <2>2. CASE Next
    BY <2>1, <2>2, NextScreens, NextRegistered, NextRest DEF ScreenInv
  <2>3. CASE UNCHANGED vars
    BY <2>1, <2>3 DEF vars, windowVars, ScreenInv, Screens, Registered, Rest
  <2> QED BY <2>2, <2>3
<1> QED BY <1>1, <1>2, ConsoleInvariant, PTL DEF Spec

\* Keys, commands and handlers interrupted to any depth leave both cursors on the
\* screen, over wrapped lines, scrolling and Backspace, positions in their bytes
\* and the handlers under way with arguments of their kind.
THEOREM ConsoleTypes == Spec => []TypeOK
<1>1. ConsoleInv /\ ScreenInv => TypeOK
  <2> SUFFICES ASSUME ConsoleInv, ScreenInv PROVE TypeOK
    OBVIOUS
  <2>1. Typed /\ Screens /\ Registered /\ Rest
    BY DEF ConsoleInv, ScreenInv
  <2>2. /\ [row |-> screen.row, col |-> screen.col] \in Cursor
        /\ [row |-> saved_screen.row, col |-> saved_screen.col] \in Cursor
        /\ DOMAIN screen.cells = Cells /\ DOMAIN saved_screen.cells = Cells
    <3>1. ScreenOK(screen) /\ ScreenOK(saved_screen)
      BY <2>1 DEF Screens, Neat
    <3> QED BY <3>1 DEF ScreenOK, Cursor
  <2>3. DOMAIN buff = 1 .. BUFFER /\ DOMAIN editor_buff = 1 .. BUFFER
    BY <2>1 DEF Typed
  <2>4. ASSUME NEW i \in 1 .. Len(stack)
        PROVE  /\ stack[i].do \in Steps
               /\ stack[i].arg \in IF stack[i].do \in SaveSteps THEN 0 .. POSITIONS - 1
                                    ELSE Registers
    <3>1. stack[i].do \in Steps
      <4>1. stack \in Seq(Handler)
        BY <2>1 DEF Typed, Handlers
      <4>2. stack[i] \in Handler
        BY <4>1
      <4> QED BY <4>2 DEF Handler
    <3>2. CASE stack[i].do \in SaveSteps
      <4>1. stack[i].arg \in 0 .. POSITIONS - 1
        BY <2>1, <3>2 DEF Typed, Handlers
      <4> QED BY <3>1, <3>2, <4>1
    <3>3. CASE stack[i].do \notin SaveSteps
      <4>1. stack[i].arg \in Registers
        BY <2>1, <3>3 DEF Registered
      <4> QED BY <3>1, <3>3, <4>1
    <3> QED BY <3>2, <3>3
  <2>5. {nested, wrapped, joined} \subseteq BOOLEAN
    BY <2>1 DEF Typed, Rest
  <2>6. mode_t \in {"TERMINAL", "EDITOR"} /\ keys \in 0 .. MaxKeys
    BY <2>1 DEF Rest
  <2>7. position \in 0 .. POSITIONS - 1 /\ e_pos \in 0 .. POSITIONS - 1
    BY <2>1 DEF Typed
  <2> QED BY <2>2, <2>3, <2>4, <2>5, <2>6, <2>7 DEF TypeOK
<1> QED BY <1>1, ConsoleInvariant, ScreenInvariant, PTL

-----------------------------------------------------------------------------
(* What the user reads, as long as no handler is interrupted and no         *)
(* position wraps.                                                          *)

\* What a handler that is under way at step d leaves to the next one.
Under(d) ==
    /\ d \in {"print_time", "memset", "position"} => mode_t = "TERMINAL" /\ e_pos = 0
    /\ d = "position" => buff = EMPTY
    /\ d \in SaveSteps => buff = EMPTY /\ position = 0
    /\ d \in {"mode", "window"} => e_pos = 0
    /\ d = "window" => mode_t = "TERMINAL"

\* The editor and the command line are used in turns.
Calm ==
    /\ Len(stack) <= 1
    /\ mode_t = "EDITOR" => buff = EMPTY /\ position = 0
    /\ stack = <<>> /\ mode_t = "TERMINAL" => e_pos = 0
    /\ stack # <<>> => Under(stack[1].do)

\* The position ends the line, and the line stands before the cursor.
LineEndsAt == \A i \in 1 .. BUFFER : buff[i] = NUL <=> i > position

LineShown ==
    /\ LineEndsAt /\ Full(screen, position)
    /\ Suffix(SubSeq(buff, 1, position), Shown(screen))

TextShown == Suffix(Text, Shown(screen)) \/ Suffix(Shown(screen), Text)

Waits(mode) == stack = <<>> /\ mode_t = mode

\* A step that interrupts nothing and wraps nothing comes from a state where
\* nothing was.
LEMMA QuietStep ==
    ASSUME Typed, LineInv, Rest, Next, ~nested', ~wrapped'
    PROVE  ~nested /\ ~wrapped /\ (Key => stack = <<>>)
<1>1. ~wrapped
  BY NextTyped
<1>2. Key => ~nested /\ stack = <<>>
  BY DEF Key
<1>3. Key \/ nested' = nested
  BY DEF Next, HandlerStep, KeyLetter, KeyBackspace, EnterInEditor, EnterPrints,
         EnterClear, EnterWrite, EnterGetTime, KeyEscape
<1> QED BY <1>1, <1>2, <1>3 DEF Rest

\* A handler that is under way alone.
LEMMA Alone ==
    ASSUME Typed, Calm, NEW d, Runs(d)
    PROVE  stack # <<>> /\ Len(stack) = 1 /\ stack[1].do = d /\ Under(d)
<1>1. stack # <<>> /\ Len(stack) \in Nat /\ Len(stack) # 0 /\ stack[Len(stack)].do = d
  BY Running
<1>2. Len(stack) = 1
  BY <1>1 DEF Calm
<1> QED BY <1>1, <1>2 DEF Calm

\* The only handler under way goes on to its next step.
LEMMA AloneThen ==
    ASSUME Typed, Calm, NEW d, Runs(d), NEW e \in Steps, Then(e), e \in SaveSteps => d \in SaveSteps
    PROVE  Len(stack') = 1 /\ stack' # <<>> /\ stack'[1].do = e
<1>1. Len(stack) = 1
  BY Alone
<1>2. Handlers' /\ Len(stack') = Len(stack) /\ stack'[Len(stack)].do = e
  BY ThenStep
<1> QED BY <1>1, <1>2

\* When the only handler under way returns, none is.
LEMMA AloneReturns ==
    ASSUME Typed, Calm, NEW d, Runs(d), Return
    PROVE  stack' = <<>>
<1>1. Len(stack) = 1
  BY Alone
<1>2. Handlers' /\ Len(stack') = Len(stack) - 1
  BY ReturnStep
<1>3. stack' \in Seq(Handler) /\ Len(stack') = 0
  BY <1>1, <1>2 DEF Handlers
<1> QED BY <1>3

\* A handler that interrupts none.
LEMMA AloneCalled ==
    ASSUME Typed, stack = <<>>, NEW d \in Steps, NEW a \in Nat, Call(d, a),
           d \in SaveSteps => a \in 0 .. POSITIONS - 1
    PROVE  Len(stack') = 1 /\ stack' # <<>> /\ stack'[1].do = d
<1>1. Len(stack) = 0
  OBVIOUS
<1>2. Handlers' /\ Len(stack') = Len(stack) + 1 /\ stack'[Len(stack) + 1].do = d
  BY CallStep
<1>3. Len(stack) + 1 = 1
  BY <1>1
<1>4. Len(stack') = 1 /\ stack'[1].do = d
  BY <1>2, <1>3
<1> QED BY <1>4

\* Keys and handlers keep the line and the editor apart.
LEMMA NextCalm ==
    ASSUME Typed, LineInv, Rest, Calm, Next, ~nested', ~wrapped'
    PROVE  Calm'
<1>1. Key => stack = <<>>
  BY QuietStep
<1>2. ASSUME UNCHANGED stack, stack = <<>>,
             mode_t' = "EDITOR" => buff' = EMPTY /\ position' = 0,
             mode_t' = "TERMINAL" => e_pos' = 0
      PROVE  Calm'
  <2>1. Len(stack') <= 1
    BY <1>2
  <2> QED BY <1>2, <2>1 DEF Calm
<1>3. stack = <<>> /\ mode_t = "TERMINAL" => e_pos = 0
  BY DEF Calm
<1>4. mode_t = "EDITOR" => buff = EMPTY /\ position = 0
  BY DEF Calm
<1>5. ASSUME NEW c, KeyLetter(c) PROVE Calm'
  <2>1. stack = <<>> /\ UNCHANGED <<stack, mode_t>>
    BY <1>1, <1>5 DEF KeyLetter
  <2>2. CASE mode_t = "TERMINAL" /\ UNCHANGED editorVars
    BY <1>2, <1>3, <2>1, <2>2 DEF editorVars
  <2>3. CASE mode_t = "EDITOR" /\ UNCHANGED lineVars
    BY <1>2, <1>4, <2>1, <2>3 DEF lineVars
  <2> QED BY <1>5, <2>2, <2>3 DEF KeyLetter
<1>6. CASE KeyBackspace
  <2>1. stack = <<>> /\ UNCHANGED <<stack, mode_t>>
    BY <1>1, <1>6 DEF KeyBackspace
  <2>2. CASE mode_t = "TERMINAL" /\ UNCHANGED editorVars
    BY <1>2, <1>3, <2>1, <2>2 DEF editorVars
  <2>3. CASE mode_t = "EDITOR" /\ UNCHANGED lineVars
    BY <1>2, <1>4, <2>1, <2>3 DEF lineVars
  <2> QED BY <1>6, <2>2, <2>3 DEF KeyBackspace
<1>7. CASE EnterInEditor
  BY <1>1, <1>2, <1>4, <1>7 DEF EnterInEditor, lineVars
<1>8. CASE EnterPrints \/ EnterClear
  <2>1. stack = <<>> /\ UNCHANGED <<stack, mode_t, editorVars>> /\ mode_t = "TERMINAL"
    BY <1>1, <1>8 DEF EnterPrints, EnterClear
  <2> QED BY <1>2, <1>3, <2>1 DEF editorVars
<1>9. CASE EnterWrite
  <2>1. stack = <<>> /\ UNCHANGED stack /\ mode_t' = "EDITOR" /\ clearBuffer
    BY <1>1, <1>9 DEF EnterWrite
  <2> QED BY <1>2, <2>1 DEF clearBuffer
<1>10. CASE EnterGetTime
  <2>1. PICK bcd \in Registers : Call("print_time", bcd)
    BY <1>10 DEF EnterGetTime
  <2>2. bcd \in Nat /\ "print_time" \in Steps /\ "print_time" \notin SaveSteps
    BY RegisterNat DEF Steps, SaveSteps
  <2>3. stack = <<>>
    BY <1>1, <1>10 DEF EnterGetTime
  <2>4. Len(stack') = 1 /\ stack' # <<>> /\ stack'[1].do = "print_time"
    BY <2>1, <2>2, <2>3, AloneCalled
  <2>5. mode_t' = "TERMINAL" /\ e_pos' = 0
    BY <1>3, <1>10, <2>3 DEF EnterGetTime, editorVars
  <2>6. Under("print_time")'
    BY <2>5 DEF Under, SaveSteps
  <2> QED BY <2>4, <2>5, <2>6 DEF Calm
<1>11. CASE KeyEscape
  <2>1. Call("create", e_pos)
    BY <1>11 DEF KeyEscape
  <2>2. "create" \in Steps /\ "create" \in SaveSteps /\ e_pos \in Nat /\ e_pos \in 0 .. POSITIONS - 1
    BY Ranges DEF Steps, SaveSteps, Typed
  <2>3. stack = <<>>
    BY <1>1, <1>11 DEF KeyEscape
  <2>4. Len(stack') = 1 /\ stack' # <<>> /\ stack'[1].do = "create"
    BY <2>1, <2>2, <2>3, AloneCalled
  <2>5. mode_t' = "EDITOR" /\ buff' = EMPTY /\ position' = 0
    BY <1>4, <1>11 DEF KeyEscape, lineVars
  <2>6. Under("create")'
    BY <2>5 DEF Under
  <2> QED BY <2>4, <2>5, <2>6 DEF Calm
<1>12. ASSUME NEW e, Len(stack') = 1, stack' # <<>>, stack'[1].do = e, Under(e)',
              mode_t' = "EDITOR" => buff' = EMPTY /\ position' = 0
       PROVE  Calm'
  BY <1>12 DEF Calm
<1> USE DEF Steps, SaveSteps
<1>13. CASE print_time
  <2>1. Runs("print_time") /\ Then("memset") /\ UNCHANGED <<mode_t, e_pos>>
    BY <1>13 DEF print_time, editorVars
  <2>2. mode_t = "TERMINAL" /\ e_pos = 0
    BY <2>1, Alone DEF Under
  <2>3. Len(stack') = 1 /\ stack' # <<>> /\ stack'[1].do = "memset"
    BY <2>1, AloneThen
  <2>4. Under("memset")' /\ mode_t' # "EDITOR"
    BY <2>1, <2>2 DEF Under
  <2> QED BY <1>12, <2>3, <2>4
<1>14. CASE ClearLine
  <2>1. Runs("memset") /\ Then("position") /\ UNCHANGED <<mode_t, e_pos>> /\ buff' = EMPTY
    BY <1>14 DEF ClearLine, editorVars
  <2>2. mode_t = "TERMINAL" /\ e_pos = 0
    BY <2>1, Alone DEF Under
  <2>3. Len(stack') = 1 /\ stack' # <<>> /\ stack'[1].do = "position"
    BY <2>1, AloneThen
  <2>4. Under("position")' /\ mode_t' # "EDITOR"
    BY <2>1, <2>2 DEF Under
  <2> QED BY <1>12, <2>3, <2>4
<1>15. CASE ClearPosition
  <2>1. Runs("position") /\ Return /\ UNCHANGED <<mode_t, e_pos>>
    BY <1>15 DEF ClearPosition, editorVars
  <2>2. mode_t = "TERMINAL" /\ e_pos = 0
    BY <2>1, Alone DEF Under
  <2>3. stack' = <<>>
    BY <2>1, AloneReturns
  <2>4. Len(stack') <= 1
    BY <2>3
  <2> QED BY <2>1, <2>2, <2>3, <2>4 DEF Calm
<1>16. CASE CreateFile
  <2>1. Runs("create") /\ Then("clear") /\ UNCHANGED <<buff, position>>
    BY <1>16 DEF CreateFile, lineVars
  <2>2. buff = EMPTY /\ position = 0
    BY <2>1, Alone DEF Under
  <2>3. Len(stack') = 1 /\ stack' # <<>> /\ stack'[1].do = "clear"
    BY <2>1, AloneThen
  <2>4. Under("clear")' /\ buff' = EMPTY /\ position' = 0
    BY <2>1, <2>2 DEF Under
  <2> QED BY <1>12, <2>3, <2>4
<1>17. CASE ClearEditor
  <2>1. Runs("clear") /\ Then("e_pos") /\ UNCHANGED <<buff, position>>
    BY <1>17 DEF ClearEditor, lineVars
  <2>2. buff = EMPTY /\ position = 0
    BY <2>1, Alone DEF Under
  <2>3. Len(stack') = 1 /\ stack' # <<>> /\ stack'[1].do = "e_pos"
    BY <2>1, AloneThen
  <2>4. Under("e_pos")' /\ buff' = EMPTY /\ position' = 0
    BY <2>1, <2>2 DEF Under
  <2> QED BY <1>12, <2>3, <2>4
<1>18. CASE ClearEPos
  <2>1. Runs("e_pos") /\ Then("mode") /\ UNCHANGED <<buff, position>> /\ e_pos' = 0
    BY <1>18 DEF ClearEPos, lineVars
  <2>2. buff = EMPTY /\ position = 0
    BY <2>1, Alone DEF Under
  <2>3. Len(stack') = 1 /\ stack' # <<>> /\ stack'[1].do = "mode"
    BY <2>1, AloneThen
  <2>4. Under("mode")' /\ buff' = EMPTY /\ position' = 0
    BY <2>1, <2>2 DEF Under
  <2> QED BY <1>12, <2>3, <2>4
<1>19. CASE LeaveEditor
  <2>1. Runs("mode") /\ Then("window") /\ UNCHANGED <<buff, position, e_pos>> /\ mode_t' = "TERMINAL"
    BY <1>19 DEF LeaveEditor, lineVars, editorVars
  <2>2. buff = EMPTY /\ position = 0 /\ e_pos = 0
    BY <2>1, Alone DEF Under
  <2>3. Len(stack') = 1 /\ stack' # <<>> /\ stack'[1].do = "window"
    BY <2>1, AloneThen
  <2>4. Under("window")' /\ buff' = EMPTY /\ position' = 0
    BY <2>1, <2>2 DEF Under
  <2> QED BY <1>12, <2>3, <2>4
<1>20. CASE retrive_saved_window
  <2>1. Runs("window") /\ Return /\ UNCHANGED <<mode_t, e_pos, buff, position>>
    BY <1>20 DEF retrive_saved_window, lineVars, editorVars
  <2>2. mode_t = "TERMINAL" /\ e_pos = 0
    BY <2>1, Alone DEF Under
  <2>3. stack' = <<>>
    BY <2>1, AloneReturns
  <2>4. Len(stack') <= 1
    BY <2>3
  <2> QED BY <2>1, <2>2, <2>3, <2>4 DEF Calm
<1> QED
  BY <1>5, <1>6, <1>7, <1>8, <1>9, <1>10, <1>11, <1>13, <1>14, <1>15, <1>16, <1>17, <1>18,
     <1>19, <1>20 DEF Next, HandlerStep

\* The line is what stands before its end.
LEMMA LineIs ==
    ASSUME Typed, LineEndsAt
    PROVE  Line = SubSeq(buff, 1, position) /\ Len(Line) = position /\ Line \in Seq(Chars)
<1>1. buff \in Seq(Chars) /\ Len(buff) = BUFFER /\ BUFFER \in Nat
      /\ position \in Nat /\ position < BUFFER
  <2>1. BUFFER \in Nat /\ position \in Nat /\ position < BUFFER
    BY Ranges
  <2>2. buff \in Seq(Chars) /\ Len(buff) = BUFFER
    BY <2>1, BufferSeq DEF Typed
  <2> QED BY <2>1, <2>2
<1>2. PICK b \in Seq(Chars) : b = buff /\ Len(b) = BUFFER
  BY <1>1
<1>3. PICK n \in Nat : n = position /\ n < BUFFER
  BY <1>1
<1>4. PICK at : at = {i \in 1 .. Len(b) : b[i] = NUL}
  OBVIOUS
<1>5. \A i \in 1 .. Len(b) : i \in at <=> i > n
  BY <1>2, <1>3, <1>4 DEF LineEndsAt
<1>6. at \subseteq 1 .. Len(b)
  BY <1>4
<1>7. n + 1 \in at /\ \A j \in at : n + 1 <= j
  <2>1. n + 1 \in 1 .. Len(b) /\ n + 1 > n
    BY <1>1, <1>2, <1>3
  <2>2. ASSUME NEW j \in at PROVE n + 1 <= j
    <3>1. j \in 1 .. Len(b) /\ j > n
      BY <1>5, <1>6
    <3> QED BY <3>1
  <2> QED BY <1>5, <2>1, <2>2
<1>8. (CHOOSE i \in at : \A j \in at : i <= j) = n + 1
  <2>1. PICK m \in at : m = (CHOOSE i \in at : \A j \in at : i <= j) /\ \A j \in at : m <= j
    BY <1>7
  <2>2. m <= n + 1 /\ n + 1 <= m
    BY <1>7, <2>1
  <2>3. m \in Nat
    BY <1>1, <1>2, <1>6
  <2>4. m = n + 1
    BY <2>2, <2>3
  <2> QED BY <2>1, <2>4
<1>9. Before(b, NUL) = SubSeq(b, 1, (n + 1) - 1)
  <2>1. at # {}
    BY <1>7
  <2>2. Before(b, NUL) = SubSeq(b, 1, (CHOOSE i \in at : \A j \in at : i <= j) - 1)
    BY <1>4, <2>1 DEF Before
  <2> QED BY <1>8, <2>2
<1>10. (n + 1) - 1 = n /\ n \in 0 .. Len(b)
  BY <1>2, <1>3
<1>11. Line = SubSeq(b, 1, n)
  BY <1>2, <1>9, <1>10 DEF Line
<1> QED BY <1>2, <1>3, <1>10, <1>11, FirstPart

\* A key that is not Enter shows something.
LEMMA LetterShows ==
    ASSUME NEW c \in Letters \cup {"E"}
    PROVE  c \in Chars /\ c \in Glyphs /\ c # NUL /\ c # NEWLINE /\ c # BLACK
<1>1. c \in Chars
  BY DEF Chars
<1>2. c \in Letters => c # NUL /\ c # NEWLINE /\ c # BLACK
  BY ConsoleAssumption DEF Printable
<1>3. "E" # NUL /\ "E" # NEWLINE /\ "E" # BLACK
  BY DEF NUL, NEWLINE, BLACK
<1> QED BY <1>1, <1>2, <1>3, CharGlyphs

-----------------------------------------------------------------------------
(* The command line.                                                        *)

\* An empty line is on every screen.
LEMMA EmptyLine ==
    ASSUME Typed', Neat(screen)', buff' = EMPTY, position' = 0
    PROVE  LineShown'
<1>1. BUFFER \in Nat
  BY ConsoleAssumption
<1>2. LineEndsAt'
  <2>1. \A i \in 1 .. BUFFER : buff'[i] = NUL /\ i > position'
    BY <1>1, EmptyBuffer
  <2> QED BY <2>1 DEF LineEndsAt
<1>3. Full(screen', position')
  BY FullNone
<1>4. SubSeq(buff', 1, position') = <<>>
  <2>1. PICK b \in [1 .. BUFFER -> Chars] : b = buff'
    BY DEF Typed
  <2>2. SubSeq(b, 1, 0) = <<>>
    <3>1. b \in Seq(Chars)
      BY <1>1
    <3> QED BY <3>1
  <2> QED BY <2>1, <2>2
<1>5. Suffix(<<>>, Shown(screen'))
  BY ShownSeq, SuffixTrivial
<1> QED BY <1>2, <1>3, <1>4, <1>5 DEF LineShown

\* A character is added to the line and to the screen.
LEMMA LineGrows ==
    ASSUME POSITIONS - 1 <= Top, Typed, Neat(screen), LineShown, ~wrapped',
           NEW c \in Letters \cup {"E"}, inputIntoBuffer(c), screen' = print(screen, <<c>>)
    PROVE  LineShown'
<1>1. /\ BUFFER \in Nat /\ POSITIONS \in Nat /\ POSITIONS < BUFFER
      /\ position \in Nat /\ position < POSITIONS /\ position < BUFFER
  BY Ranges
<1>2. c \in Chars /\ c \in Glyphs /\ c # NUL /\ c # NEWLINE /\ c # BLACK
  BY LetterShows
<1>3. /\ buff' = [buff EXCEPT ![position + 1] = c]
      /\ position' = Advance(position)
      /\ wrapped' = (wrapped \/ position' = 0)
  BY <1>1 DEF inputIntoBuffer
<1>4. position' = position + 1
  BY <1>1, <1>3, AdvanceRange
<1>5. PICK n \in Nat : n = position /\ n <= Top /\ n + 1 < BUFFER
  BY <1>1, Area
<1>6. PICK b \in [1 .. BUFFER -> Chars] : b = buff
  BY DEF Typed
<1>7. PICK d : d = buff'
  OBVIOUS
<1>8. d \in [1 .. BUFFER -> Chars] /\ \A j \in 1 .. BUFFER : d[j] = IF j = n + 1 THEN c ELSE b[j]
  <2>1. d = [b EXCEPT ![n + 1] = c]
    BY <1>3, <1>5, <1>6, <1>7
  <2> QED BY <1>1, <1>2, <2>1, Stored
<1>9. LineEndsAt'
  <2>1. \A i \in 1 .. BUFFER : b[i] = NUL <=> i > n
    BY <1>5, <1>6 DEF LineShown, LineEndsAt
  <2>2. ASSUME NEW i \in 1 .. BUFFER PROVE d[i] = NUL <=> i > n + 1
    <3>1. CASE i = n + 1
      BY <1>2, <1>8, <3>1
    <3>2. CASE i # n + 1
      <4>1. i > n <=> i > n + 1
        BY <3>2
      <4> QED BY <1>8, <2>1, <3>2, <4>1
    <3> QED BY <3>1, <3>2
  <2> QED BY <1>4, <1>5, <1>7, <2>2 DEF LineEndsAt
<1>10. b \in Seq(Chars) /\ Len(b) = BUFFER /\ d \in Seq(Chars) /\ Len(d) = BUFFER
  BY <1>1, <1>8, BufferSeq
<1>11. PICK m \in Seq(Glyphs) : m = SubSeq(b, 1, n) /\ Len(m) = n
  <2>1. SubSeq(b, 1, n) \in Seq(Chars) /\ Len(SubSeq(b, 1, n)) = n
    BY <1>5, <1>10
  <2>2. SubSeq(b, 1, n) \in Seq(Glyphs)
    BY <2>1, CharGlyphs
  <2> QED BY <2>1, <2>2, Zenon
<1>12. SubSeq(d, 1, n + 1) = Append(m, c)
  <2>1. SubSeq(d, 1, n + 1) = Append(SubSeq(d, 1, n), d[n + 1])
    BY <1>1, <1>5, <1>10
  <2>2. d[n + 1] = c
    BY <1>1, <1>5, <1>8
  <2>3. SubSeq(d, 1, n) = SubSeq(b, 1, n)
    <3>1. \A i \in 1 .. n : d[i] = b[i]
      BY <1>1, <1>5, <1>8
    <3> QED BY <1>5, <1>10, <3>1
  <2> QED BY <1>11, <2>1, <2>2, <2>3
<1>13. PICK u : u = screen'
  OBVIOUS
<1>14. u = terminal_write_char(screen, c)
  BY <1>13, PrintOne
<1>15. Neat(u)
  BY <1>2, <1>14, WriteCharNeat
<1>16. Full(screen, n) /\ Suffix(m, Shown(screen))
  BY <1>5, <1>6, <1>11 DEF LineShown
<1>17. Full(u, n + 1)
  BY <1>2, <1>5, <1>14, <1>16, WriteCharFull
<1>18. PICK x \in Seq(Glyphs) : x = Shown(screen)
  BY ShownSeq
<1>19. PICK y \in Seq(Glyphs) : y = Shown(u)
  BY <1>15, ShownSeq
<1>20. Suffix(y, Append(x, c))
  BY <1>2, <1>14, <1>18, <1>19, WriteCharShown
<1>21. Append(x, c) \in Seq(Glyphs) /\ Append(m, c) \in Seq(Glyphs) /\ Len(Append(m, c)) = n + 1
  BY <1>2, <1>11
<1>22. Suffix(Append(m, c), Append(x, c))
  BY <1>2, <1>16, <1>18, SuffixAppend
<1>23. Len(Append(m, c)) <= Len(y)
  <2>1. PICK j \in Nat : j = n + 1
    OBVIOUS
  <2>2. Len(y) >= j
    BY <1>15, <1>17, <1>19, <2>1, ShownLen
  <2> QED BY <1>21, <2>1, <2>2
<1>24. Suffix(Append(m, c), y)
  BY <1>20, <1>21, <1>22, <1>23, SuffixCompare
<1>25. Full(screen', position') /\ Suffix(SubSeq(buff', 1, position'), Shown(screen'))
  BY <1>4, <1>5, <1>7, <1>12, <1>13, <1>17, <1>19, <1>24
<1> QED BY <1>9, <1>25 DEF LineShown

\* Backspace takes one from both, or nothing from an empty line.
LEMMA LineShrinks ==
    ASSUME Typed, Typed', Neat(screen), Neat(screen)', LineShown,
           remove_one_from_buffer, screen' = Backspace(screen)
    PROVE  LineShown'
<1>1. /\ BUFFER \in Nat /\ position \in Nat /\ position < BUFFER
  BY Ranges
<1>2. PICK b \in [1 .. BUFFER -> Chars] : b = buff
  BY DEF Typed
<1>3. b \in Seq(Chars) /\ Len(b) = BUFFER
  BY <1>1, BufferSeq
<1>4. CASE position = 0
  <2>1. buff' = buff /\ position' = 0
    BY <1>4 DEF remove_one_from_buffer, lineVars
  <2>2. LineEndsAt'
    BY <1>4, <2>1 DEF LineShown, LineEndsAt
  <2>3. Full(screen', position')
    BY <2>1, FullNone
  <2>4. SubSeq(b, 1, 0) = <<>>
    BY <1>3
  <2>5. Suffix(<<>>, Shown(screen'))
    BY ShownSeq, SuffixTrivial
  <2>6. SubSeq(buff', 1, position') = <<>>
    BY <1>2, <2>1, <2>4
  <2> QED BY <2>2, <2>3, <2>5, <2>6 DEF LineShown
<1>5. CASE position # 0
  <2>1. PICK k \in Nat : position = k + 1
    <3>1. position - 1 \in Nat /\ position = (position - 1) + 1
      BY <1>1, <1>5
    <3> QED BY <3>1
  <2>2. buff' = [buff EXCEPT ![position] = NUL] /\ position' = position - 1
    BY <1>5 DEF remove_one_from_buffer
  <2>3. position' = k
    BY <2>1, <2>2
  <2>4. PICK d : d = buff'
    OBVIOUS
  <2>5. d \in [1 .. BUFFER -> Chars] /\ \A j \in 1 .. BUFFER : d[j] = IF j = k + 1 THEN NUL ELSE b[j]
    <3>1. d = [b EXCEPT ![k + 1] = NUL]
      BY <1>2, <2>1, <2>2, <2>4
    <3>2. NUL \in Chars
      BY DEF Chars
    <3> QED BY <1>1, <3>1, <3>2, Stored
  <2>6. LineEndsAt'
    <3>1. \A i \in 1 .. BUFFER : b[i] = NUL <=> i > k + 1
      BY <1>2, <2>1 DEF LineShown, LineEndsAt
    <3>2. ASSUME NEW i \in 1 .. BUFFER PROVE d[i] = NUL <=> i > k
      <4>1. CASE i = k + 1
        BY <2>5, <4>1
      <4>2. CASE i # k + 1
        <5>1. i > k <=> i > k + 1
          BY <4>2
        <5> QED BY <2>5, <3>1, <4>2, <5>1
      <4> QED BY <4>1, <4>2
    <3> QED BY <2>3, <2>4, <3>2 DEF LineEndsAt
  <2>7. k + 1 <= Len(b) /\ k + 1 \in 1 .. Len(b)
    BY <1>1, <1>3, <2>1
  <2>8. d \in Seq(Chars) /\ Len(d) = BUFFER
    BY <1>1, <2>5, BufferSeq
  <2>9. PICK m \in Seq(Glyphs) : m = SubSeq(b, 1, k)
    <3>1. SubSeq(b, 1, k) \in Seq(Chars)
      BY <1>3, <2>7
    <3>2. SubSeq(b, 1, k) \in Seq(Glyphs)
      BY <3>1, CharGlyphs
    <3> QED BY <3>2, Zenon
  <2>10. PICK e \in Glyphs : e = b[k + 1]
    <3>1. b[k + 1] \in Chars
      BY <1>3, <2>7
    <3> QED BY <3>1, CharGlyphs
  <2>11. SubSeq(b, 1, k + 1) = Append(m, e)
    BY <1>3, <2>7, <2>9, <2>10
  <2>12. SubSeq(d, 1, k) = m
    <3>1. \A i \in 1 .. k : d[i] = b[i]
      BY <1>3, <2>5, <2>7
    <3> QED BY <1>3, <2>7, <2>8, <2>9, <3>1
  <2>13. Full(screen, k + 1) /\ Suffix(Append(m, e), Shown(screen))
    BY <1>2, <2>1, <2>11 DEF LineShown
  <2>14. PICK u : u = screen' /\ u = Backspace(screen)
    OBVIOUS
  <2>15. Full(u, k) /\ Shown(screen) # <<>>
    BY <2>13, <2>14, BackspaceFull
  <2>16. PICK y \in Seq(Glyphs) : y = Shown(u)
    BY <2>14, ShownSeq
  <2>17. PICK c \in Glyphs : Shown(screen) = Append(y, c)
    BY <2>14, <2>15, <2>16, BackspaceShown
  <2>18. Suffix(m, y)
    BY <2>13, <2>17, SuffixDrop
  <2>19. Full(screen', position') /\ Suffix(SubSeq(buff', 1, position'), Shown(screen'))
    BY <2>3, <2>4, <2>12, <2>14, <2>15, <2>16, <2>18
  <2> QED BY <2>6, <2>19 DEF LineShown
<1> QED BY <1>4, <1>5

\* Every step leaves the line on the screen.
LEMMA LineStays ==
    ASSUME POSITIONS - 1 <= Top, Typed, Typed', LineInv, Rest, Screens, Screens', Calm,
           Waits("TERMINAL") => LineShown,
           Next, ~nested', ~wrapped', Waits("TERMINAL")'
    PROVE  LineShown'
<1>1. Key => stack = <<>>
  BY QuietStep
<1>2. Neat(screen) /\ Neat(screen)' /\ stack' = <<>> /\ mode_t' = "TERMINAL"
  BY DEF Screens, Waits
<1>3. ASSUME clearBuffer PROVE LineShown'
  BY <1>2, <1>3, EmptyLine DEF clearBuffer
<1>4. ASSUME NEW c \in Letters \cup {"E"}, KeyLetter(c) PROVE LineShown'
  <2>1. mode_t = "TERMINAL" /\ stack = <<>> /\ inputIntoBuffer(c) /\ screen' = print(screen, <<c>>)
    BY <1>1, <1>2, <1>4 DEF KeyLetter
  <2>2. LineShown
    BY <2>1 DEF Waits
  <2> QED BY <1>2, <2>1, <2>2, LineGrows
<1>5. CASE KeyBackspace
  <2>1. mode_t = "TERMINAL" /\ stack = <<>> /\ remove_one_from_buffer /\ screen' = Backspace(screen)
    BY <1>1, <1>2, <1>5 DEF KeyBackspace
  <2>2. LineShown
    BY <2>1 DEF Waits
  <2> QED BY <1>2, <2>1, <2>2, LineShrinks
<1>6. CASE EnterPrints \/ EnterClear
  BY <1>3, <1>6 DEF EnterPrints, EnterClear
<1>7. ~EnterInEditor /\ ~EnterWrite
  BY <1>2 DEF EnterInEditor, EnterWrite
<1> USE DEF Steps, SaveSteps
<1>8. ~EnterGetTime
  <2> SUFFICES ASSUME EnterGetTime PROVE FALSE
    OBVIOUS
  <2>1. PICK bcd \in Registers : Call("print_time", bcd)
    BY DEF EnterGetTime
  <2>2. bcd \in Nat /\ stack = <<>>
    BY <1>1, RegisterNat DEF EnterGetTime
  <2> QED BY <1>2, <2>1, <2>2, AloneCalled
<1>9. ~KeyEscape
  BY <1>2 DEF KeyEscape
<1>10. ~(print_time \/ ClearLine)
  BY <1>2, AloneThen DEF print_time, ClearLine
<1>11. ~(CreateFile \/ ClearEditor \/ ClearEPos \/ LeaveEditor)
  BY <1>2, AloneThen DEF CreateFile, ClearEditor, ClearEPos, LeaveEditor
<1>12. CASE ClearPosition
  <2>1. buff' = EMPTY /\ position' = 0
    BY <1>12, Alone DEF ClearPosition, Under
  <2> QED BY <1>2, <2>1, EmptyLine
<1>13. CASE retrive_saved_window
  <2>1. buff' = EMPTY /\ position' = 0
    BY <1>13, Alone DEF retrive_saved_window, Under, lineVars
  <2> QED BY <1>2, <2>1, EmptyLine
<1> QED
  BY <1>4, <1>5, <1>6, <1>7, <1>8, <1>9, <1>10, <1>11, <1>12, <1>13 DEF Next, HandlerStep

\* The line the machine starts with.
LEMMA InitLine ==
    ASSUME POSITIONS - 1 <= Top, Init
    PROVE  LineShown
<1>1. PICK l \in Lines : buff = Buffer(l) /\ position = Len(l) /\ screen = print(Cleared, l)
  BY DEF Init
<1>2. BUFFER \in Nat /\ POSITIONS \in Nat /\ POSITIONS < BUFFER
  BY ConsoleAssumption
<1>3. l \in Seq(Range(l)) /\ Len(l) < POSITIONS /\ Printable(Range(l))
  BY ConsoleAssumption
<1>4. PICK n \in Nat : n = Len(l) /\ n <= Top /\ n < BUFFER
  BY <1>2, <1>3, Area
<1>5. Range(l) \subseteq Chars /\ Range(l) \subseteq Glyphs
  BY CharGlyphs DEF Chars
<1>6. l \in Seq(Chars) /\ l \in Seq(Glyphs)
  BY <1>3, <1>5
<1>7. \A i \in 1 .. n : l[i] # NUL /\ l[i] # NEWLINE /\ l[i] # BLACK
  <2>1. \A i \in 1 .. n : l[i] \in Range(l)
    BY <1>3, <1>4
  <2> QED BY <1>3, <2>1 DEF Printable
<1>8. \A i \in 1 .. BUFFER : buff[i] = IF i <= n THEN l[i] ELSE NUL
  BY <1>1, <1>4 DEF Buffer
<1>9. LineEndsAt
  <2>1. ASSUME NEW i \in 1 .. BUFFER PROVE buff[i] = NUL <=> i > n
    <3>1. CASE i <= n
      BY <1>7, <1>8, <3>1
    <3>2. CASE ~(i <= n)
      BY <1>8, <3>2
    <3> QED BY <3>1, <3>2
  <2> QED BY <1>1, <1>4, <2>1 DEF LineEndsAt
<1>10. PICK p : Rounds(Cleared, l, p) /\ print(Cleared, l) = p[n]
  BY <1>4, PrintRounds
<1>11. Full(p[n], n) /\ Suffix(SubSeq(l, 1, n), Shown(p[n]))
  <2>1. n <= Len(l) /\ \A i \in 1 .. n : l[i] # BLACK /\ l[i] # NEWLINE
    BY <1>4, <1>7
  <2> QED BY <1>4, <1>6, <1>10, <2>1, ClearedNeat, PrintedText
<1>12. SubSeq(buff, 1, n) = SubSeq(l, 1, n)
  <2>1. buff \in Seq(Chars) /\ Len(buff) = BUFFER
    <3>1. buff \in [1 .. BUFFER -> Chars]
      BY InitTyped DEF Typed
    <3> QED BY <1>2, <3>1, BufferSeq
  <2>2. PICK b \in Seq(Chars) : b = buff /\ Len(b) = BUFFER
    BY <2>1
  <2>3. \A i \in 1 .. n : b[i] = l[i]
    BY <1>2, <1>4, <1>8, <2>2
  <2> QED BY <1>2, <1>4, <1>6, <2>2, <2>3
<1> QED BY <1>1, <1>4, <1>9, <1>10, <1>11, <1>12 DEF LineShown

-----------------------------------------------------------------------------
(* The text in the editor.                                                  *)

\* Two texts of which one ends the other.
Agree(s, t) == Suffix(s, t) \/ Suffix(t, s)

\* A character is added to one and to the end of the other.
LEMMA AgreeAppend ==
    ASSUME NEW s \in Seq(Glyphs), NEW t \in Seq(Glyphs), NEW u \in Seq(Glyphs),
           NEW c \in Glyphs, Agree(s, t), Suffix(u, Append(t, c))
    PROVE  Agree(Append(s, c), u)
<1>1. PICK x \in Seq(Glyphs) : x = Append(s, c)
  <2>1. Append(s, c) \in Seq(Glyphs)
    OBVIOUS
  <2> QED BY <2>1, Zenon
<1>2. PICK y \in Seq(Glyphs) : y = Append(t, c)
  <2>1. Append(t, c) \in Seq(Glyphs)
    OBVIOUS
  <2> QED BY <2>1, Zenon
<1>3. CASE Suffix(s, t)
  <2>1. Suffix(x, y)
    BY <1>1, <1>2, <1>3, SuffixAppend
  <2>2. Suffix(u, y)
    BY <1>2
  <2>3. Len(x) <= Len(u) \/ Len(u) <= Len(x)
    OBVIOUS
  <2>4. Suffix(x, u) \/ Suffix(u, x)
    BY <2>1, <2>2, <2>3, SuffixCompare
  <2> QED BY <1>1, <2>4 DEF Agree
<1>4. CASE Suffix(t, s)
  <2>1. Suffix(y, x)
    BY <1>1, <1>2, <1>4, SuffixAppend
  <2>2. Suffix(u, y)
    BY <1>2
  <2>3. Suffix(u, x)
    BY <2>1, <2>2, SuffixTrans
  <2> QED BY <1>1, <2>3 DEF Agree
<1> QED BY <1>3, <1>4 DEF Agree

\* The beginning of one is lost.
LEMMA AgreeLess ==
    ASSUME NEW s \in Seq(Glyphs), NEW t \in Seq(Glyphs), NEW u \in Seq(Glyphs),
           Agree(s, t), Suffix(u, t)
    PROVE  Agree(s, u)
<1>1. CASE Suffix(s, t)
  <2>1. Len(s) <= Len(u) \/ Len(u) <= Len(s)
    OBVIOUS
  <2> QED BY <1>1, <2>1, SuffixCompare DEF Agree
<1>2. CASE Suffix(t, s)
  BY <1>2, SuffixTrans DEF Agree
<1> QED BY <1>1, <1>2 DEF Agree

\* The characters of the text can be shown.
LEMMA TextSeq ==
    ASSUME NEW b \in [1 .. BUFFER -> Chars], NEW n \in Nat, n <= BUFFER
    PROVE  Without(b, n, NEWLINE) \in Seq(Glyphs)
<1>1. BUFFER \in Nat
  BY ConsoleAssumption
<1>2. \A i \in 1 .. n : b[i] \in Glyphs
  BY <1>1, CharGlyphs
<1> QED BY <1>2, WithoutSeq

\* What is stored in the editor.
LEMMA EditorAppended ==
    ASSUME Typed, NEW c \in Chars, inputIntoEditorBuffer(c), ~wrapped'
    PROVE  /\ c = NEWLINE => Text' = Text
           /\ c # NEWLINE => Text' = Append(Text, c)
<1>1. /\ BUFFER \in Nat /\ POSITIONS \in Nat /\ POSITIONS < BUFFER
      /\ position \in Nat /\ position < POSITIONS /\ e_pos \in Nat /\ e_pos < POSITIONS
  BY Ranges
<1>2. /\ editor_buff' = [editor_buff EXCEPT ![e_pos + 1] = c]
      /\ e_pos' = Advance(e_pos)
      /\ wrapped' = (wrapped \/ e_pos' = 0)
  BY <1>1 DEF inputIntoEditorBuffer
<1>3. e_pos' = e_pos + 1
  BY <1>1, <1>2, AdvanceRange
<1>4. PICK n \in Nat : n = e_pos /\ n + 1 <= BUFFER
  BY <1>1
<1>5. PICK b \in [1 .. BUFFER -> Chars] : b = editor_buff
  BY DEF Typed
<1>6. PICK d : d = editor_buff'
  OBVIOUS
<1>7. \A j \in 1 .. BUFFER : d[j] = IF j = n + 1 THEN c ELSE b[j]
  <2>1. d = [b EXCEPT ![n + 1] = c]
    BY <1>2, <1>4, <1>5, <1>6
  <2> QED BY <1>1, <2>1, Stored
<1>8. d[n + 1] = c /\ \A i \in 1 .. n : d[i] = b[i]
  BY <1>1, <1>4, <1>7
<1>9. Without(d, n, NEWLINE) = Without(b, n, NEWLINE)
  BY ZenonT(60), <1>8, WithoutSame
<1>10. Text = Without(b, n, NEWLINE) /\ Text' = Without(d, n + 1, NEWLINE)
  BY <1>3, <1>4, <1>5, <1>6 DEF Text
<1> QED BY <1>8, <1>9, <1>10, WithoutNext

\* What Backspace takes out of the editor.
LEMMA EditorDropped ==
    ASSUME Typed, remove_one_from_editor_buffer
    PROVE  \/ e_pos = 0 /\ Text' = <<>>
           \/ e_pos > 0 /\ editor_buff[e_pos] = NEWLINE
           \/ \E c \in Glyphs : Text = Append(Text', c)
<1>1. BUFFER \in Nat /\ e_pos \in Nat /\ e_pos < BUFFER
  BY Ranges
<1>2. CASE e_pos = 0
  <2>1. e_pos' = 0
    BY <1>2 DEF remove_one_from_editor_buffer, editorVars
  <2> QED BY <1>2, <2>1, WithoutNone DEF Text
<1>3. CASE e_pos # 0 /\ editor_buff[e_pos] # NEWLINE
  <2>1. PICK k \in Nat : e_pos = k + 1
    <3>1. e_pos - 1 \in Nat /\ e_pos = (e_pos - 1) + 1
      BY <1>1, <1>3
    <3> QED BY <3>1
  <2>2. editor_buff' = [editor_buff EXCEPT ![e_pos] = NUL] /\ e_pos' = k
    BY <1>3, <2>1 DEF remove_one_from_editor_buffer
  <2>3. PICK b \in [1 .. BUFFER -> Chars] : b = editor_buff
    BY DEF Typed
  <2>4. PICK d : d = editor_buff'
    OBVIOUS
  <2>5. \A j \in 1 .. BUFFER : d[j] = IF j = k + 1 THEN NUL ELSE b[j]
    <3>1. d = [b EXCEPT ![k + 1] = NUL]
      BY <2>1, <2>2, <2>3, <2>4
    <3>2. NUL \in Chars
      BY DEF Chars
    <3> QED BY <1>1, <3>1, <3>2, Stored
  <2>6. \A i \in 1 .. k : d[i] = b[i]
    BY <1>1, <2>1, <2>5
  <2>7. Without(d, k, NEWLINE) = Without(b, k, NEWLINE)
    BY ZenonT(60), <2>6, WithoutSame
  <2>8. PICK c \in Glyphs : c = b[k + 1] /\ c # NEWLINE
    <3>1. b[k + 1] \in Chars
      BY <1>1, <2>1
    <3> QED BY <1>3, <2>1, <2>3, <3>1, CharGlyphs
  <2>9. Without(b, k + 1, NEWLINE) = Append(Without(b, k, NEWLINE), c)
    BY <2>8, WithoutNext
  <2>10. Text = Without(b, k + 1, NEWLINE) /\ Text' = Without(d, k, NEWLINE)
    BY <2>1, <2>2, <2>3, <2>4 DEF Text
  <2> QED BY <2>7, <2>9, <2>10
<1> QED BY <1>1, <1>2, <1>3

\* Every step leaves the text on the screen.
LEMMA TextStays ==
    ASSUME Typed, Typed', LineInv, Rest, Screens, Screens', Calm,
           Waits("EDITOR") /\ ~joined => TextShown,
           Next, ~nested', ~wrapped', ~joined', Waits("EDITOR")'
    PROVE  TextShown'
<1>1. Key => stack = <<>>
  BY QuietStep
<1>2. Neat(screen) /\ Neat(screen)' /\ stack' = <<>> /\ mode_t' = "EDITOR"
  BY DEF Screens, Waits
<1>3. PICK x \in Seq(Glyphs) : x = Shown(screen)
  BY <1>2, ShownSeq
<1>4. PICK y \in Seq(Glyphs) : y = Shown(screen')
  BY <1>2, ShownSeq
<1>5. PICK s \in Seq(Glyphs) : s = Text
  <2>1. e_pos \in Nat /\ e_pos <= BUFFER
    BY Ranges
  <2> QED BY <2>1, TextSeq DEF Text, Typed
<1>6. PICK t \in Seq(Glyphs) : t = Text'
  <2>1. e_pos' \in Nat /\ e_pos' <= BUFFER
    BY ConsoleAssumption DEF Typed
  <2> QED BY <2>1, TextSeq DEF Text, Typed
<1>7. SUFFICES Agree(t, y)
  BY <1>4, <1>6 DEF Agree, TextShown
<1>8. ASSUME mode_t = "EDITOR", Key, ~joined PROVE Agree(s, x)
  BY <1>1, <1>3, <1>5, <1>8 DEF Waits, TextShown, Agree
<1>9. ASSUME NEW c \in Letters \cup {"E"}, KeyLetter(c) PROVE Agree(t, y)
  <2>1. mode_t = "EDITOR" /\ Key /\ joined' = joined /\ inputIntoEditorBuffer(c)
        /\ screen' = print(screen, <<c>>)
    BY <1>2, <1>9 DEF KeyLetter
  <2>2. Agree(s, x)
    BY <1>8, <2>1
  <2>3. c \in Chars /\ c \in Glyphs /\ c # NUL /\ c # NEWLINE /\ c # BLACK
    BY LetterShows
  <2>4. screen' = terminal_write_char(screen, c)
    BY <2>1, PrintOne
  <2>5. Suffix(y, Append(x, c))
    BY <1>2, <1>3, <1>4, <2>3, <2>4, WriteCharShown
  <2>6. t = Append(s, c)
    BY <1>5, <1>6, <2>1, <2>3, EditorAppended
  <2> QED BY <2>2, <2>3, <2>5, <2>6, AgreeAppend
<1>10. CASE KeyBackspace
  <2>1. mode_t = "EDITOR" /\ Key /\ remove_one_from_editor_buffer /\ screen' = Backspace(screen)
        /\ joined' = (joined \/ (e_pos > 0 /\ editor_buff[e_pos] = NEWLINE))
    BY <1>2, <1>10 DEF KeyBackspace
  <2>2. ~joined /\ ~(e_pos > 0 /\ editor_buff[e_pos] = NEWLINE)
    BY <2>1
  <2>3. Agree(s, x)
    BY <1>8, <2>1, <2>2
  <2>4. CASE t = <<>>
    BY <2>4, SuffixTrivial DEF Agree
  <2>5. CASE x = <<>> /\ y = <<>>
    BY <2>5, SuffixTrivial DEF Agree
  <2>6. ASSUME NEW c \in Glyphs, s = Append(t, c), NEW d \in Glyphs, x = Append(y, d)
        PROVE  Agree(t, y)
    BY <2>3, <2>6, SuffixDrop DEF Agree
  <2>7. t = <<>> \/ \E c \in Glyphs : s = Append(t, c)
    BY <1>5, <1>6, <2>1, <2>2, EditorDropped
  <2>8. (x = <<>> /\ y = <<>>) \/ \E d \in Glyphs : x = Append(y, d)
    BY <1>2, <1>3, <1>4, <2>1, BackspaceShown
  <2> QED BY <2>4, <2>5, <2>6, <2>7, <2>8
<1>11. CASE EnterInEditor
  <2>1. mode_t = "EDITOR" /\ Key /\ joined' = joined /\ inputIntoEditorBuffer(NEWLINE)
        /\ screen' = Echoed
    BY <1>11 DEF EnterInEditor
  <2>2. Agree(s, x)
    BY <1>8, <2>1
  <2>3. NEWLINE \in Chars
    BY DEF Chars
  <2>4. t = s
    BY <1>5, <1>6, <2>1, <2>3, EditorAppended
  <2>5. Suffix(y, x)
    BY <1>2, <1>3, <1>4, <2>1, EchoedShown
  <2> QED BY <2>2, <2>4, <2>5, AgreeLess
<1>12. CASE EnterWrite
  <2>1. e_pos' = 0
    BY <1>1, <1>12 DEF EnterWrite, Calm, editorVars
  <2>2. t = <<>>
    BY <1>6, <2>1, WithoutNone DEF Text
  <2> QED BY <2>2, SuffixTrivial DEF Agree
<1>13. ~(EnterPrints \/ EnterClear \/ EnterGetTime)
  BY <1>2 DEF EnterPrints, EnterClear, EnterGetTime
<1> USE DEF Steps, SaveSteps
<1>14. ~KeyEscape
  <2> SUFFICES ASSUME KeyEscape PROVE FALSE
    OBVIOUS
  <2>1. Call("create", e_pos) /\ stack = <<>>
    BY <1>1 DEF KeyEscape
  <2>2. e_pos \in Nat /\ e_pos \in 0 .. POSITIONS - 1
    BY Ranges DEF Typed
  <2> QED BY <1>2, <2>1, <2>2, AloneCalled
<1>15. ~(print_time \/ ClearLine)
  BY <1>2, AloneThen DEF print_time, ClearLine
<1>16. ~(CreateFile \/ ClearEditor \/ ClearEPos \/ LeaveEditor)
  BY <1>2, AloneThen DEF CreateFile, ClearEditor, ClearEPos, LeaveEditor
<1>17. ~ClearPosition
  BY <1>2, Alone DEF ClearPosition, Under
<1>18. ~retrive_saved_window
  BY <1>2, Alone DEF retrive_saved_window, Under
<1> QED
  BY <1>9, <1>10, <1>11, <1>12, <1>13, <1>14, <1>15, <1>16, <1>17, <1>18 DEF Next, HandlerStep

-----------------------------------------------------------------------------
(* The time.                                                                *)

\* Two decimal digits are printed as they are, but for a leading zero.
LEMMA ItoaTwo ==
    ASSUME NEW h \in 0 .. 9, NEW l \in 0 .. 9
    PROVE  /\ h = 0 => itoa(h * 10 + l) = <<l>>
           /\ h # 0 => LET num == itoa(h * 10 + l)
                       IN  num \in Seq(0 .. 9) /\ Len(num) = 2 /\ num[1] = h /\ num[2] = l
<1>1. PICK x \in Nat : x = h * 10 + l
  <2>1. h * 10 + l \in Nat
    OBVIOUS
  <2> QED BY <2>1
<1>2. PICK d : IsDigits(d, x) /\ itoa(x) = d[x]
  BY ItoaIs
<1>3. \A n \in 0 .. x : d[n] = DigitsBody(d, n)
  BY <1>2 DEF IsDigits
<1>4. CASE h = 0
  <2>1. x = l /\ x < 10
    BY <1>1, <1>4
  <2>2. d[x] = <<l>>
    <3>1. x \in 0 .. x
      OBVIOUS
    <3>2. d[x] = DigitsBody(d, x)
      BY <1>3, <3>1
    <3> QED BY <2>1, <3>2 DEF DigitsBody
  <2> QED BY <1>1, <1>2, <1>4, <2>2
<1>5. CASE h # 0
  <2>1. ~(x < 10) /\ x \div 10 = h /\ x % 10 = l /\ h <= x
    BY <1>1, <1>5
  <2>2. d[h] = <<h>>
    <3>1. h \in 0 .. x /\ h < 10
      BY <2>1
    <3>2. d[h] = DigitsBody(d, h)
      BY <1>3, <3>1
    <3> QED BY <3>1, <3>2 DEF DigitsBody
  <2>3. d[x] = Append(<<h>>, l)
    <3>1. x \in 0 .. x
      OBVIOUS
    <3>2. d[x] = DigitsBody(d, x)
      BY <1>3, <3>1
    <3>3. d[x] = Append(d[x \div 10], x % 10)
      BY <2>1, <3>2 DEF DigitsBody
    <3> QED BY <2>1, <2>2, <3>3
  <2>4. PICK s \in Seq(0 .. 9) : s = <<h>> /\ Len(s) = 1 /\ s[1] = h
    <3>1. <<h>> \in Seq(0 .. 9) /\ Len(<<h>>) = 1 /\ <<h>>[1] = h
      OBVIOUS
    <3> QED BY <3>1, Zenon
  <2>5. PICK num \in Seq(0 .. 9) : num = Append(s, l)
    <3>1. Append(s, l) \in Seq(0 .. 9)
      OBVIOUS
    <3> QED BY <3>1, Zenon
  <2>6. Len(num) = 2 /\ num[1] = h /\ num[2] = l
    BY <2>4, <2>5
  <2> QED BY <1>1, <1>2, <1>5, <2>3, <2>4, <2>5, <2>6
<1> QED BY <1>4, <1>5

\* A digit shows something.
LEMMA DigitShows ==
    ASSUME NEW k \in 0 .. 9
    PROVE  DIGITS[k + 1] # BLACK /\ DIGITS[k + 1] # NEWLINE
<1>1. k \in {0, 1, 2, 3, 4, 5, 6, 7, 8, 9}
  OBVIOUS
<1> QED BY <1>1 DEF DIGITS, BLACK, NEWLINE

\* Digits and a new line behind what can be read.
LEMMA FiguresShown ==
    ASSUME VGA_HEIGHT >= 3, NEW s, Neat(s), NEW num \in Seq(0 .. 9),
           1 <= Len(num), Len(num) <= 2
    PROVE  LET u == print(s, Figures(num) \o <<NEWLINE>>)
           IN  /\ Neat(u) /\ Suffix(Figures(num), Shown(u))
               /\ Suffix(Shown(u), Shown(s) \o Figures(num))
<1>1. PICK n \in Nat : n = Len(num) /\ 1 <= n /\ n <= 2
  OBVIOUS
<1>2. PICK f \in Seq(Glyphs) : f = Figures(num) /\ Len(f) = n
  BY <1>1, FigureGlyphs
<1>3. PICK msg \in Seq(Glyphs) : msg = f \o <<NEWLINE>>
  BY <1>2, FigureGlyphs
<1>4. Len(msg) = n + 1 /\ msg[n + 1] = NEWLINE /\ \A i \in 1 .. n : msg[i] = f[i]
  <2>1. NEWLINE \in Glyphs
    BY CharGlyphs
  <2>2. PICK e \in Seq(Glyphs) : e = <<NEWLINE>> /\ Len(e) = 1 /\ e[1] = NEWLINE
    <3>1. <<NEWLINE>> \in Seq(Glyphs) /\ Len(<<NEWLINE>>) = 1 /\ <<NEWLINE>>[1] = NEWLINE
      BY <2>1
    <3> QED BY <3>1, Zenon
  <2>3. Len(f) = n /\ msg = f \o e
    BY <1>2, <1>3, <2>2
  <2>4. Len(msg) = n + 1 /\ \A i \in 1 .. n + 1 : msg[i] = IF i <= n THEN f[i] ELSE e[i - n]
    BY <2>2, <2>3
  <2>5. n + 1 \in 1 .. n + 1 /\ ~(n + 1 <= n) /\ (n + 1) - n = 1
        /\ \A i \in 1 .. n : i \in 1 .. n + 1 /\ i <= n
    OBVIOUS
  <2>6. msg[n + 1] = NEWLINE
    BY <2>2, <2>4, <2>5
  <2> QED BY <2>4, <2>5, <2>6
<1>5. SubSeq(msg, 1, n) = f
  <2>1. PICK g \in Seq(Glyphs) : g = SubSeq(msg, 1, n)
    <3>1. SubSeq(msg, 1, n) \in Seq(Glyphs)
      BY <1>4
    <3> QED BY <3>1, Zenon
  <2>2. Len(g) = n /\ \A i \in 1 .. n : g[i] = msg[i]
    BY <1>4, <2>1
  <2>3. f \in [1 .. n -> Glyphs] /\ g \in [1 .. n -> Glyphs] /\ \A i \in 1 .. n : f[i] = g[i]
    BY <1>2, <1>4, <2>2
  <2>4. f = g
    BY <2>3
  <2> QED BY <2>1, <2>4
<1>6. \A i \in 1 .. n : msg[i] # BLACK /\ msg[i] # NEWLINE
  <2>1. \A i \in 1 .. n : f[i] = DIGITS[num[i] + 1] /\ num[i] \in 0 .. 9
    BY <1>1, <1>2, FigureGlyphs
  <2> QED BY <1>4, <2>1, DigitShows
<1>7. PICK p : Rounds(s, msg, p) /\ print(s, msg) = p[n + 1]
  <2>1. Len(msg) \in Nat /\ Len(msg) = n + 1
    BY <1>4
  <2>2. PICK p : Rounds(s, msg, p) /\ print(s, msg) = p[Len(msg)]
    BY <2>1, PrintRounds, Zenon
  <2> QED BY <2>1, <2>2
<1>8. PICK w \in Nat : w = VGA_WIDTH /\ 0 < w /\ Top >= w + w
  <2>1. PICK w \in Nat, h \in Nat : w = VGA_WIDTH /\ h = VGA_HEIGHT - 1 /\ 0 < w /\ h >= 2
    BY Sides
  <2>2. h * w >= w + w
    <3>1. PICK g \in Nat : h = g + 2
      <4>1. h - 2 \in Nat /\ h = (h - 2) + 2
        BY <2>1
      <4> QED BY <4>1
    <3>2. (g + 2) * w = g * w + (w + w) /\ g * w \in Nat
      OBVIOUS
    <3>3. PICK a \in Nat : a = g * w
      BY <3>2
    <3> QED BY <3>1, <3>2, <3>3
  <2> QED BY <2>1, <2>2 DEF Top
<1>9. /\ Neat(p[n]) /\ Full(p[n], n)
      /\ Suffix(f, Shown(p[n])) /\ Suffix(Shown(p[n]), Shown(s) \o f)
  <2>1. n <= Len(msg) /\ n <= Top
    BY <1>1, <1>4, <1>8, Area
  <2>2. /\ Neat(p[n]) /\ Full(p[n], n)
        /\ Suffix(SubSeq(msg, 1, n), Shown(p[n]))
        /\ Suffix(Shown(p[n]), Shown(s) \o SubSeq(msg, 1, n))
    BY <1>6, <1>7, <2>1, PrintedText
  <2> QED BY <1>5, <2>2
<1>10. PICK t : t = p[n]
  OBVIOUS
<1>11. PICK u : u = p[n + 1] /\ u = NextLine(t)
  <2>1. n + 1 \in 1 .. Len(msg) /\ (n + 1) - 1 = n
    BY <1>4
  <2>2. p[n + 1] = terminal_write_char(p[n], msg[n + 1])
    BY <1>7, <2>1 DEF Rounds
  <2> QED BY <1>4, <1>10, <2>2 DEF terminal_write_char
<1>12. t.col >= 1
  <2>1. PICK m \in Nat : m + 1 = n
    <3>1. n - 1 \in Nat /\ (n - 1) + 1 = n
      BY <1>1
    <3> QED BY <3>1
  <2>2. n \in 1 .. Len(msg) /\ n - 1 = m /\ m <= n /\ m <= Len(msg) /\ m <= Top
    BY <1>1, <1>4, <1>8, <2>1, Area
  <2>3. p[n] = terminal_write_char(p[m], msg[n])
    BY <1>7, <2>2 DEF Rounds
  <2>4. Neat(p[m])
    <3>1. \A i \in 1 .. m : msg[i] # BLACK /\ msg[i] # NEWLINE
      BY <1>6, <2>2
    <3> QED BY <1>7, <2>2, <3>1, PrintedText
  <2>5. msg[n] \in Glyphs /\ msg[n] # BLACK /\ msg[n] # NEWLINE
    BY <1>1, <1>6, <2>2
  <2> QED BY <1>10, <2>3, <2>4, <2>5, WriteCharShown
<1>13. Len(Shown(u)) >= n
  <2>1. t.row = VGA_HEIGHT - 1 => Loc(t) = Top + t.col /\ t.col \in Nat
    BY <1>9, <1>10, LocRange DEF Neat
  <2>2. t.row = VGA_HEIGHT - 1 => n + VGA_WIDTH <= Loc(t)
    BY <1>1, <1>8, <1>12, <2>1, Area
  <2> QED BY <1>9, <1>10, <1>11, <2>2, NextLineLen
<1>14. Neat(u) /\ Suffix(Shown(u), Shown(t))
  BY <1>9, <1>10, <1>11, NextLineNeat, NextLineShown
<1>15. PICK x \in Seq(Glyphs) : x = Shown(t)
  BY <1>9, <1>10, ShownSeq
<1>16. PICK y \in Seq(Glyphs) : y = Shown(u)
  BY <1>14, ShownSeq
<1>17. PICK z \in Seq(Glyphs) : z = Shown(s)
  BY ShownSeq
<1>18. Suffix(f, y)
  <2>1. Suffix(f, x) /\ Suffix(y, x) /\ Len(f) <= Len(y)
    BY <1>2, <1>9, <1>10, <1>13, <1>14, <1>15, <1>16
  <2> QED BY <2>1, SuffixCompare
<1>19. Suffix(y, z \o f)
  <2>1. z \o f \in Seq(Glyphs)
    OBVIOUS
  <2>2. Suffix(y, x) /\ Suffix(x, z \o f)
    BY <1>9, <1>10, <1>14, <1>15, <1>16, <1>17
  <2> QED BY <2>1, <2>2, SuffixTrans
<1> QED BY <1>2, <1>3, <1>7, <1>11, <1>14, <1>16, <1>17, <1>18, <1>19

\* What get_time prints of a register with two decimal digits.
LEMMA TimeIs ==
    ASSUME NEW bcd \in Registers, bcd \div 16 < 10, bcd % 16 < 10
    PROVE  LET num == itoa(convert_to_num(bcd))
               low == <<DIGITS[(bcd % 16) + 1]>>
           IN  /\ 1 <= Len(num) /\ Len(num) <= 2
               /\ Figures(num) = IF bcd < 16 THEN low
                                 ELSE <<DIGITS[(bcd \div 16) + 1]>> \o low
<1>1. PICK h \in 0 .. 9, l \in 0 .. 9 : h = bcd \div 16 /\ l = bcd % 16 /\ (bcd < 16 <=> h = 0)
  BY RegisterNat
<1>2. convert_to_num(bcd) = h * 10 + l
  <2>1. (h * 10 + l) % 256 = h * 10 + l
    OBVIOUS
  <2> QED BY <1>1, <2>1 DEF convert_to_num
<1>3. PICK num : num = itoa(convert_to_num(bcd))
  OBVIOUS
<1>4. CASE h = 0
  <2>1. num = <<l>>
    BY <1>2, <1>3, <1>4, ItoaTwo
  <2>2. Len(num) = 1 /\ num[1] = l
    BY <2>1
  <2>3. Figures(num) = <<DIGITS[l + 1]>>
    BY <2>2 DEF Figures
  <2> QED BY <1>1, <1>3, <1>4, <2>2, <2>3
<1>5. CASE h # 0
  <2>1. num = itoa(h * 10 + l)
    BY <1>2, <1>3
  <2>2. Len(num) = 2 /\ num[1] = h /\ num[2] = l
    BY <1>5, <2>1, ItoaTwo, Zenon
  <2>3. PICK a, b : a = DIGITS[h + 1] /\ b = DIGITS[l + 1]
    OBVIOUS
  <2>4. Figures(num) = <<a, b>>
    BY <2>2, <2>3 DEF Figures
  <2>5. <<a>> \o <<b>> = <<a, b>>
    <3>1. PICK V : V = {a, b}
      OBVIOUS
    <3>2. PICK r \in Seq(V), s \in Seq(V) : r = <<a>> /\ s = <<b>> /\ Len(r) = 1 /\ Len(s) = 1
                                          /\ r[1] = a /\ s[1] = b
      <4>1. <<a>> \in Seq(V) /\ <<b>> \in Seq(V) /\ Len(<<a>>) = 1 /\ Len(<<b>>) = 1
            /\ <<a>>[1] = a /\ <<b>>[1] = b
        BY <3>1
      <4> QED BY <4>1, Zenon
    <3>3. PICK e \in Seq(V) : e = r \o s
      <4>1. r \o s \in Seq(V)
        OBVIOUS
      <4> QED BY <4>1, Zenon
    <3>4. Len(e) = 2 /\ e[1] = a /\ e[2] = b
      BY <3>2, <3>3
    <3>5. e = <<a, b>>
      BY <3>4
    <3> QED BY <3>2, <3>3, <3>5
  <2> QED BY <1>1, <1>3, <1>5, <2>2, <2>3, <2>4, <2>5
<1> QED BY <1>4, <1>5

\* The machine starts calm.
LEMMA InitCalm == Init => Calm
<1> SUFFICES ASSUME Init PROVE Calm
  OBVIOUS
<1>1. stack = <<>> /\ mode_t = "TERMINAL" /\ e_pos = 0
  BY DEF Init
<1>2. Len(stack) <= 1
  BY <1>1
<1> QED BY <1>1, <1>2 DEF Calm

\* ESC saves what the user reads: with no handler interrupted, no position wrapped
\* and no newline taken back, the characters of the text stand before the cursor
\* as far as they are not scrolled away, whatever the size of the screen.
THEOREM TextReadable == Spec => []TextOnScreen
<1> DEFINE Text0 == Waits("EDITOR") /\ ~joined => TextShown
           Inv   == ~nested /\ ~wrapped => Calm /\ Text0
<1>1. Init => Inv
  <2>1. Init => ~Waits("EDITOR")
    BY DEF Init, Waits
  <2> QED BY <2>1, InitCalm
<1>2. ConsoleInv /\ ConsoleInv' /\ ScreenInv /\ ScreenInv' /\ Inv /\ [Next]_vars => Inv'
  <2> SUFFICES ASSUME ConsoleInv, ConsoleInv', ScreenInv, ScreenInv', Inv, [Next]_vars,
                      ~nested', ~wrapped'
               PROVE  Calm' /\ Text0'
    OBVIOUS
  <2>1. Typed /\ Typed' /\ LineInv /\ Screens /\ Screens' /\ Rest
    BY DEF ConsoleInv, ScreenInv
  <2>2. CASE Next
    <3>1. ~nested /\ ~wrapped
      BY <2>1, <2>2, QuietStep
    <3>2. Calm /\ (Waits("EDITOR") /\ ~joined => TextShown)
      BY <3>1
    <3>3. Calm'
      BY <2>1, <2>2, <3>2, NextCalm
    <3>4. ASSUME Waits("EDITOR")', ~joined' PROVE TextShown'
      BY <2>1, <2>2, <3>2, <3>4, TextStays
    <3> QED BY <3>3, <3>4
  <2>3. CASE UNCHANGED vars
    BY <2>3 DEF vars, windowVars, lineVars, editorVars, fileVars, Calm, Under, Waits, TextShown, Text
  <2> QED BY <2>2, <2>3
<1>3. ConsoleInv /\ ScreenInv /\ Inv => TextOnScreen
  <2> SUFFICES ASSUME ConsoleInv, ScreenInv, Inv,
                      mode_t = "EDITOR", stack = <<>>, ~nested, ~wrapped, ~joined
               PROVE  IsSuffix(Text, Shown(screen)) \/ IsSuffix(Shown(screen), Text)
    BY DEF TextOnScreen
  <2>1. TextShown
    BY DEF Waits
  <2>2. Typed /\ Neat(screen)
    BY DEF ConsoleInv, ScreenInv, Screens
  <2>3. Shown(screen) \in Seq(Glyphs)
    BY <2>2, ShownSeq
  <2>4. Text \in Seq(Glyphs)
    <3>1. e_pos \in Nat /\ e_pos <= BUFFER
      BY <2>2, Ranges
    <3> QED BY <2>2, <3>1, TextSeq DEF Text, Typed
  <2> QED BY <2>1, <2>3, <2>4, SuffixIff DEF TextShown
<1> HIDE DEF Inv
<1> QED BY <1>1, <1>2, <1>3, ConsoleInvariant, ScreenInvariant, PTL DEF Spec

\* Enter executes what the user reads: on a screen that can show the longest line
\* in all its rows but one, the command line in buff stands before the cursor as
\* long as no handler is interrupted and no position wraps.
THEOREM LineReadable ==
    ASSUME POSITIONS - 1 <= VGA_WIDTH * (VGA_HEIGHT - 1)
    PROVE  Spec => []LineOnScreen
<1> DEFINE Line0 == Waits("TERMINAL") => LineShown
           Inv   == ~nested /\ ~wrapped => Calm /\ Line0
<1>0. POSITIONS - 1 <= Top
  <2>1. VGA_WIDTH * (VGA_HEIGHT - 1) = (VGA_HEIGHT - 1) * VGA_WIDTH
    BY Sides
  <2> QED BY <2>1 DEF Top
<1>1. Init => Inv
  BY <1>0, InitCalm, InitLine
<1>2. ConsoleInv /\ ConsoleInv' /\ ScreenInv /\ ScreenInv' /\ Inv /\ [Next]_vars => Inv'
  <2> SUFFICES ASSUME ConsoleInv, ConsoleInv', ScreenInv, ScreenInv', Inv, [Next]_vars,
                      ~nested', ~wrapped'
               PROVE  Calm' /\ Line0'
    OBVIOUS
  <2>1. Typed /\ Typed' /\ LineInv /\ Screens /\ Screens' /\ Rest
    BY DEF ConsoleInv, ScreenInv
  <2>2. CASE Next
    <3>1. ~nested /\ ~wrapped
      BY <2>1, <2>2, QuietStep
    <3>2. Calm /\ (Waits("TERMINAL") => LineShown)
      BY <3>1
    <3>3. Calm'
      BY <2>1, <2>2, <3>2, NextCalm
    <3>4. ASSUME Waits("TERMINAL")' PROVE LineShown'
      BY <1>0, <2>1, <2>2, <3>2, <3>4, LineStays
    <3> QED BY <3>3, <3>4
  <2>3. CASE UNCHANGED vars
    BY <2>3 DEF vars, windowVars, lineVars, editorVars, fileVars, Calm, Under, Waits, LineShown,
                LineEndsAt
  <2> QED BY <2>2, <2>3
<1>3. ConsoleInv /\ ScreenInv /\ Inv => LineOnScreen
  <2> SUFFICES ASSUME ConsoleInv, ScreenInv, Inv,
                      mode_t = "TERMINAL", stack = <<>>, ~nested, ~wrapped
               PROVE  IsSuffix(Line, Shown(screen)) /\ Len(Line) = position
    BY DEF LineOnScreen
  <2>1. LineShown
    BY DEF Waits
  <2>2. Typed /\ Neat(screen)
    BY DEF ConsoleInv, ScreenInv, Screens
  <2>3. Shown(screen) \in Seq(Glyphs)
    BY <2>2, ShownSeq
  <2>4. Line = SubSeq(buff, 1, position) /\ Len(Line) = position /\ Line \in Seq(Chars)
    BY <2>1, <2>2, LineIs DEF LineShown
  <2>5. Line \in Seq(Glyphs)
    BY <2>4, CharGlyphs
  <2>6. Suffix(Line, Shown(screen))
    BY <2>1, <2>4 DEF LineShown
  <2> QED BY <2>3, <2>4, <2>5, <2>6, SuffixIff
<1> HIDE DEF Inv
<1> QED BY <1>1, <1>2, <1>3, ConsoleInvariant, ScreenInvariant, PTL DEF Spec

\* get_time adds the two decimal digits of the register to what stands on the
\* screen, without a leading zero, on every screen of three rows and more, however
\* many handlers are under way.
THEOREM TimeReadable ==
    ASSUME VGA_HEIGHT >= 3, \A bcd \in Registers : bcd \div 16 < 10 /\ bcd % 16 < 10
    PROVE  Spec => TimeShown
<1>1. ConsoleInv /\ ScreenInv /\ [Next]_vars
        => [keys' = keys /\ Runs("print_time") =>
             LET bcd    == Last(stack).arg
                 low    == <<DIGITS[(bcd % 16) + 1]>>
                 digits == IF bcd < 16 THEN low
                           ELSE <<DIGITS[(bcd \div 16) + 1]>> \o low
             IN  /\ IsSuffix(digits, Shown(screen'))
                 /\ IsSuffix(Shown(screen'), Shown(screen) \o digits)]_vars
  <2> SUFFICES ASSUME ConsoleInv, ScreenInv, Next, keys' = keys, Runs("print_time"),
                      NEW bcd, bcd = Last(stack).arg,
                      NEW low, low = <<DIGITS[(bcd % 16) + 1]>>,
                      NEW digits, digits = IF bcd < 16 THEN low
                                           ELSE <<DIGITS[(bcd \div 16) + 1]>> \o low
               PROVE  /\ IsSuffix(digits, Shown(screen'))
                      /\ IsSuffix(Shown(screen'), Shown(screen) \o digits)
    BY Zenon
  <2>1. Typed /\ Neat(screen) /\ Registered /\ Rest
    BY DEF ConsoleInv, ScreenInv, Screens
  <2>2. ~Key
    <3>1. keys \in Int
      BY <2>1, ConsoleAssumption DEF Rest
    <3> QED BY <3>1 DEF Key
  <2>3. print_time
    <3>1. HandlerStep
      BY <2>2 DEF Next, KeyLetter, KeyBackspace, EnterInEditor, EnterPrints,
                  EnterClear, EnterWrite, EnterGetTime, KeyEscape
    <3> QED BY <3>1 DEF HandlerStep, ClearLine, ClearPosition, CreateFile, ClearEditor,
                        ClearEPos, LeaveEditor, retrive_saved_window, Runs
  <2>4. PICK num : num = itoa(convert_to_num(bcd))
    OBVIOUS
  <2>5. bcd \in Registers /\ screen' = print(screen, Figures(num) \o <<NEWLINE>>)
    BY <2>1, <2>3, <2>4, TimePrinted
  <2>6. num \in Seq(0 .. 9)
    BY <2>4, <2>5, TimeDigits
  <2>7. 1 <= Len(num) /\ Len(num) <= 2 /\ Figures(num) = digits
    BY <2>4, <2>5, TimeIs
  <2>8. /\ Neat(screen') /\ Suffix(digits, Shown(screen'))
        /\ Suffix(Shown(screen'), Shown(screen) \o digits)
    BY <2>1, <2>5, <2>6, <2>7, FiguresShown
  <2>9. PICK x \in Seq(Glyphs) : x = Shown(screen)
    BY <2>1, ShownSeq
  <2>10. PICK y \in Seq(Glyphs) : y = Shown(screen')
    BY <2>8, ShownSeq
  <2>11. digits \in Seq(Glyphs)
    BY <2>6, <2>7, FigureGlyphs
  <2>12. x \o digits \in Seq(Glyphs)
    BY <2>11
  <2> QED BY <2>8, <2>9, <2>10, <2>11, <2>12, SuffixIff
<1> QED BY <1>1, ConsoleInvariant, ScreenInvariant, PTL DEF Spec, TimeShown

=============================================================================
