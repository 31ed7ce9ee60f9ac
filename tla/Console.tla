------------------------------ MODULE Console ------------------------------
(***************************************************************************)
(* The keyboard handler of drivers/keyboard/keyboard.c with the command    *)
(* line and the editor of drivers/VGA/vga_buffer.c, on a machine whose     *)
(* processes are done.                                                     *)
(*                                                                         *)
(* A handler runs with interrupts disabled and is one step, with two       *)
(* exceptions: `get-time' and the save behind ESC read the clock, and      *)
(* read_date ends with sti although the handler is not done.  From then on *)
(* the next key interrupts it, and so on: `stack' holds the handlers under *)
(* way, of which only the last one runs.                                   *)
(*                                                                         *)
(* A command word is one character, as is a message of the kernel.  What   *)
(* FAT12 says of the disk is not repeated here: a save finds room, and a   *)
(* command on files prints one of Replies.                                 *)
(***************************************************************************)
EXTENDS Screen, Clock, SequencesExt

CONSTANTS BUFFER,         \* 4096, the size of buff and of editor_buff
          POSITIONS,      \* 256, the values of the bytes position and e_pos
          Letters,        \* characters on the keyboard
          Lines,          \* command lines typed before the first step
          Replies,        \* what a command on files may print
          Registers,      \* values of a register of the clock
          MaxKeys,        \* bound: key presses
          MaxDepth        \* bound: handlers under way when a key comes

NUL   == "nul"
SPACE == "space"

\* A key stands for a character that is printed; Enter is handled apart.
Printable(S) == S \cap {NUL, NEWLINE, BLACK} = {}

ASSUME ConsoleAssumption ==
    /\ POSITIONS \in Nat \ {0} /\ BUFFER \in Nat /\ POSITIONS < BUFFER
    /\ Registers \subseteq Bytes /\ MaxKeys \in Nat /\ MaxDepth \in Nat
    /\ Printable(Letters)
    /\ \A l \in Lines : l \in Seq(Range(l)) /\ Len(l) < POSITIONS /\ Printable(Range(l))
    /\ \A out \in Replies : out \in Seq(Range(out))

EMPTY == [i \in 1 .. BUFFER |-> NUL]

VARIABLES screen, saved_screen,           \* with their cursors
          mode_t,
          buff, position,
          editor_buff, e_pos, editor_filename,
          stack,                          \* the handlers under way
          keys
\* Auxiliary: the texts that were saved, the text in the editor when ESC was
\* pressed, whether a key has interrupted a handler, whether a position has
\* wrapped, whether Backspace has removed a newline in the editor.
VARIABLES files, due, nested, wrapped, joined

lineVars   == <<buff, position>>
editorVars == <<editor_buff, e_pos>>
windowVars == <<saved_screen, editor_filename>>
fileVars   == <<files, due>>
vars == <<screen, windowVars, mode_t, lineVars, editorVars, stack, keys, fileVars,
          nested, wrapped, joined>>

Buffer(text) == [i \in 1 .. BUFFER |-> IF i <= Len(text) THEN text[i] ELSE NUL]

Init ==
    /\ \E l \in Lines :
         /\ buff = Buffer(l) /\ position = Len(l)
         /\ screen = print(Cleared, l)
    /\ saved_screen = Cleared /\ mode_t = "TERMINAL"
    /\ editor_buff = EMPTY /\ e_pos = 0 /\ editor_filename = <<>>
    /\ stack = <<>> /\ keys = 0
    /\ files = {} /\ due = <<>>
    /\ nested = FALSE /\ wrapped = FALSE /\ joined = FALSE

-----------------------------------------------------------------------------
(* The two buffers.  The test for a full one compares a byte with 4096, and *)
(* the editor's looks at the position of the command line.                  *)

\* Mutation: positions as wide as the test for a full buffer expects.
AdvanceWide(pos) == pos + 1

Advance(pos) == (pos + 1) % POSITIONS

inputIntoBuffer(c) ==
    IF position >= BUFFER THEN UNCHANGED <<lineVars, wrapped>>
    ELSE /\ buff' = [buff EXCEPT ![position + 1] = c]
         /\ position' = Advance(position)
         /\ wrapped' = (wrapped \/ position' = 0)

inputIntoEditorBuffer(c) ==
    IF position >= BUFFER THEN UNCHANGED <<editorVars, wrapped>>
    ELSE /\ editor_buff' = [editor_buff EXCEPT ![e_pos + 1] = c]
         /\ e_pos' = Advance(e_pos)
         /\ wrapped' = (wrapped \/ e_pos' = 0)

\* Mutation: the character stays in the buffer.
RemoveKeepsCharacter ==
    IF position = 0 THEN UNCHANGED lineVars
    ELSE position' = position - 1 /\ UNCHANGED buff

remove_one_from_buffer ==
    IF position = 0 THEN UNCHANGED lineVars
    ELSE buff' = [buff EXCEPT ![position] = NUL] /\ position' = position - 1

\* Mutation: the test looks at the other buffer's position.
RemoveTestsPosition ==
    IF position = 0 THEN UNCHANGED editorVars
    ELSE editor_buff' = [editor_buff EXCEPT ![e_pos] = NUL] /\ e_pos' = e_pos - 1

remove_one_from_editor_buffer ==
    IF e_pos = 0 THEN UNCHANGED editorVars
    ELSE editor_buff' = [editor_buff EXCEPT ![e_pos] = NUL] /\ e_pos' = e_pos - 1

clearBuffer == buff' = EMPTY /\ position' = 0

-----------------------------------------------------------------------------
(* bufferTestCommand: the line up to its first NUL, split at a space.       *)

Before(seq, c) ==
    LET at == {i \in 1 .. Len(seq) : seq[i] = c}
    IN  IF at = {} THEN seq
        ELSE SubSeq(seq, 1, (CHOOSE i \in at : \A j \in at : i <= j) - 1)

Line    == Before(buff, NUL)
Command == Before(Line, SPACE)
HasArg  == Command # Line
Arg     == SubSeq(Line, Len(Command) + 2, Len(Line))

\* The space becomes the end of the command.
Split == IF HasArg THEN [buff EXCEPT ![Len(Command) + 1] = NUL] ELSE buff

\* What the commands print that do nothing else.
Output ==
    CASE Command = <<>>                              -> {<<>>}
      [] Command = <<"test">>                        -> {<<"tested", NEWLINE>>}
      [] Command = <<"ls">>                          -> Replies
      [] Command \in {<<"read">>, <<"delete">>} /\ HasArg -> Replies
      [] OTHER                                       -> {<<"message", NEWLINE>>}

OnlyPrints ==
    Command \notin {<<"clear">>, <<"get-time">>} /\ ~(Command = <<"write">> /\ HasArg)

-----------------------------------------------------------------------------
(* keyboard_callback.                                                       *)

Key ==
    /\ keys < MaxKeys /\ Len(stack) <= MaxDepth
    /\ keys' = keys + 1
    /\ nested' = (nested \/ stack # <<>>)

\* The handler has read the clock, and read_date has enabled interrupts.
Call(step, arg) == stack' = Append(stack, [do |-> step, arg |-> arg])

\* The characters that keys stand for.  ESC is an E to the command line.
return_letter == IF mode_t = "TERMINAL" THEN Letters \cup {"E"} ELSE Letters

\* A character that is echoed and stored.
KeyLetter(c) ==
    /\ Key
    /\ c \in return_letter
    /\ screen' = print(screen, <<c>>)
    /\ \/ mode_t = "TERMINAL" /\ inputIntoBuffer(c) /\ UNCHANGED editorVars
       \/ mode_t = "EDITOR" /\ inputIntoEditorBuffer(c) /\ UNCHANGED lineVars
    /\ UNCHANGED <<windowVars, mode_t, stack, fileVars, joined>>

KeyBackspace ==
    /\ Key
    /\ screen' = Backspace(screen)
    /\ \/ /\ mode_t = "TERMINAL" /\ remove_one_from_buffer
          /\ UNCHANGED <<editorVars, due, joined>>
       \/ /\ mode_t = "EDITOR" /\ remove_one_from_editor_buffer
          /\ joined' = (joined \/ (e_pos > 0 /\ editor_buff[e_pos] = NEWLINE))
          /\ due' = IF stack # <<>> /\ e_pos' < Len(due) THEN SubSeq(due, 1, e_pos')
                    ELSE due
          /\ UNCHANGED lineVars
    /\ UNCHANGED <<windowVars, mode_t, stack, files, wrapped>>

\* Enter is echoed twice.
Echoed == print(screen, <<NEWLINE, NEWLINE>>)

EnterInEditor ==
    /\ mode_t = "EDITOR" /\ Key
    /\ screen' = Echoed
    /\ inputIntoEditorBuffer(NEWLINE)
    /\ UNCHANGED <<windowVars, mode_t, lineVars, stack, fileVars, joined>>

\* A file that is deleted need not be kept any more.
EnterPrints ==
    /\ mode_t = "TERMINAL" /\ OnlyPrints /\ Key
    /\ \E out \in Output : screen' = print(Echoed, out)
    /\ clearBuffer
    /\ due' = IF Command = <<"delete">> THEN <<>> ELSE due
    /\ UNCHANGED <<windowVars, mode_t, editorVars, stack, files, wrapped, joined>>

EnterClear ==
    /\ mode_t = "TERMINAL" /\ Command = <<"clear">> /\ Key
    /\ screen' = Cleared
    /\ clearBuffer
    /\ UNCHANGED <<windowVars, mode_t, editorVars, stack, fileVars, wrapped, joined>>

save_window_content == saved_screen' = Echoed

EnterWrite ==
    /\ mode_t = "TERMINAL" /\ Command = <<"write">> /\ HasArg /\ Key
    /\ editor_filename' = Arg
    /\ save_window_content
    /\ screen' = enter_editor_mode(Arg)
    /\ mode_t' = "EDITOR"
    /\ clearBuffer
    /\ UNCHANGED <<editorVars, stack, fileVars, wrapped, joined>>

\* get_time: the time, here one of the six registers, is printed with interrupts
\* enabled.
EnterGetTime ==
    /\ mode_t = "TERMINAL" /\ Command = <<"get-time">> /\ Key
    /\ screen' = Echoed
    /\ buff' = Split
    /\ \E bcd \in Registers : Call("print_time", bcd)
    /\ UNCHANGED <<windowVars, mode_t, position, editorVars, fileVars, wrapped, joined>>

SaveSteps == {"create", "clear", "e_pos", "mode", "window"}

\* The text in the editor is due unless a save is under way.
Due ==
    due' = IF \E i \in 1 .. Len(stack) : stack[i].do \in SaveSteps THEN due
           ELSE SubSeq(editor_buff, 1, e_pos)

\* Mutation: the buffer is cleared before the file is created.
EscapeClearsFirst ==
    /\ mode_t = "EDITOR" /\ Key /\ Due
    /\ Call("clear", e_pos)
    /\ UNCHANGED <<screen, windowVars, mode_t, lineVars, editorVars, files, wrapped,
                   joined>>

\* c_file passes e_pos, and create_file begins with the time stamp.
KeyEscape ==
    /\ mode_t = "EDITOR" /\ Key /\ Due
    /\ Call("create", e_pos)
    /\ UNCHANGED <<screen, windowVars, mode_t, lineVars, editorVars, files, wrapped,
                   joined>>

-----------------------------------------------------------------------------
(* The rest of the two handlers that have enabled interrupts.               *)

Runs(step) == stack # <<>> /\ Last(stack).do = step

Then(step) == stack' = [stack EXCEPT ![Len(stack)].do = step]

Return == stack' = Front(stack)

DIGITS == <<"0", "1", "2", "3", "4", "5", "6", "7", "8", "9">>

print_time ==
    /\ Runs("print_time") /\ Then("memset")
    /\ LET num == itoa(convert_to_num(Last(stack).arg))
       IN  screen' = print(screen, [i \in 1 .. Len(num) |-> DIGITS[num[i] + 1]]
                                     \o <<NEWLINE>>)
    /\ UNCHANGED <<windowVars, mode_t, lineVars, editorVars, fileVars>>

ClearLine ==
    /\ Runs("memset") /\ Then("position")
    /\ buff' = EMPTY
    /\ UNCHANGED <<screen, windowVars, mode_t, position, editorVars, fileVars>>

ClearPosition ==
    /\ Runs("position") /\ Return
    /\ position' = 0
    /\ UNCHANGED <<screen, windowVars, mode_t, buff, editorVars, fileVars>>

\* write_data_into_memory takes what editor_buff holds now.
CreateFile ==
    /\ Runs("create") /\ Then("clear")
    /\ files' = files \cup {SubSeq(editor_buff, 1, Last(stack).arg)}
    /\ UNCHANGED <<screen, windowVars, mode_t, lineVars, editorVars, due>>

ClearEditor ==
    /\ Runs("clear") /\ Then("e_pos")
    /\ editor_buff' = EMPTY
    /\ UNCHANGED <<screen, windowVars, mode_t, lineVars, e_pos, fileVars>>

ClearEPos ==
    /\ Runs("e_pos") /\ Then("mode")
    /\ e_pos' = 0
    /\ UNCHANGED <<screen, windowVars, mode_t, lineVars, editor_buff, fileVars>>

LeaveEditor ==
    /\ Runs("mode") /\ Then("window")
    /\ mode_t' = "TERMINAL"
    /\ UNCHANGED <<screen, windowVars, lineVars, editorVars, fileVars>>

retrive_saved_window ==
    /\ Runs("window") /\ Return
    /\ screen' = saved_screen
    /\ UNCHANGED <<windowVars, mode_t, lineVars, editorVars, fileVars>>

HandlerStep ==
    /\ \/ print_time \/ ClearLine \/ ClearPosition
       \/ CreateFile \/ ClearEditor \/ ClearEPos \/ LeaveEditor \/ retrive_saved_window
    /\ UNCHANGED <<keys, nested, wrapped, joined>>

Next ==
    \/ \E c \in Letters \cup {"E"} : KeyLetter(c)
    \/ KeyBackspace \/ EnterInEditor \/ EnterPrints \/ EnterClear \/ EnterWrite
    \/ EnterGetTime \/ KeyEscape
    \/ HandlerStep

Spec == Init /\ [][Next]_vars

-----------------------------------------------------------------------------

Steps == {"print_time", "memset", "position"} \cup SaveSteps

Cursor == [row : 0 .. VGA_HEIGHT - 1, col : 0 .. VGA_WIDTH]

TypeOK ==
    /\ [row |-> screen.row, col |-> screen.col] \in Cursor
    /\ [row |-> saved_screen.row, col |-> saved_screen.col] \in Cursor
    /\ DOMAIN screen.cells = Cells /\ DOMAIN saved_screen.cells = Cells
    /\ mode_t \in {"TERMINAL", "EDITOR"}
    /\ DOMAIN buff = 1 .. BUFFER /\ DOMAIN editor_buff = 1 .. BUFFER
    /\ position \in 0 .. POSITIONS - 1 /\ e_pos \in 0 .. POSITIONS - 1
    /\ \A i \in 1 .. Len(stack) :
         /\ stack[i].do \in Steps
         /\ stack[i].arg \in IF stack[i].do \in SaveSteps THEN 0 .. POSITIONS - 1
                              ELSE Registers
    /\ keys \in 0 .. MaxKeys
    /\ {nested, wrapped, joined} \subseteq BOOLEAN

\* bufferTestCommand scans buff for a NUL that nothing but the width of position
\* guarantees: the test for a full buffer is never true.
LineEnds == \E i \in 1 .. BUFFER : buff[i] = NUL

\* Enter executes what the user reads: with no handler interrupted and no
\* position wrapped, the command line in buff is what stands before the cursor,
\* over wrapped lines, scrolling, Backspace beyond the start of the line and
\* a visit to the editor.
LineOnScreen ==
    mode_t = "TERMINAL" /\ stack = <<>> /\ ~nested /\ ~wrapped
      /\ Len(Line) <= VGA_WIDTH * (VGA_HEIGHT - 1)
        => IsSuffix(Line, Shown(screen)) /\ Len(Line) = position

Text == Without(editor_buff, e_pos, NEWLINE)

\* The time adds the digits of the register to what stands on the screen, without
\* a leading zero, and scrolls away no more than it must.
TimeShown ==
    [][keys' = keys /\ Runs("print_time") =>
         LET bcd    == Last(stack).arg
             low    == <<DIGITS[(bcd % 16) + 1]>>
             digits == IF bcd < 16 THEN low
                       ELSE <<DIGITS[(bcd \div 16) + 1]>> \o low
         IN  /\ IsSuffix(digits, Shown(screen'))
             /\ IsSuffix(Shown(screen'), Shown(screen) \o digits)]_vars

\* ESC saves what the user reads: the characters of the text stand before the
\* cursor, as far as they have not been scrolled away.  A newline does not come
\* off the screen and out of the text together: Backspace takes the character
\* before it from the screen.
TextOnScreen ==
    mode_t = "EDITOR" /\ stack = <<>> /\ ~nested /\ ~wrapped /\ ~joined
        => IsSuffix(Text, Shown(screen)) \/ IsSuffix(Shown(screen), Text)

\* The text in the editor when ESC is pressed is in the editor until it is in a
\* file, even if more keys, a second ESC among them, interrupt the save.
\* Backspace during the save still shortens it.
TextSafe ==
    ~wrapped => \/ IsPrefix(due, editor_buff)
                \/ \E text \in files : IsPrefix(due, text)
=============================================================================
