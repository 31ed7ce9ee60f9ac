------------------------------ MODULE Terminal -----------------------------
(***************************************************************************)
(* terminal_write_char of drivers/VGA/VGA.c, executed by several processes *)
(* at once: the cursor is shared and nothing protects it.  A tick may come *)
(* between any two instructions and give the processor to another printer, *)
(* or end the printer for good when its budget is spent; a key press comes *)
(* there too.  Its handler has the processor to itself, except for the     *)
(* last part of ESC in the editor: the clock read for the save has enabled *)
(* interrupts, and the saved cursor is put back with ticks in between, on  *)
(* the stack of the printer that was interrupted.                          *)
(*                                                                         *)
(* The build does not optimise: `terminal_row += 1' is a load, an addition *)
(* and a store.  The interrupt stubs leave 0x20 in the low byte of eax of  *)
(* the code they interrupt.                                                *)
(***************************************************************************)
EXTENDS Integers

CONSTANTS Printers, Boot, \* threads that print; the one that runs kernel_main
          VGA_WIDTH, VGA_HEIGHT,
          Starts,         \* cursors <<row, col>> that earlier output has left
          Coloured,       \* cells <<row, col>> where Backspace may stop
          Texts,          \* bound: printer -> characters it prints
          MaxKeys,        \* bound: key presses
          None

ASSUME TerminalAssumption ==
    /\ VGA_WIDTH \in Nat /\ 0 < VGA_WIDTH /\ VGA_WIDTH < 65536
    /\ VGA_HEIGHT \in Nat /\ 3 <= VGA_HEIGHT /\ VGA_HEIGHT <= 32
    /\ Starts \subseteq (0 .. VGA_HEIGHT - 1) \X (0 .. VGA_WIDTH)
    /\ Coloured \subseteq Nat \X (0 .. VGA_WIDTH)
    /\ Texts \in [Printers -> Nat] /\ MaxKeys \in Nat
    /\ Boot \in Printers /\ None \notin Printers

Chars == {"newline", "letter"}

VARIABLES terminal_row, terminal_col,   \* uint16_t
          saved_row, saved_col,         \* uint8_t
          running,                      \* the printer that has the processor
          pc, ch, eax,                  \* printer -> step, character, register
          x, y,                         \* printer -> arguments of terminal_put_char
          editor,                       \* "closed", "open", or what ESC does next
          host,                         \* the printer ESC has interrupted, or None
          left, keys                    \* characters to come, key presses
\* Auxiliary: the printers not interfered with, and whether the row has been left
\* below the screen by a printer that was ended before it looked, or by a saved
\* row that was damaged while ESC put it back.
VARIABLES alone, strayed

vars == <<terminal_row, terminal_col, saved_row, saved_col, running, pc, ch,
          eax, x, y, editor, host, left, keys, alone, strayed>>

U16(n) == n % 65536

\* kernel_main gets the processor when every process has ended.
Runnable ==
    LET processes == {t \in Printers \ {Boot} : pc[t] # "gone"}
    IN  IF processes = {} THEN {Boot} ELSE processes

Init ==
    /\ \E s \in Starts : terminal_row = s[1] /\ terminal_col = s[2]
    /\ saved_row = 0 /\ saved_col = 0
    /\ pc = [t \in Printers |-> "idle"]
    /\ running \in Runnable
    /\ ch = [t \in Printers |-> "letter"]
    /\ eax = [t \in Printers |-> 0]
    /\ x = [t \in Printers |-> 0] /\ y = [t \in Printers |-> 0]
    /\ editor = "closed" /\ host = None
    /\ left = Texts /\ keys = 0
    /\ alone = {} /\ strayed = FALSE

cursor  == <<terminal_row, terminal_col>>
args    == <<x, y>>
keyVars == <<saved_row, saved_col, editor, host, keys>>
others  == <<running, ch, left, keyVars, alone>>

\* The row has strayed since `event' or before, until it is on the screen again.
Strays(event) == strayed' = ((strayed \/ event) /\ terminal_row' >= VGA_HEIGHT)

\* The running printer t goes from one step to the next.
Step(t, from, to) ==
    /\ running = t /\ host # t /\ pc[t] = from
    /\ pc' = [pc EXCEPT ![t] = to]

Load(t, value) == eax' = [eax EXCEPT ![t] = value]

-----------------------------------------------------------------------------

\* Mutation: one character more than the text has.
BeginBeyond(t) ==
    /\ running = t /\ host # t /\ pc[t] = "idle" /\ left[t] >= 0
    /\ ch' = [ch EXCEPT ![t] = "letter"]
    /\ pc' = [pc EXCEPT ![t] = "load_col"]
    /\ left' = [left EXCEPT ![t] = @ - 1]
    /\ UNCHANGED <<cursor, running, eax, args, keyVars, alone, strayed>>

\* The next character of print.
Begin(t) ==
    /\ running = t /\ host # t /\ pc[t] = "idle" /\ left[t] > 0
    /\ \E c \in Chars :
         /\ ch' = [ch EXCEPT ![t] = c]
         /\ pc' = [pc EXCEPT ![t] = IF c = "newline" THEN "load_row" ELSE "load_col"]
    /\ left' = [left EXCEPT ![t] = @ - 1]
    /\ alone' = IF \A u \in Printers : pc[u] \in {"idle", "gone"} THEN {t} ELSE {}
    /\ UNCHANGED <<cursor, running, eax, args, keyVars, strayed>>

\* if (terminal_col >= VGA_WIDTH)
LoadCol(t) ==
    /\ Step(t, "load_col", "test_col")
    /\ Load(t, terminal_col)
    /\ UNCHANGED <<cursor, args, others, strayed>>

TestCol(t) ==
    /\ Step(t, "test_col", IF eax[t] >= VGA_WIDTH THEN "zero_col" ELSE "arg_row")
    /\ Load(t, 0)
    /\ UNCHANGED <<cursor, args, others, strayed>>

\* A newline has moved to the next row before; a wrap does so afterwards.
ZeroCol(t) ==
    /\ Step(t, "zero_col", IF ch[t] = "newline" THEN "load_test" ELSE "load_row")
    /\ terminal_col' = 0
    /\ UNCHANGED <<terminal_row, eax, args, others, strayed>>

\* terminal_row += 1
LoadRow(t) ==
    /\ Step(t, "load_row", "add_row")
    /\ Load(t, terminal_row)
    /\ UNCHANGED <<cursor, args, others, strayed>>

AddRow(t) ==
    /\ Step(t, "add_row", "store_row")
    /\ Load(t, eax[t] + 1)
    /\ UNCHANGED <<cursor, args, others, strayed>>

StoreRow(t) ==
    /\ Step(t, "store_row", IF ch[t] = "newline" THEN "zero_col" ELSE "load_test")
    /\ terminal_row' = U16(eax[t])
    /\ Load(t, 0)
    /\ Strays(FALSE)
    /\ UNCHANGED <<terminal_col, args, others>>

\* if (terminal_row >= VGA_HEIGHT)
LoadTest(t) ==
    /\ Step(t, "load_test", "test_row")
    /\ Load(t, terminal_row)
    /\ UNCHANGED <<cursor, args, others, strayed>>

AfterRow(t) == IF ch[t] = "newline" THEN "idle" ELSE "arg_row"

\* Mutation: > for >=.
TestRowGreater(t) ==
    /\ Step(t, "test_row", IF eax[t] > VGA_HEIGHT THEN "set_row" ELSE AfterRow(t))
    /\ Load(t, 0)
    /\ UNCHANGED <<cursor, args, others, strayed>>

TestRow(t) ==
    /\ Step(t, "test_row", IF eax[t] >= VGA_HEIGHT THEN "set_row" ELSE AfterRow(t))
    /\ Load(t, 0)
    /\ UNCHANGED <<cursor, args, others, strayed>>

\* terminal_scroll, which moves cells and not the cursor, and the last row.
SetRow(t) ==
    /\ Step(t, "set_row", AfterRow(t))
    /\ terminal_row' = VGA_HEIGHT - 1
    /\ Strays(FALSE)
    /\ UNCHANGED <<terminal_col, eax, args, others>>

\* The arguments of terminal_put_char, from right to left.
ArgRow(t) ==
    /\ Step(t, "arg_row", "arg_col")
    /\ y' = [y EXCEPT ![t] = terminal_row]
    /\ UNCHANGED <<cursor, eax, x, others, strayed>>

ArgCol(t) ==
    /\ Step(t, "arg_col", "put")
    /\ x' = [x EXCEPT ![t] = terminal_col]
    /\ UNCHANGED <<cursor, eax, y, others, strayed>>

\* The store to video memory, at y[t] * VGA_WIDTH + x[t].
terminal_put_char(t) ==
    /\ Step(t, "put", "load_inc")
    /\ x' = [x EXCEPT ![t] = 0] /\ y' = [y EXCEPT ![t] = 0]
    /\ UNCHANGED <<cursor, eax, others, strayed>>

\* terminal_col += 1
LoadInc(t) ==
    /\ Step(t, "load_inc", "add_inc")
    /\ Load(t, terminal_col)
    /\ UNCHANGED <<cursor, args, others, strayed>>

AddInc(t) ==
    /\ Step(t, "add_inc", "store_inc")
    /\ Load(t, eax[t] + 1)
    /\ UNCHANGED <<cursor, args, others, strayed>>

StoreInc(t) ==
    /\ Step(t, "store_inc", "idle")
    /\ terminal_col' = U16(eax[t])
    /\ Load(t, 0)
    /\ UNCHANGED <<terminal_row, args, others, strayed>>

terminal_write_char(t) ==
    \/ Begin(t) \/ LoadCol(t) \/ TestCol(t) \/ ZeroCol(t)
    \/ LoadRow(t) \/ AddRow(t) \/ StoreRow(t)
    \/ LoadTest(t) \/ TestRow(t) \/ SetRow(t)
    \/ ArgRow(t) \/ ArgCol(t) \/ terminal_put_char(t)
    \/ LoadInc(t) \/ AddInc(t) \/ StoreInc(t)

-----------------------------------------------------------------------------

\* Steps that use a value in eax.
Live == {"test_col", "add_row", "store_row", "test_row", "add_inc", "store_inc"}

\* eax after `mov al, 0x20'.
ClobberAl(v) == v - (v % 256) + 32

\* What an interrupt does to the printer it interrupts.  An argument that is not
\* on the stack yet may be in eax.
Interrupted ==
    LET t == running
    IN  /\ alone' = {}
        /\ eax' = [eax EXCEPT ![t] = IF pc[t] \in Live THEN ClobberAl(@) ELSE @]
        /\ \/ UNCHANGED args
           \/ pc[t] = "arg_col" /\ y' = [y EXCEPT ![t] = ClobberAl(@)]
              /\ UNCHANGED x
           \/ pc[t] = "put" /\ x' = [x EXCEPT ![t] = ClobberAl(@)]
              /\ UNCHANGED y

\* A tick that leaves every process its budget, with or without a change of
\* process.
Tick ==
    /\ Interrupted
    /\ running' \in Runnable
    /\ UNCHANGED <<cursor, pc, ch, left, keyVars, strayed>>

\* Printers that have moved to a row and will still look whether it exists.
WillReset(t) ==
    \/ pc[t] \in {"load_test", "set_row"}
    \/ pc[t] = "zero_col" /\ ch[t] = "newline"
    \/ pc[t] = "test_row" /\ eax[t] >= VGA_HEIGHT

\* A tick that ends the budget of the running process: scheduler drops it
\* wherever it stands, and with it the handler of ESC if that is on its stack,
\* which has or has not left the mode of the editor.  A process that returns
\* between two characters goes the same way.
Expire ==
    LET t == running
    IN  /\ t # Boot
        /\ pc' = [pc EXCEPT ![t] = "gone"]
        /\ Load(t, 0) /\ x' = [x EXCEPT ![t] = 0] /\ y' = [y EXCEPT ![t] = 0]
        /\ alone' = {}
        /\ running' \in Runnable'
        /\ IF host = t
           THEN /\ host' = None
                /\ editor' \in (IF editor = "put_row" THEN {"open", "closed"}
                                                     ELSE {"closed"})
           ELSE UNCHANGED <<host, editor>>
        /\ UNCHANGED <<cursor, ch, left, saved_row, saved_col, keys>>
        /\ Strays(WillReset(t))

-----------------------------------------------------------------------------
(* The keyboard handler.                                                    *)

\* Mutation: the handler's newline does not look for the last row.
NextRowUnchecked(row) == U16(row + 1)

\* The next row, as computed without interrupts.
NextRow(row) == IF U16(row + 1) >= VGA_HEIGHT THEN VGA_HEIGHT - 1 ELSE U16(row + 1)

KeyPress ==
    /\ keys < MaxKeys /\ keys' = keys + 1
    /\ Interrupted
    /\ UNCHANGED <<running, pc, ch, left>>

\* The echo of a key: a whole character.
KeyEcho ==
    /\ KeyPress
    /\ \/ terminal_row' = NextRow(terminal_row) /\ terminal_col' = 0
       \/ /\ terminal_col >= VGA_WIDTH
          /\ terminal_row' = NextRow(terminal_row) /\ terminal_col' = 1
       \/ /\ terminal_col < VGA_WIDTH
          /\ terminal_col' = terminal_col + 1 /\ UNCHANGED terminal_row
    /\ Strays(FALSE)
    /\ UNCHANGED <<saved_row, saved_col, editor, host>>

\* Backspace goes back to the last cell that is not black, or to the corner.
KeyBackspace ==
    /\ KeyPress
    /\ \E s \in Coloured \cup {<<0, 0>>} :
         /\ s[1] < terminal_row \/ (s[1] = terminal_row /\ s[2] < terminal_col)
         /\ terminal_row' = s[1] /\ terminal_col' = s[2]
    /\ Strays(FALSE)
    /\ UNCHANGED <<saved_row, saved_col, editor, host>>

\* Enter after `write <filename>': two newlines, then the window is saved and
\* the editor's, with a header and an empty line, is shown.
KeyEdit ==
    /\ editor = "closed" /\ editor' = "open"
    /\ KeyPress
    /\ saved_row' = NextRow(NextRow(terminal_row)) % 256 /\ saved_col' = 0
    /\ terminal_row' = 2 /\ terminal_col' = 0
    /\ Strays(FALSE)
    /\ UNCHANGED host

\* ESC: the file is saved and interrupts are enabled.
KeyEscape ==
    /\ editor = "open" /\ editor' = "put_row"
    /\ KeyPress
    /\ host' = running
    /\ UNCHANGED <<cursor, saved_row, saved_col, strayed>>

\* terminal_row = saved_row goes through eax.
RestoreRow ==
    /\ editor = "put_row" /\ running = host
    /\ editor' = "put_col"
    /\ terminal_row' \in {saved_row, ClobberAl(saved_row)}
    /\ Strays(terminal_row' # saved_row)
    /\ UNCHANGED <<terminal_col, saved_row, saved_col, running, pc, ch, eax, args,
                   host, left, keys, alone>>

RestoreCol ==
    /\ editor = "put_col" /\ running = host
    /\ editor' = "closed" /\ host' = None
    /\ terminal_col' \in {saved_col, ClobberAl(saved_col)}
    /\ UNCHANGED <<terminal_row, saved_row, saved_col, running, pc, ch, eax, args,
                   left, keys, alone, strayed>>

Next ==
    \/ \E t \in Printers : terminal_write_char(t)
    \/ Tick \/ Expire
    \/ KeyEcho \/ KeyBackspace \/ KeyEdit \/ KeyEscape \/ RestoreRow \/ RestoreCol

Spec == Init /\ [][Next]_vars

-----------------------------------------------------------------------------

Steps == Live \cup {"idle", "load_col", "zero_col", "load_row", "load_test",
                    "set_row", "arg_row", "arg_col", "put", "load_inc", "gone"}

TypeOK ==
    /\ terminal_row \in Nat /\ terminal_row < 65536
    /\ terminal_col \in Nat /\ terminal_col < 65536
    /\ saved_row \in Nat /\ saved_row < 256 /\ saved_col \in Nat /\ saved_col < 256
    /\ running \in Printers /\ host \in Printers \cup {None}
    /\ pc \in [Printers -> Steps] /\ ch \in [Printers -> Chars]
    /\ eax \in [Printers -> Nat] /\ x \in [Printers -> Nat] /\ y \in [Printers -> Nat]
    /\ editor \in {"closed", "open", "put_row", "put_col"}
    /\ left \in [Printers -> Nat] /\ keys \in 0 .. MaxKeys
    /\ alone \subseteq Printers /\ strayed \in BOOLEAN

\* The cursor is below the last row only while some printer is about to bring it
\* back, whatever was lost between loads and stores: the damage to eax can only
\* make the test of the row succeed, and the newlines before the window is saved
\* keep a row below the screen out of saved_row.  It strays in two ways only: a
\* printer is ended between its increment of the row and its test, or the saved
\* row is damaged while ESC puts it back; then it stays there until the next
\* step that puts the row on the screen.
RowReturns ==
    terminal_row >= VGA_HEIGHT => strayed \/ \E t \in Printers : WillReset(t)

\* A character that is printed alone, no other under way when it begins and no
\* interrupt before it ends, lands on the screen, whatever races have left in
\* terminal_row and terminal_col, unless the row has strayed.
AloneOnScreen ==
    \A t \in alone :
        pc[t] = "put" /\ ~strayed => x[t] < VGA_WIDTH /\ y[t] < VGA_HEIGHT
=============================================================================
