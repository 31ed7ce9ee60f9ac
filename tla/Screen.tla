------------------------------- MODULE Screen ------------------------------
(***************************************************************************)
(* The operations of drivers/VGA/VGA.c, executed without interruption, on  *)
(* a screen: its cells and the cursor.  A cell is black or shows a         *)
(* character.  A cell is addressed by row * VGA_WIDTH + col with col up to *)
(* VGA_WIDTH, so that the last column and the first one of the next row    *)
(* may be the same cell.                                                   *)
(***************************************************************************)
EXTENDS Integers, Sequences

CONSTANTS VGA_WIDTH, VGA_HEIGHT

ASSUME ScreenAssumption ==
    VGA_WIDTH \in Nat \ {0} /\ VGA_HEIGHT \in Nat \ {0}

NEWLINE == "newline"
BLACK   == "black"
Cells   == 0 .. VGA_HEIGHT * VGA_WIDTH

location(row, col) == row * VGA_WIDTH + col

\* terminal_initialize and terminal_clear.
Cleared == [cells |-> [i \in Cells |-> BLACK], row |-> 0, col |-> 0]

terminal_put_char(s, c) == [s EXCEPT !.cells[location(s.row, s.col)] = c]

terminal_scroll(s) ==
    [cells |-> [i \in Cells |->
                  IF i < (VGA_HEIGHT - 1) * VGA_WIDTH THEN s.cells[i + VGA_WIDTH]
                  ELSE IF i < VGA_HEIGHT * VGA_WIDTH THEN BLACK ELSE s.cells[i]],
     row |-> s.row, col |-> s.col]

NextLine(s) ==
    LET t == [cells |-> s.cells, row |-> s.row + 1, col |-> 0]
    IN  IF t.row < VGA_HEIGHT THEN t
        ELSE [terminal_scroll(t) EXCEPT !.row = VGA_HEIGHT - 1]

\* Mutation: > for >= at the end of the line.
WriteLateWrap(s, c) ==
    IF c = NEWLINE THEN NextLine(s)
    ELSE LET t == IF s.col > VGA_WIDTH THEN NextLine(s) ELSE s
         IN  [terminal_put_char(t, c) EXCEPT !.col = @ + 1]

terminal_write_char(s, c) ==
    IF c = NEWLINE THEN NextLine(s)
    ELSE LET t == IF s.col >= VGA_WIDTH THEN NextLine(s) ELSE s
         IN  [terminal_put_char(t, c) EXCEPT !.col = @ + 1]

\* The screen behind the last character of msg.
print(s, msg) ==
    LET printed[i \in 0 .. Len(msg)] ==
          IF i = 0 THEN s ELSE terminal_write_char(printed[i - 1], msg[i])
    IN  printed[Len(msg)]

enter_editor_mode(filename) ==
    print(Cleared, <<"header">> \o filename \o <<NEWLINE, NEWLINE>>)

\* The cursor as one number: back_one subtracts one from it.
Place(s) == s.row * (VGA_WIDTH + 1) + s.col
At(s, p) ==
    [cells |-> s.cells, row |-> p \div (VGA_WIDTH + 1), col |-> p % (VGA_WIDTH + 1)]

cell_attr(s, p) == s.cells[location(At(s, p).row, At(s, p).col)]

\* Back over black cells to one that is not, or to the corner; it becomes black.
Backspace(s) ==
    LET stops == {p \in 0 .. Place(s) - 1 : p = 0 \/ cell_attr(s, p) # BLACK}
    IN  IF stops = {} THEN s
        ELSE terminal_put_char(At(s, CHOOSE p \in stops : \A q \in stops : q <= p),
                               BLACK)

\* The first n elements of f but those that are `blank'.
Without(f, n, blank) ==
    LET kept[i \in 0 .. n] ==
          IF i = 0 THEN <<>>
          ELSE IF f[i] = blank THEN kept[i - 1] ELSE Append(kept[i - 1], f[i])
    IN  kept[n]

\* What can be read before the cursor.
Tape(s)  == [i \in 1 .. VGA_HEIGHT * VGA_WIDTH |-> s.cells[i - 1]]
Shown(s) == Without(Tape(s), location(s.row, s.col), BLACK)
=============================================================================
