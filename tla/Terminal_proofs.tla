-------------------------- MODULE Terminal_proofs --------------------------
(***************************************************************************)
(* The cursor of Terminal heals, for every number of printers and texts:   *)
(* proofs of RowReturns and AloneOnScreen.                                 *)
(*                                                                         *)
(* RowReturns needs that no row below the screen was saved; AloneOnScreen  *)
(* needs RowReturns, and what a printer that is alone knows of the cursor  *)
(* at each of its steps.                                                   *)
(***************************************************************************)
EXTENDS Terminal, TLAPS

\* The window is saved behind a newline, so on the screen.
SavedOnScreen == saved_row < VGA_HEIGHT

\* The steps between the end of a line and the character that did not fit.
Wrapping == {"load_row", "add_row", "store_row", "load_test", "test_row", "set_row"}

\* What a printer knows while it is alone.
Knows(t) ==
    /\ running = t /\ host # t
    /\ \A u \in Printers \ {t} : pc[u] \in {"idle", "gone"}
    /\ pc[t] = "test_col" => eax[t] = terminal_col
    /\ pc[t] \in Wrapping /\ ch[t] = "letter" => terminal_col = 0
    /\ pc[t] = "test_row" => eax[t] = terminal_row
    /\ pc[t] \in {"arg_row", "arg_col"} => terminal_col < VGA_WIDTH
    /\ pc[t] = "put" => x[t] < VGA_WIDTH
    /\ pc[t] = "arg_row" => strayed \/ terminal_row < VGA_HEIGHT
    /\ pc[t] \in {"arg_col", "put"} => strayed \/ y[t] < VGA_HEIGHT

AloneKnows == \A t \in alone : Knows(t)

Inv == TypeOK /\ SavedOnScreen /\ RowReturns /\ AloneKnows

-----------------------------------------------------------------------------

\* The size of the screen.
LEMMA ScreenSize ==
    /\ VGA_WIDTH \in Nat /\ 0 < VGA_WIDTH /\ VGA_WIDTH < 65536
    /\ VGA_HEIGHT \in Nat /\ 3 <= VGA_HEIGHT /\ VGA_HEIGHT <= 32
BY TerminalAssumption

\* A stored row or column fits into 16 bits.
LEMMA U16Range == ASSUME NEW n \in Nat PROVE U16(n) \in Nat /\ U16(n) < 65536
BY DEF U16

\* The damaged register is a number of at least 32.
LEMMA ClobberLarge ==
    ASSUME NEW v \in Nat
    PROVE  ClobberAl(v) \in Nat /\ ClobberAl(v) >= 32
BY DEF ClobberAl

\* A damaged byte is 32.
LEMMA ClobberByte ==
    ASSUME NEW v \in Nat, v < 256
    PROVE  ClobberAl(v) = 32
BY DEF ClobberAl

\* A newline that nothing interrupts ends on the screen.
LEMMA NextRowOnScreen ==
    ASSUME NEW row \in Nat
    PROVE  NextRow(row) \in Nat /\ NextRow(row) < VGA_HEIGHT
BY U16Range, ScreenSize DEF NextRow

\* The saved row is not cut off by its eight bits.
LEMMA SavedRange ==
    ASSUME NEW row \in Nat
    PROVE  /\ NextRow(NextRow(row)) % 256 \in Nat
           /\ NextRow(NextRow(row)) % 256 < VGA_HEIGHT
<1> DEFINE r == NextRow(NextRow(row))
<1>1. r \in Nat /\ r < VGA_HEIGHT
  BY NextRowOnScreen
<1> HIDE DEF r
<1>2. r % 256 = r
  BY <1>1, ScreenSize
<1> QED BY <1>1, <1>2 DEF r

\* An interrupt leaves numbers in the registers and arguments.
LEMMA InterruptedType ==
    ASSUME TypeOK, Interrupted
    PROVE  /\ eax' \in [Printers -> Nat]
           /\ x' \in [Printers -> Nat] /\ y' \in [Printers -> Nat]
           /\ alone' = {}
<1>1. \A v \in Nat : ClobberAl(v) \in Nat
  BY ClobberLarge
<1>2. running \in Printers /\ eax \in [Printers -> Nat]
        /\ x \in [Printers -> Nat] /\ y \in [Printers -> Nat]
  BY DEF TypeOK
<1>3. ClobberAl(eax[running]) \in Nat /\ ClobberAl(x[running]) \in Nat
        /\ ClobberAl(y[running]) \in Nat
  BY <1>1, <1>2
<1> QED BY <1>2, <1>3 DEF Interrupted, args

\* The mark of a strayed row is a truth value.
LEMMA StraysType ==
    /\ Strays(FALSE) => strayed' \in BOOLEAN
    /\ Strays(terminal_row' # saved_row) => strayed' \in BOOLEAN
    /\ Strays(WillReset(running)) => strayed' \in BOOLEAN
<1>1. Strays(FALSE) => strayed' \in BOOLEAN
  BY Zenon DEF Strays
<1>2. Strays(terminal_row' # saved_row) => strayed' \in BOOLEAN
  BY Zenon DEF Strays
<1>3. Strays(WillReset(running)) => strayed' \in BOOLEAN
  BY Zenon DEF Strays
<1> QED BY <1>1, <1>2, <1>3

\* TypeOK is kept by every step of a printer.
LEMMA PrinterType ==
    ASSUME TypeOK, NEW t \in Printers, terminal_write_char(t)
    PROVE  TypeOK'
<1> USE DEF TypeOK, Step, Load, Steps, Live, Chars, cursor, args, others, keyVars
<1>1. CASE Begin(t)
  BY <1>1 DEF Begin
<1>2. CASE LoadCol(t)
  BY <1>2 DEF LoadCol
<1>3. CASE TestCol(t)
  BY <1>3 DEF TestCol
<1>4. CASE ZeroCol(t)
  BY <1>4 DEF ZeroCol
<1>5. CASE LoadRow(t)
  BY <1>5 DEF LoadRow
<1>6. CASE AddRow(t)
  BY <1>6 DEF AddRow
<1>7. CASE StoreRow(t)
  <2>1. U16(eax[t]) \in Nat /\ U16(eax[t]) < 65536
    BY U16Range
  <2>2. strayed' \in BOOLEAN
    BY <1>7, StraysType DEF StoreRow
  <2> QED BY <1>7, <2>1, <2>2 DEF StoreRow
<1>8. CASE LoadTest(t)
  BY <1>8 DEF LoadTest
<1>9. CASE TestRow(t)
  BY <1>9 DEF TestRow, AfterRow
<1>10. CASE SetRow(t)
  <2>1. strayed' \in BOOLEAN
    BY <1>10, StraysType DEF SetRow
  <2> QED BY <1>10, <2>1, ScreenSize DEF SetRow, AfterRow
<1>11. CASE ArgRow(t)
  BY <1>11 DEF ArgRow
<1>12. CASE ArgCol(t)
  BY <1>12 DEF ArgCol
<1>13. CASE terminal_put_char(t)
  BY <1>13 DEF terminal_put_char
<1>14. CASE LoadInc(t)
  BY <1>14 DEF LoadInc
<1>15. CASE AddInc(t)
  BY <1>15 DEF AddInc
<1>16. CASE StoreInc(t)
  <2>1. U16(eax[t]) \in Nat /\ U16(eax[t]) < 65536
    BY U16Range
  <2> QED BY <1>16, <2>1 DEF StoreInc
<1> QED
  BY <1>1, <1>2, <1>3, <1>4, <1>5, <1>6, <1>7, <1>8, <1>9, <1>10, <1>11, <1>12, <1>13, <1>14, <1>15, <1>16
     DEF terminal_write_char

\* TypeOK is kept by the interrupts.
LEMMA InterruptType ==
    ASSUME TypeOK,
           \/ Tick \/ Expire \/ KeyEcho \/ KeyBackspace \/ KeyEdit
           \/ KeyEscape \/ RestoreRow \/ RestoreCol
    PROVE  TypeOK'
<1> USE DEF TypeOK, keyVars, cursor, args
<1>1. CASE Tick
  <2>1. Interrupted
    BY <1>1 DEF Tick
  <2>2. running' \in Printers
    BY <1>1, TerminalAssumption DEF Tick, Runnable
  <2> QED BY <1>1, <2>1, <2>2, InterruptedType DEF Tick
<1>0. CASE Expire
  <2>1. strayed' \in BOOLEAN
    BY <1>0, StraysType DEF Expire
  <2>2. running' \in Printers
    BY <1>0, TerminalAssumption DEF Expire, Runnable
  <2>3. /\ pc' \in [Printers -> Steps] /\ eax' \in [Printers -> Nat]
        /\ x' \in [Printers -> Nat] /\ y' \in [Printers -> Nat]
    BY <1>0 DEF Expire, Load, Steps
  <2>4. /\ host' \in Printers \cup {None}
        /\ editor' \in {"closed", "open", "put_row", "put_col"}
    BY <1>0 DEF Expire
  <2>5. alone' \subseteq Printers
    BY <1>0 DEF Expire
  <2> QED BY <1>0, <2>1, <2>2, <2>3, <2>4, <2>5 DEF Expire
<1>2. ASSUME KeyPress
      PROVE  /\ running' \in Printers /\ pc' \in [Printers -> Steps]
             /\ ch' \in [Printers -> Chars] /\ eax' \in [Printers -> Nat]
             /\ x' \in [Printers -> Nat] /\ y' \in [Printers -> Nat]
             /\ left' \in [Printers -> Nat] /\ keys' \in 0 .. MaxKeys
             /\ alone' \subseteq Printers
  <2>1. Interrupted
    BY <1>2 DEF KeyPress
  <2>2. keys' \in 0 .. MaxKeys
    BY <1>2, TerminalAssumption DEF KeyPress
  <2> QED BY <1>2, <2>1, <2>2, InterruptedType DEF KeyPress
<1>3. CASE KeyEcho
  <2>1. NextRow(terminal_row) \in Nat /\ NextRow(terminal_row) < 65536
    BY NextRowOnScreen, ScreenSize
  <2>2. KeyPress
    BY <1>3 DEF KeyEcho
  <2>3. /\ terminal_row' \in Nat /\ terminal_row' < 65536
        /\ terminal_col' \in Nat /\ terminal_col' < 65536
    BY <1>3, <2>1, ScreenSize DEF KeyEcho
  <2>4. strayed' \in BOOLEAN
    BY <1>3, StraysType DEF KeyEcho
  <2> QED BY <1>3, <1>2, <2>2, <2>3, <2>4 DEF KeyEcho
<1>4. CASE KeyBackspace
  <2>1. PICK s \in Coloured \cup {<<0, 0>>} :
          /\ s[1] < terminal_row \/ (s[1] = terminal_row /\ s[2] < terminal_col)
          /\ terminal_row' = s[1] /\ terminal_col' = s[2]
    BY <1>4 DEF KeyBackspace
  <2>2. s[1] \in Nat /\ s[2] \in 0 .. VGA_WIDTH
    BY TerminalAssumption
  <2>3. /\ terminal_row' \in Nat /\ terminal_row' < 65536
        /\ terminal_col' \in Nat /\ terminal_col' < 65536
    BY <2>1, <2>2, ScreenSize
  <2>4. strayed' \in BOOLEAN
    BY <1>4, StraysType DEF KeyBackspace
  <2> QED BY <1>4, <1>2, <2>3, <2>4 DEF KeyBackspace
<1>5. CASE KeyEdit
  <2>1. saved_row' \in Nat /\ saved_row' < VGA_HEIGHT
    BY <1>5, SavedRange DEF KeyEdit
  <2>2. saved_row' < 256
    BY <2>1, ScreenSize
  <2>3. strayed' \in BOOLEAN
    BY <1>5, StraysType DEF KeyEdit
  <2> QED BY <1>5, <1>2, <2>1, <2>2, <2>3 DEF KeyEdit
<1>6. CASE KeyEscape
  BY <1>6, <1>2 DEF KeyEscape
<1>7. CASE RestoreRow
  <2>1. ClobberAl(saved_row) = 32
    BY ClobberByte
  <2>2. terminal_row' \in Nat /\ terminal_row' < 65536
    BY <1>7, <2>1 DEF RestoreRow
  <2>4. strayed' \in BOOLEAN
    BY <1>7, StraysType DEF RestoreRow
  <2> QED BY <1>7, <2>2, <2>4 DEF RestoreRow
<1>8. CASE RestoreCol
  <2>1. ClobberAl(saved_col) = 32
    BY ClobberByte
  <2> QED BY <1>8, <2>1 DEF RestoreCol
<1> QED
  BY <1>0, <1>1, <1>3, <1>4, <1>5, <1>6, <1>7, <1>8

-----------------------------------------------------------------------------

\* A step of a printer leaves the others' promises to reset the row alone.
LEMMA OthersReset ==
    ASSUME TypeOK, NEW t \in Printers, terminal_write_char(t),
           NEW u \in Printers, u # t, WillReset(u)
    PROVE  WillReset(u)'
<1> USE DEF TypeOK, Step, Load, others, keyVars, WillReset
<1>1. CASE Begin(t)
  BY <1>1 DEF Begin
<1>2. CASE LoadCol(t)
  BY <1>2 DEF LoadCol
<1>3. CASE TestCol(t)
  BY <1>3 DEF TestCol
<1>4. CASE ZeroCol(t)
  BY <1>4 DEF ZeroCol
<1>5. CASE LoadRow(t)
  BY <1>5 DEF LoadRow
<1>6. CASE AddRow(t)
  BY <1>6 DEF AddRow
<1>7. CASE StoreRow(t)
  BY <1>7 DEF StoreRow
<1>8. CASE LoadTest(t)
  BY <1>8 DEF LoadTest
<1>9. CASE TestRow(t)
  BY <1>9 DEF TestRow
<1>10. CASE SetRow(t)
  BY <1>10 DEF SetRow
<1>11. CASE ArgRow(t)
  BY <1>11 DEF ArgRow
<1>12. CASE ArgCol(t)
  BY <1>12 DEF ArgCol
<1>13. CASE terminal_put_char(t)
  BY <1>13 DEF terminal_put_char
<1>14. CASE LoadInc(t)
  BY <1>14 DEF LoadInc
<1>15. CASE AddInc(t)
  BY <1>15 DEF AddInc
<1>16. CASE StoreInc(t)
  BY <1>16 DEF StoreInc
<1> QED
  BY <1>1, <1>2, <1>3, <1>4, <1>5, <1>6, <1>7, <1>8, <1>9, <1>10, <1>11, <1>12, <1>13, <1>14, <1>15, <1>16
     DEF terminal_write_char

\* A printer that has stored a row will look at it; one that has looked and found
\* it on the screen has promised nothing.
LEMMA PrinterRow ==
    ASSUME TypeOK, RowReturns, NEW t \in Printers, terminal_write_char(t)
    PROVE  RowReturns'
<1> SUFFICES ASSUME terminal_row' >= VGA_HEIGHT, ~strayed'
             PROVE  \E u \in Printers : WillReset(u)'
  BY DEF RowReturns
<1>1. ~strayed
  BY DEF Strays, terminal_write_char, Begin, LoadCol, TestCol, ZeroCol, LoadRow, AddRow,
         StoreRow, LoadTest, TestRow, SetRow, ArgRow, ArgCol, terminal_put_char,
         LoadInc, AddInc, StoreInc, others, keyVars
<1> USE DEF TypeOK, Step, Load, cursor, others, keyVars, WillReset
<1>2. CASE StoreRow(t)
  BY <1>2 DEF StoreRow
<1>3. CASE SetRow(t)
  BY <1>3, ScreenSize DEF SetRow
<1>4. CASE LoadTest(t)
  BY <1>4 DEF LoadTest
<1>5. CASE TestRow(t) /\ eax[t] >= VGA_HEIGHT
  BY <1>5 DEF TestRow
<1>6. CASE ZeroCol(t) /\ ch[t] = "newline"
  BY <1>6 DEF ZeroCol
<1>7. CASE /\ ~StoreRow(t) /\ ~SetRow(t) /\ ~LoadTest(t)
           /\ ~(TestRow(t) /\ eax[t] >= VGA_HEIGHT)
           /\ ~(ZeroCol(t) /\ ch[t] = "newline")
  <2>1. terminal_row' = terminal_row
    BY <1>7 DEF terminal_write_char, Begin, LoadCol, TestCol, ZeroCol, LoadRow, AddRow,
                TestRow, ArgRow, ArgCol, terminal_put_char, LoadInc, AddInc, StoreInc
  <2>2. terminal_row >= VGA_HEIGHT /\ ~strayed
    BY <1>1, <2>1
  <2>3. ~WillReset(t)
    BY <1>7 DEF terminal_write_char, Begin, LoadCol, TestCol, ZeroCol, LoadRow, AddRow,
                TestRow, ArgRow, ArgCol, terminal_put_char, LoadInc, AddInc, StoreInc
  <2> HIDE DEF WillReset, TypeOK
  <2>4. PICK u \in Printers : WillReset(u)
    BY <2>2, Zenon DEF RowReturns
  <2>5. u # t
    BY <2>3, <2>4
  <2> QED BY <2>4, <2>5, OthersReset
<1> QED
  BY <1>2, <1>3, <1>4, <1>5, <1>6, <1>7

\* An interrupt keeps the promises to reset the row: the damaged register is at
\* least 32, and no screen is higher.
LEMMA InterruptedReset ==
    ASSUME TypeOK, Interrupted, UNCHANGED <<pc, ch>>,
           NEW u \in Printers, WillReset(u)
    PROVE  WillReset(u)'
<1>1. eax[running] \in Nat
  BY DEF TypeOK
<1>2. ClobberAl(eax[running]) \in Nat /\ ClobberAl(eax[running]) >= VGA_HEIGHT
  BY <1>1, ClobberLarge, ScreenSize
<1> QED BY <1>2 DEF TypeOK, Interrupted, WillReset

\* RowReturns is kept by the interrupts.
LEMMA InterruptRow ==
    ASSUME TypeOK, SavedOnScreen, RowReturns,
           \/ Tick \/ Expire \/ KeyEcho \/ KeyBackspace \/ KeyEdit
           \/ KeyEscape \/ RestoreRow \/ RestoreCol
    PROVE  RowReturns'
<1> SUFFICES ASSUME terminal_row' >= VGA_HEIGHT, ~strayed'
             PROVE  \E u \in Printers : WillReset(u)'
  BY DEF RowReturns
<1>1. ASSUME terminal_row >= VGA_HEIGHT, ~strayed, Interrupted, UNCHANGED <<pc, ch>>
      PROVE  \E u \in Printers : WillReset(u)'
  <2>1. PICK u \in Printers : WillReset(u)
    BY <1>1 DEF RowReturns
  <2> QED BY <1>1, <2>1, InterruptedReset
<1>2. CASE Tick
  BY <1>1, <1>2 DEF Tick, cursor, keyVars
<1>10. CASE Expire
  <2>1. /\ terminal_row >= VGA_HEIGHT /\ ~strayed /\ ~WillReset(running)
    BY <1>10 DEF Expire, Strays, cursor
  <2>2. PICK u \in Printers : WillReset(u)
    BY <2>1, Zenon DEF RowReturns
  <2>3. u # running
    BY <2>1, <2>2
  <2> QED BY <1>10, <2>2, <2>3 DEF Expire, Load, WillReset, TypeOK
<1>3. ASSUME KeyPress
      PROVE  Interrupted /\ UNCHANGED <<pc, ch>>
  BY <1>3 DEF KeyPress
<1>4. CASE KeyEcho
  <2>1. NextRow(terminal_row) < VGA_HEIGHT /\ NextRow(terminal_row) \in Nat
    BY NextRowOnScreen DEF TypeOK
  <2>2. terminal_row' = terminal_row
    BY <1>4, <2>1, ScreenSize DEF KeyEcho
  <2> QED BY <1>1, <1>3, <1>4, <2>2 DEF KeyEcho, Strays
<1>5. CASE KeyBackspace
  <2>1. PICK s \in Coloured \cup {<<0, 0>>} :
          /\ s[1] < terminal_row \/ (s[1] = terminal_row /\ s[2] < terminal_col)
          /\ terminal_row' = s[1]
    BY <1>5 DEF KeyBackspace
  <2>2. s[1] \in Nat
    BY TerminalAssumption
  <2>3. terminal_row >= VGA_HEIGHT
    BY <2>1, <2>2, ScreenSize DEF TypeOK
  <2> QED BY <1>1, <1>3, <1>5, <2>3 DEF KeyBackspace, Strays
<1>6. CASE KeyEdit
  BY <1>6, ScreenSize DEF KeyEdit
<1>7. CASE KeyEscape
  BY <1>1, <1>3, <1>7 DEF KeyEscape, cursor
<1>8. CASE RestoreRow
  <2>1. terminal_row' = saved_row
    BY <1>8 DEF RestoreRow, Strays
  <2> QED BY <2>1, ScreenSize DEF SavedOnScreen, TypeOK
<1>9. CASE RestoreCol
  <2>1. UNCHANGED <<terminal_row, strayed, pc, ch, eax>>
    BY <1>9 DEF RestoreCol
  <2> QED BY <2>1 DEF RowReturns, WillReset
<1> QED
  BY <1>2, <1>4, <1>5, <1>6, <1>7, <1>8, <1>9, <1>10

-----------------------------------------------------------------------------

\* A printer that is alone and does not promise to reset the row is on the screen.
LEMMA AloneRow ==
    ASSUME TypeOK, RowReturns, NEW t \in Printers, Knows(t), ~WillReset(t)
    PROVE  strayed \/ terminal_row < VGA_HEIGHT
<1>1. \A u \in Printers : ~WillReset(u)
  BY DEF Knows, WillReset
<1>2. strayed \/ ~(terminal_row >= VGA_HEIGHT)
  BY <1>1 DEF RowReturns
<1> QED BY <1>2, ScreenSize DEF TypeOK

\* What a lone printer knows is kept by its own steps.
LEMMA PrinterKnows ==
    ASSUME TypeOK, RowReturns, AloneKnows, NEW t \in Printers,
           terminal_write_char(t)
    PROVE  AloneKnows'
<1>1. CASE Begin(t)
  <2>1. SUFFICES ASSUME \A u \in Printers : pc[u] \in {"idle", "gone"}
                 PROVE  Knows(t)'
    BY <1>1 DEF Begin, AloneKnows
  <2> QED BY <1>1, <2>1 DEF Begin, Knows, Wrapping, TypeOK, keyVars, cursor, Chars
<1>2. CASE ~Begin(t)
  <2>1. running = t /\ alone' = alone
    BY <1>2 DEF terminal_write_char, LoadCol, TestCol, ZeroCol, LoadRow, AddRow,
         StoreRow, LoadTest, TestRow, SetRow, ArgRow, ArgCol, terminal_put_char,
         LoadInc, AddInc, StoreInc, others, Step
  <2>2. SUFFICES ASSUME Knows(t) PROVE Knows(t)'
    BY <2>1 DEF AloneKnows, Knows
  <2>3. ~WillReset(t) => strayed \/ terminal_row < VGA_HEIGHT
    BY <2>2, AloneRow
  <2> USE <2>2, ScreenSize
      DEF Knows, Wrapping, TypeOK, Step, Load, cursor, args, others, keyVars
  <2>4. CASE LoadCol(t)
    BY <2>4 DEF LoadCol
  <2>5. CASE TestCol(t)
    BY <2>5, <2>3 DEF TestCol, WillReset
  <2>6. CASE ZeroCol(t)
    BY <2>6 DEF ZeroCol
  <2>7. CASE LoadRow(t)
    BY <2>7 DEF LoadRow
  <2>8. CASE AddRow(t)
    BY <2>8 DEF AddRow
  <2>9. CASE StoreRow(t)
    BY <2>9 DEF StoreRow, Strays
  <2>10. CASE LoadTest(t)
    BY <2>10 DEF LoadTest
  <2>11. CASE TestRow(t)
    BY <2>11 DEF TestRow, AfterRow, Chars
  <2>12. CASE SetRow(t)
    BY <2>12 DEF SetRow, Strays, AfterRow, Chars
  <2>13. CASE ArgRow(t)
    BY <2>13 DEF ArgRow
  <2>14. CASE ArgCol(t)
    BY <2>14 DEF ArgCol
  <2>15. CASE terminal_put_char(t)
    BY <2>15 DEF terminal_put_char
  <2>16. CASE LoadInc(t)
    BY <2>16 DEF LoadInc
  <2>17. CASE AddInc(t)
    BY <2>17 DEF AddInc
  <2>18. CASE StoreInc(t)
    BY <2>18 DEF StoreInc
  <2> QED
    BY <1>2, <2>4, <2>5, <2>6, <2>7, <2>8, <2>9, <2>10, <2>11, <2>12, <2>13, <2>14, <2>15, <2>16, <2>17, <2>18
       DEF terminal_write_char
<1> QED BY <1>1, <1>2

\* Nobody is alone after an interrupt, nor while ESC puts the window back.
LEMMA InterruptKnows ==
    ASSUME AloneKnows,
           \/ Tick \/ Expire \/ KeyEcho \/ KeyBackspace \/ KeyEdit
           \/ KeyEscape \/ RestoreRow \/ RestoreCol
    PROVE  alone' = {}
<1>1. CASE RestoreRow \/ RestoreCol
  BY <1>1 DEF RestoreRow, RestoreCol, AloneKnows, Knows
<1>2. CASE Tick \/ Expire \/ KeyEcho \/ KeyBackspace \/ KeyEdit \/ KeyEscape
  BY <1>2 DEF Tick, Expire, KeyEcho, KeyBackspace, KeyEdit, KeyEscape, KeyPress, Interrupted
<1> QED BY <1>1, <1>2

\* The window is saved on the screen only.
LEMMA SavedStep ==
    ASSUME TypeOK, SavedOnScreen, Next
    PROVE  SavedOnScreen'
<1>1. CASE KeyEdit
  <2>1. terminal_row \in Nat
    BY DEF TypeOK
  <2> QED BY <1>1, <2>1, SavedRange DEF KeyEdit, SavedOnScreen
<1>2. CASE ~KeyEdit
  <2>1. saved_row' = saved_row
    BY <1>2 DEF Next, terminal_write_char, Begin, LoadCol, TestCol, ZeroCol, LoadRow,
         AddRow, StoreRow, LoadTest, TestRow, SetRow, ArgRow, ArgCol,
         terminal_put_char, LoadInc, AddInc, StoreInc, others, keyVars, Tick, Expire,
         KeyEcho, KeyBackspace, KeyEscape, RestoreRow, RestoreCol
  <2> QED BY <2>1 DEF SavedOnScreen
<1> QED BY <1>1, <1>2

\* Inv holds before the first character.
LEMMA InvInit == Init => Inv
<1> SUFFICES ASSUME Init PROVE Inv
  OBVIOUS
<1>1. PICK s \in Starts : terminal_row = s[1] /\ terminal_col = s[2]
  BY DEF Init
<1>2. s[1] \in 0 .. VGA_HEIGHT - 1 /\ s[2] \in 0 .. VGA_WIDTH
  BY TerminalAssumption
<1>3. terminal_row \in Nat /\ terminal_row < VGA_HEIGHT
      /\ terminal_col \in Nat /\ terminal_col < 65536
  BY <1>1, <1>2, ScreenSize
<1>4. TypeOK
  <2>1. Texts \in [Printers -> Nat] /\ MaxKeys \in Nat
    BY TerminalAssumption
  <2>2. strayed \in BOOLEAN
    BY Zenon DEF Init
  <2>3. running \in Printers
    BY TerminalAssumption DEF Init, Runnable
  <2> QED
    BY <1>3, <2>1, <2>2, <2>3, ScreenSize DEF Init, TypeOK, Steps, Live, Chars
<1>5. SavedOnScreen /\ AloneKnows
  BY ScreenSize DEF Init, SavedOnScreen, AloneKnows
<1>6. RowReturns
  BY <1>3, ScreenSize DEF RowReturns
<1> QED BY <1>4, <1>5, <1>6 DEF Inv

\* Inv is kept by every step.
LEMMA InvNext == Inv /\ [Next]_vars => Inv'
<1> SUFFICES ASSUME Inv, [Next]_vars PROVE Inv'
  OBVIOUS
<1> USE DEF Inv
<1>1. ASSUME NEW t \in Printers, terminal_write_char(t)
      PROVE  Inv'
  <2>1. Next
    BY <1>1 DEF Next
  <2> QED BY <1>1, <2>1, PrinterType, SavedStep, PrinterRow, PrinterKnows
<1>2. CASE \/ Tick \/ Expire \/ KeyEcho \/ KeyBackspace \/ KeyEdit
           \/ KeyEscape \/ RestoreRow \/ RestoreCol
  <2>1. Next
    BY <1>2 DEF Next
  <2>2. AloneKnows'
    BY <1>2, InterruptKnows DEF AloneKnows
  <2> QED BY <1>2, <2>1, <2>2, InterruptType, SavedStep, InterruptRow
<1>3. CASE UNCHANGED vars
  BY <1>3 DEF vars, TypeOK, SavedOnScreen, RowReturns, WillReset, AloneKnows, Knows
<1> QED BY <1>1, <1>2, <1>3 DEF Next

\* Whatever the printers and the keyboard handler do to each other, a row below
\* the screen is always about to be reset, for every number of printers.
THEOREM CursorHeals == Spec => []RowReturns
<1>1. Inv => RowReturns
  BY DEF Inv
<1> QED BY <1>1, InvInit, InvNext, PTL DEF Spec

\* terminal_write_char, when nothing disturbs it, writes inside the screen,
\* whatever earlier races have left in the cursor.
THEOREM LoneCharacterOnScreen == Spec => []AloneOnScreen
<1>1. Inv => AloneOnScreen
  BY DEF Inv, AloneKnows, Knows, AloneOnScreen
<1> QED BY <1>1, InvInit, InvNext, PTL DEF Spec

\* Positions, registers and steps keep their ranges.
THEOREM CursorTypes == Spec => []TypeOK
<1>1. Inv => TypeOK
  BY DEF Inv
<1> QED BY <1>1, InvInit, InvNext, PTL DEF Spec
=============================================================================
