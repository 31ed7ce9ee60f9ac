---------------------------- MODULE Exceptions -----------------------------
(***************************************************************************)
(* What softwear_interrupt_handler sees of an exception: the frame that    *)
(* the processor, the isr<n> stubs and isr_common_stub push, read through  *)
(* the struct registers_t (idt/ISR).                                       *)
(***************************************************************************)
EXTENDS Integers, Sequences

Vectors == 0 .. 31

\* The stubs built with ISR_ERRCODE: the processor pushes an error code.
ErrorCodeVectors == {8, 10, 11, 12, 13, 14, 17, 21, 30}

\* The registers the frame saves, lowest address (pushed last) first.
Pusha == <<"edi", "esi", "ebp", "esp", "ebx", "edx", "ecx", "eax">>

\* The stack from the pointer handed to the handler upwards.  Saved register
\* contents are named, the interrupt number and the error code are values.
Frame(vector, error) ==
    Pusha \o <<vector, IF vector \in ErrorCodeVectors THEN error ELSE 0>>
          \o <<"eip", "cs", "eflags">>

\* The fields of registers_t in declaration order, each 32 bits wide.
registers_t ==
    <<"ds">> \o Pusha \o <<"int_no", "err_code", "eip", "cs", "eflags", "ss">>

FieldIndex(name) == CHOOSE i \in 1 .. Len(registers_t) : registers_t[i] = name

\* reg->int_no
int_no(vector, error) == Frame(vector, error)[FieldIndex("int_no")]

\* Whether the handler kills the process; otherwise it stops the machine.
Kills(vector, error) == int_no(vector, error) = 0
=============================================================================
