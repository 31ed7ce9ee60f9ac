------------------------------ MODULE MCConsole ----------------------------
(* An instance of Console for TLC.                                         *)
EXTENDS Console

\* An empty line and each of the commands.
SomeLines ==
    {<<>>, <<"test">>, <<"clear">>, <<"ls">>, <<"get-time">>,
     <<"read", SPACE, "a">>, <<"delete", SPACE, "a">>, <<"write", SPACE, "a">>}

SomeLetters == {"a", "write", SPACE}

\* No answer, a text, and a message without a newline.
SomeReplies == {<<>>, <<"b", NEWLINE>>, <<"b">>}

\* 0, 7 and 59 in two decimal digits.
SomeRegisters == {0, 7, 89}
=============================================================================
