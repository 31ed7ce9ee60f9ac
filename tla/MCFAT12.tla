------------------------------- MODULE MCFAT12 -----------------------------
(* An instance of FAT12 for TLC: one name is a prefix of the other, files  *)
(* are empty or take one or two of three clusters, the table takes two      *)
(* sectors and the directory three: the first ends in front of the size of  *)
(* entry 0, the second in front of the first cluster of entry 1.            *)
EXTENDS FAT12

TwoNames == {<<"a">>, <<"a", "b">>}
=============================================================================
