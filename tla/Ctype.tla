------------------------------- MODULE Ctype --------------------------------
(***************************************************************************)
(* Characters and strings, as the string functions of hlibc see them.  A   *)
(* character is its ASCII code, a string the sequence of its characters    *)
(* without the zero that ends it, and At reads it the way C does, from     *)
(* index 0 to the zero.                                                    *)
(***************************************************************************)
EXTENDS Integers, Sequences, Functions, TLC

\* The characters of ASCII in rows, each with the code of its first.
Rows ==
  {<<32, " !">>, <<35, "#$%&'()">>, <<42, "*+,-./">>, <<48, "0123456789">>,
   <<58, ":;<=>?@">>, <<65, "ABCDEFGHIJKLMNOPQRSTUVWXYZ">>, <<91, "[\\]^_">>,
   <<97, "abcdefghijklmnopqrstuvwxyz">>, <<123, "{|}~">>}

Letter(s, k) == SubSeq(s, k, k)
Letters(s) == {Letter(s, k) : k \in 1..Len(s)}
RowOf(l) == CHOOSE row \in Rows : l \in Letters(row[2])
CodeIn(row, l) == row[1] - 1 + CHOOSE k \in 1..Len(row[2]) : Letter(row[2], k) = l

\* The codes as a function (which @@ makes TLC compute once).
Ascii == [l \in UNION {Letters(row[2]) : row \in Rows} |-> CodeIn(RowOf(l), l)] @@ <<>>

Str(s) == [k \in 1..Len(s) |-> Ascii[Letter(s, k)]]
Chars(s) == Range(Str(s))

\* s[i], where the zero that ends the string may be read too.
At(s, i) == IF i < Len(s) THEN s[i + 1] ELSE 0

-----------------------------------------------------------------------------
\* isdigit, isxdigit, toupper and tolower of libc.
Digit  == 48..57
XDigit == Digit \cup 65..70 \cup 97..102
ToUpper(c) == IF c \in Chars("abcdefghijklmnopqrstuvwxyz") THEN c - 32 ELSE c
ToLower(c) == IF c \in Chars("ABCDEFGHIJKLMNOPQRSTUVWXYZ") THEN c + 32 ELSE c

\* isalpha_table and isalnum_table.
IsAlpha == Chars("ABCDEFGHIJKLMNOPQRSTUVWXYZabcdefghijklmnopqrstuvwxyz")
IsAlnum == IsAlpha \cup Chars("0123456789")
=============================================================================
