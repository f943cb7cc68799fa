--------------------------- MODULE MCTelnetLine ----------------------------
(***************************************************************************)
(* Short lines for TelnetLine, told apart by their first character.        *)
(***************************************************************************)
EXTENDS TelnetLine

CONSTANTS a, b

(* The empty line, lines that fit in a buffer of five, and one that does   *)
(* not.                                                                    *)
ShortTexts == {<<>>, <<a>>, <<b, a>>}
AllTexts == ShortTexts \cup {<<a, b, a, b, a>>}

(* Tenths of a second: the default, -1, and one second; and a small        *)
(* negative number, which ACE is handed as it is.                          *)
UsualTimeout == {-10, 10}
AnyTimeout == UsualTimeout \cup {-2}
===========================================================================
