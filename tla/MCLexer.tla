------------------------------ MODULE MCLexer ------------------------------
(***************************************************************************)
(* Model checking of Lexer: all short files over a few characters at a     *)
(* time, chosen so that each kind of token meets the end of the file, line *)
(* feeds, comments and characters that are no token.                       *)
(***************************************************************************)
EXTENDS Lexer

Files(characters, n) == UNION {[1..k -> characters] : k \in 0..n}

Short ==
    Files({"x", "\n", "=", "\\"}, 4) \cup Files({"x", "/", "\n", "="}, 5)
      \cup Files({"\"", "\\", "n", "\n"}, 6) \cup Files({"1", ".", "=", "x"}, 4)
      \cup Files({"'", "\\", "n", "\n"}, 4) \cup Files({"x", "NUL", " ", "\n"}, 4)
      \cup Files({"x", "\n", " "}, 6)
=============================================================================
