----------------------------- MODULE LuaValues -----------------------------
(***************************************************************************)
(* Values of the Lua interpreter as its compiler and its machine see them: *)
(* pairs of a type and what tells the values of that type apart.  Numbers  *)
(* are integers and a string is a sequence of pieces.                      *)
(***************************************************************************)
EXTENDS Integers, Sequences, SequencesExt, TLC

Nil == <<"nil", 0>>
Bool(b) == <<"boolean", IF b THEN 1 ELSE 0>>
Number(n) == <<"number", n>>
String(s) == <<"string", s>>

IsFalse(v) == v \in {Nil, Bool(FALSE)}      \* l_isfalse
IsNumber(v) == v[1] = "number"

\* The pieces of an operand of luaV_concat.
Piece(v) == IF IsNumber(v) THEN <<ToString(v[2])>> ELSE v[2]
=============================================================================
