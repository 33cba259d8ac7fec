------------------------------ MODULE OscWords ------------------------------
(***************************************************************************)
(* What an OSC packet is made of, and how large it is: oscpp/util.hpp.     *)
(*                                                                         *)
(* Everything in a packet is a multiple of four bytes long, except the     *)
(* type tags: a packet is a row of four-byte words.                        *)
(***************************************************************************)
EXTENDS Integers, Sequences

CONSTANTS
  Strings,              \* the strings that are used, addresses among them
  Strlen                \* Strlen[s]: their lengths

ASSUME StringsAssumption == Strlen \in [Strings -> Nat]

-----------------------------------------------------------------------------
(* oscpp/util.hpp *)
Align(n) == ((n + 3) \div 4) * 4

SizeString(s) == Align(Strlen[s] + 1)
SizeBundle == 8 + 8
SizeMessage(addr, numArgs) == SizeString(addr) + Align(numArgs + 2)

-----------------------------------------------------------------------------
(***************************************************************************)
(* Words.  A size is written in network order and an offset in that of the *)
(* host: two different words.  Tags are characters, four to a word.        *)
(***************************************************************************)
Size(n) == <<"size", n>>
Offset(n) == <<"offset", n>>
Stale == <<"stale">>
NUL == "NUL"
ZeroWord == <<"chars", NUL, NUL, NUL, NUL>>

BundleWords == << <<"#bundle", 1>>, <<"#bundle", 2>> >>
TimeWords == << <<"time", 1>>, <<"time", 2>> >>
StringWords(s) == [i \in 1 .. (SizeString(s) \div 4) |-> <<"string", s, i>>]
ZeroWords(n) == [i \in 1 .. (n \div 4) |-> ZeroWord]

(* Words of arguments: numbers in network order, and text or the bytes of  *)
(* a blob.                                                                 *)
NumberWords == {"int32", "float32"} \X Int
TextWords == ({"string"} \X Strings \X Nat) \cup ({"blob"} \X Nat)
=============================================================================
