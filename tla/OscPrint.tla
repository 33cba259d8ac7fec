------------------------------- MODULE OscPrint -------------------------------
(***************************************************************************)
(* oscpp/print.hpp: operator<< is a reader that drops nothing and writes   *)
(* what it gets.  Its recursion over bundles and arrays is the one over    *)
(* their streams.  The text is a sequence of tokens; spaces and line ends  *)
(* between them are left out, indentation is not.  A tag the server does   *)
(* not know ("?") is never written by the client.                          *)
(***************************************************************************)
EXTENDS OscServer

VARIABLE out            \* what has been printed, or Null: the caller reads itself

kDefaultIndentWidth == 4

IndentFlat(depth) == IF depth = 0 THEN 0 ELSE kDefaultIndentWidth    \* mutant: no inc()

(* inc(), once for every bundle around.                                    *)
Indent(depth) == depth * kDefaultIndentWidth

(* An element is read before any of it is printed: where that throws, the  *)
(* text stays as it is.                                                    *)
Show(text, token) == out' = IF ok' THEN Append(text, token) ELSE text

BeginPrint(n) ==
  /\ Begin(n)
  /\ Show(<< >>, <<result'.tag, Indent(0), result'.value>>)

PrintPacket ==
  /\ NextPacket
  /\ Show(out, <<result'.tag, Indent(Len(bundles)), result'.value>>)

PrintBundleEnd ==
  /\ LeaveBundle
  /\ Show(out, <<"end", Indent(Len(bundles) - 1), << >> >>)

(***************************************************************************)
(* The label of an argument is printed before the argument is read (the    *)
(* operands of << from left to right, as of C++17): an exception leaves    *)
(* the label without its value.  Of a blob its size is shown, which is its *)
(* first word.                                                             *)
(***************************************************************************)
PrintArg ==
  LET value == IF tag = "b" THEN <<Head(result'.value)>> ELSE result'.value IN
  /\ ReadArgument
  /\ out' = Append(out, <<tag, IF ok' THEN value ELSE << >> >>)

PrintArray == ReadArray /\ out' = Append(out, <<tag, << >> >>)

PrintArgsEnd ==
  /\ LeaveArguments
  /\ IF Len(message) > 1 THEN Show(out, <<"]", << >> >>) ELSE UNCHANGED out

PrintStep ==
  /\ out # Null
  /\ \/ PrintPacket
     \/ PrintBundleEnd
     \/ PrintArg
     \/ PrintArray
     \/ PrintArgsEnd
=============================================================================
