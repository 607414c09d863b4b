------------------------------ MODULE MCValues ------------------------------
(***************************************************************************)
(* The instances of Objects and of ReplyParsers for TLC, side by side: a   *)
(* run fills a Dict or reads a reply, and the other is left as it was.     *)
(***************************************************************************)
EXTENDS Objects, ReplyParsers

IntObject(n) == [Int |-> n]
StrObject(n) == [Str |-> n]
DoubleObject(n) == [Double |-> n]
ListObject(s) == [List |-> s]

\* Every type, lists of which one is the beginning of the other, dicts of which
\* only the values differ, and the objects that operator< does not order.
MCKeys ==
    {NoneObject, IntObject(0), IntObject(1), DoubleObject(0), DoubleObject(1),
     DoubleObject(NaN), StrObject(0),
     ListObject(<<>>), ListObject(<<IntObject(0)>>),
     ListObject(<<NoneObject>>), ListObject(<<IntObject(0), NoneObject>>),
     [Dict |-> <<<<StrObject(0), IntObject(0)>>>>],
     [Dict |-> <<<<StrObject(0), IntObject(1)>>>>]}

MCObjects == {IntObject(0), StrObject(0)}

\* The keys and what is in them.
MCObject == MCKeys \cup MCObjects

MCPorts == {1, 10, 905, 9050, 65535}
MCTails == {<<>>, <<<<"x">>>>, <<<<"x", "=", "1">>, <<"PROGRESS=", "1", "0", "0">>>>}
MCBeginnings == {<<"NOTICE", " ", "BOOTSTRAP", " ">>}
MCSymbols == {"NOTICE", "PROGRESS=", "1", "0", " "}
MCOthers == {"x"}

Init == DictInit /\ ReplyInit

Next ==
    \/ DictNext /\ text = <<>> /\ UNCHANGED replyVars
    \/ ReplyNext /\ dict = <<>> /\ UNCHANGED dictVars

Spec == Init /\ [][Next]_<<dict, shadow, text, means>>
=============================================================================
