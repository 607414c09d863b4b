------------------------------ MODULE Objects ------------------------------
(***************************************************************************)
(* Object (src/src/common/object.cpp, include/measurement_kit/common/      *)
(* object.hpp): a value of one of six types, among them the Dict, a        *)
(* std::map from Object to Object that is ordered by Object::operator<.    *)
(* The program here keeps one Dict, fills it with an initializer list and  *)
(* by assignment, and reads it.                                            *)
(*                                                                         *)
(* An Object is a record with one field, named for its type.  A Double is  *)
(* a number or NaN; a Str stands for its place among the strings; a Dict   *)
(* is the sequence of its entries <<key, value>>.                          *)
(***************************************************************************)
EXTENDS Sequences, SequencesExt, Integers

CONSTANTS
    Object,     \* all Objects that there are
    Nesting,    \* bound: how many Objects are inside of each other
    Keys,       \* the Objects used as keys
    Values,     \* the Objects used as values
    MaxEntries  \* bound: how many entries the Dict ever has

\* enum class ObjectType.
ObjectType ==
    [None |-> 0, Dict |-> 1, Double |-> 2, Int |-> 3, List |-> 4, Str |-> 5]

NoneObject == [None |-> 0]

NaN == -1

NaNObject == [Double |-> NaN]

Atoms == {NoneObject} \cup [Double : Nat \cup {NaN}] \cup [Int : Int] \cup [Str : Nat]

\* The Objects that are in an Object.
Parts(o) ==
    CASE "List" \in DOMAIN o -> ToSet(o.List)
      [] "Dict" \in DOMAIN o -> UNION {{e[1], e[2]} : e \in ToSet(o.Dict)}
      [] OTHER -> {}

\* The Objects that are none of some Objects and have none of them in them.
Without(some) ==
    LET upto[n \in 0 .. Nesting] ==
          IF n = 0 THEN {}
          ELSE {o \in Object \ some : Parts(o) \subseteq upto[n - 1]}
    IN upto[Nesting]

\* Objects are made of Objects that were made before them.
ASSUME ObjectAssumption ==
    /\ Nesting \in Nat
    /\ NoneObject \in Object
    /\ Object \subseteq
         Atoms \cup [List : Seq(Object)] \cup [Dict : Seq(Object \X Object)]
    /\ Without({}) = Object

ASSUME DictAssumption ==
    /\ Keys \subseteq Object
    /\ Values \subseteq Object
    /\ MaxEntries \in Nat
-----------------------------------------------------------------------------
(***************************************************************************)
(* The order of Objects.  An order is the set of the pairs <<x, y>> of     *)
(* which x is lower than y.                                                *)
(***************************************************************************)

TypeOf(o) == CHOOSE t \in DOMAIN o : TRUE

\* operator< of double: NaN is lower than nothing, and nothing lower than it.
DoubleLess(a, b) == a # NaN /\ b # NaN /\ a < b

\* std::lexicographical_compare, as operator< of std::list and std::map.
LexLess(less, a, b) ==
    \E i \in 1 .. Len(b) :
        /\ i <= Len(a) + 1
        /\ \A j \in 1 .. i - 1 : <<a[j], b[j]>> \notin less /\ <<b[j], a[j]>> \notin less
        /\ i <= Len(a) => <<a[i], b[i]>> \in less

\* operator< of std::pair.
EntryOrder(less) ==
    {p \in (Object \X Object) \X (Object \X Object) :
        LET e == p[1] f == p[2] IN
        \/ <<e[1], f[1]>> \in less
        \/ <<f[1], e[1]>> \notin less /\ <<e[2], f[2]>> \in less}

\* Object::operator< of two Objects of one type, in which there are only Objects
\* that less orders.
SameTypeLess(less, x, y) ==
    CASE TypeOf(x) = "None" -> TRUE
      [] TypeOf(x) = "Dict" -> LexLess(EntryOrder(less), x.Dict, y.Dict)
      [] TypeOf(x) = "Double" -> DoubleLess(x.Double, y.Double)
      [] TypeOf(x) = "Int" -> x.Int < y.Int
      [] TypeOf(x) = "List" -> LexLess(less, x.List, y.List)
      [] TypeOf(x) = "Str" -> x.Str < y.Str

\* Object::operator< that does not order Objects of different types.
LessOfOneType(less, x, y) == TypeOf(x) = TypeOf(y) /\ SameTypeLess(less, x, y)

\* Object::operator<.
ObjectLess(less, x, y) ==
    IF TypeOf(x) # TypeOf(y) THEN ObjectType[TypeOf(x)] < ObjectType[TypeOf(y)]
    ELSE SameTypeLess(less, x, y)

\* The order that operator< gives by calling itself.
ObjectOrder ==
    LET upto[n \in 0 .. Nesting] ==
          IF n = 0 THEN {}
          ELSE {p \in Object \X Object : ObjectLess(upto[n - 1], p[1], p[2])}
    IN upto[Nesting]

Less(x, y) == <<x, y>> \in ObjectOrder
-----------------------------------------------------------------------------
(***************************************************************************)
(* The other operations of an Object.                                      *)
(***************************************************************************)

\* as_dict, as_double, and so on.
As(o, type) ==
    IF type \in DOMAIN o THEN [error |-> "NoError", value |-> o[type]]
                         ELSE [error |-> "TypeError", value |-> 0]

\* The function that ~ObjectTypeSwitch calls, of those that were registered.
Switch(o, cases, otherwise) ==
    CASE TypeOf(o) \in cases -> TypeOf(o)
      [] TypeOf(o) \notin cases /\ otherwise -> "otherwise"
      [] OTHER -> "nothing"
-----------------------------------------------------------------------------
(***************************************************************************)
(* std::map, which is not part of the repository.                          *)
(***************************************************************************)

\* lower_bound: the place of the first entry that is not lower than the key, which
\* is where a search ends whatever its way.  With NaN in a key there may be several
\* such places; this is one of them.
LowerBound(entries, key) ==
    LET notlower == {i \in DOMAIN entries : ~Less(entries[i][1], key)}
    IN IF notlower = {} THEN Len(entries) + 1
       ELSE CHOOSE i \in notlower : \A j \in notlower : i <= j

\* find: that entry, unless the key is lower than it; 0 for none.
Find(entries, key) ==
    LET i == LowerBound(entries, key) IN
    IF i <= Len(entries) /\ ~Less(key, entries[i][1]) THEN i ELSE 0

\* insert, if the map were a multimap.
InsertedAgain(entries, key, value) ==
    InsertAt(entries, LowerBound(entries, key), <<key, value>>)

\* insert, with which an initializer list fills a map: the first of two entries
\* with equivalent keys stays.  Where a key goes among keys that are both lower
\* and higher than it is up to the library; here, behind them.
Inserted(entries, key, value) ==
    IF Find(entries, key) # 0 THEN entries
    ELSE InsertAt(entries, LowerBound(entries, key), <<key, value>>)

\* operator[] and assignment.
Assigned(entries, key, value) ==
    LET i == Find(entries, key) IN
    IF i # 0 THEN [entries EXCEPT ![i][2] = value]
    ELSE Inserted(entries, key, value)
-----------------------------------------------------------------------------
VARIABLES
    dict,   \* the entries of the Dict, in their order
    shadow  \* for each key that was used, what the Dict should hold for it

dictVars == <<dict, shadow>>

Absent == [absent |-> 0]

DictInit ==
    /\ dict = <<>>
    /\ shadow = [k \in Keys |-> Absent]

\* An entry of the initializer list.
InitEntry(key, value) ==
    /\ Len(dict) < MaxEntries
    /\ dict' = Inserted(dict, key, value)
    /\ shadow' = [shadow EXCEPT ![key] = IF @ = Absent THEN value ELSE @]

\* dict[key] = value.
Assign(key, value) ==
    /\ Len(dict) < MaxEntries
    /\ dict' = Assigned(dict, key, value)
    /\ shadow' = [shadow EXCEPT ![key] = value]

\* Reading dict[key] adds a None value for a key that is not there.
Look(key) ==
    /\ Len(dict) < MaxEntries
    /\ dict' = IF Find(dict, key) # 0 THEN dict
                                     ELSE Inserted(dict, key, NoneObject)
    /\ shadow' = [shadow EXCEPT ![key] = IF @ = Absent THEN NoneObject ELSE @]

DictNext ==
    \E key \in Keys :
        \/ \E value \in Values : InitEntry(key, value) \/ Assign(key, value)
        \/ Look(key)

DictSpec == DictInit /\ [][DictNext]_dictVars
-----------------------------------------------------------------------------
Used == {k \in Keys : shadow[k] # Absent}

\* Keys in which there is no NaN.
Plain == Keys \cap Without({NaNObject})

\* Keys in which operator< is a strict order.
Ordered == Keys \cap Without({NoneObject, NaNObject})

\* The Dict holds Objects, and at most one entry for a key, unless it holds a
\* None or a key holds a NaN.
DictTypeOK ==
    /\ Len(dict) <= MaxEntries
    /\ \A i \in DOMAIN dict :
         dict[i][1] \in Keys /\ dict[i][2] \in Values \cup {NoneObject}
    /\ Used \subseteq Plain =>
         \A i, j \in DOMAIN dict :
             dict[i][1] = dict[j][1] /\ dict[i][1] \in Ordered => i = j

\* A Dict is a map: a key of any type is found with the value it was given,
\* which is of its type by as_* and by a switch, and walking through the
\* entries meets the keys in the order of operator<.  Keys with None in them,
\* which operator< orders before themselves, leave the other keys alone but are
\* not found; keys with NaN, which equals every number, may not leave them
\* alone (object.cpp:41-52, 73-145).
DictIsMap ==
    Used \subseteq Plain =>
        /\ \A k \in Ordered :
             LET i == Find(dict, k) IN
             IF k \notin Used THEN i = 0
             ELSE /\ i # 0
                  /\ dict[i] = <<k, shadow[k]>>
                  /\ \A t \in DOMAIN ObjectType :
                       LET is == TypeOf(shadow[k]) = t IN
                       /\ is = (As(dict[i][2], t).error = "NoError")
                       /\ is = (Switch(dict[i][2], {t}, TRUE) # "otherwise")
        /\ \A i, j \in DOMAIN dict : i < j => Less(dict[i][1], dict[j][1])
        /\ Find(dict, NoneObject) = 0
=============================================================================
