------------------------------ MODULE JsonText ------------------------------
(***************************************************************************)
(* JSON values, and the length of the text that json_dumps with the flag   *)
(* JSON_COMPACT gives for one (jansson; msg-json.c).                       *)
(*                                                                         *)
(* A value is a record whose one field says its kind: num, str (its        *)
(* bytes), arr or obj.  The length of a value in a value is the parameter  *)
(* json_sub, to which a configuration gives JsonLen.                       *)
(***************************************************************************)
EXTENDS Integers, Sequences, FiniteSets

CONSTANTS
    KeyLen,              \* characters in the name of a field
    json_sub(_)          \* JsonLen, of a value in a value

ASSUME JsonAssumption == KeyLen \in Nat \ {0}

Num(n) == [num |-> n]
Str(s) == [str |-> s]
Arr(s) == [arr |-> s]
Obj(f) == [obj |-> f]

IsArr(v) == DOMAIN v = {"arr"}

\* An object without fields.
NoFields == [k \in {} |-> {}]

\* The order in which jansson's iterator visits the keys of an object, each once.
Visited(keys) ==
    CHOOSE q \in [1 .. Cardinality(keys) -> keys] :
        \A k \in keys : \E i \in DOMAIN q : \A j \in DOMAIN q : q[j] = k <=> j = i

Digits[n \in Nat] == IF n < 10 THEN 1 ELSE 1 + Digits[n \div 10]

NumberLen(n) == IF n < 0 THEN 1 + Digits[-n] ELSE Digits[n]

\* The sums of the first n lengths.
Sums(lens) ==
    LET upto[n \in 0 .. Len(lens)] == IF n = 0 THEN 0 ELSE upto[n - 1] + lens[n]
    IN  upto

\* What is between brackets, each item with a comma, of which the last has none.
Bracketed(lens) == IF Len(lens) = 0 THEN 2 ELSE 1 + Sums(lens)[Len(lens)]

\* Characters that are escaped in a string only make the text longer.
JsonLen(v) ==
    CASE DOMAIN v = {"num"} -> NumberLen(v.num)
      [] DOMAIN v = {"str"} -> 2 + Len(v.str)
      [] DOMAIN v = {"arr"} ->
            Bracketed([i \in DOMAIN v.arr |-> json_sub(v.arr[i]) + 1])
      [] DOMAIN v = {"obj"} ->
            LET keys == Visited(DOMAIN v.obj)
            IN  Bracketed([i \in DOMAIN keys |->
                             KeyLen + 3 + json_sub(v.obj[keys[i]]) + 1])
=============================================================================
