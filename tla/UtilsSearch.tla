---------------------------- MODULE UtilsSearch ----------------------------
(***************************************************************************)
(* search_array and get_values of framework/wazuh/utils.py: the search   *)
(* behind the "search" parameter of the framework's listings.            *)
(*                                                                         *)
(* A Python object is a record of one shape for all kinds, so that TLC    *)
(* can compare any two: a string (kind "str", its characters in text), a *)
(* list (kind "list", its elements in items) or a dict (kind "dict", its *)
(* <<key, value>> pairs in items, in iteration order).  Objects without  *)
(* to_dict are taken as they are, as get_values does after its except.   *)
(***************************************************************************)
EXTENDS Naturals, Sequences, SequencesExt

CONSTANTS
    CharLower   \* function: character -> its lower() for the upper-case ones

Str(t)    == [kind |-> "str",  text |-> t,   items |-> <<>>]
List(s)   == [kind |-> "list", text |-> <<>>, items |-> s]
Dict(kvs) == [kind |-> "dict", text |-> <<>>, items |-> kvs]

\* str(obj).lower() of a string.
LowerText(t) ==
    [i \in DOMAIN t |-> IF t[i] \in DOMAIN CharLower THEN CharLower[t[i]] ELSE t[i]]

\* Python's "t in v" on strings.
IsSubstring(t, v) ==
    \E i \in 0..(Len(v) - Len(t)) : SubSeq(v, i + 1, i + Len(t)) = t

\* Fault variant of GetValues: the fields filter passed down to the values
\* of the dictionary as well.
RECURSIVE GetValuesFieldsDeep(_, _)
GetValuesFieldsDeep(o, fields) ==
    CASE o.kind = "list"
           -> FoldLeft(LAMBDA acc, x : acc \o GetValuesFieldsDeep(x, {}), <<>>, o.items)
      [] o.kind = "dict"
           -> FoldLeft(LAMBDA acc, kv :
                          IF fields = {} \/ kv[1] \in fields
                          THEN acc \o GetValuesFieldsDeep(kv[2], fields) ELSE acc,
                       <<>>, o.items)
      [] OTHER -> <<LowerText(o.text)>>

\* get_values(o, fields): the lowered strings of a list's elements, and of
\* a dict's values under the keys in fields (all keys when fields is None
\* or empty), each element or value searched without fields; any other
\* object gives str(obj).lower().
RECURSIVE GetValues(_, _)
GetValues(o, fields) ==
    CASE o.kind = "list"
           -> FoldLeft(LAMBDA acc, x : acc \o GetValues(x, {}), <<>>, o.items)
      [] o.kind = "dict"
           -> FoldLeft(LAMBDA acc, kv :
                          IF fields = {} \/ kv[1] \in fields
                          THEN acc \o GetValues(kv[2], {}) ELSE acc,
                       <<>>, o.items)
      [] OTHER -> <<LowerText(o.text)>>

\* search_array(array, text, negation, fields): the items, in order, with
\* a value that contains text.lower(), or with none when negation is set.
SearchArray(array, text, negation, fields) ==
    LET hit(item) == \E i \in DOMAIN GetValues(item, fields) :
                        IsSubstring(LowerText(text), GetValues(item, fields)[i])
    IN SelectSeq(array, LAMBDA item : IF negation THEN ~hit(item) ELSE hit(item))

=============================================================================
