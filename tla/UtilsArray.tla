----------------------------- MODULE UtilsArray -----------------------------
(***************************************************************************)
(* sort_array of framework/wazuh/utils.py for an array of dictionaries,   *)
(* the shape its callers pass: the checks of order, allowed_sort_fields   *)
(* and sort_by, and Python 2's sorted() with a key tuple of o.get(a) for  *)
(* the sort_by fields.  sorted() is a stable sort, also with              *)
(* reverse=True; under Python 2 None is below every number.               *)
(***************************************************************************)
EXTENDS Naturals, Sequences, SequencesExt

CONSTANTS
    Fields,     \* keys the dictionaries may have
    Values,     \* their values: positive numbers
    Orders,     \* order arguments, as the caller writes them
    None        \* model value: Python's None

ASSUME Values \subseteq Nat \ {0}

LowerOrder(o) == IF o = "DESC" THEN "desc" ELSE IF o = "ASC" THEN "asc" ELSE o

\* An element of the array: a dictionary over some of the fields.
Item == UNION {[S -> Values] : S \in SUBSET Fields}

\* The result of sort_array: the array, or the WazuhException it raises.
Ok(v) == [error |-> 0, value |-> v]
Error(code) == [error |-> code, value |-> None]

\* key=lambda o: tuple(o.get(a) for a in sort_by)
KeyOf(o, sortBy) ==
    [i \in DOMAIN sortBy |-> IF sortBy[i] \in DOMAIN o THEN o[sortBy[i]] ELSE None]

\* Python 2 compares None below any number; tuples compare left to right.
Rank(v) == IF v = None THEN 0 ELSE v

KeyLess(k1, k2) ==
    \E i \in DOMAIN k1 : /\ Rank(k1[i]) < Rank(k2[i])
                         /\ \A j \in 1..(i - 1) : Rank(k1[j]) = Rank(k2[j])

\* a goes strictly before b in sorted(..., reverse=desc).
Before(a, b, sortBy, desc) ==
    IF desc THEN KeyLess(KeyOf(b, sortBy), KeyOf(a, sortBy))
    ELSE KeyLess(KeyOf(a, sortBy), KeyOf(b, sortBy))

\* sorted(seq, key, reverse=desc): the head is put before the first element
\* of the sorted tail that does not go strictly before it, so elements of
\* equal key keep their order.
RECURSIVE Sorted(_, _, _)
Sorted(seq, sortBy, desc) ==
    IF seq = <<>> THEN <<>>
    ELSE LET x    == Head(seq)
             rest == Sorted(Tail(seq), sortBy, desc)
             i    == SelectInSeq(rest, LAMBDA e : ~Before(e, x, sortBy, desc))
         IN IF i = 0 THEN Append(rest, x) ELSE InsertAt(rest, i, x)

\* sort_array(array, sort_by, order, allowed_sort_fields) on dictionaries:
\* an empty array is returned as is; a bad order raises 1402; a sort field
\* outside allowed_sort_fields, or missing from the first element, raises
\* 1403; without sort_by a list of dictionaries raises 1404. An empty
\* sortBy is sort_by=[]; the default None acts the same unless
\* allowed_sort_fields is given, where set(None) raises TypeError, which
\* the model leaves out.
SortArray(array, sortBy, order, allowed) ==
    IF array = <<>> THEN Ok(array)
    ELSE IF LowerOrder(order) \notin {"asc", "desc"} THEN Error(1402)
    ELSE IF allowed # {} /\ ~(ToSet(sortBy) \subseteq allowed) THEN Error(1403)
    ELSE IF sortBy = <<>> THEN Error(1404)
    ELSE IF ~(ToSet(sortBy) \subseteq DOMAIN array[1]) THEN Error(1403)
    ELSE Ok(Sorted(array, sortBy, LowerOrder(order) = "desc"))

=============================================================================
