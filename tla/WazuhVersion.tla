---------------------------- MODULE WazuhVersion ----------------------------
(***************************************************************************)
(* The version comparison of utils.WazuhVersion (framework/wazuh/utils.py) *)
(* checked against the order of versions it is meant to implement:        *)
(* major, minor, patch compared in turn, then a release above rc above     *)
(* beta above alpha, then the pre-release number.                         *)
(*                                                                         *)
(* A parsed version keeps the regex groups as the code does: major, minor  *)
(* and patch are single digits (the pattern is \d), the pre-release tag is *)
(* "" when absent, and the pre-release number is the string of digits,    *)
(* modelled as a sequence of digits because the code compares it as a     *)
(* string.                                                                 *)
(***************************************************************************)
EXTENDS Naturals, Sequences

CONSTANTS Digits, Tags, DevNumbers

ASSUME /\ Digits \subseteq 0..9
       /\ Tags \subseteq {"", "alpha", "beta", "rc"}
       /\ DevNumbers \subseteq Seq(0..9)

\* Versions as released: "v3.2.1", or "v3.2.1-rc2" with a pre-release number.
Version == {v \in [mayor : Digits, minor : Digits, patch : Digits,
                   dev : Tags, devVer : DevNumbers] :
                (v.dev = "") <=> (v.devVer = <<>>)}

\* ord(dev[0]) of the tag: 'a' < 'b' < 'r'.
FirstChar(t) == CASE t = "alpha" -> 97 [] t = "beta" -> 98 [] t = "rc" -> 114

\* Python's str < str on strings of digits: lexicographic.
RECURSIVE StrLess(_, _)
StrLess(s, t) ==
    IF t = <<>> THEN FALSE
    ELSE IF s = <<>> THEN TRUE
    ELSE IF Head(s) # Head(t) THEN Head(s) < Head(t)
    ELSE StrLess(Tail(s), Tail(t))

\* WazuhVersion.__ge__: its if/elif chain, in order.
Ge(a, b) ==
    IF a.mayor < b.mayor THEN FALSE
    ELSE IF a.minor < b.minor THEN FALSE
    ELSE IF a.patch < b.patch THEN FALSE
    ELSE IF a.dev # "" /\ b.dev = "" THEN FALSE
    ELSE IF a.dev # "" /\ b.dev # ""
         THEN ~ \/ FirstChar(a.dev) < FirstChar(b.dev)
                \/ FirstChar(a.dev) = FirstChar(b.dev) /\ StrLess(a.devVer, b.devVer)
    ELSE TRUE

\* WazuhVersion.__to_string and __eq__: equal printed forms.
Eq(a, b) == a = b

Lt(a, b) == ~Ge(a, b)
Gt(a, b) == Ge(a, b) /\ ~Eq(a, b)

-----------------------------------------------------------------------------
(* The reference order.                                                    *)

TagRank(t) == CASE t = "alpha" -> 1 [] t = "beta" -> 2 [] t = "rc" -> 3 [] t = "" -> 4

\* The number a digit string stands for.
RECURSIVE NumOf(_)
NumOf(s) == IF s = <<>> THEN 0 ELSE NumOf(SubSeq(s, 1, Len(s) - 1)) * 10 + s[Len(s)]

Key(v) == <<v.mayor, v.minor, v.patch, TagRank(v.dev), NumOf(v.devVer)>>

RECURSIVE TupleLess(_, _)
TupleLess(x, y) ==
    IF x = <<>> THEN FALSE
    ELSE IF Head(x) # Head(y) THEN Head(x) < Head(y)
    ELSE TupleLess(Tail(x), Tail(y))

RefGe(a, b) == ~TupleLess(Key(a), Key(b))

-----------------------------------------------------------------------------
(* Every pair of versions is compared once: the two versions are chosen in *)
(* the initial state and never change.                                     *)
VARIABLES x, y

Init == x \in Version /\ y \in Version
Next == UNCHANGED <<x, y>>
Spec == Init /\ [][Next]_<<x, y>>

\* WazuhVersion.__ge__ (used by __lt__, __gt__, __le__) agrees with the
\* version order: x >= y exactly when x is not older than y.
GeIsVersionOrder == Ge(x, y) <=> RefGe(x, y)

=============================================================================
