--------------------------- MODULE InputValidator ---------------------------
(***************************************************************************)
(* InputValidator (framework/wazuh/InputValidator.py): the check of a     *)
(* group name, or of a list of them.                                      *)
(*                                                                         *)
(* A name is abstracted to its length and the position of its first       *)
(* character outside \w ([a-zA-Z0-9_]; 0 when there is none): that is all *)
(* that re.match(r"\w+") and len() look at.                               *)
(***************************************************************************)
EXTENDS Naturals, Sequences

Name(len, bad) == [len |-> len, bad |-> bad]

\* check_name(name): the match of \w+ at the start must be the whole name;
\* there is no match when the name is empty or starts outside \w.
CheckName(name) == name.len > 0 /\ name.bad = 0

\* check_length(name, length=100, func=operator.lt)
CheckLength(name) == name.len < 100

CheckSingleGroupName(name) == CheckLength(name) /\ CheckName(name)

\* group(group_name): a list is reduced with operator.mul over the verdicts
\* of its names (truthy only when all are True); reduce of an empty list
\* without an initial value raises TypeError.  A single name is checked
\* alone.
Group(groupName) ==
    IF DOMAIN groupName = DOMAIN Name(0, 0) THEN CheckSingleGroupName(groupName)
    ELSE IF groupName = <<>> THEN "TypeError"
    ELSE \A i \in DOMAIN groupName : CheckSingleGroupName(groupName[i])

=============================================================================
