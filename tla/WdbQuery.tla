------------------------------ MODULE WdbQuery ------------------------------
(***************************************************************************)
(* What WazuhDBConnection.execute (framework/wazuh/wdb.py) does to a query *)
(* before it pages it: __query_lower lowers every character outside       *)
(* single quotes, and __query_input_validation splits the lowered query   *)
(* on spaces and checks its words.                                        *)
(*                                                                         *)
(* A query is a sequence of symbols: a symbol is a word piece that lower() *)
(* maps as a whole (LowerCase gives the lower form of those that have     *)
(* one), the quote "'", the space " " or ";".  A word of the split is the *)
(* sequence of symbols between two spaces.                                *)
(***************************************************************************)
EXTENDS Naturals, Sequences, SequencesExt

CONSTANTS
    LowerCase   \* function: symbol -> its lower() for the symbols with upper case

Quote == "'"

Lower(c) == IF c \in DOMAIN LowerCase THEN LowerCase[c] ELSE c

\* Fault variant of QueryLower: a closing quote does not turn lowering back
\* on.
QueryLowerNoReset(query) ==
    LET step(acc, i) ==
            IF acc.toLower /\ i # Quote
            THEN [acc EXCEPT !.out = Append(@, Lower(i))]
            ELSE IF acc.toLower
            THEN [toLower |-> FALSE, out |-> Append(acc.out, i)]
            ELSE [acc EXCEPT !.out = Append(@, i)]
    IN FoldLeft(step, [toLower |-> TRUE, out |-> <<>>], query).out

\* __query_lower: the loop over the characters with its to_lower flag, in
\* the order of its four branches.
QueryLower(query) ==
    LET step(acc, i) ==
            IF acc.toLower /\ i # Quote
            THEN [acc EXCEPT !.out = Append(@, Lower(i))]
            ELSE IF acc.toLower /\ i = Quote
            THEN [toLower |-> FALSE, out |-> Append(acc.out, i)]
            ELSE IF ~acc.toLower /\ i # Quote
            THEN [acc EXCEPT !.out = Append(@, i)]
            ELSE [toLower |-> TRUE, out |-> Append(acc.out, i)]
    IN FoldLeft(step, [toLower |-> TRUE, out |-> <<>>], query).out

\* query.split(" "): consecutive or leading spaces give empty words.
Split(query) ==
    FoldLeft(LAMBDA ws, c : IF c = " " THEN Append(ws, <<>>)
                            ELSE [ws EXCEPT ![Len(ws)] = Append(@, c)],
             <<<<>>>>, query)

Digits == {"0", "1", "2", "3", "4", "5", "6", "7", "8", "9"}

\* str.isdigit(): a non-empty string of digits.
IsDigit(word) == word # <<>> /\ \A i \in DOMAIN word : word[i] \in Digits

\* __query_input_validation(query): the list input_val_errors is built in
\* full before it is walked, so a query with fewer words than it indexes
\* raises IndexError; otherwise the first false check raises
\* WazuhException(2004) with its text, told apart by the check's position
\* 1..5 in the list.
Validate(query) ==
    LET els   == Split(query)
        agent == els[1] = <<"agent">>
        sql   == IF agent THEN 3 ELSE 2      \* sql_first_index, 1-based
        read  == {sql, sql + 1} \cup (IF agent THEN {2} ELSE {})
        checks == <<els[sql] = <<"sql">>,
                    agent \/ els[1] = <<"global">>,
                    IF agent THEN IsDigit(els[2]) ELSE TRUE,
                    els[sql + 1] = <<"select">>,
                    ";" \notin Range(query)>>
    IN IF \E i \in read : i > Len(els) THEN [raised |-> "IndexError", check |-> 0]
       ELSE IF \A i \in 1..5 : checks[i] THEN [raised |-> "none", check |-> 0]
       ELSE [raised |-> "WazuhException",
             check  |-> CHOOSE i \in 1..5 : ~checks[i] /\ \A j \in 1..(i - 1) : checks[j]]

\* execute(query), up to the paging: validation of the lowered query.
ExecuteCheck(query) == Validate(QueryLower(query))

\* What __query_lower is documented to do: every character is lowered
\* except those inside quotes, that is after an odd number of quotes.
QueryLowerRef(query) ==
    [i \in DOMAIN query |->
        IF Len(SelectSeq(SubSeq(query, 1, i - 1), LAMBDA c : c = Quote)) % 2 = 1
        THEN query[i] ELSE Lower(query[i])]

=============================================================================
