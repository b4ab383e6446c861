----------------------------- MODULE WdbPaging -----------------------------
(***************************************************************************)
(* The paging of WazuhDBConnection.execute (framework/wazuh/wdb.py): a     *)
(* select query is split into requests of at most request_slice rows,     *)
(* because one answer of the wdb socket holds at most max_size bytes.     *)
(* The query's own "limit" and "offset" are stripped and replaced by one  *)
(* "limit step offset off" per request.                                   *)
(*                                                                         *)
(* A table is abstracted to its rows 0 .. total-1 in the order the query   *)
(* returns them; a request "limit k offset o" answers the rows o .. o+k-1  *)
(* that exist.                                                             *)
(***************************************************************************)
EXTENDS Naturals, Sequences, SequencesExt

CONSTANTS
    RequestSlice,  \* request_slice of the connection
    MaxRows,       \* largest table
    MaxOffset,     \* largest "offset" in a query
    MaxLimit,      \* largest "limit" in a query (0: no limit clause)
    MaxSize        \* max_size of the connection, in units of answer length

ASSUME RequestSlice \in Nat \ {0} /\ MaxRows \in Nat /\ MaxOffset \in Nat
       /\ MaxLimit \in Nat /\ MaxSize \in Nat

\* Python's range(start, stop, step) for step > 0.
PyRange(start, stop, step) ==
    LET count == IF stop > start THEN (stop - start + step - 1) \div step ELSE 0
    IN [i \in 1..count |-> start + (i - 1) * step]

\* The answer of wdb to "... limit k offset o" on a table of total rows.
Rows(total, o, k) ==
    LET last == IF o + k < total THEN o + k ELSE total
    IN IF o < last THEN [j \in 1..(last - o) |-> o + j - 1] ELSE <<>>

\* step = limit if limit < self.request_slice and limit > 0 else
\* self.request_slice
Step(limit) ==
    IF limit < RequestSlice /\ limit > 0 THEN limit ELSE RequestSlice

\* Fault variant of Execute: the range of starts stops one row short.
ExecuteShortRange(total, offset, lim) ==
    LET limit  == IF lim # 0 THEN lim ELSE total
        step   == Step(limit)
        starts == PyRange(offset, limit + offset - 1, step)
    IN FlattenSeq([i \in DOMAIN starts |-> Rows(total, starts[i], step)])

\* WazuhDBConnection.execute(query) for a select query without count:
\* total from the count(*) query, one request per start of the range.
Execute(total, offset, lim) ==
    LET limit  == IF lim # 0 THEN lim ELSE total
        step   == Step(limit)
        starts == PyRange(offset, limit + offset, step)
    IN FlattenSeq([i \in DOMAIN starts |-> Rows(total, starts[i], step)])

\* Length of the wdb socket's answer "ok [row, ...]" to a request of n rows
\* whose text takes rs units each; the envelope takes 5.
AnswerLen(n, rs) == 5 + n * rs

\* __send(msg): recv(max_size) returns at most MaxSize units of the answer.
\* A JSON array cut short does not parse, so json.loads raises ValueError
\* instead of returning part of the rows.
Send(total, o, k, rs) ==
    LET r == Rows(total, o, k)
    IN IF AnswerLen(Len(r), rs) > MaxSize
       THEN [raised |-> "ValueError", rows |-> <<>>]
       ELSE [raised |-> "none", rows |-> r]

\* Execute with each request answered through __send: the first answer
\* that does not parse ends the call with its exception.
ExecuteSend(total, offset, lim, rs) ==
    LET limit   == IF lim # 0 THEN lim ELSE total
        step    == Step(limit)
        starts  == PyRange(offset, limit + offset, step)
        answers == [i \in DOMAIN starts |-> Send(total, starts[i], step, rs)]
    IN IF \E i \in DOMAIN answers : answers[i].raised # "none"
       THEN [raised |-> "ValueError", rows |-> <<>>]
       ELSE [raised |-> "none",
             rows |-> FlattenSeq([i \in DOMAIN answers |-> answers[i].rows])]

\* What the query asks for: the rows from offset on, at most lim of them
\* (no bound when the query has no limit).
Requested(total, offset, lim) ==
    Rows(total, offset, IF lim # 0 THEN lim ELSE total)

-----------------------------------------------------------------------------
(* Every query is evaluated once: the table and the query are chosen in    *)
(* the initial state.                                                      *)
VARIABLES total, offset, lim

vars == <<total, offset, lim>>

Init == /\ total \in 0..MaxRows
        /\ offset \in 0..MaxOffset
        /\ lim \in 0..MaxLimit
Next == UNCHANGED vars
Spec == Init /\ [][Next]_vars

Result == Execute(total, offset, lim)

\* No row the query asks for is lost or fetched twice by the split into
\* requests: the rows asked for come first, in order, and none repeats.
FetchCoversRequest ==
    /\ IsPrefix(Requested(total, offset, lim), Result)
    /\ \A i, j \in DOMAIN Result : i < j => Result[i] < Result[j]

\* The result is exactly what the query asks for: never more rows than
\* its limit.
FetchWithinLimit == Result = Requested(total, offset, lim)

=============================================================================
