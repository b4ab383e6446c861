----------------------------- MODULE MC_Helpers -----------------------------
(***************************************************************************)
(* The framework's helpers that compute a result from their input, each   *)
(* checked against its reference for every input of a bounded set: the   *)
(* initial state chooses a wdb query (WdbPaging), the arguments of a     *)
(* sort_array call (UtilsArray), a get_files request to the internal     *)
(* socket with the clients' answers (InternalSocket), an agent.conf /     *)
(* ossec.conf document (ConfigMerge), a query string for wdb (WdbQuery), *)
(* one invocation of cluster_control (ClusterControl), a search_array    *)
(* call (UtilsSearch), a file mode (UtilsFiles) or the internal options  *)
(* files (InternalOptions), and nothing changes after it.                *)
(***************************************************************************)
EXTENDS WdbPaging, UtilsArray, WdbQuery, WazuhException,
        ClusterControl, UtilsSearch, UtilsFiles, InternalOptions

CONSTANTS Clients, Master, MaxListLen
CONSTANTS Filters, SectionNames, OptionNames, Texts, DirTexts, Raised,
          Offsets, Limits, MaxBlocks, MaxSections, MaxOptions

VARIABLES
    connected, answer, command, nodeList,   \* of InternalSocket
    array,    \* the arguments of sort_array
    sortBy,
    order,
    allowed,
    doc,      \* of ConfigMerge
    query,    \* the query string given to WazuhDBConnection.execute
    cli,      \* configuration, arguments and framework answer of cluster_control
    searchArray, searchText, searchFields,  \* the arguments of search_array
    mode,     \* the st_mode given to filemode
    opt       \* the option files and bounds of get_internal_options_value

helperVars == <<total, offset, lim, array, sortBy, order, allowed,
               connected, answer, command, nodeList, doc, query, cli,
               searchArray, searchText, searchFields, mode, opt>>

Socket == INSTANCE InternalSocket
Conf == INSTANCE ConfigMerge

\* <directories>a</directories> and <directories>a,</directories>, for a
\* text a of Texts.  The texts are model values: a string and a sequence
\* of strings cannot be told apart by TLC's comparison.
MC_DirTexts == LET a == CHOOSE t \in Texts : TRUE IN {<<a>>, <<a, "">>}

\* Offsets and limits below, at and past the ends of a two-entry list.
MC_Offsets == {-1, 0, 1, 2}
MC_Limits == {-1, 0, 1}

\* Query symbols: a word with an upper-case form, its lower form, the
\* quote and the space.
MC_LowerCase == [SQL |-> "sql"]
MC_Symbols == {"SQL", "sql", Quote, " "}
MaxQueryLen == 5

CliRuns == [conf : Confs, command : Commands, filterStatus : {NoArg, "Active"},
            health : HealthArgs, answer : Answers]
NoCli == [conf |-> "master", command |-> "none", filterStatus |-> NoArg,
          health |-> "health", answer |-> "ok"]

NoRequest == /\ connected = {} /\ answer = [c \in Clients |-> "ok"]
             /\ command = "get_nodes" /\ nodeList = <<>>

\* sort_by lists over the fields, and up to three dictionaries to sort.
MC_SortBys == {<<>>, <<"a">>, <<"b">>, <<"a", "b">>, <<"b", "a">>}
MC_Allowed == {{}, {"a"}, {"a", "b"}}
MaxItems == 3

NoSort == /\ array = <<>> /\ sortBy = <<>> /\ order = "asc" /\ allowed = {}

\* search_array inputs: items are dicts over the keys "a" and "b" whose
\* values are a string, a list of one string, or a dict {"c": string}; the
\* texts differ in case from the values, and one is empty.
MC_CharLower == [A |-> "a", B |-> "b"]
SearchLeaves == {Str(<<"A">>), Str(<<"b">>)}
SearchValues == SearchLeaves \cup {List(<<Str(<<"A">>)>>), Dict(<<<<"c", Str(<<"A">>)>>>>)}
SearchItems ==
    {Dict(<<>>)}
      \cup {Dict(<<<<k, v>>>>) : k \in {"a", "b"}, v \in SearchValues}
      \cup {Dict(<<<<"a", v>>, <<"b", w>>>>) : v, w \in SearchValues}
SearchTexts == {<<"a">>, <<"B">>, <<>>}
SearchFields == {{}, {"a"}, {"b"}}
NoSearch == searchArray = <<>> /\ searchText = <<>> /\ searchFields = {}

\* Modes: a regular file with every combination of the twelve permission
\* bits, and each other type of the table, and a socket, with none, all,
\* or some of them.  The type bits and the permission bits are apart, so
\* the type character does not depend on the permissions nor the reverse.
FileTypes == {S_IFLNK, S_IFREG, S_IFBLK, S_IFDIR, S_IFCHR, S_IFIFO}
S_IFSOCK == 49152  \* 0o140000
Modes == {S_IFREG + p : p \in 0..4095}
           \cup {t + p : t \in FileTypes \cup {S_IFSOCK}, p \in {0, 2501, 4095}}
NoMode == mode = 0   \* no file: the other inputs' states

\* Option values: none, text that is not a number, or the numbers 0..3,
\* against the bounds min 1, max 2.
OptValues == {NoOption, NonDigitText} \cup {DigitText(n) : n \in 0..3}
OptRuns == [internal : BOOLEAN, local : BOOLEAN, localVal : OptValues,
            globalVal : OptValues, max : {2}, min : {1}]
NoOpt == [internal |-> TRUE, local |-> FALSE, localVal |-> NoOption,
          globalVal |-> DigitText(1), max |-> 2, min |-> 1]

NoQuery == total = 0 /\ offset = 0 /\ lim = 0

\* Each disjunct chooses the input of one helper, and gives every other
\* variable its idle value.  ConfigMerge's documents, by far the most
\* numerous, come last.
NoDoc      == doc = <<>>
NoText     == query = <<>>
NoCall     == cli = NoCli
NoOptFiles == opt = NoOpt

HelpersInit ==
    \/ /\ Init
       /\ NoSort /\ NoRequest /\ NoDoc /\ NoText /\ NoCall
       /\ NoSearch /\ NoMode /\ NoOptFiles
    \/ /\ array \in BoundedSeq(Item, MaxItems) /\ sortBy \in MC_SortBys
       /\ order \in Orders /\ allowed \in MC_Allowed
       /\ NoQuery /\ NoRequest /\ NoDoc /\ NoText /\ NoCall
       /\ NoSearch /\ NoMode /\ NoOptFiles
    \/ /\ Socket!Init /\ command = "get_files"
       /\ NoQuery /\ NoSort /\ NoDoc /\ NoText /\ NoCall
       /\ NoSearch /\ NoMode /\ NoOptFiles
    \/ /\ query \in BoundedSeq(MC_Symbols, MaxQueryLen)
       /\ NoQuery /\ NoSort /\ NoRequest /\ NoDoc /\ NoCall
       /\ NoSearch /\ NoMode /\ NoOptFiles
    \/ /\ cli \in CliRuns
       /\ NoQuery /\ NoSort /\ NoRequest /\ NoDoc /\ NoText
       /\ NoSearch /\ NoMode /\ NoOptFiles
    \/ /\ searchArray \in BoundedSeq(SearchItems, MaxItems - 1)
       /\ searchText \in SearchTexts /\ searchFields \in SearchFields
       /\ NoQuery /\ NoSort /\ NoRequest /\ NoDoc /\ NoText
       /\ NoCall /\ NoMode /\ NoOptFiles
    \/ /\ mode \in Modes
       /\ NoQuery /\ NoSort /\ NoRequest /\ NoDoc /\ NoText
       /\ NoCall /\ NoSearch /\ NoOptFiles
    \/ /\ opt \in OptRuns
       /\ NoQuery /\ NoSort /\ NoRequest /\ NoDoc /\ NoText
       /\ NoCall /\ NoSearch /\ NoMode
    \/ /\ Conf!Init
       /\ NoQuery /\ NoSort /\ NoRequest /\ NoText /\ NoCall
       /\ NoSearch /\ NoMode /\ NoOptFiles

HelpersSpec == HelpersInit /\ [][UNCHANGED helperVars]_helperVars

\* The internal socket's get_files answers for each node asked about (see
\* InternalSocket's GetFilesAnswersEachNode).
GetFilesAnswered == Socket!GetFilesAnswersEachNode

\* get_agent_conf merges and pages agent.conf as documented (see
\* ConfigMerge's AgentConfMerged).
AgentConfMerged == Conf!AgentConfMerged

\* get_ossec_conf answers every section and field as documented (see
\* ConfigMerge's OssecConfAnswers).
OssecConfAnswers == Conf!OssecConfAnswers

\* __query_lower lowers exactly the characters outside single quotes: the
\* to_lower flag it carries through the loop is off after an odd number
\* of quotes, and a closing quote turns it back on.
QueryLowered == QueryLower(query) = QueryLowerRef(query)

\* The codes of the WazuhExceptions the helpers above raise on their
\* input: sort_array's, __query_input_validation's 2004, the 3004 of
\* cluster_control for a node type other than master and client, and
\* get_internal_options_value's 1107 to 1110.
RaisedCodes ==
    ({SortArray(array, sortBy, order, allowed).error}
       \cup (IF ExecuteCheck(query).raised = "WazuhException" THEN {2004} ELSE {})
       \cup (IF cli.conf = "worker" THEN {3004} ELSE {})
       \cup {GetInternalOptionsValue(opt.internal, opt.local, opt.localVal,
                                     opt.globalVal, opt.max, opt.min).error}) \ {0}

\* Every WazuhException these helpers raise can be built: its code is a key
\* of ERRORS, so the constructor does not raise KeyError in its place and
\* the caller sees the error it was meant to see.
ErrorsDefined ==
    \A c \in RaisedCodes : NewWazuhException(c, NoMessage, FALSE).raised = "WazuhException"

\* Spec 6 (exit codes of the CLI front-end): cluster_control exits with
\* status 1 when the cluster configuration is unusable, and, when it calls
\* the framework (get_agents, get_nodes, get_healthcheck), with status 1
\* exactly when the answer is an error: a dict with "err", an exception,
\* or a value that is not a dict.
CliExitStatus ==
    LET r == Main(cli.conf, cli.command, cli.filterStatus, cli.health, cli.answer)
    IN /\ cli.conf \in {"unreadable", "no_node_type", "worker"} => r.status = 1
       /\ cli.conf \in {"master", "client"} /\ r.called # "none"
             => (r.status = 1 <=> cli.answer # "ok")

\* The strings get_values finds in an object, as a set: the lowered
\* strings at its leaves, under any key of a nested dict.
RECURSIVE Leaves(_)
Leaves(o) ==
    IF o.kind = "str" THEN {LowerText(o.text)}
    ELSE UNION {Leaves(IF o.kind = "list" THEN o.items[i] ELSE o.items[i][2])
                  : i \in DOMAIN o.items}

SearchHit(item, text, fields) ==
    \E i \in DOMAIN item.items :
        /\ fields = {} \/ item.items[i][1] \in fields
        /\ \E v \in Leaves(item.items[i][2]) : IsSubstring(LowerText(text), v)

\* search_array as its callers use it: the items, in their order, in which
\* the text occurs, ignoring case, in the value of one of the given top
\* level fields (any field when none is given), at any depth of nested
\* lists and dicts; with negation, exactly the other items.
SearchArrayFinds ==
    /\ SearchArray(searchArray, searchText, FALSE, searchFields)
         = SelectSeq(searchArray, LAMBDA x : SearchHit(x, searchText, searchFields))
    /\ SearchArray(searchArray, searchText, TRUE, searchFields)
         = SelectSeq(searchArray, LAMBDA x : ~SearchHit(x, searchText, searchFields))

\* What "ls -l" shows for a mode, bit by bit: r, w, and for execute "x",
\* or the set-ID/sticky letter, lower case with execute and upper case
\* without.
Bit(m, k) == (m \div 2^k) % 2 = 1
ExecChar(m, x, special, lower, upper) ==
    IF Bit(m, special) THEN (IF Bit(m, x) THEN lower ELSE upper)
    ELSE IF Bit(m, x) THEN "x" ELSE "-"
RefTypeChar(m) ==
    CASE m \div 4096 = 10 -> "l" [] m \div 4096 = 8 -> "-" [] m \div 4096 = 6 -> "b"
      [] m \div 4096 = 4 -> "d" [] m \div 4096 = 2 -> "c" [] m \div 4096 = 1 -> "p"
      [] OTHER -> "s"
RefFilemode(m) ==
    <<RefTypeChar(m),
      IF Bit(m, 8) THEN "r" ELSE "-", IF Bit(m, 7) THEN "w" ELSE "-",
      ExecChar(m, 6, 11, "s", "S"),
      IF Bit(m, 5) THEN "r" ELSE "-", IF Bit(m, 4) THEN "w" ELSE "-",
      ExecChar(m, 3, 10, "s", "S"),
      IF Bit(m, 2) THEN "r" ELSE "-", IF Bit(m, 1) THEN "w" ELSE "-",
      ExecChar(m, 0, 9, "t", "T")>>

\* filemode writes the permissions of every mode as "ls -l" does,
\* set-user-ID, set-group-ID and sticky with and without execute included,
\* and the type of the six file types its table lists.  A socket has no
\* row in the table and its bits include S_IFREG's, so it shows as "-"
\* (listed as a hazard, not checked here).
FilemodeLikeLs ==
    mode # 0 =>
        LET f == Filemode(mode)
            r == RefFilemode(mode)
        IN /\ SubSeq(f, 2, 10) = SubSeq(r, 2, 10)
           /\ mode - (mode % 4096) \in FileTypes => f[1] = r[1]

\* get_internal_options_value returns the value local_internal_options.conf
\* gives the option when it exists and gives one, overriding
\* internal_options.conf, else the value of internal_options.conf; it
\* returns it exactly when that value is a number within [min, max].
InternalOptionChosen ==
    LET r   == GetInternalOptionsValue(opt.internal, opt.local, opt.localVal,
                                       opt.globalVal, opt.max, opt.min)
        eff == IF opt.local /\ opt.localVal # NoOption THEN opt.localVal
               ELSE opt.globalVal
        ok  == /\ opt.internal /\ eff # NoOption /\ eff.isdigit
               /\ opt.min <= eff.n /\ eff.n <= opt.max
    IN /\ r.error = 0 <=> ok
       /\ ok => r.value = eff.n
=============================================================================
