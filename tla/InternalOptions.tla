--------------------------- MODULE InternalOptions ---------------------------
(***************************************************************************)
(* parse_internal_options and get_internal_options_value of              *)
(* framework/wazuh/configuration.py: the value of option high.low read   *)
(* from local_internal_options.conf, which overrides internal_options.conf.*)
(*                                                                         *)
(* A file is abstracted to whether it exists and to the value it gives    *)
(* the option (NoOption when it has none); a value is its text: digits    *)
(* and the number they spell, or text that is not all digits.            *)
(***************************************************************************)
EXTENDS Integers

CONSTANTS
    NoOption    \* model value: RawConfigParser.get raises NoOptionError

DigitText(n) == [isdigit |-> TRUE, n |-> n]
NonDigitText == [isdigit |-> FALSE, n |-> 0]

OptionResult(code, value) == [error |-> code, value |-> value]

\* Fault variant of ParseInternalOptions: internal_options.conf read before
\* the local file.
ParseInternalOptionsGlobalFirst(internalExists, localExists, localVal, globalVal) ==
    IF ~internalExists THEN OptionResult(1107, NoOption)
    ELSE IF globalVal # NoOption THEN OptionResult(0, globalVal)
    ELSE IF localExists /\ localVal # NoOption THEN OptionResult(0, localVal)
    ELSE OptionResult(1108, NoOption)

\* parse_internal_options(high_name, low_name): 1107 without
\* internal_options.conf; the local file's value if it exists and has the
\* option (NoOptionError is passed over); else the global file's value, or
\* 1108 when it has none either.
ParseInternalOptions(internalExists, localExists, localVal, globalVal) ==
    IF ~internalExists THEN OptionResult(1107, NoOption)
    ELSE IF localExists /\ localVal # NoOption THEN OptionResult(0, localVal)
    ELSE IF globalVal # NoOption THEN OptionResult(0, globalVal)
    ELSE OptionResult(1108, NoOption)

\* get_internal_options_value(high_name, low_name, max, min): the option
\* must be all digits (1109) and within [min, max] (1110).
GetInternalOptionsValue(internalExists, localExists, localVal, globalVal, max, min) ==
    LET p == ParseInternalOptions(internalExists, localExists, localVal, globalVal)
    IN IF p.error # 0 THEN p
       ELSE IF ~p.value.isdigit THEN OptionResult(1109, NoOption)
       ELSE IF p.value.n < min \/ p.value.n > max THEN OptionResult(1110, NoOption)
       ELSE OptionResult(0, p.value.n)

=============================================================================
