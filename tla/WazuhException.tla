--------------------------- MODULE WazuhException ---------------------------
(***************************************************************************)
(* WazuhException (framework/wazuh/exception.py): the ERRORS table, of     *)
(* which only the codes matter here, and the constructor, which looks the *)
(* code up in it.  A description is abstracted to its code, and the text *)
(* of a message to the description and the extra text it is made of.     *)
(***************************************************************************)
EXTENDS Naturals

CONSTANTS NoMessage   \* model value: extra_message=None

\* The keys of WazuhException.ERRORS, by the sections of the table.
WazuhCodes == 999..1006 \cup 1010..1014
ConfigurationCodes == 1100..1110
RuleCodes == 1200..1205
StatsCodes == 1307..1309
UtilsCodes == 1400..1404
DecoderCodes == {1500, 1501}
SyscheckCodes == 1600..1602
AgentCodes == 1700..1731
DatabaseCodes == 2000..2005
ClusterCodes == 3000..3013 \cup {3015}

\* Fault variant of ERRORS: the rows of the Utils section left out.
ERRORSWithoutUtils ==
    WazuhCodes \cup ConfigurationCodes \cup RuleCodes \cup StatsCodes
    \cup DecoderCodes \cup SyscheckCodes \cup AgentCodes \cup DatabaseCodes \cup ClusterCodes

ERRORS ==
    WazuhCodes \cup ConfigurationCodes \cup RuleCodes \cup StatsCodes \cup UtilsCodes
    \cup DecoderCodes \cup SyscheckCodes \cup AgentCodes \cup DatabaseCodes \cup ClusterCodes

\* WazuhException(code, extra_message, cmd_error).__init__: a custom
\* (cmd_error) code keeps the message as given; otherwise self.ERRORS[code]
\* is read, and a code missing from the table raises KeyError instead of
\* the exception.  The message is the description of desc (0: none) and
\* the extra text, when extra_message is not empty.
NewWazuhException(code, extra, cmdError) ==
    CASE cmdError
            -> [raised |-> "WazuhException", code |-> code,
                message |-> [desc |-> 0, extra |-> extra]]
      [] ~cmdError /\ code \notin ERRORS
            -> [raised |-> "KeyError", code |-> code,
                message |-> [desc |-> 0, extra |-> NoMessage]]
      [] ~cmdError /\ code \in ERRORS
            -> [raised |-> "WazuhException", code |-> code,
                message |-> [desc |-> code,
                             extra |-> IF extra \in {NoMessage, ""} THEN NoMessage
                                       ELSE extra]]

=============================================================================
