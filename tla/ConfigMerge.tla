---------------------------- MODULE ConfigMerge -----------------------------
(***************************************************************************)
(* How framework/wazuh/configuration.py turns an agent.conf into JSON:    *)
(* _agentconf2json merges the <agent_config> blocks that carry the same   *)
(* filters, _conf2json walks the sections of a block, _insert adds one    *)
(* option to a section and _insert_section adds a section to the result,  *)
(* both following the conf_sections table (duplicate sections become a    *)
(* list of blocks, simple ones are merged option by option, list options  *)
(* accumulate their values).                                              *)
(*                                                                         *)
(* The XML is abstracted to what these functions look at: a block's       *)
(* filters (a dict compared by ==) are a model value, a section is its    *)
(* name and its options in document order, an option is its name and its *)
(* text (None for an element without text).  The text of a syscheck      *)
(* <directories> is the sequence of its comma-separated pieces, which is  *)
(* what _read_option splits it into.  A JSON value is a record: isList    *)
(* says whether the code holds a Python list, items are the values.       *)
(* get_ossec_conf reads the same blocks as the <ossec_config> roots of    *)
(* ossec.conf, where filters play no part.                                 *)
(***************************************************************************)
EXTENDS Integers, Sequences, SequencesExt

CONSTANTS
    Filters,        \* distinct filter dicts of <agent_config>
    SectionNames,   \* section tags in the documents
    OptionNames,    \* option tags
    Texts,          \* texts of an option
    DirTexts,       \* texts of a <directories>: sequences of path pieces
    None,           \* model value: Python's None (no text, no argument)
    Raised,         \* model value: an exception left _agentconf2json
    Offsets,        \* offset arguments of get_agent_conf
    Limits,         \* limit arguments of get_agent_conf
    MaxBlocks, MaxSections, MaxOptions

\* The rows of conf_sections for the sections below: its type and its
\* list options.
ConfSections ==
    [s \in {"syscheck", "localfile"} |->
        IF s = "syscheck" THEN [type |-> "simple", listOptions |-> {"directories"}]
        ELSE [type |-> "duplicate", listOptions |-> {}]]

ASSUME /\ DirTexts \subseteq Seq(Texts \cup {""}) \ {<<>>}
       /\ Offsets \subseteq Int /\ Limits \subseteq Int

\* The text of an option element, by tag.
ElementTexts(o) == IF o = "directories" THEN DirTexts \cup {None} ELSE Texts \cup {None}

Option == UNION {[name : {o}, value : ElementTexts(o)] : o \in OptionNames}
Section == [name : SectionNames, options : BoundedSeq(Option, MaxOptions)]
Block == [filters : Filters, sections : BoundedSeq(Section, MaxSections)]

EmptyDict == [o \in {} |-> <<>>]

\* dst[key] = v on a Python dict.
Put(dst, key, v) == [k \in DOMAIN dst \cup {key} |-> IF k = key THEN v ELSE dst[k]]

Scalar(v) == [isList |-> FALSE, items |-> <<v>>]

IsListOption(sec, opt) ==
    sec \in DOMAIN ConfSections /\ opt \in ConfSections[sec].listOptions

\* _insert(json_dst, section_name, option, value)
Insert(dst, sec, opt, v) ==
    IF v = None THEN dst
    ELSE IF opt \in DOMAIN dst
         THEN IF dst[opt].isList
              THEN Put(dst, opt, [dst[opt] EXCEPT !.items = Append(@, v)])
              ELSE Put(dst, opt, Scalar(v))
    ELSE IF IsListOption(sec, opt)
         THEN Put(dst, opt, [isList |-> TRUE, items |-> <<v>>])
         ELSE Put(dst, opt, Scalar(v))

\* The loop over section_data of a simple section already in json_dst:
\* list options present on both sides are extended, the others replaced.
MergeOptions(old, data, sec) ==
    [o \in DOMAIN old \cup DOMAIN data |->
        IF o \notin DOMAIN data THEN old[o]
        ELSE IF o \in DOMAIN old /\ IsListOption(sec, o)
             THEN [old[o] EXCEPT !.items = @ \o data[o].items]
             ELSE data[o]]

\* Fault variant of InsertSection: a simple section seen again replaces the
\* earlier one.
InsertSectionReplace(dst, sec, data) ==
    IF sec \in DOMAIN ConfSections /\ ConfSections[sec].type = "duplicate"
    THEN IF sec \in DOMAIN dst
         THEN Put(dst, sec, [dst[sec] EXCEPT !.items = Append(@, data)])
         ELSE Put(dst, sec, [isList |-> TRUE, items |-> <<data>>])
    ELSE IF sec \in DOMAIN ConfSections /\ ConfSections[sec].type = "simple"
    THEN Put(dst, sec, Scalar(data))
    ELSE dst

\* _insert_section(json_dst, section_name, section_data); a section that
\* conf_sections does not list is dropped.
InsertSection(dst, sec, data) ==
    IF sec \in DOMAIN ConfSections /\ ConfSections[sec].type = "duplicate"
    THEN IF sec \in DOMAIN dst
         THEN Put(dst, sec, [dst[sec] EXCEPT !.items = Append(@, data)])
         ELSE Put(dst, sec, [isList |-> TRUE, items |-> <<data>>])
    ELSE IF sec \in DOMAIN ConfSections /\ ConfSections[sec].type = "simple"
    THEN IF sec \in DOMAIN dst
         THEN Put(dst, sec, Scalar(MergeOptions(dst[sec].items[1], data, sec)))
         ELSE Put(dst, sec, Scalar(data))
    ELSE dst

\* _read_option(section_name, opt): the values it yields for _insert. A
\* syscheck <directories> is split on ',' into one {'path': piece.strip()}
\* per piece (a dict, so never dropped); without text, None.split raises.
\* Any other option yields its text.
ReadOption(sec, opt) ==
    IF sec = "syscheck" /\ opt.name = "directories"
    THEN IF opt.value = None THEN Raised
         ELSE [i \in DOMAIN opt.value |-> [path |-> opt.value[i]]]
    ELSE <<opt.value>>

\* _conf2json(src_xml, dst_json): each section's options are inserted into
\* a fresh section_json, which is then inserted into dst_json. An exception
\* of _read_option leaves the whole call.
Conf2Json(dst, blk) ==
    LET ins(sec, d, opt) ==
            IF d = Raised \/ ReadOption(sec, opt) = Raised THEN Raised
            ELSE FoldLeft(LAMBDA dd, v : Insert(dd, sec, opt.name, v), d, ReadOption(sec, opt))
        sectionJson(s) == FoldLeft(LAMBDA d, opt : ins(s.name, d, opt), EmptyDict, s.options)
        addSection(d, s) ==
            IF d = Raised \/ sectionJson(s) = Raised THEN Raised
            ELSE InsertSection(d, s.name, sectionJson(s))
    IN IF dst = Raised THEN Raised ELSE FoldLeft(addSection, dst, blk.sections)

\* _agentconf2json(xml_conf): a block whose filters were seen before is
\* merged into that entry's config, any other starts a new entry.
AgentConf2Json(doc) ==
    LET merge(out, blk) ==
            LET previous == SelectInSeq(out, LAMBDA item : item.filters = blk.filters)
                config == Conf2Json(IF previous # 0 THEN out[previous].config ELSE EmptyDict, blk)
            IN IF config = Raised THEN Raised
               ELSE IF previous # 0
               THEN [out EXCEPT ![previous].config = config]
               ELSE Append(out, [filters |-> blk.filters, config |-> config])
        step(out, blk) == IF out = Raised THEN Raised ELSE merge(out, blk)
    IN FoldLeft(step, <<>>, doc)

\* _ossecconf2json(xml_conf): every <ossec_config> root into one dict.
OssecConf2Json(doc) == FoldLeft(Conf2Json, EmptyDict, doc)

\* The outcome of a call: a value, or the code of the WazuhException raised.
Ok(v) == [error |-> 0, value |-> v]
Error(code) == [error |-> code, value |-> None]

\* Fault variant of GetOssecConf: the two KeyError codes swapped.
GetOssecConfSwapped(doc, section, field) ==
    LET data == OssecConf2Json(doc)
    IN IF data = Raised THEN Error(1101)
       ELSE IF section = None THEN Ok(data)
       ELSE IF section \notin DOMAIN data
            THEN Error(IF section \notin DOMAIN ConfSections THEN 1106 ELSE 1102)
       ELSE IF field = None THEN Ok(data[section])
       ELSE IF data[section].isList \/ field \notin DOMAIN data[section].items[1]
            THEN Error(1103)
       ELSE Ok(data[section].items[1][field])

\* get_ossec_conf(section, field): a parse failure is WazuhException(1101);
\* a missing section is 1102 when conf_sections does not know it and 1106
\* otherwise; a field that is missing, or asked of a duplicate section
\* (a list, which a string cannot index), is 1103.
GetOssecConf(doc, section, field) ==
    LET data == OssecConf2Json(doc)
    IN IF data = Raised THEN Error(1101)
       ELSE IF section = None THEN Ok(data)
       ELSE IF section \notin DOMAIN data
            THEN Error(IF section \notin DOMAIN ConfSections THEN 1102 ELSE 1106)
       ELSE IF field = None THEN Ok(data[section])
       ELSE IF data[section].isList \/ field \notin DOMAIN data[section].items[1]
            THEN Error(1103)
       ELSE Ok(data[section].items[1][field])

\* utils.cut_array(array, offset, limit): array[offset:offset + limit],
\* the whole array when it is empty or limit is 0.
CutArray(array, offset, limit) ==
    IF array = <<>> \/ limit = 0 THEN Ok(array)
    ELSE IF offset < 0 THEN Error(1400)
    ELSE IF limit < 1 THEN Error(1401)
    ELSE Ok(SubSeq(array, offset + 1, IF offset + limit < Len(array) THEN offset + limit ELSE Len(array)))

\* get_agent_conf(group_id, offset, limit) of an existing group's agent.conf.
GetAgentConf(doc, offset, limit) ==
    LET data == AgentConf2Json(doc)
        cut  == CutArray(data, offset, limit)
    IN IF data = Raised THEN Error(1101)
       ELSE IF cut.error # 0 THEN cut
       ELSE Ok([totalItems |-> Len(data), items |-> cut.value])

-----------------------------------------------------------------------------
(* The reference: what the merged configuration of a filter holds, stated *)
(* over the whole document at once.                                        *)

\* The sections named s of all blocks whose filters are in fs, in document
\* order.
Occurrences(doc, fs, s) ==
    FlattenSeq([i \in DOMAIN doc |->
        IF doc[i].filters \in fs
        THEN SelectSeq(doc[i].sections, LAMBDA x : x.name = s)
        ELSE <<>>])

\* The values option o contributes in a sequence of options of section sec:
\* each path of a syscheck <directories>, else its text when it has one.
ValuesOf(sec, opts, o) ==
    FlattenSeq([k \in DOMAIN opts |->
        IF opts[k].name # o \/ opts[k].value = None THEN <<>>
        ELSE IF sec = "syscheck" /\ o = "directories"
             THEN [i \in DOMAIN opts[k].value |-> [path |-> opts[k].value[i]]]
             ELSE <<opts[k].value>>])

\* One option dict: a list option keeps every value, another its last one.
DictOf(sec, opts) ==
    [o \in {o \in OptionNames : ValuesOf(sec, opts, o) # <<>>} |->
        IF IsListOption(sec, o) THEN [isList |-> TRUE, items |-> ValuesOf(sec, opts, o)]
        ELSE Scalar(Last(ValuesOf(sec, opts, o)))]

RefConfig(doc, fs) ==
    [s \in {s \in DOMAIN ConfSections : Occurrences(doc, fs, s) # <<>>} |->
        LET occ == Occurrences(doc, fs, s)
        IN IF ConfSections[s].type = "duplicate"
           THEN [isList |-> TRUE, items |-> [k \in DOMAIN occ |-> DictOf(s, occ[k].options)]]
           ELSE Scalar(DictOf(s, FlattenSeq([k \in DOMAIN occ |-> occ[k].options])))]

\* One entry per distinct filters, in the order they first appear.
RefAgentConf(doc) ==
    LET firsts == {i \in DOMAIN doc : \A j \in 1..(i - 1) : doc[j].filters # doc[i].filters}
        order == SetToSortSeq(firsts, <)
    IN [k \in DOMAIN order |-> [filters |-> doc[order[k]].filters,
                                config  |-> RefConfig(doc, {doc[order[k]].filters})]]

\* A document that cannot be read: a syscheck <directories> without text.
Unreadable(doc) ==
    \E i \in DOMAIN doc : \E sec \in Range(doc[i].sections) :
        /\ sec.name = "syscheck"
        /\ [name |-> "directories", value |-> None] \in Range(sec.options)

\* The page of a list the API documents: the items from position offset
\* on, at most limit of them; a limit of 0 means no cut; a negative offset
\* (1400) or limit (1401) is rejected when there is something to cut.
RefPage(list, offset, limit) ==
    IF list # <<>> /\ limit # 0 /\ offset < 0 THEN Error(1400)
    ELSE IF list # <<>> /\ limit < 0 THEN Error(1401)
    ELSE LET keep(i) == limit = 0 \/ (offset < i /\ i <= offset + limit)
             kept == SelectSeq([i \in DOMAIN list |-> i], keep)
         IN Ok([totalItems |-> Len(list), items |-> [k \in DOMAIN kept |-> list[kept[k]]]])

-----------------------------------------------------------------------------
(* Every document is converted once: it is chosen in the initial state.    *)
VARIABLE doc

Init == doc \in BoundedSeq(Block, MaxBlocks)
Next == UNCHANGED doc
Spec == Init /\ [][Next]_doc

\* What get_ossec_conf(section, field) is documented to return, with the
\* errors exception.py names: "Invalid section" (1102) for a name
\* conf_sections does not know, "Requested section not present" (1106),
\* "Invalid field in section" (1103).
RefOssecConf(section, field) ==
    LET conf == RefConfig(doc, Filters)
    IN IF section = None THEN Ok(conf)
       ELSE IF section \notin DOMAIN conf
            THEN Error(IF section \in DOMAIN ConfSections THEN 1106 ELSE 1102)
       ELSE IF field = None THEN Ok(conf[section])
       ELSE IF ConfSections[section].type = "duplicate" \/ field \notin DOMAIN conf[section].items[1]
            THEN Error(1103)
       ELSE Ok(conf[section].items[1][field])

\* get_agent_conf's JSON holds, for each distinct set of filters, every
\* value of a list option in document order (each path of a syscheck
\* <directories>) and the last value of any other option, across all
\* blocks and repeated sections; get_agent_conf pages that list as the API
\* documents, and both readers fail with 1101 only on an unreadable
\* document.
AgentConfMerged ==
    \A o \in Offsets, l \in Limits :
        GetAgentConf(doc, o, l) =
            IF Unreadable(doc) THEN Error(1101) ELSE RefPage(RefAgentConf(doc), o, l)

\* get_ossec_conf returns the configuration merged over every
\* <ossec_config> root, a section of it, or a field of a simple section,
\* and the documented error for every other section and field.
OssecConfAnswers ==
    \A section \in SectionNames \cup {None}, field \in OptionNames \cup {None} :
        GetOssecConf(doc, section, field) =
            IF Unreadable(doc) THEN Error(1101) ELSE RefOssecConf(section, field)

=============================================================================
