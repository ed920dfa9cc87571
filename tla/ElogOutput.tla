----------------------------- MODULE ElogOutput -----------------------------
(***************************************************************************)
(* What easylogger/elog.c puts out: the line that elog_output packages in  *)
(* log_buf from the parts its format asks for, elog_raw, elog_hexdump, and *)
(* elog_find_lvl and elog_find_tag, which read a line again; with the      *)
(* filters of ElogFilter before it, and those by tag and keyword.          *)
(*                                                                         *)
(* log_buf is shared by all lines.  What earlier lines have left in it is  *)
(* Stale, whatever it is, and so is what a vsnprintf that fails leaves.    *)
(* Each call holds the output lock and is one step, but for elog_hexdump,  *)
(* which takes a step for each line.  One thread calls, as in main.cpp,    *)
(* and the logger has been started.                                        *)
(***************************************************************************)
EXTENDS ElogFilter, Integers, Sequences, SequencesExt

CONSTANTS UsedLevel,  \* bound: the levels that the calls use
          Message,    \* the texts that vsnprintf makes
          Keyword,    \* the keywords and ...
          Part,       \* ... the parts of tags to filter by
          Format,     \* the calls of elog_set_fmt: levels and set
          Info,       \* time, process, thread, file, function and line of a log
          Size,       \* ELOG_LINE_BUF_SIZE
          TagMax,     \* ELOG_FILTER_TAG_MAX_LEN
          KwMax,      \* ELOG_FILTER_KW_MAX_LEN
          LineNumMax, \* ELOG_LINE_NUM_MAX_LEN
          Wrap,       \* two to the sixteenth
          Dump        \* the widths and sizes for elog_hexdump

FormatIndex == {"LVL", "TAG", "TIME", "P_INFO", "T_INFO", "DIR", "FUNC", "LINE"}

ASSUME OutputAssumption ==
    /\ UsedLevel \subseteq Level
    /\ \A f \in Format : f.levels \subseteq Level /\ f.set \subseteq FormatIndex
    /\ Tag \cup Message \subseteq Seq(STRING)
    /\ \A field \in {"time", "process", "thread", "file", "function", "line"} :
          Info[field] \in Seq(STRING)
    /\ Size \in Nat \ {0, 1} /\ TagMax \in Nat \ {0} /\ KwMax \in Nat \ {0}
    /\ LineNumMax \in Nat \ {0} /\ Wrap \in Nat \ {0}
    /\ \A d \in Dump : d.width \in 0..Wrap - 1 /\ d.size \in 0..Wrap - 1

Stale == "stale"
Nul   == "NUL"
Fails == <<"no text">>     \* vsnprintf returns a negative number

VARIABLES enabledFmtSet,  \* elog.enabled_fmt_set
          filterTag,      \* filter.tag
          filterKeyword,  \* filter.keyword
          out,            \* the line in hand, with the call it is of
          dump            \* the elog_hexdump that runs

outputVars == <<vars, enabledFmtSet, filterTag, filterKeyword, out, dump>>
settings   == <<enabledFmtSet, filterTag, filterKeyword>>

Nothing == [by |-> "nobody", level |-> 0, tag |-> <<>>, text |-> <<>>, bytes |-> <<>>]
NoDump  == [on |-> FALSE, i |-> 0, width |-> 0, size |-> 0]

OutputInit ==
    /\ Init
    /\ enabledFmtSet = [l \in Level |-> {}]
    /\ filterTag = <<>> /\ filterKeyword = <<>>
    /\ out = Nothing /\ dump = NoDump

\* The last call has returned.
Idle == out = Nothing /\ ~dump.on

-----------------------------------------------------------------------------
Least(a, b) == IF a < b THEN a ELSE b
Take(s, n)  == SubSeq(s, 1, Least(n, Len(s)))

\* strstr
Found(s, part) ==
    \E i \in 0..Len(s) - Len(part) : SubSeq(s, i + 1, i + Len(part)) = part

\* elog_strcpy: copies while the line has room.
Strcpy(line, text) == line \o Take(text, Size - Len(line))

LevelInfo == <<"A", "E", "W", "I", "D", "V">>
LevelText(l) == <<LevelInfo[l + 1], "/">>

\* get_fmt_enabled
Enabled(l, set) == enabledFmtSet[l] \cap set # {}
If(c, text) == IF c THEN text ELSE <<>>

Spaces(n) == [i \in 1..n |-> " "]
Filled(tag) == tag \o Spaces(TagMax \div 2 - Least(Len(tag), TagMax \div 2))

\* Mutant: a tag that needs no filling is not set off from what follows.
TagTextFilled(tag) == Filled(tag)

\* Short tags are filled up to half the greatest length.
TagText(tag) == Append(Filled(tag), " ")

\* snprintf of the line number has room for one digit less than its size.
LineNumber == Take(Info.line, LineNumMax - 1)

\* The parts of a line before its message, in their order.
Parts(l, tag) ==
    LET on(set) == Enabled(l, set) IN
    << If(on({"LVL"}), LevelText(l)),
       If(on({"TAG"}), TagText(tag)),
       If(on({"TIME", "P_INFO", "T_INFO"}), <<"[">>),
       If(on({"TIME"}), Info.time \o If(on({"P_INFO", "T_INFO"}), <<" ">>)),
       If(on({"P_INFO"}), Info.process \o If(on({"T_INFO"}), <<" ">>)),
       If(on({"T_INFO"}), Info.thread),
       If(on({"TIME", "P_INFO", "T_INFO"}), <<"]", " ">>),
       If(on({"DIR", "FUNC", "LINE"}), <<"(">>),
       If(on({"DIR"}), Info.file \o (IF on({"FUNC"}) THEN <<":">> ELSE If(on({"LINE"}), <<" ">>))),
       If(on({"LINE"}), LineNumber \o If(on({"FUNC"}), <<" ">>)),
       If(on({"FUNC"}), Info.function),
       If(on({"DIR", "FUNC", "LINE"}), <<")">>) >>

\* They are copied one after the other.
Copied(parts) ==
    LET line[i \in 0..Len(parts)] == IF i = 0 THEN <<>> ELSE Strcpy(line[i - 1], parts[i])
    IN  line[Len(parts)]

Header(l, tag) == Copied(Parts(l, tag))

\* log_buf after vsnprintf(log_buf + Len(h), Size - Len(h), ...): what has no
\* room is cut, and the last byte is then null.
LogBuf(h, text) ==
    LET room == Size - Len(h)
        s == IF text = Fails \/ room = 0 THEN <<>> ELSE Append(Take(text, room - 1), Nul)
    IN  [i \in 1..Size |-> IF i <= Len(h) THEN h[i]
                           ELSE IF i <= Len(h) + Len(s) THEN s[i - Len(h)] ELSE Stale]

\* The length of header and text, or of log_buf when that is too small.
LengthOf(h, text) ==
    IF text # Fails /\ Len(h) + Len(text) <= Size THEN Len(h) + Len(text) ELSE Size

\* Mutant: no room is reserved for the newline sign.
LengthWithoutNewline(h, text) == LengthOf(h, text)

LogLength(h, text) == Least(LengthOf(h, text), Size - 1)

Line(h, text) == SubSeq(LogBuf(h, text), 1, LogLength(h, text))

\* elog_output: the filters by level and by tag, the line, the filter by
\* keyword, the newline sign.
Output(l, tag, text) ==
    /\ Idle
    /\ LET line == Line(Header(l, tag), text) IN
       /\ Passes(tag, l) /\ Found(tag, filterTag)
       /\ filterKeyword # <<>> => Found(line, filterKeyword)
       /\ out' = [by |-> "elog_output", level |-> l, tag |-> tag, text |-> text,
                  bytes |-> Strcpy(line, <<"\n">>)]
    /\ UNCHANGED <<vars, settings, dump>>

\* elog_raw
Raw(text) ==
    /\ Idle
    /\ out' = [Nothing EXCEPT !.by = "elog_raw", !.text = text,
               !.bytes = SubSeq(LogBuf(<<>>, text), 1, LengthOf(<<>>, text))]
    /\ UNCHANGED <<vars, settings, dump>>

\* elog_async_output, then elog_output_unlock
PutOut ==
    /\ out # Nothing /\ out' = Nothing
    /\ UNCHANGED <<vars, settings, dump>>

\* elog_hexdump begins.
HexDump(name, d) ==
    /\ Idle
    /\ 4 <= level       \* ELOG_LVL_DEBUG passes
    /\ Found(name, filterTag)
    /\ dump' = [on |-> TRUE, i |-> 0, width |-> d.width, size |-> d.size]
    /\ UNCHANGED <<vars, settings, out>>

\* Mutant: another line after the last byte.
HexDumpLineMore ==
    /\ dump.on
    /\ dump' = IF dump.i <= dump.size THEN [dump EXCEPT !.i = (dump.i + dump.width) % Wrap]
               ELSE NoDump
    /\ UNCHANGED <<vars, settings, out>>

\* One line of it, or its end; the index has 16 bits.  The line is cut like
\* that of elog_output.
HexDumpLine ==
    /\ dump.on
    /\ dump' = IF dump.i < dump.size THEN [dump EXCEPT !.i = (dump.i + dump.width) % Wrap]
               ELSE NoDump
    /\ UNCHANGED <<vars, settings, out>>

\* elog_set_fmt for some levels, elog_set_filter_tag and elog_set_filter_kw
SetFmt(levels, set) ==
    /\ Idle /\ enabledFmtSet' = [l \in Level |-> IF l \in levels THEN set ELSE enabledFmtSet[l]]
    /\ UNCHANGED <<vars, filterTag, filterKeyword, out, dump>>

SetFilterTag(part) ==
    /\ Idle /\ filterTag' = Take(part, TagMax)
    /\ UNCHANGED <<vars, enabledFmtSet, filterKeyword, out, dump>>

SetFilterKw(keyword) ==
    /\ Idle /\ filterKeyword' = Take(keyword, KwMax)
    /\ UNCHANGED <<vars, enabledFmtSet, filterTag, out, dump>>

\* The calls of ElogFilter
SetFilters ==
    /\ Idle
    /\ \/ ElogInit \/ ElogDeinit
       \/ \E l \in UsedLevel : SetFilterLvl(l) \/ \E tag \in Tag : SetFilterTagLvl(tag, l)
    /\ UNCHANGED <<settings, out, dump>>

OutputNext ==
    \/ SetFilters
    \/ \E f \in Format : SetFmt(f.levels, f.set)
    \/ \E part \in Part : SetFilterTag(part)
    \/ \E keyword \in Keyword : SetFilterKw(keyword)
    \/ \E l \in UsedLevel, tag \in Tag, text \in Message : Output(l, tag, text)
    \/ \E text \in Message : Raw(text)
    \/ PutOut
    \/ \E name \in Tag, d \in Dump : HexDump(name, d)
    \/ HexDumpLine

\* elog_hexdump waits for nobody.
OutputSpec == OutputInit /\ [][OutputNext]_outputVars /\ WF_outputVars(HexDumpLine)

-----------------------------------------------------------------------------
\* elog_find_lvl
FindLvl(log) ==
    IF log # <<>> /\ Contains(LevelInfo, log[1])
    THEN (CHOOSE l \in Level : LevelInfo[l + 1] = log[1]) ELSE -1

\* elog_find_tag: the text between the level and the first space.  The code
\* searches TagMax bytes even if the line is shorter; what is behind a line is
\* not the line's, and no property is about a tag that is not found inside.
FindTag(log, l) ==
    LET start == Len(LevelText(l))
        ends == {i \in start + 1..Least(Len(log), start + TagMax) : log[i] = " "}
    IN  IF ends = {} THEN Fails ELSE SubSeq(log, start + 1, First(ends) - 1)

\* What the parts are together, with room for all of them.
Joined(parts) ==
    LET text[i \in 0..Len(parts)] == IF i = 0 THEN <<>> ELSE text[i - 1] \o parts[i]
    IN  text[Len(parts)]

\* A line is the header its format asks for and then the message, as much of
\* them as fits, and a newline at the end, wherever in header or message the
\* buffer ends: no byte of an earlier line, no null byte and no second
\* newline, which would be read as the end of a line by the ring buffer.
Whole ==
    out.text # Fails =>
        out.bytes = Append(Take(Joined(Parts(out.level, out.tag)) \o out.text, Size - 1), "\n")

\* With formats as elog_find_lvl and elog_find_tag assert them, level and tag
\* are found again in a line that was cut behind them, for all tags without a
\* blank that the filters can tell from longer ones.
FoundAgain ==
    (\A l \in Level : {"LVL", "TAG"} \subseteq enabledFmtSet[l]) =>
        /\ FindLvl(out.bytes) = out.level
        /\ Len(out.tag) < TagMax /\ (\A i \in 1..Len(out.tag) : out.tag[i] # " ")
           /\ Len(LevelText(out.level) \o TagText(out.tag)) < Size =>
              FindTag(out.bytes, out.level) = out.tag

LineIsWhole == out.by = "elog_output" => Whole /\ FoundAgain

\* A dump comes to its end, if its lines have a width and the index does not
\* wrap before it is past the last byte.
HexDumpReturns ==
    dump.on /\ dump.width > 0 /\ dump.size + dump.width <= Wrap ~> ~dump.on
=============================================================================
