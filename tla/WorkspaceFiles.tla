--------------------------- MODULE WorkspaceFiles ---------------------------
(***************************************************************************)
(* The file tools on one text file of the workspace (src/tools/fs.rs),     *)
(* called by the agent and by a worker.  A line is its indentation, its    *)
(* words and how it ends; a word "wide" makes it longer than a page of     *)
(* fs.read.  A call that changes the file reads it, plans the new text and *)
(* writes it in a later step: other calls come in between.  A path outside *)
(* the workspace, a file over 1 MiB or one that is no text ends a call     *)
(* before it reads, and is not modelled here.                              *)
(***************************************************************************)
EXTENDS Naturals, Sequences, FiniteSets

CONSTANTS Agents,    \* who calls the tools
          Limit,     \* lines asked of one fs.read
          PageChars, \* FS_READ_MAX_CONTENT_CHARS
          MaxCalls,  \* bound: calls that change the file
          MaxLines   \* bound: lines of the file

VARIABLES file,      \* the text
          view,      \* what each agent read of it: lines, pages, next offset, more, the text
          call,      \* a planned change that is still to be written
          calls      \* how many changes were planned

vars == <<file, view, call, calls>>

Line(indent, words, eol) == [indent |-> indent, words |-> words, eol |-> eol]
Texts == {<<Line(1, <<"f">>, "lf"), Line(1, <<"f", "g">>, "none")>>,
          <<Line(0, <<"wide">>, "crlf"), Line(1, <<"f">>, "crlf")>>}
NoView == [lines |-> <<>>, pages |-> 0, next |-> 1, more |-> TRUE, of |-> <<>>]
NoCall == [op |-> "none"]

Init == /\ file \in Texts
        /\ view = [a \in Agents |-> NoView]
        /\ call = [a \in Agents |-> NoCall]
        /\ calls = 0

Same(l, m) == l.indent = m.indent /\ l.words = m.words   \* but for the line's end
Unindented(l, m) == l.words = m.words                    \* trim_start
Newline(c) == IF \E i \in DOMAIN c : c[i].eol = "crlf" THEN "crlf" ELSE "lf"

-----------------------------------------------------------------------------
(* fs.read.                                                                *)

Wide(l) == "wide" \in {l.words[i] : i \in DOMAIN l.words}

\* A line with its number, or the separator before it, in characters; those of some lines.
Width(l) == IF Wide(l) THEN PageChars + 1 ELSE 1 + l.indent + Len(l.words)
Chars(c, first, last) ==
    LET f[i \in (first - 1)..last] == IF i < first THEN 0 ELSE f[i - 1] + Width(c[i])
    IN f[last]

\* The lines up to which a page from offset on has too many characters.
Over(c, offset, last) == {j \in offset..last : Chars(c, offset, j) > PageChars}

\* (Fault: a line that is shortened is not counted as returned.)
UncountedPage(c, offset) ==
    LET last == IF Len(c) < offset + Limit - 1 THEN Len(c) ELSE offset + Limit - 1
        over == Over(c, offset, last)
        end == IF over = {} THEN last ELSE (CHOOSE i \in over : \A j \in over : i <= j) - 1
    IN [lines |-> SubSeq(c, offset, end), next |-> end + 1, more |-> end < Len(c) \/ over # {}]

\* bounded_read_window: the lines that fit together, or the first of them shortened.
Page(c, offset) ==
    LET last == IF Len(c) < offset + Limit - 1 THEN Len(c) ELSE offset + Limit - 1
        over == Over(c, offset, last)
        fits == IF over = {} THEN last ELSE (CHOOSE i \in over : \A j \in over : i <= j) - 1
        end == IF over # {} /\ fits < offset THEN offset ELSE fits
    IN [lines |-> SubSeq(c, offset, end), next |-> end + 1, more |-> end < Len(c) \/ over # {}]

\* A first page, or the next one as long as there is more.
FsRead(a) ==
    /\ \E v \in {NoView, view[a]} :
          /\ v.more
          /\ LET p == Page(file, v.next) IN
             view' = [view EXCEPT ![a] =
                        [lines |-> v.lines \o p.lines, pages |-> v.pages + 1,
                         next |-> p.next, more |-> p.more,
                         of |-> IF v = NoView \/ v.of = file THEN file ELSE <<>>]]
    /\ UNCHANGED <<file, call, calls>>

-----------------------------------------------------------------------------
(* fs.replace, of one line or a part of it.                                *)

\* The text of l has that of old in it: the end of its indentation and the
\* beginning of its words, up to the line's end when old has one.
Contains(l, old) ==
    /\ l.indent >= old.indent
    /\ Len(l.words) >= Len(old.words) /\ SubSeq(l.words, 1, Len(old.words)) = old.words
    /\ old.eol # "none" => l.eol = old.eol /\ Len(l.words) = Len(old.words)

Matches(c, old) == {i \in DOMAIN c : Contains(c[i], old)}

\* One line with old replaced by new, which may end the line before its rest.
Put(l, old, new) ==
    LET rest == SubSeq(l.words, Len(old.words) + 1, Len(l.words))
        indent == (l.indent - old.indent) + new.indent
    IN IF old.eol = "none" /\ new.eol # "none"
       THEN <<Line(indent, new.words, new.eol)>>
            \o (IF rest = <<>> /\ l.eol = "none" THEN <<>> ELSE <<Line(0, rest, l.eol)>>)
       ELSE <<Line(indent, new.words \o rest, l.eol)>>

\* str::replace: every match.
ReplaceAll(c, old, new) ==
    LET f[i \in 0..Len(c)] ==
            IF i = 0 THEN <<>>
            ELSE f[i - 1] \o (IF Contains(c[i], old) THEN Put(c[i], old, new) ELSE <<c[i]>>)
    IN f[Len(c)]

\* line_ending_variant_for_content
Ended(l, c) == [l EXCEPT !.eol = IF @ = "none" THEN "none" ELSE Newline(c)]

\* leading_indent_variant_for_content, ambiguous_leading_indent_matches
Indented(c, old) == {i \in DOMAIN c : Unindented(c[i], old) /\ c[i].indent # old.indent}

Plan(old, new, n, how) == [old |-> old, new |-> new, n |-> n, how |-> how]

\* replacement_plan
ReplacementPlan(c, old, new) ==
    LET exact == Matches(c, old)
        ended == Matches(c, Ended(old, c))
        indented == Indented(c, old)
    IN CASE exact # {} -> Plan(old, new, Cardinality(exact), "exact")
         [] exact = {} /\ ended # {} ->
               Plan(Ended(old, c), Ended(new, c), Cardinality(ended), "ended")
         [] exact = {} /\ ended = {} /\ Cardinality(indented) > 1 -> Plan(old, new, 0, "ambiguous")
         [] exact = {} /\ ended = {} /\ Cardinality(indented) = 1 ->
               Plan([c[CHOOSE i \in indented : TRUE] EXCEPT !.eol = "none"],
                    Ended(new, c), 1, "indented")
         [] OTHER -> Plan(old, new, 0, "none")

\* A line as fs.read shows it, with its number "#:" and a space before it.
Shown(l) == Line(0, <<"#">> \o [i \in 1..l.indent |-> " "] \o l.words, l.eol)
IsShown(l) == l.indent = 0 /\ l.words # <<>> /\ l.words[1] = "#"

\* strip_display_line_number_prefix
Stripped(l) ==
    LET spaces == Cardinality({i \in DOMAIN l.words : l.words[i] = " "})
    IN Line(spaces, SubSeq(l.words, spaces + 2, Len(l.words)), l.eol)

\* The numbers are taken off when the old text is not found with them and both texts have
\* them; which line they name is not looked at.
StrippedPlan(c, old, new) ==
    LET plan == ReplacementPlan(c, old, new)
    IN IF plan.how = "none" /\ IsShown(old) /\ IsShown(new)
       THEN ReplacementPlan(c, Stripped(old), Stripped(new)) ELSE plan

\* (Fault: the count that was asked for is not looked at.)
AnyCount(plan, expected) == plan.n > 0

\* Nothing is written when nothing was found or its count is not the expected one.
Counted(plan, expected) == plan.n > 0 /\ (expected # 0 => plan.n = expected)

\* Copied from the page with or without the line's end and its number, or with another
\* indentation; the new text ends as the old one does.  expected 0: not given.
StartReplace(a) ==
    /\ call[a] = NoCall /\ calls < MaxCalls
    /\ \E i \in DOMAIN view[a].lines, indent \in 0..2, end \in {"none", "lf"}, expected \in 0..1,
          numbered \in SUBSET {"old", "new"} :
          LET old == Line(indent, view[a].lines[i].words, end)
              new == Line(indent, <<"n">>, end)
              plan == StrippedPlan(file, IF "old" \in numbered THEN Shown(old) ELSE old,
                                         IF "new" \in numbered THEN Shown(new) ELSE new)
          IN /\ Counted(plan, expected)
             /\ call' = [call EXCEPT ![a] =
                           [op |-> "replace", base |-> file, old |-> plan.old, n |-> plan.n,
                            how |-> plan.how, expected |-> expected,
                            text |-> ReplaceAll(file, plan.old, plan.new)]]
    /\ calls' = calls + 1
    /\ UNCHANGED <<file, view>>

-----------------------------------------------------------------------------
(* fs.edit, of a range of lines.                                           *)

\* leading_indent_tolerant_replacement: lines that lost their indentation on
\* both sides get that of the lines they replace.
Tolerated(expected, old, lines) ==
    /\ Len(expected) = Len(old) /\ Len(lines) = Len(old)
    /\ \A i \in DOMAIN old : Unindented(expected[i], old[i])

Reindented(old, lines) ==
    [i \in DOMAIN lines |-> IF lines[i].indent = 0 THEN [lines[i] EXCEPT !.indent = old[i].indent]
                                                   ELSE lines[i]]

SameLines(s, t) == Len(s) = Len(t) /\ \A i \in DOMAIN s : Same(s[i], t[i])

\* (Fault: a copied line number is taken off whatever line it names.)
AnyNumber(number, first) == TRUE

\* strip_expected_old_line_number_prefixes; 0: copied without numbers.
NumberFits(number, first) == number \in {0, first}

\* The lines that take the place of old, if any may.
Accepted(expected, number, first, old, lines) ==
    CASE expected = <<>> -> {lines}
      [] expected # <<>> /\ ~NumberFits(number, first) -> {}
      [] expected # <<>> /\ NumberFits(number, first) ->
            IF SameLines(expected, old) THEN {lines}
            ELSE IF Tolerated(expected, old, lines) THEN {Reindented(old, lines)} ELSE {}

\* (Fault: the last line of the range is left where it is.)
ShortSplice(c, first, last, lines) ==
    SubSeq(c, 1, first - 1) \o lines \o SubSeq(c, IF last < first THEN first ELSE last, Len(c))

Splice(c, first, last, lines) ==
    SubSeq(c, 1, first - 1) \o lines \o SubSeq(c, last + 1, Len(c))

\* Every line gets the file's line end, the last one when it had or is given one.
Joined(lines, newline, final) ==
    IF lines = <<>> THEN IF final THEN <<Line(0, <<>>, newline)>> ELSE <<>>
    ELSE [i \in DOMAIN lines |->
            [lines[i] EXCEPT !.eol = IF i < Len(lines) \/ final THEN newline ELSE "none"]]

Edited(c, first, last, lines, ends) ==
    Joined(Splice(c, first, last, lines), Newline(c),
           (c # <<>> /\ c[Len(c)].eol # "none") \/ ends)

\* The line is the one the agent read at that place, with its indentation or
\* without; the replacement is a line or a line end alone.
StartEdit(a) ==
    /\ call[a] = NoCall /\ calls < MaxCalls
    /\ \E first \in 1..(Len(file) + 1), size \in 0..1, number \in 0..MaxLines,
          given \in {"none", "read", "unindented"}, k \in 0..1, ends \in BOOLEAN :
          LET last == first + size - 1
              read == SubSeq(view[a].lines, first, last)
              seen == IF given = "none" THEN <<>>
                      ELSE [i \in DOMAIN read |->
                              IF given = "read" THEN read[i] ELSE [read[i] EXCEPT !.indent = 0]]
              old == SubSeq(file, first, last)
              lines == [i \in 1..k |-> Line(0, <<"n">>, "lf")]
          IN /\ last <= Len(file)
             /\ k = 0 => ends
             /\ given # "none" => size = 1 /\ first \in DOMAIN view[a].lines
             /\ \E new \in Accepted(seen, number, first, old, lines) :
                   call' = [call EXCEPT ![a] =
                              [op |-> "edit", base |-> file, first |-> first, last |-> last,
                               seen |-> seen, number |-> number, size |-> Len(new),
                               text |-> Edited(file, first, last, new, ends)]]
    /\ calls' = calls + 1
    /\ UNCHANGED <<file, view>>

-----------------------------------------------------------------------------
\* fs.write, of the text the agent knows with a line more.
StartWrite(a) ==
    /\ call[a] = NoCall /\ calls < MaxCalls
    /\ view[a].lines # <<>>
    /\ call' = [call EXCEPT ![a] = [op |-> "write", base |-> file,
                                    text |-> Append(Joined(view[a].lines, "lf", TRUE),
                                                    Line(0, <<"f">>, "lf"))]]
    /\ calls' = calls + 1
    /\ UNCHANGED <<file, view>>

\* The planned text replaces whatever is there by now.
Write(a) ==
    /\ call[a] # NoCall
    /\ Len(call[a].text) <= MaxLines
    /\ file' = call[a].text
    /\ call' = [call EXCEPT ![a] = NoCall]
    /\ UNCHANGED <<view, calls>>

Next == \E a \in Agents : FsRead(a) \/ StartReplace(a) \/ StartEdit(a) \/ StartWrite(a) \/ Write(a)

Spec == Init /\ [][Next]_vars

-----------------------------------------------------------------------------
(* Properties.                                                             *)

\* An agent that follows next_offset comes to an end: every page that says there is more
\* has brought a line, whatever others do to the file, lines longer than a page included.
\* Of a file that stays as it is it has read every line once, in order.
PagesCoverTheFile ==
    \A a \in Agents : LET v == view[a] IN
        /\ v.pages <= Len(v.lines) + (IF v.more THEN 0 ELSE 1)
        /\ v # NoView /\ v.of = file => v.lines = SubSeq(file, 1, v.next - 1)
        /\ v # NoView /\ v.of = file /\ ~v.more => v.lines = file

\* An edit that names the text it replaces takes only lines with those words,
\* at the place its author named, and keeps every other line of the text it
\* was planned on.
EditTakesWhatItNames ==
    \A a \in {b \in Agents : call[b].op = "edit"} :
        LET c == call[a]
            after == SubSeq(c.text, c.first + c.size, Len(c.text))
        IN /\ c.seen # <<>> =>
                /\ c.number \in {0, c.first}
                /\ \A i \in DOMAIN c.seen : Unindented(c.seen[i], c.base[c.first + i - 1])
           /\ c.text # <<Line(0, <<>>, Newline(c.base))>> =>
                /\ SameLines(SubSeq(c.text, 1, c.first - 1), SubSeq(c.base, 1, c.first - 1))
                /\ SameLines(after, SubSeq(c.base, c.last + 1, Len(c.base)))

\* A replacement reports the lines that hold the old text, changes no other line, and was
\* asked for that many.
ReplaceCounts(c) ==
    /\ c.n = Cardinality(Matches(c.base, c.old))
    /\ c.expected # 0 => c.n = c.expected
    /\ Len(c.text) = Len(c.base)
    /\ \A i \in DOMAIN c.base : c.text[i] # c.base[i] => i \in Matches(c.base, c.old)

\* So does every replacement that did not have to guess the indentation.
ExactReplaceCounts ==
    \A a \in Agents :
        call[a].op = "replace" /\ call[a].how # "indented" => ReplaceCounts(call[a])

\* What is about to be written is what was asked for of the text it was planned on: both
\* of the above.
ChangesAreAsPlanned == EditTakesWhatItNames /\ ExactReplaceCounts

\* (violated) So does every replacement: blocks that differ in indentation are
\* replaced when they are unambiguous.
ReplaceIsUnambiguous == \A a \in Agents : call[a].op = "replace" => ReplaceCounts(call[a])

\* (does not hold) What is written was planned on the text that is written over: what
\* others wrote since is lost.
UpdatesAreKept ==
    [][\A a \in Agents : Write(a) => call[a].base = file]_vars
=============================================================================
