----------------------------- MODULE SourceWrap -----------------------------
(***************************************************************************)
(* What the live tool does to a source file                                *)
(* (live-wrap.mjs, live-insert.mjs and live-accept.mjs of                  *)
(* .agents/skills/impeccable/scripts).                                     *)
(*                                                                         *)
(* A session wraps an element, or inserts an empty wrapper next to one;    *)
(* the agent writes variants into the wrapper; an accept puts a variant in *)
(* its place, with the CSS of the session for the agent to integrate, a    *)
(* discard puts the original back.  Several sessions may be open in one    *)
(* file.  Copy edits may be staged meanwhile, by the live server: an accept *)
(* reads and rewrites the buffer of edits in a process of its own.         *)
(*                                                                         *)
(* A file is a sequence of lines with one tag, comment or text each; every *)
(* element is a div, named by its class.                                   *)
(***************************************************************************)
EXTENDS Integers, FiniteSets, Sequences, SequencesExt, FiniteSetsExt

CONSTANTS
  Sessions,     \* numbers of the sessions
  Inserting,    \* those that insert next to an element
  Styled,       \* those whose variants come with CSS
  Jsx,          \* the file is JSX: an element sits in a slot for one node
  Source,       \* the file at first
  Picked,       \* elements the user picks
  Nesting,      \* an element is picked inside or around another session's wrapper too
  Count,        \* variants of a session
  Edits         \* copy edits the user may stage: <<original text, new text>>

VARIABLES
  file,     \* the lines of the file
  session,  \* what became of each session
  agent,    \* the session whose variants or CSS the agent is writing, else None
  staged,   \* the buffer of copy edits
  scrub,    \* what an accept that rewrote the file has still to do to the buffer
  plain     \* the file without the tool: a history variable for the properties

vars == <<file, session, agent, staged, scrub, plain>>

None == 0

Line(t, in, s, n) == [t |-> t, in |-> in, s |-> s, n |-> n]
Blank == Line("blank", 0, None, None)
Open(el, in) == Line("open", in, None, el)
Close(in) == Line("close", in, None, None)
Text(n, in) == Line("text", in, None, n)

ASSUME SourceAssumption ==
  /\ Sessions \subseteq Nat \ {None} /\ Inserting \subseteq Sessions /\ Styled \subseteq Sessions
  /\ Jsx \in BOOLEAN /\ Nesting \in BOOLEAN /\ Count \in Nat \ {0}
  /\ \A i \in DOMAIN Source : Source[i].t \in {"open", "close", "text", "style"}

-----------------------------------------------------------------------------
(* Lines *)

Opens == {"open", "wrap", "orig", "variant", "carbonize"}
Styles == {"style", "css"}
Depth(lines, a, b) ==
  Cardinality({i \in a..b : lines[i].t \in Opens}) - Cardinality({i \in a..b : lines[i].t = "close"})

\* The line that closes the element opened on line a, with its nested elements.
ClosingLine(lines, a) == Min({b \in a..Len(lines) : Depth(lines, a, b) <= 0})

\* Lines a to b give way to others.
Splice(lines, a, b, new) == SubSeq(lines, 1, a - 1) \o new \o SubSeq(lines, b + 1, Len(lines))

\* minLeadingSpaces: blank lines do not count.
BaseIndent(lines) ==
  LET indents == {lines[i].in : i \in {j \in DOMAIN lines : lines[j].t # "blank"}}
  IN  IF indents = {} THEN 0 ELSE Min(indents)

Shifted(lines, to) ==
  LET base == BaseIndent(lines)
  IN  [i \in DOMAIN lines |-> IF lines[i].t = "blank" THEN Blank ELSE [lines[i] EXCEPT !.in = to + @ - base]]

\* The first line that names the element; the tool's own lines name none.
Found(lines, el) == {i \in DOMAIN lines : lines[i].t = "open" /\ lines[i].n = el}
Match(lines, el) == LET a == Min(Found(lines, el)) IN [first |-> a, last |-> ClosingLine(lines, a)]

Holds(lines, n) == \E i \in DOMAIN lines : lines[i].t = "text" /\ lines[i].n = n

\* The staged edits of the page, on the lines they are about.
AllEdited(lines) == [i \in DOMAIN lines |->
  IF lines[i].t = "text" /\ \E e \in staged : e[1] = lines[i].n
  THEN [lines[i] EXCEPT !.n = (CHOOSE e \in staged : e[1] = lines[i].n)[2]] ELSE lines[i]]

-----------------------------------------------------------------------------
(* The wrapper *)

\* wrapperLines: HTML puts the markers around the wrapper, JSX inside it.
Wrapper(s, in, inner) ==
  IF Jsx
  THEN <<Line("wrap", in, s, None), Line("start", in + 2, s, None)>> \o inner
       \o <<Line("label", in + 2, s, None), Line("end", in + 2, s, None), Close(in)>>
  ELSE <<Line("start", in, s, None), Line("wrap", in, s, None)>> \o inner
       \o <<Line("label", in + 2, s, None), Close(in), Line("end", in, s, None)>>

Original(in, content) ==
  <<Line("note", in + 2, None, None), Line("orig", in + 2, None, None)>> \o content \o <<Close(in + 2)>>

Wrapped(lines, s, el) ==
  LET m == Match(lines, el)
      in == lines[m.first].in
      content == AllEdited(SubSeq(lines, m.first, m.last))
  IN  Splice(lines, m.first, m.last, Wrapper(s, in, Original(in, Shifted(content, in + 4))))

\* A deliberate mistake (FileIsTheSource): "after" is before the element's last line.
Inserted_Inside(lines, s, el, before) ==
  LET m == Match(lines, el) IN Splice(lines, m.last, m.last - 1, Wrapper(s, lines[m.first].in, <<>>))

\* computeInsertLine and the indent of the line that follows the wrapper.
Inserted(lines, s, el, before) ==
  LET m == Match(lines, el)
      at == IF before THEN m.first ELSE m.last + 1
      in == IF at \in DOMAIN lines THEN lines[at].in ELSE lines[m.first].in
  IN  Splice(lines, at, at - 1, Wrapper(s, in, <<>>))

-----------------------------------------------------------------------------
(* Accept and discard *)

Marked(lines, s) == \E i, j \in DOMAIN lines : lines[i].t = "start" /\ lines[i].s = s
                                               /\ lines[j].t = "end" /\ lines[j].s = s

\* A deliberate mistake (OpenCanBeDecided): any end marker ends the block.
Block_AnyEnd(lines, s) ==
  [first |-> Min({i \in DOMAIN lines : lines[i].t = "start" /\ lines[i].s = s}),
   last  |-> Max({i \in DOMAIN lines : lines[i].t = "end"})]

Block(lines, s) ==
  [first |-> Min({i \in DOMAIN lines : lines[i].t = "start" /\ lines[i].s = s}),
   last  |-> Min({i \in DOMAIN lines : lines[i].t = "end" /\ lines[i].s = s})]

\* expandReplaceRange: in JSX back to the wrapper's opener and on to its closer.
Range_(lines, s) ==
  LET b == Block(lines, s)
      openers == {i \in 1..(b.first - 1) : lines[i].t = "wrap" /\ lines[i].s = s}
  IN  IF ~Jsx \/ openers = {} THEN b
      ELSE LET a == Max(openers) IN
           [first |-> a, last |-> Min({j \in b.last..Len(lines) : Depth(lines, a, j) <= 0})]

\* stripStyleAndJoin: no <style> is left, whoever it belongs to.
Stripped(lines) == [i \in DOMAIN lines |-> IF lines[i].t \in Styles THEN Blank ELSE lines[i]]

BlockLines(lines, s) == LET b == Block(lines, s) IN Stripped(SubSeq(lines, b.first, b.last))

\* extractInnerByAttr: the text between the first such opener and its closer, whose
\* own lines leave what is around the tags.
Inner(lines, openers) ==
  IF openers = {} THEN <<>>
  ELSE LET a == Min(openers)
       IN  <<Blank>> \o SubSeq(lines, a + 1, ClosingLine(lines, a) - 1) \o <<Blank>>

ExtractOriginal(lines, s) ==
  LET text == BlockLines(lines, s) IN Inner(text, {i \in DOMAIN text : text[i].t = "orig"})

\* extractVariant: empty lines at either end are dropped.
ExtractVariant(lines, s, n) ==
  LET text == BlockLines(lines, s)
      inner == Inner(text, {i \in DOMAIN text : text[i].t = "variant" /\ text[i].n = n})
      kept == {i \in DOMAIN inner : inner[i].t # "blank"}
  IN  IF kept = {} THEN <<>> ELSE SubSeq(inner, Min(kept), Max(kept))

HasCss(lines, s) ==
  LET b == Block(lines, s) IN \E i \in b.first..b.last : lines[i].t = "css" /\ lines[i].s = s

Discarded(lines, s) ==
  LET r == Range_(lines, s)
  IN  Splice(lines, r.first, r.last, Shifted(ExtractOriginal(lines, s), lines[r.first].in))

\* buildCarbonizeReplacement
Carbonized(s, n, in, content) ==
  LET body(at) == <<Line("keep", at, s, None), Line("css", at, s, None), Line("kept", at, s, None),
                    Line("variant", at, s, n)>> \o Shifted(content, at + 2) \o <<Close(at)>>
  IN  IF Jsx THEN <<Line("carbonize", in, s, None)>> \o body(in + 2) \o <<Close(in)>> ELSE body(in)

Accepted(lines, s, n) ==
  LET r == Range_(lines, s)
      in == lines[r.first].in
      content == Shifted(ExtractVariant(lines, s, n), in)
  IN  Splice(lines, r.first, r.last, IF HasCss(lines, s) THEN Carbonized(s, n, in, content) ELSE content)

-----------------------------------------------------------------------------
(* The agent *)

\* A variant of an element keeps its class and has a text of its own.
NewText(s, n) == 100 * s + n
Content(s, el, n, in) == <<Open(el, in), Text(NewText(s, n), in + 2), Close(in)>>
Written(s, el, in) ==
  (IF s \in Styled THEN <<Line("css", in, s, None)>> ELSE <<>>)
  \o FlattenSeq([n \in 1..Count |->
       <<Line("variant", in, s, n)>> \o Content(s, el, n, in + 2) \o <<Close(in)>>])

\* The agent writes below "insert below this line".
WithVariants(lines, s, el) ==
  LET at == Min({i \in DOMAIN lines : lines[i].t = "label" /\ lines[i].s = s})
  IN  Splice(lines, at + 1, at, Written(s, el, lines[at].in))

\* The agent moves the CSS where it belongs and takes the helpers away.
Cleaned(lines, s) ==
  LET helper(i) == lines[i].s = s /\ lines[i].t \in {"keep", "css", "kept", "variant", "carbonize"}
      opener(j) == Max({i \in 1..j : Depth(lines, i, j) = 0 /\ lines[i].t \in Opens})
      goes == {i \in DOMAIN lines : helper(i) \/ (lines[i].t = "close" /\ helper(opener(i)))}
      in == lines[Min(goes)].in
      stays == SetToSortSeq({i \in Min(goes)..Max(goes) : i \notin goes}, <)
  IN  Splice(lines, Min(goes), Max(goes), Shifted([k \in DOMAIN stays |-> lines[stays[k]]], in))

-----------------------------------------------------------------------------

\* A deliberate mistake (KeepsEditsOfOthers): every edit whose text is not in the file.
Scrubbed_FileWide(edits, original) ==
  {e \in edits : ~Holds(original, e[1]) /\ Holds(file, e[1])}

\* manualEditOpAppearsInBlock: edits go whose old or new text is in the block.
Scrubbed(edits, original) == {e \in edits : ~Holds(original, e[1]) /\ ~Holds(original, e[2])}

NoSession == [st |-> "none", el |-> None, before |-> FALSE]
NoScrub   == [st |-> "none", original |-> <<>>, edits |-> {}]

Init ==
  /\ file = Source
  /\ session = [s \in Sessions |-> NoSession]
  /\ agent = None
  /\ staged = {} /\ scrub = NoScrub
  /\ plain = Source

\* The agent has nothing to write, and no accept is under way.
Idle == agent = None /\ scrub = NoScrub

\* The element is in the file, and its lines are apart from the wrappers of open sessions.
Apart(lines, el, s) ==
  LET m == Match(lines, el)
      r == Range_(lines, s)
  IN  m.last < r.first \/ r.last < m.first
CanPick(el) ==
  /\ Found(file, el) # {}
  /\ Nesting \/ \A s \in Sessions : session[s].st = "open" => Apart(file, el, s)

Wrap(s, el) ==
  /\ Idle /\ session[s].st = "none" /\ s \notin Inserting /\ CanPick(el)
  /\ file' = Wrapped(file, s, el)
  /\ session' = [session EXCEPT ![s] = [st |-> "open", el |-> el, before |-> FALSE]]
  /\ agent' = s
  /\ UNCHANGED <<staged, scrub, plain>>

Insert(s, el, before) ==
  /\ Idle /\ session[s].st = "none" /\ s \in Inserting /\ CanPick(el)
  /\ file' = Inserted(file, s, el, before)
  /\ session' = [session EXCEPT ![s] = [st |-> "open", el |-> el, before |-> before]]
  /\ agent' = s
  /\ UNCHANGED <<staged, scrub, plain>>

Write(s) ==
  /\ agent = s /\ session[s].st = "open"
  /\ file' = WithVariants(file, s, session[s].el)
  /\ agent' = None
  /\ UNCHANGED <<session, staged, scrub, plain>>

\* The element in the file without the tool, and what the accept of a variant makes of it.
Replaced(s, n) ==
  LET el == session[s].el
      m == Match(plain, el)
      in == plain[m.first].in
      at == IF session[s].before THEN m.first ELSE m.last + 1
  IN  IF Found(plain, el) = {} THEN plain
      ELSE IF s \in Inserting THEN Splice(plain, at, at - 1, Content(s, el, n, in))
      ELSE Splice(plain, m.first, m.last, Content(s, el, n, in))

\* The file is rewritten first.  Without markers the accept is not handled and changes
\* nothing; without an original, that of an inserted wrapper, no edit can be in it.
Accept(s, n) ==
  /\ Idle /\ session[s].st = "open"
  /\ IF Marked(file, s)
     THEN LET original == ExtractOriginal(file, s)
          IN  /\ file' = Accepted(file, s, n)
              /\ agent' = IF HasCss(file, s) THEN s ELSE None
              /\ scrub' = IF original = <<>> THEN NoScrub
                          ELSE [NoScrub EXCEPT !.st = "read", !.original = original]
              /\ plain' = Replaced(s, n)
     ELSE UNCHANGED <<file, agent, scrub, plain>>
  /\ session' = [session EXCEPT ![s].st = IF Marked(file, s) THEN "accepted" ELSE "lost"]
  /\ UNCHANGED staged

\* scrubManualEditsAgainstOriginalBlock reads the buffer, and writes it if an edit goes.
ReadBuffer ==
  /\ scrub.st = "read"
  /\ scrub' = IF Scrubbed(staged, scrub.original) = staged THEN NoScrub
              ELSE [scrub EXCEPT !.st = "write", !.edits = staged]
  /\ UNCHANGED <<file, session, agent, staged, plain>>

WriteBuffer ==
  /\ scrub.st = "write"
  /\ staged' = Scrubbed(scrub.edits, scrub.original)
  /\ scrub' = NoScrub
  /\ UNCHANGED <<file, session, agent, plain>>

Discard(s) ==
  /\ Idle /\ session[s].st = "open"
  /\ file' = IF Marked(file, s) THEN Discarded(file, s) ELSE file
  /\ session' = [session EXCEPT ![s].st = IF Marked(file, s) THEN "discarded" ELSE "lost"]
  /\ UNCHANGED <<agent, staged, scrub, plain>>

\* "REQUIRED before next poll": the agent does nothing else before.
Carbonize(s) ==
  /\ agent = s /\ scrub = NoScrub /\ session[s].st = "accepted"
  /\ file' = Cleaned(file, s)
  /\ agent' = None
  /\ UNCHANGED <<session, staged, scrub, plain>>

Stage(e) ==
  /\ e \notin staged /\ Holds(plain, e[1]) /\ \A f \in staged : f[1] # e[1]
  /\ staged' = staged \cup {e}
  /\ UNCHANGED <<file, session, agent, scrub, plain>>

Unstage(e) ==
  /\ e \in staged
  /\ staged' = staged \ {e}
  /\ UNCHANGED <<file, session, agent, scrub, plain>>

Next ==
  \/ \E s \in Sessions :
       \/ \E el \in Picked : Wrap(s, el) \/ \E before \in BOOLEAN : Insert(s, el, before)
       \/ Write(s) \/ Discard(s) \/ Carbonize(s)
       \/ \E n \in 1..Count : Accept(s, n)
  \/ ReadBuffer \/ WriteBuffer
  \/ \E e \in Edits : Stage(e) \/ Unstage(e)

Spec == Init /\ [][Next]_vars

-----------------------------------------------------------------------------
(* Properties *)

TypeOK ==
  /\ \A i \in DOMAIN file : file[i].in \in Nat /\ file[i].s \in Sessions \cup {None}
  /\ \A s \in Sessions : session[s].st \in {"none", "open", "accepted", "discarded", "lost"}
  /\ agent \in Sessions \cup {None} /\ staged \subseteq Edits
  /\ scrub.st \in {"none", "read", "write"} /\ scrub.edits \subseteq Edits

Decided == Idle /\ \A s \in Sessions : session[s].st # "open"
Bare(lines) == SelectSeq(lines, LAMBDA l : l.t # "blank")
Shape(lines) == [i \in DOMAIN Bare(lines) |-> [Bare(lines)[i] EXCEPT !.in = 0]]

\* Once every session is decided the file is the source with the accepted variants in their
\* places, whatever the order in which sessions were opened and decided.
FileIsTheSource == Decided => Shape(file) = Shape(plain)

\* The same, with the depth of every line.
IndentsAreKept == Decided => Bare(file) = Bare(plain)

\* The same to the letter (live-accept.mjs: "removes the entire variant wrapper and
\* restores the original").
FileIsExact == Decided => file = plain

\* Every element is closed, in order, at every moment: no step leaves half a wrapper.
Balanced ==
  /\ Depth(file, 1, Len(file)) = 0
  /\ \A i \in DOMAIN file : Depth(file, 1, i) >= 0

\* A session that is open and not inside a wrapper that was decided has one pair of markers,
\* and none is left of a session that was decided.
MarkersAreOfOpen ==
  \A s \in Sessions :
    LET starts == Cardinality({i \in DOMAIN file : file[i].t = "start" /\ file[i].s = s})
        ends == Cardinality({i \in DOMAIN file : file[i].t = "end" /\ file[i].s = s})
    IN  starts = ends /\ starts <= 1 /\ (session[s].st # "open" => starts = 0)

\* In JSX the element's slot holds one node at every moment, comments included.
OneNode ==
  Jsx => Cardinality({i \in DOMAIN file : file[i].t \notin {"blank", "close"} /\ Depth(file, 1, i - 1) = 0}) = 1

\* An open session can be decided: its markers are in the file.
OpenCanBeDecided == \A s \in Sessions : session[s].st = "open" => Marked(file, s)

\* A staged edit is about text that is in the source: none is left behind by the accept
\* that replaces its text, once it is done.
StagedExists == scrub = NoScrub => \A e \in staged : Holds(plain, e[1])

\* An accept drops none of the edits it has read whose text stays ("drop only buffer ops
\* whose text appeared inside that wrapper's original block"), whatever other sessions made
\* of the file.
KeepsEditsOfOthers ==
  WriteBuffer => \A e \in scrub.edits \cap staged : Holds(plain, e[1]) => e \in staged'

\* The same of every staged edit: one staged between the read and the write breaks it.
KeepsLateEdits == WriteBuffer => \A e \in staged : Holds(plain, e[1]) => e \in staged'

\* An edit that was taken back stays so: one taken back in between comes again.
TakenBackStays == WriteBuffer => staged' \subseteq staged

EditsOfOthersStay == [][KeepsEditsOfOthers]_vars

\* A staged edit can be found again in the file, as its old text or as the new one in a
\* wrapper that is not decided (live-wrap.mjs: "Source itself stays untouched here").
StagedIsFindable ==
  \A e \in staged : Holds(plain, e[1]) =>
    \/ Holds(file, e[1])
    \/ \E s \in Sessions : session[s].st = "open" /\ Marked(file, s) /\ Holds(ExtractOriginal(file, s), e[2])
=============================================================================
