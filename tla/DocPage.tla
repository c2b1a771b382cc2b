------------------------------ MODULE DocPage ------------------------------
(***************************************************************************)
(* DocPage.tsx and MarkdownRenderer.tsx: renderMarkdown walks the lines of *)
(* a document and emits one block after the other.  A line is its kind;    *)
(* what is in it is left out.                                              *)
(***************************************************************************)
EXTENDS DashboardView

\* env.doc: the document, a sequence of these.
\* fence: ```; rule: ---; marks: :-:; bars: |---|; row: | a | b |; space: blanks only.
FenceLine == {"fence", "fence|"}
QuoteLine == {"quote", "quote|"}
ItemLine == {"item", "item|"}
HeadLine == {"head", "head|"}
\* With a bar in the line, but none before and behind its text: a | b.
Barred == {"fence|", "quote|", "item|", "head|", "text|"}
LineKind == FenceLine \cup QuoteLine \cup ItemLine \cup HeadLine \cup
            {"rule", "marks", "bars", "row", "text", "text|", "space", "empty"}

HasBar == {"bars", "row"} \cup Barred
\* /^[\s|:-]+$/ matches a rule and a line of blanks, too.
Separates(kind) == kind \in {"bars", "rule", "marks", "space"}

\* out: the blocks so far, each with the lines it shows whole and those it has cut.
DocFirst == [page |-> "doc", lines |-> env.doc, i |-> 1, out |-> <<>>]

Line == view.lines[view.i]

\* The end of the run of lines from `first' that are of one of the kinds.
RunEnd(first, kinds) ==
    Max({first - 1} \cup {j \in first..Len(view.lines) : \A k \in first..j : view.lines[k] \in kinds})

EmitCut(tag, whole, cut, next) ==
    view' = [view EXCEPT !.out = Append(@, [tag |-> tag, lines |-> whole, cut |-> cut]), !.i = next]
Emit(tag, whole, next) == EmitCut(tag, whole, {}, next)
Skip(next) == view' = [view EXCEPT !.i = next]

StartsTable == Line \in HasBar /\ view.i < Len(view.lines) /\ Separates(view.lines[view.i + 1])

\* Mutant: the line that closes a code block is read again, and opens one.
MutCodeBlock ==
    /\ Line \in FenceLine
    /\ LET last == RunEnd(view.i + 1, LineKind \ FenceLine)
       IN  Emit("pre", (view.i + 1)..last, last + 1)

\* Everything up to the next fence, or to the end; the closing fence is skipped.
CodeBlock ==
    /\ Line \in FenceLine
    /\ LET last == RunEnd(view.i + 1, LineKind \ FenceLine)
       IN  Emit("pre", (view.i + 1)..last, last + 2)

\* Any run of lines with a bar, whatever they are elsewhere; those of bars alone are
\* left out, and a table of none emits nothing.  slice(1, -1) takes the first and
\* the last cell of a row for what is outside of its bars.
Table ==
    /\ StartsTable
    /\ LET last == RunEnd(view.i, HasBar)
           rows == {j \in view.i..last : view.lines[j] = "row"}
           cut == {j \in view.i..last : view.lines[j] \in Barred}
       IN  IF rows \cup cut # {} THEN EmitCut("table", rows, cut, last + 1) ELSE Skip(last + 1)

OneLine(tag) == Emit(tag, {view.i}, view.i + 1)
Several(tag, kinds) ==
    LET last == RunEnd(view.i, kinds)
    IN  Emit(tag, view.i..last, last + 1)

RenderLine ==
    /\ At("doc") /\ view.i <= Len(view.lines)
    /\ \/ CodeBlock
       \/ Line = "rule" /\ OneLine("hr")
       \/ Line \notin FenceLine /\ Table
       \/ /\ ~StartsTable
          /\ \/ Line \in HeadLine /\ OneLine("h")
             \/ Line \in QuoteLine /\ Several("blockquote", QuoteLine)
             \/ Line \in ItemLine /\ Several("ul", ItemLine)
             \/ Line \in {"text", "text|", "marks", "row", "bars"} /\ OneLine("p")
             \/ Line \in {"space", "empty"} /\ Skip(view.i + 1)
    /\ UNCHANGED <<apiVars, auth, spent>>

\* Every line that has something to show is in one block, and in one only, in the
\* order of the document, and whole unless it is barred and in a table; it is code
\* if and only if the fences before it that no table has taken are odd.
Shown == LineKind \ (FenceLine \cup {"bars", "space", "empty"})
LinesOf(block) == block.lines \cup block.cut
FenceMarks == {k \in 1..Len(view.lines) :
            view.lines[k] \in FenceLine /\ \A b \in DOMAIN view.out : k \notin view.out[b].cut}
FencesBefore(j) == Cardinality(FenceMarks \cap 1..(j - 1))
LinesOnce ==
    At("doc") =>
        /\ \A j \in 1..Len(view.lines) :
            j < view.i /\ view.lines[j] \in Shown =>
                \E b \in DOMAIN view.out :
                    /\ j \in LinesOf(view.out[b])
                    /\ \A c \in DOMAIN view.out : j \in LinesOf(view.out[c]) => c = b
                    /\ j \in view.out[b].lines \/ (view.lines[j] \in Barred /\ view.out[b].tag = "table")
                    /\ view.out[b].tag = "pre" <=> FencesBefore(j) % 2 = 1
        /\ \A a, b \in DOMAIN view.out : a < b =>
            \A x \in LinesOf(view.out[a]), y \in LinesOf(view.out[b]) : x < y
=============================================================================
