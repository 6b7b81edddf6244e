------------------------------ MODULE Markdown ------------------------------
(***************************************************************************)
(* MarkdownParser: lines to blocks.  A line is kept as its kind, which is  *)
(* what the regular expressions of the parser tell apart, and a heading's  *)
(* title as its line number.                                               *)
(***************************************************************************)
EXTENDS Naturals, Sequences, FiniteSets, FiniteSetsExt

\* fence and tilde open and close code; indent is a line indented by four, nested an indented list
\* item; rule is "---"; long holds two sentences over the chunk budget, huge one.  Of the rows of a
\* table, bar is the line of dashes, spill has an empty first cell and one cell too many, and edge an
\* empty first cell with not even a blank between its bars.
Row == {"row", "bar", "spill", "edge"}
Kind == {"blank", "h1", "h2", "fence", "tilde", "indent", "item", "nested", "quote",
         "rule", "text", "long", "huge"} \cup Row

Heading == {"h1", "h2"}
Level(k) == IF k = "h1" THEN 1 ELSE 2
Fence == {"fence", "tilde"}
Item == {"item", "nested"}
Indented == {"indent", "nested"}
BreaksParagraph == Heading \cup Fence \cup Item \cup Row \cup {"quote", "blank"}

CONSTANT MaxLines  \* bound: lines of a document
ASSUME MarkdownAssumption == MaxLines \in Nat \ {0}
Document == UNION {[1..n -> Kind] : n \in 1..MaxLines}

\* _extract_front_matter: where the body starts, and whether a header was found.
ClosingRules(doc) == {i \in 2..Len(doc) : doc[i] = "rule"}
HasFrontMatter(doc) == doc[1] = "rule" /\ ClosingRules(doc) # {}
BodyStart(doc) == IF HasFrontMatter(doc) THEN Min(ClosingRules(doc)) + 1 ELSE 1

\* The longest run from i whose further lines are all in S.
RunEnd(body, i, S) == Max({j \in i..Len(body) : \A k \in (i + 1)..j : body[k] \in S})
LastWritten(body, i, j) == Max({k \in i..j : body[k] # "blank"})

\* A fence is closed by the next one of its own character, or by the end of the document.
FenceEnd(body, i) ==
    LET closing == {j \in (i + 1)..Len(body) : body[j] = body[i]}
    IN IF closing = {} THEN Len(body) ELSE Min(closing)

CodeEnd(body, i) == LastWritten(body, i, RunEnd(body, i, Indented \cup {"blank"}))

\* The kind and the last line of the block that starts at line i of the body, in the order of the tests.
BlockAt(body, i) ==
    LET k == body[i] IN
    CASE k \in Heading -> [type |-> "heading", last |-> i]
      [] k \in Fence -> [type |-> "code", last |-> FenceEnd(body, i)]
      [] k \in Row -> [type |-> "table", last |-> RunEnd(body, i, Row)]
      [] k = "indent" -> [type |-> "code", last |-> CodeEnd(body, i)]
      [] k \in Item -> [type |-> "list", last |-> RunEnd(body, i, Item \cup Indented)]
      [] k = "quote" -> [type |-> "quote", last |-> RunEnd(body, i, {"quote"})]
      [] OTHER -> [type |-> "paragraph", last |-> RunEnd(body, i, Kind \ BreaksParagraph)]

\* Mutant: a heading stays under its elder of the same level.
PushUnderPeer(stack, l, n) ==
    LET keep == Max({0} \cup {d \in DOMAIN stack : \A e \in 1..d : stack[e].level <= l})
    IN Append(SubSeq(stack, 1, keep), [level |-> l, line |-> n])
\* The heading stack after a heading of line n and level l: [level, line] of every open heading.
Push(stack, l, n) ==
    LET keep == Max({0} \cup {d \in DOMAIN stack : \A e \in 1..d : stack[e].level < l})
    IN Append(SubSeq(stack, 1, keep), [level |-> l, line |-> n])
PathOf(stack) == [d \in DOMAIN stack |-> stack[d].line]

\* What the sentences of a line cost in tokens; a blank line has none.  Those of a row are the cells that
\* split("|") finds between its outer bars; a cell that is empty or dashes says nothing and costs 0.
Sentences(k) ==
    CASE k = "blank" -> <<>>
      [] k = "long" -> <<2, 2>>
      [] k = "huge" -> <<4>>
      [] k \in {"row", "edge"} -> <<1, 1>>
      [] k = "bar" -> <<0, 0>>
      [] k = "spill" -> <<0, 1, 1>>
      [] OTHER -> <<1>>
=============================================================================
