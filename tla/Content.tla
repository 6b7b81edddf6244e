------------------------------- MODULE Content -------------------------------
(***************************************************************************)
(* A document's way from its lines to the chunks with their parents: one   *)
(* action per block of _parse_blocks, then the two passes of the chunker.  *)
(* Line numbers are those of the original document.                        *)
(***************************************************************************)
EXTENDS Chunking

VARIABLES doc,     \* the lines
          stage,   \* parse, chunk, done, or empty (FILE_EMPTY)
          next,    \* the line _parse_blocks is at
          stack,   \* heading_stack
          blocks,  \* DocumentAST.blocks
          nodes    \* chunk_with_parents: [child, parent], parent <<>> for none
vars == <<doc, stage, next, stack, blocks, nodes>>

Init ==
    /\ doc \in Document
    /\ stage = IF \A i \in DOMAIN doc : doc[i] = "blank" THEN "empty" ELSE "parse"
    /\ next = BodyStart(doc)
    /\ stack = <<>> /\ blocks = <<>> /\ nodes = <<>>

SkipBlank ==
    /\ stage = "parse" /\ next <= Len(doc) /\ doc[next] = "blank"
    /\ next' = next + 1
    /\ UNCHANGED <<doc, stage, stack, blocks, nodes>>

\* A heading's content is its title, which no chunk carries; any other block keeps its lines.
ParseBlock ==
    /\ stage = "parse" /\ next <= Len(doc) /\ doc[next] # "blank"
    /\ LET b == BlockAt(doc, next) IN
       /\ stack' = IF b.type = "heading" THEN Push(stack, Level(doc[next]), next) ELSE stack
       /\ blocks' = Append(blocks, [type |-> b.type, first |-> next, last |-> b.last,
                                    path |-> PathOf(stack'), content |-> TextOf(doc, next, b.last)])
       /\ next' = b.last + 1
    /\ UNCHANGED <<doc, stage, nodes>>

Parsed ==
    /\ stage = "parse" /\ next > Len(doc)
    /\ stage' = "chunk"
    /\ UNCHANGED <<doc, next, stack, blocks, nodes>>

\* The blocks whose sentences are embedded, to be split.
Oversized(budget) ==
    {b \in ToSet(blocks) : b.type \notin {"heading", "code", "table"}
                           /\ Tokens(b.content) > budget /\ Len(b.content) > 1}
\* low: the sentences unlike the one before; down: the blocks for which the embedding is down.
Splits(low, budget) == {[low |-> low, down |-> {b.first : b \in D}] : D \in SUBSET Oversized(budget)}
Unlike == SUBSET UNION {ToSet(Tail(b.content)) : b \in Oversized(MaxTokens) \cup Oversized(ParentMaxTokens)}
ChunkDocument ==
    /\ stage = "chunk"
    /\ \E low \in Unlike : \E split \in Splits(low, MaxTokens) :
           \/ nodes' = ChunkAlone(blocks, split)
           \/ \E parentSplit \in Splits(low, ParentMaxTokens) :
                  nodes' = ChunkWithParents(blocks, split, parentSplit)
    /\ stage' = "done"
    /\ UNCHANGED <<doc, next, stack, blocks>>

Next == SkipBlank \/ ParseBlock \/ Parsed \/ ChunkDocument
Spec == Init /\ [][Next]_vars

-----------------------------------------------------------------------------
Lines(b) == b.first..b.last
Headings == {b \in ToSet(blocks) : b.type = "heading"}
\* The headings a line is under: none later in the document is of the same or a higher level.
OpenAt(n) ==
    LET before == {b \in Headings : b.first <= n}
        open == {b \in before : \A c \in before : c.first > b.first => Level(doc[c.first]) > Level(doc[b.first])}
    IN {b.first : b \in open}
IsPathAt(path, n) ==
    ToSet(path) = OpenAt(n) /\ \A d, e \in DOMAIN path : d < e => path[d] < path[e]

(* Every written line of the body is cited by exactly one block, under the *)
(* path of the headings it is under; and a heading or a fence is never the *)
(* middle of a text block (markdown.py:3).                                 *)
BlocksCited ==
    /\ \A i, j \in DOMAIN blocks : i < j => Lines(blocks[i]) \cap Lines(blocks[j]) = {}
    /\ \A n \in BodyStart(doc)..(next - 1) : doc[n] # "blank" => \E b \in ToSet(blocks) : n \in Lines(b)
    /\ \A b \in ToSet(blocks) :
           /\ IsPathAt(b.path, b.first)
           /\ b.type \in {"table", "list", "quote", "paragraph"} =>
                  \A n \in Lines(b) : doc[n] \notin Heading \cup Fence

(* Chunking loses, repeats and reorders nothing that a context shows: the  *)
(* chunks hold every sentence of the blocks in the order of the document,  *)
(* each within the lines and under the path its chunk cites; code and      *)
(* tables are whole, and no text chunk that could be divided is over the   *)
(* budget (semantic.py:3).                                                 *)
Contents(chunks) == [i \in DOMAIN chunks |-> chunks[i].content]
Body == [i \in DOMAIN blocks |-> IF blocks[i].type = "heading" THEN <<>> ELSE blocks[i].content]
ChunksComplete ==
    stage = "done" =>
        LET children == [i \in DOMAIN nodes |-> nodes[i].child] IN
        /\ FlattenSeq(Contents(children)) = FlattenSeq(Body)
        /\ \A c \in ToSet(children) :
               /\ \A s \in ToSet(c.content) : s[1] \in Lines(c) /\ IsPathAt(c.path, s[1])
               /\ c.type \in {"code", "table"} => c.content = TextOf(doc, c.first, c.last)
               /\ c.type \in {"text", "list"} => Tokens(c.content) <= MaxTokens \/ Len(c.content) <= 1

(* What is searched of a table: every value of a row after the first, as   *)
(* far as the header reaches, once and in order, under the label that is   *)
(* over it; all of it where there is no such row.  Cells beyond the header *)
(* are shown and never found (semantic.py:227).                            *)
Earlier(s, t) == s[1] < t[1] \/ (s[1] = t[1] /\ s[2] < t[2])
TablesSearched ==
    stage = "done" =>
        \A node \in ToSet(nodes) : node.child.type = "table" =>
            LET cells == ToSet(node.child.content)
                said == {s \in cells : s[3] # 0}
                lines == {s[1] : s \in said}
                header == {s \in cells : s[1] = Min(lines)}
                text == NormalizeTable(node.child.content)
                found == [i \in DOMAIN text |-> text[i][2]]
            IN IF Cardinality(lines) < 2 THEN found = node.child.content
               ELSE /\ ToSet(found) = {s \in said \ header : \E h \in header : h[2] = s[2]}
                    /\ \A i, j \in DOMAIN found : i < j => Earlier(found[i], found[j])
                    /\ \A p \in ToSet(text) : p[1] \in header /\ p[1][2] = p[2][2]

(* A table is searched as lines of "col: value" (semantic.py:228).         *)
Column(s) == IF doc[s[1]] = "edge" THEN s[2] + 1 ELSE s[2]
ValuesUnderTheirColumn ==
    stage = "done" =>
        \A node \in ToSet(nodes) : node.child.type = "table" =>
            \A p \in ToSet(NormalizeTable(node.child.content)) :
                p[1] # NoLabel => Column(p[1]) = Column(p[2])

(* What a context shows in place of a child holds the child: a parent's    *)
(* text contains the child's and cites its path, whenever the child's lines*)
(* fit a parent (semantic.py:57).                                          *)
ParentHoldsChild ==
    \A node \in ToSet(nodes) :
        node.parent # <<>> /\ Tokens(TextOf(doc, node.child.first, node.child.last)) <= ParentMaxTokens =>
            /\ ToSet(node.child.content) \subseteq ToSet(node.parent[1].content)
            /\ node.parent[1].path = node.child.path
=============================================================================
