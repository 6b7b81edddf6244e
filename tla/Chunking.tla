------------------------------ MODULE Chunking ------------------------------
(***************************************************************************)
(* SemanticChunker: blocks to chunks within a token budget, and the second *)
(* pass that gives chunks their parents.  A text is the sequence of its    *)
(* sentences <<line, index, tokens>>; the tokens of a text are the sum of  *)
(* theirs.  The content of a chunk is what a context shows of it, its      *)
(* raw_content or else its text.                                           *)
(***************************************************************************)
EXTENDS Markdown, SequencesExt

CONSTANTS MaxTokens,       \* chunk_max_tokens
          ParentMaxTokens  \* parent_chunk_max_tokens
ASSUME ChunkAssumption == MaxTokens \in Nat \ {0} /\ ParentMaxTokens \in Nat \ {0}

Tokens(text) == FoldLeft(LAMBDA sum, s : sum + s[3], 0, text)
LineText(doc, n) == [j \in DOMAIN Sentences(doc[n]) |-> <<n, j, Sentences(doc[n])[j]>>]
\* The content of lines first..last of the document.
TextOf(doc, first, last) == FlattenSeq([i \in 1..(last - first + 1) |-> LineText(doc, first + i - 1)])

\* One sentence joins the part under way if it fits, and starts the next one otherwise.
\* Mutant: the sentence that did not fit is lost.
PackDropping(s, x, budget) ==
    IF s.part = <<>> \/ Tokens(Append(s.part, x)) <= budget
    THEN [parts |-> s.parts, part |-> Append(s.part, x)]
    ELSE [parts |-> Append(s.parts, s.part), part |-> <<>>]
PackSentence(s, x, budget) ==
    IF s.part = <<>> \/ Tokens(Append(s.part, x)) <= budget
    THEN [parts |-> s.parts, part |-> Append(s.part, x)]
    ELSE [parts |-> Append(s.parts, s.part), part |-> <<x>>]
\* Sentences packed greedily; one that is over the budget by itself is a part of its own.
Pack(text, budget) ==
    LET after[n \in 0..Len(text)] ==
            IF n = 0 THEN [parts |-> <<>>, part |-> <<>>] ELSE PackSentence(after[n - 1], text[n], budget)
        end == after[Len(text)]
    IN IF end.part = <<>> THEN end.parts ELSE Append(end.parts, end.part)

\* token_split: an overlong part is one sentence, which its lines cannot divide any further.
TokenSplit(text, budget) == IF Tokens(text) <= budget THEN <<text>> ELSE Pack(text, budget)

\* EmbeddingSentenceSplitter.split: the text breaks before the sentences of low, which are unlike their
\* neighbour, and a group that is over the budget is packed; all of it is where the embedding is down or
\* no splitter is configured.
GroupSentence(s, x, low) ==
    IF s.part # <<>> /\ x \in low
    THEN [parts |-> Append(s.parts, s.part), part |-> <<x>>]
    ELSE [parts |-> s.parts, part |-> Append(s.part, x)]
Groups(text, low) ==
    LET after[n \in 0..Len(text)] ==
            IF n = 0 THEN [parts |-> <<>>, part |-> <<>>] ELSE GroupSentence(after[n - 1], text[n], low)
        end == after[Len(text)]
    IN Append(end.parts, end.part)
SplitOversized(text, budget, low, down) ==
    IF Len(text) <= 1 THEN <<text>>
    ELSE IF down THEN TokenSplit(text, budget)
    ELSE FlattenSeq([g \in DOMAIN Groups(text, low) |-> TokenSplit(Groups(text, low)[g], budget)])

\* The lines from the first of one block to the last of another, or of the same one.
Chunk(type, from, to, content) ==
    [type |-> type, path |-> from.path, first |-> from.first, last |-> to.last, content |-> content]

FlushParts(s) ==
    IF s.part = <<>> THEN s
    ELSE [part |-> <<>>, range |-> s.range,
          out |-> Append(s.out, Chunk("text", s.range[1], s.range[2], s.part))]

\* One text unit: it joins the chunk under way if it fits under the same heading, starts the next one,
\* or is split when it is over the budget alone.
Fits(s, block, budget) ==
    s.part # <<>> /\ s.range[1].path = block.path /\ Tokens(s.part \o block.content) <= budget
Joined(s, block) ==
    [part |-> s.part \o block.content, range |-> <<IF s.part = <<>> THEN block ELSE s.range[1], block>>,
     out |-> s.out]
Pieces(block, budget, split) ==
    LET texts == SplitOversized(block.content, budget, split.low, block.first \in split.down)
        type == IF block.type = "list" THEN "list" ELSE "text"
    IN [i \in DOMAIN texts |-> Chunk(type, block, block, texts[i])]
AddUnit(s, block, budget, split) ==
    LET t == IF Fits(s, block, budget) THEN s ELSE FlushParts(s)
    IN IF t.part # <<>> \/ Tokens(block.content) <= budget THEN Joined(t, block)
       ELSE [part |-> <<>>, range |-> t.range, out |-> t.out \o Pieces(block, budget, split)]

NoUnits == [part |-> <<>>, range |-> <<>>, out |-> <<>>]
EmitTextUnits(units, budget, split) ==
    LET after[n \in 0..Len(units)] ==
            IF n = 0 THEN NoUnits ELSE AddUnit(after[n - 1], units[n], budget, split)
    IN FlushParts(after[Len(units)]).out

\* _chunk_flat: headings, code and tables end the pending text; code and tables are never split.
FlushPending(s, budget, split) == s.out \o EmitTextUnits(s.pending, budget, split)
AddBlock(s, block, budget, split) ==
    IF block.type = "heading" THEN [pending |-> <<>>, out |-> FlushPending(s, budget, split)]
    ELSE IF block.type \in {"code", "table"}
    THEN [pending |-> <<>>,
          out |-> Append(FlushPending(s, budget, split), Chunk(block.type, block, block, block.content))]
    ELSE [pending |-> Append(s.pending, block), out |-> s.out]
ChunkFlat(blocks, budget, split) ==
    LET after[n \in 0..Len(blocks)] ==
            IF n = 0 THEN [pending |-> <<>>, out |-> <<>>]
            ELSE AddBlock(after[n - 1], blocks[n], budget, split)
    IN FlushPending(after[Len(blocks)], budget, split)

\* _normalize_table: what is searched of a table, <<label, cell>> for each value of a row after the first.
\* Rows of dashes are left out, cells beyond the header and empty ones too; a table without further rows
\* is searched as it is written, without labels.
NoLabel == <<>>
RowsOf(content) ==
    LET lines == {content[i][1] : i \in DOMAIN content}
    IN [n \in 1..Cardinality(lines) |->
           SelectSeq(content, LAMBDA s : s[1] = Min(lines) + n - 1)]
SaysSomething(row) == \E j \in DOMAIN row : row[j][3] # 0
\* Mutant: a row's empty cells are left out before its cells are paired with the header.
PairsClosedUp(header, row) ==
    LET written == SelectSeq(row, LAMBDA v : v[3] # 0)
    IN [j \in 1..Min({Len(header), Len(written)}) |-> <<header[j], written[j]>>]
Pairs(header, row) ==
    LET zip == [j \in 1..Min({Len(header), Len(row)}) |-> <<header[j], row[j]>>]
    IN SelectSeq(zip, LAMBDA p : p[2][3] # 0)
NormalizeTable(content) ==
    LET rows == SelectSeq(RowsOf(content), SaysSomething)
    IN IF Len(rows) < 2 THEN [i \in DOMAIN content |-> <<NoLabel, content[i]>>]
       ELSE FlattenSeq([n \in 1..(Len(rows) - 1) |-> Pairs(rows[1], rows[n + 1])])

\* _find_container: the first of the smallest parents of the same type whose lines hold the child's.
\* Mutant: any parent that starts before the child's end.
HoldsStart(parent, child) ==
    parent.type = child.type /\ parent.first <= child.last
Holds(parent, child) ==
    parent.type = child.type /\ parent.first <= child.first /\ child.last <= parent.last
Container(child, parents) ==
    LET holding == {i \in DOMAIN parents : Holds(parents[i], child)}
        span(i) == parents[i].last - parents[i].first
        least == {i \in holding : \A j \in holding : span(i) <= span(j)}
    IN IF child.type \in {"code", "table"} \/ holding = {} THEN 0 ELSE Min(least)

ChunkWithParents(blocks, split, parentSplit) ==
    LET children == ChunkFlat(blocks, MaxTokens, split)
        parents == ChunkFlat(blocks, ParentMaxTokens, parentSplit)
    IN [i \in DOMAIN children |->
           LET p == Container(children[i], parents)
           IN [child |-> children[i], parent |-> IF p = 0 THEN <<>> ELSE <<parents[p]>>]]
\* Without context_expand_to_parent.
ChunkAlone(blocks, split) ==
    LET children == ChunkFlat(blocks, MaxTokens, split)
    IN [i \in DOMAIN children |-> [child |-> children[i], parent |-> <<>>]]
=============================================================================
