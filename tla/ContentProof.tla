---------------------------- MODULE ContentProof ----------------------------
(***************************************************************************)
(* Proof, for documents of any length and any budgets: the Markdown parser *)
(* loses no line, cites none twice and puts every block under the right    *)
(* headings; the chunks of both passes say what the blocks say, in order,  *)
(* under their paths; and every parent holds the text of its children.     *)
(***************************************************************************)
EXTENDS Content, OrderingProof

-----------------------------------------------------------------------------
(* A block of the scanner.                                                  *)

TextTypes == {"table", "list", "quote", "paragraph"}
BlockTypes == TextTypes \cup {"heading", "code"}

LEMMA DocumentTyped ==
  ASSUME NEW d \in Document
  PROVE  Len(d) \in Nat /\ DOMAIN d = 1..Len(d) /\ \A i \in 1..Len(d) : d[i] \in Kind
<1>1. PICK n \in 1..MaxLines : d \in [1..n -> Kind]
  BY DEF Document
<1>2. n \in Nat
  BY MarkdownAssumption DEF MarkdownAssumption
<1>3. d \in Seq(Kind) /\ Len(d) = n
  BY <1>1, <1>2
<1> QED
  BY <1>1, <1>2, <1>3

LEMMA RunEndFits ==
  ASSUME NEW d \in Document, NEW i \in 1..Len(d), NEW S
  PROVE  /\ RunEnd(d, i, S) \in i..Len(d)
         /\ \A k \in (i + 1)..RunEnd(d, i, S) : d[k] \in S
<1> DEFINE R == {j \in i..Len(d) : \A k \in (i + 1)..j : d[k] \in S}
<1>1. Len(d) \in Nat
  BY DocumentTyped
<1>2. R \in SUBSET (0..Len(d))
  BY <1>1
<1>3. i \in R
  BY <1>1
<1>4. Max(R) \in R
  BY <1>1, <1>2, <1>3, MaxOf
<1>5. RunEnd(d, i, S) = Max(R)
  BY DEF RunEnd
<1> QED
  BY <1>4, <1>5

LEMMA CodeEndFits ==
  ASSUME NEW d \in Document, NEW i \in 1..Len(d), d[i] # "blank"
  PROVE  CodeEnd(d, i) \in i..Len(d)
<1> DEFINE e == RunEnd(d, i, Indented \cup {"blank"})
           W == {k \in i..e : d[k] # "blank"}
<1>1. Len(d) \in Nat
  BY DocumentTyped
<1>2. e \in i..Len(d)
  BY RunEndFits
<1> HIDE DEF e
<1>3. W \in SUBSET (0..Len(d)) /\ i \in W
  BY <1>1, <1>2
<1>4. Max(W) \in W
  BY <1>1, <1>3, MaxOf
<1>5. CodeEnd(d, i) = Max(W)
  BY DEF CodeEnd, LastWritten, e
<1> QED
  BY <1>1, <1>2, <1>4, <1>5

LEMMA FenceEndFits ==
  ASSUME NEW d \in Document, NEW i \in 1..Len(d)
  PROVE  FenceEnd(d, i) \in i..Len(d)
<1> DEFINE C == {j \in (i + 1)..Len(d) : d[j] = d[i]}
<1>1. Len(d) \in Nat
  BY DocumentTyped
<1>2. CASE C = {}
  BY <1>1, <1>2 DEF FenceEnd
<1>3. CASE C # {}
  <2>1. C \in SUBSET Nat
    BY <1>1
  <2>2. Min(C) \in C
    BY <1>3, <2>1, MinOf
  <2>3. FenceEnd(d, i) = Min(C)
    BY <1>3 DEF FenceEnd
  <2> QED
    BY <1>1, <2>2, <2>3
<1> QED
  BY <1>2, <1>3

LEMMA BlockFits ==
  ASSUME NEW d \in Document, NEW i \in 1..Len(d), d[i] # "blank"
  PROVE  /\ BlockAt(d, i).last \in i..Len(d) /\ BlockAt(d, i).type \in BlockTypes
         /\ BlockAt(d, i).type = "heading" <=> d[i] \in Heading
         /\ BlockAt(d, i).type \in TextTypes =>
               \A n \in i..BlockAt(d, i).last : d[n] \notin Heading \cup Fence
<1> DEFINE k == d[i]
           b == BlockAt(d, i)
<1>1. Len(d) \in Nat /\ k \in Kind
  BY DocumentTyped
<1>2. ASSUME NEW S, NEW t \in TextTypes, b = [type |-> t, last |-> RunEnd(d, i, S)],
             S \cap (Heading \cup Fence) = {}, k \notin Heading, k \notin Fence
      PROVE  /\ b.last \in i..Len(d) /\ b.type \in BlockTypes
             /\ b.type = "heading" <=> k \in Heading
             /\ b.type \in TextTypes => \A n \in i..b.last : d[n] \notin Heading \cup Fence
  <2>1. b.last = RunEnd(d, i, S) /\ b.type = t
    BY <1>2
  <2>2. \A n \in (i + 1)..b.last : d[n] \in S
    BY <2>1, RunEndFits
  <2>3. b.last \in i..Len(d)
    BY <2>1, RunEndFits
  <2> QED
    BY <1>1, <1>2, <2>1, <2>2, <2>3 DEF TextTypes, BlockTypes
<1>3. CASE k \in Heading
  <2>1. k \notin Fence /\ k \notin Row /\ k # "indent" /\ k \notin Item /\ k # "quote"
    BY <1>3 DEF Heading, Fence, Item, Row
  <2>2. b = [type |-> "heading", last |-> i]
    BY <1>3, <2>1, Zenon DEF BlockAt
  <2> QED
    BY <1>1, <1>3, <2>2 DEF TextTypes, BlockTypes
<1>4. CASE k \in Fence
  <2>1. k \notin Heading /\ k \notin Row /\ k # "indent" /\ k \notin Item /\ k # "quote"
    BY <1>4 DEF Heading, Fence, Item, Row
  <2>2. b = [type |-> "code", last |-> FenceEnd(d, i)]
    BY <1>4, <2>1, Zenon DEF BlockAt
  <2> QED
    BY <1>1, <1>4, <2>2, FenceEndFits DEF TextTypes, BlockTypes, Heading, Fence
<1>5. CASE k \in Row
  <2>1. k \notin Heading /\ k \notin Fence /\ k # "indent" /\ k \notin Item /\ k # "quote"
    BY <1>5 DEF Heading, Fence, Item, Row
  <2>2. b = [type |-> "table", last |-> RunEnd(d, i, Row)]
    BY <1>5, <2>1, Zenon DEF BlockAt
  <2>3. Row \cap (Heading \cup Fence) = {}
    BY DEF Heading, Fence, Row
  <2>4. "table" \in TextTypes
    BY DEF TextTypes
  <2> QED
    BY <1>2, <2>1, <2>2, <2>3, <2>4
<1>6. CASE k = "indent"
  <2>1. k \notin Heading /\ k \notin Fence /\ k \notin Row /\ k \notin Item /\ k # "quote"
    BY <1>6 DEF Heading, Fence, Item, Row
  <2>2. b = [type |-> "code", last |-> CodeEnd(d, i)]
    BY <1>6, <2>1, Zenon DEF BlockAt
  <2> QED
    BY <1>1, <1>6, <2>2, CodeEndFits DEF TextTypes, BlockTypes, Heading, Fence
<1>7. CASE k \in Item
  <2>1. k \notin Heading /\ k \notin Fence /\ k \notin Row /\ k # "indent" /\ k # "quote"
    BY <1>7 DEF Heading, Fence, Item, Row
  <2>2. b = [type |-> "list", last |-> RunEnd(d, i, Item \cup Indented)]
    BY <1>7, <2>1, Zenon DEF BlockAt
  <2>3. (Item \cup Indented) \cap (Heading \cup Fence) = {}
    BY DEF Heading, Fence, Item, Indented
  <2>4. "list" \in TextTypes
    BY DEF TextTypes
  <2> QED
    BY <1>2, <2>1, <2>2, <2>3, <2>4
<1>8. CASE k = "quote"
  <2>1. k \notin Heading /\ k \notin Fence /\ k \notin Row /\ k # "indent" /\ k \notin Item
    BY <1>8 DEF Heading, Fence, Item, Row
  <2>2. b = [type |-> "quote", last |-> RunEnd(d, i, {"quote"})]
    BY <1>8, <2>1, Zenon DEF BlockAt
  <2>3. {"quote"} \cap (Heading \cup Fence) = {}
    BY DEF Heading, Fence
  <2>4. "quote" \in TextTypes
    BY DEF TextTypes
  <2> QED
    BY <1>2, <2>1, <2>2, <2>3, <2>4
<1>9. CASE k \notin Heading \cup Fence \cup Item \cup Row \cup {"indent", "quote"}
  <2>1. /\ k \notin Heading /\ k \notin Fence /\ k \notin Item
        /\ k \notin Row /\ k # "indent" /\ k # "quote"
    BY <1>9
  <2>2. b = [type |-> "paragraph", last |-> RunEnd(d, i, Kind \ BreaksParagraph)]
    BY <2>1, Zenon DEF BlockAt
  <2>3. (Kind \ BreaksParagraph) \cap (Heading \cup Fence) = {}
    BY DEF Heading, Fence, BreaksParagraph
  <2>4. "paragraph" \in TextTypes
    BY DEF TextTypes
  <2> QED
    BY <1>2, <2>1, <2>2, <2>3, <2>4
<1> QED
  BY <1>3, <1>4, <1>5, <1>6, <1>7, <1>8, <1>9

-----------------------------------------------------------------------------
(* The heading stack.                                                       *)

Entry == [level : {1, 2}, line : Nat]
Stack == Seq(Entry)
Nested(s) == \A d, e \in DOMAIN s : d < e => s[d].level < s[e].level /\ s[d].line < s[e].line

LEMMA StackTyped ==
  ASSUME NEW s \in Stack
  PROVE  /\ Len(s) \in Nat /\ DOMAIN s = 1..Len(s)
         /\ \A d \in 1..Len(s) : s[d] \in Entry /\ s[d].level \in {1, 2} /\ s[d].line \in Nat
<1>1. s \in Seq(Entry)
  BY DEF Stack
<1>2. Len(s) \in Nat /\ DOMAIN s = 1..Len(s)
  BY <1>1
<1>3. \A d \in 1..Len(s) : s[d] \in Entry
  BY <1>1
<1> QED
  BY <1>2, <1>3 DEF Entry

LinesOf(s) == {s[d].line : d \in DOMAIN s}
Ranked(d, s) == \A i \in DOMAIN s : s[i].level = Level(d[s[i].line])

\* A heading closes those of its own and of lower rank, and only those.
LEMMA PushKeeps ==
  ASSUME NEW s \in Stack, NEW l \in {1, 2}, NEW n \in Nat, Nested(s)
  PROVE  \E k \in 0..Len(s) :
            /\ Push(s, l, n) = Append(SubSeq(s, 1, k), [level |-> l, line |-> n])
            /\ \A d \in 1..Len(s) : d <= k <=> s[d].level < l
<1> DEFINE below(d) == \A e \in 1..d : s[e].level < l
           D == {0} \cup {d \in DOMAIN s : below(d)}
<1>1. Len(s) \in Nat /\ DOMAIN s = 1..Len(s) /\ \A d \in 1..Len(s) : s[d].level \in {1, 2}
  BY StackTyped
<1>2. D \in SUBSET (0..Len(s)) /\ D # {}
  BY <1>1
<1>3. Max(D) \in D /\ \A d \in D : d <= Max(D)
  BY <1>1, <1>2, MaxOf
<1>4. ASSUME NEW d \in 1..Len(s)
      PROVE  d <= Max(D) <=> s[d].level < l
  <2>1. Max(D) \in 0..Len(s) /\ (Max(D) # 0 => below(Max(D)))
    BY <1>2, <1>3
  <2>2. d <= Max(D) => s[d].level < l
    BY <1>1, <2>1
  <2>3. ASSUME s[d].level < l
        PROVE  below(d)
    <3>1. \A e \in 1..d : e = d \/ s[e].level < s[d].level
      BY <1>1 DEF Nested
    <3> QED
      BY <1>1, <2>3, <3>1
  <2>4. s[d].level < l => d \in D
    BY <1>1, <2>3
  <2> QED
    BY <1>3, <2>2, <2>4
<1>5. Push(s, l, n) = Append(SubSeq(s, 1, Max(D)), [level |-> l, line |-> n])
  BY DEF Push
<1>6. Max(D) \in 0..Len(s)
  BY <1>2, <1>3
<1> HIDE DEF D
<1> QED
  BY <1>4, <1>5, <1>6

-----------------------------------------------------------------------------
(* The inductive invariant.  Scanned: the blocks lie before the line the    *)
(* scanner is at, in order, and cover what has been scanned.  Filed: the    *)
(* stack holds the open headings, and every path those that were open then. *)

ParserTypeOK ==
    /\ doc \in Document
    /\ next \in Nat \ {0}
    /\ stack \in Stack
    /\ blocks \in Seq(ToSet(blocks))

Scanned ==
    /\ \A i \in DOMAIN blocks : /\ blocks[i].first \in 1..(next - 1)
                                /\ blocks[i].last \in blocks[i].first..(next - 1)
    /\ \A i, j \in DOMAIN blocks : i < j => blocks[i].last < blocks[j].first
    /\ \A n \in BodyStart(doc)..(next - 1) : doc[n] # "blank" =>
           \E i \in DOMAIN blocks : n \in Lines(blocks[i])
    /\ \A i \in DOMAIN blocks : blocks[i].type \in TextTypes =>
           \A n \in Lines(blocks[i]) : doc[n] \notin Heading \cup Fence

Filed ==
    /\ Nested(stack)
    /\ Ranked(doc, stack)
    /\ LinesOf(stack) = OpenAt(next)
    /\ \A i \in DOMAIN blocks : IsPathAt(blocks[i].path, blocks[i].first)

ParserInv == ParserTypeOK /\ Scanned /\ Filed

LEMMA ParserInit ==
  ASSUME Init
  PROVE  ParserInv
<1>1. doc \in Document /\ stack = <<>> /\ blocks = <<>> /\ next = BodyStart(doc)
  BY DEF Init
<1>2. BodyStart(doc) \in Nat \ {0}
  <2>1. Len(doc) \in Nat
    BY <1>1, DocumentTyped
  <2>2. CASE HasFrontMatter(doc)
    <3>1. ClosingRules(doc) \in SUBSET Nat /\ ClosingRules(doc) # {}
      BY <2>1, <2>2 DEF ClosingRules, HasFrontMatter
    <3>2. Min(ClosingRules(doc)) \in Nat
      BY <3>1, MinOf
    <3> QED
      BY <2>2, <3>2 DEF BodyStart
  <2>3. CASE ~HasFrontMatter(doc)
    BY <2>3 DEF BodyStart
  <2> QED
    BY <2>2, <2>3
<1>3. ParserTypeOK
  <2>1. ToSet(blocks) = {} /\ blocks \in Seq({})
    BY <1>1 DEF ToSet
  <2> QED
    BY <1>1, <1>2, <2>1 DEF ParserTypeOK, Stack
<1>4. Scanned
  BY <1>1, <1>2 DEF Scanned
<1>5. Filed
  <2>1. Headings = {}
    BY <1>1 DEF Headings, ToSet
  <2>2. OpenAt(next) = {}
    BY <2>1 DEF OpenAt
  <2> QED
    BY <1>1, <2>2 DEF Filed, Nested, LinesOf, Ranked
<1> QED
  BY <1>3, <1>4, <1>5 DEF ParserInv

LEMMA InvGivesCited ==
  ASSUME ParserInv
  PROVE  BlocksCited
<1>1. \A i \in DOMAIN blocks : blocks[i].first \in Nat /\ blocks[i].last \in Nat
  BY DEF ParserInv, ParserTypeOK, Scanned
<1>2. DOMAIN blocks \in SUBSET Nat
  BY DEF ParserInv, ParserTypeOK
<1>3. \A i, j \in DOMAIN blocks : i < j => Lines(blocks[i]) \cap Lines(blocks[j]) = {}
  BY <1>1, <1>2 DEF ParserInv, Scanned, Lines
<1>4. \A n \in BodyStart(doc)..(next - 1) : doc[n] # "blank" => \E b \in ToSet(blocks) : n \in Lines(b)
  BY DEF ParserInv, Scanned, ToSet
<1>5. \A b \in ToSet(blocks) : IsPathAt(b.path, b.first)
  BY DEF ParserInv, Filed, ToSet
<1>6. \A b \in ToSet(blocks) :
         b.type \in TextTypes => \A n \in Lines(b) : doc[n] \notin Heading \cup Fence
  BY DEF ParserInv, Scanned, ToSet
<1> QED
  BY <1>3, <1>4, <1>5, <1>6 DEF BlocksCited, TextTypes

-----------------------------------------------------------------------------
(* The headings a line is under depend on the lines of the headings alone.  *)

HeadingLines == {b.first : b \in Headings}
OpenOf(d, F, n) ==
    {f \in F : f <= n /\ \A g \in F : g <= n /\ g > f => Level(d[g]) > Level(d[f])}

LEMMA OpenByLines == \A n : OpenAt(n) = OpenOf(doc, HeadingLines, n)
BY DEF OpenAt, OpenOf, HeadingLines

LEMMA OpenSoFar ==
  ASSUME NEW d, NEW m \in Nat, NEW F \in SUBSET (1..(m - 1)), NEW n \in Nat, n >= m
  PROVE  /\ OpenOf(d, F, n) = OpenOf(d, F, m)
         /\ \A f : f \in OpenOf(d, F \cup {m}, n) <=>
                    \/ f \in OpenOf(d, F, m) /\ Level(d[f]) < Level(d[m])
                    \/ f = m
<1>1. \A f \in F : f \in Nat /\ f < m /\ f <= n
  OBVIOUS
<1>2. OpenOf(d, F, n) = OpenOf(d, F, m)
  <2>1. \A f \in F : f <= m
    BY <1>1
  <2>2. ASSUME NEW f \in F
        PROVE  f \in OpenOf(d, F, n) <=> f \in OpenOf(d, F, m)
    BY <1>1, <2>1 DEF OpenOf
  <2>3. OpenOf(d, F, n) \subseteq F /\ OpenOf(d, F, m) \subseteq F
    BY DEF OpenOf
  <2> QED
    BY <2>2, <2>3
<1>3. \A f \in F \cup {m} : Level(d[f]) \in {1, 2}
  BY DEF Level
<1>4. ASSUME NEW f \in F
      PROVE  f \in OpenOf(d, F \cup {m}, n) <=> f \in OpenOf(d, F, m) /\ Level(d[f]) < Level(d[m])
  BY <1>1, <1>3 DEF OpenOf
<1>5. m \in OpenOf(d, F \cup {m}, n)
  BY <1>1 DEF OpenOf
<1>6. OpenOf(d, F \cup {m}, n) \subseteq F \cup {m} /\ OpenOf(d, F, m) \subseteq F
  BY DEF OpenOf
<1> QED
  BY <1>2, <1>4, <1>5, <1>6

LEMMA OpenBefore ==
  ASSUME NEW d, NEW m \in Nat, NEW F \in SUBSET (1..(m - 1)), NEW n \in 1..(m - 1)
  PROVE  OpenOf(d, F \cup {m}, n) = OpenOf(d, F, n)
<1>1. ~(m <= n)
  OBVIOUS
<1> QED
  BY <1>1 DEF OpenOf

LEMMA HeadingsBehind ==
  ASSUME ParserTypeOK, Scanned
  PROVE  HeadingLines \in SUBSET (1..(next - 1))
BY DEF ParserTypeOK, Scanned, HeadingLines, Headings, ToSet

LEMMA BlockAppended ==
  ASSUME ParserTypeOK, NEW x, blocks' = Append(blocks, x)
  PROVE  /\ Len(blocks) \in Nat /\ DOMAIN blocks = 1..Len(blocks)
         /\ DOMAIN blocks' = DOMAIN blocks \cup {Len(blocks) + 1}
         /\ \A i \in DOMAIN blocks : blocks'[i] = blocks[i]
         /\ blocks'[Len(blocks) + 1] = x
         /\ ToSet(blocks') = ToSet(blocks) \cup {x}
         /\ blocks' \in Seq(ToSet(blocks'))
<1> DEFINE S == ToSet(blocks)
<1>1. blocks \in Seq(S)
  BY DEF ParserTypeOK
<1> HIDE DEF S
<1>2. /\ Len(blocks) \in Nat /\ DOMAIN blocks = 1..Len(blocks)
      /\ DOMAIN blocks' = DOMAIN blocks \cup {Len(blocks) + 1}
      /\ \A i \in DOMAIN blocks : blocks'[i] = blocks[i]
      /\ blocks'[Len(blocks) + 1] = x
  BY <1>1
<1>3. ToSet(blocks') = ToSet(blocks) \cup {x}
  BY <1>2 DEF ToSet
<1>4. blocks' \in Seq(S \cup {x})
  BY <1>1
<1> QED
  BY <1>2, <1>3, <1>4 DEF S

-----------------------------------------------------------------------------
(* The steps of the scanner.                                                *)

\* The lines of the stack after a heading are the open headings after it.
LEMMA PushOpens ==
  ASSUME NEW d, NEW s \in Stack, NEW m \in Nat, NEW s2, Nested(s), Ranked(d, s),
         \A i \in DOMAIN s : s[i].line < m,
         s2 = Push(s, Level(d[m]), m)
  PROVE  /\ s2 \in Stack /\ Nested(s2) /\ Ranked(d, s2)
         /\ \A f : f \in LinesOf(s2) <=>
                    \/ f \in LinesOf(s) /\ Level(d[f]) < Level(d[m])
                    \/ f = m
<1> DEFINE top == [level |-> Level(d[m]), line |-> m]
<1>1. Level(d[m]) \in {1, 2}
  BY DEF Level
<1>2. top \in Entry /\ top.level = Level(d[m]) /\ top.line = m
  BY <1>1 DEF Entry
<1>3. /\ Len(s) \in Nat /\ DOMAIN s = 1..Len(s)
      /\ \A i \in 1..Len(s) : s[i] \in Entry /\ s[i].level \in {1, 2} /\ s[i].line \in Nat
  BY StackTyped
<1>4. PICK k \in 0..Len(s) : /\ s2 = Append(SubSeq(s, 1, k), top)
                             /\ \A i \in 1..Len(s) : i <= k <=> s[i].level < Level(d[m])
  BY <1>1, PushKeeps
<1>a. k \in Nat /\ k <= Len(s)
  BY <1>3
<1> HIDE DEF top
<1>5. /\ SubSeq(s, 1, k) \in Stack /\ Len(SubSeq(s, 1, k)) = k
      /\ \A i \in 1..k : SubSeq(s, 1, k)[i] = s[i]
  BY <1>3 DEF Stack
<1>6. /\ s2 \in Stack /\ DOMAIN s2 = 1..(k + 1) /\ s2[k + 1] = top
      /\ \A i \in 1..k : s2[i] = s[i]
  BY <1>2, <1>4, <1>5 DEF Stack
<1>7. \A i \in 1..k : /\ i \in 1..Len(s) /\ i <= k
                      /\ s2[i].line = s[i].line /\ s[i].line < m /\ s[i].line \in Nat
                      /\ s2[i].level = s[i].level /\ s[i].level \in {1, 2}
                      /\ s[i].level < Level(d[m]) /\ s[i].level = Level(d[s[i].line])
  <2> TAKE i \in 1..k
  <2>1. i \in 1..Len(s) /\ i <= k
    BY <1>3
  <2>2. s[i].level = Level(d[s[i].line]) /\ s[i].line < m
    BY <1>3, <2>1 DEF Ranked
  <2> QED
    BY <1>3, <1>4, <1>6, <2>1, <2>2
<1>8. Nested(s2)
  <2> SUFFICES ASSUME NEW i \in 1..(k + 1), NEW j \in 1..(k + 1), i < j
               PROVE  s2[i].level < s2[j].level /\ s2[i].line < s2[j].line
    BY <1>6 DEF Nested
  <2>1. i \in 1..k
    BY <1>3
  <2>2. CASE j = k + 1
    BY <1>2, <1>6, <1>7, <2>1, <2>2
  <2>3. CASE j # k + 1
    <3>1. j \in 1..k
      BY <1>a, <2>3
    <3>2. s[i].level < s[j].level /\ s[i].line < s[j].line
      BY <1>3, <1>7, <2>1, <3>1 DEF Nested
    <3> QED
      BY <1>7, <2>1, <3>1, <3>2
  <2> QED
    BY <2>2, <2>3
<1>9. Ranked(d, s2)
  <2>1. s2[k + 1].level = Level(d[s2[k + 1].line])
    BY <1>2, <1>6
  <2>2. \A i \in 1..k : s2[i].level = Level(d[s2[i].line])
    BY <1>7
  <2>3. DOMAIN s2 = (1..k) \cup {k + 1}
    BY <1>3, <1>6
  <2> QED
    BY <2>1, <2>2, <2>3 DEF Ranked
<1>10. \A f : f \in {s2[i].line : i \in 1..(k + 1)} <=>
                \/ f \in {s[i].line : i \in 1..Len(s)} /\ Level(d[f]) < Level(d[m])
                \/ f = m
  <2>1. \A i \in 1..Len(s) : Level(d[s[i].line]) < Level(d[m]) <=> i \in 1..k
    <3>1. \A i \in 1..Len(s) : s[i].level = Level(d[s[i].line])
      BY <1>3 DEF Ranked
    <3>2. \A i \in 1..Len(s) : i <= k <=> i \in 1..k
      BY <1>a
    <3> QED
      BY <1>4, <3>1, <3>2
  <2>2. \A i \in 1..k : i \in 1..Len(s) /\ s2[i].line = s[i].line
    BY <1>7
  <2>3. s2[k + 1].line = m /\ 1..(k + 1) = (1..k) \cup {k + 1}
    BY <1>2, <1>6
  <2> QED
    BY <2>1, <2>2, <2>3
<1> QED
  BY <1>3, <1>6, <1>8, <1>9, <1>10 DEF LinesOf

LEMMA SkipKeeps ==
  ASSUME ParserInv, SkipBlank
  PROVE  ParserInv'
<1>1. /\ doc' = doc /\ stack' = stack /\ blocks' = blocks /\ next' = next + 1
      /\ doc[next] = "blank" /\ next \in Nat \ {0}
  BY DEF SkipBlank, ParserInv, ParserTypeOK
<1>2. ParserTypeOK'
  BY <1>1 DEF ParserInv, ParserTypeOK
<1>3. Scanned'
  <2>1. \A i \in DOMAIN blocks : /\ blocks[i].first \in 1..next
                                 /\ blocks[i].last \in blocks[i].first..next
    BY <1>1 DEF ParserInv, Scanned
  <2>2. ASSUME NEW n \in BodyStart(doc)..next, doc[n] # "blank"
        PROVE  n \in BodyStart(doc)..(next - 1)
    BY <1>1, <2>2
  <2>3. \A n \in BodyStart(doc)..next : doc[n] # "blank" =>
            \E i \in DOMAIN blocks : n \in Lines(blocks[i])
    BY <2>2 DEF ParserInv, Scanned
  <2> QED
    BY <1>1, <2>1, <2>3 DEF ParserInv, Scanned, Lines
<1>4. Filed'
  <2>1. HeadingLines \in SUBSET (1..(next - 1))
    BY HeadingsBehind DEF ParserInv
  <2>2. OpenOf(doc, HeadingLines, next + 1) = OpenOf(doc, HeadingLines, next)
    <3>1. next \in Nat /\ next + 1 \in Nat /\ next + 1 >= next
      BY <1>1
    <3> QED
      BY <2>1, <3>1, OpenSoFar
  <2>3. OpenAt(next)' = OpenAt(next)
    BY <1>1, <2>2, OpenByLines DEF OpenAt, OpenOf, HeadingLines, Headings
  <2>4. \A i \in DOMAIN blocks : IsPathAt(blocks[i].path, blocks[i].first)'
    BY <1>1 DEF ParserInv, Filed, IsPathAt, OpenAt, Headings
  <2> QED
    BY <1>1, <2>3, <2>4 DEF ParserInv, Filed
<1> QED
  BY <1>2, <1>3, <1>4 DEF ParserInv

LEMMA BlockKeeps ==
  ASSUME ParserInv, ParseBlock
  PROVE  ParserInv'
<1> DEFINE b == BlockAt(doc, next)
           N == Len(blocks) + 1
<1>1. /\ doc' = doc /\ next \in Nat \ {0} /\ next \in 1..Len(doc) /\ doc[next] # "blank"
      /\ next' = b.last + 1 /\ doc \in Document /\ Len(doc) \in Nat /\ stack \in Stack
      /\ stack' = IF b.type = "heading" THEN Push(stack, Level(doc[next]), next) ELSE stack
  <2>1. doc \in Document /\ next \in Nat \ {0} /\ stack \in Stack
    BY DEF ParserInv, ParserTypeOK
  <2>2. Len(doc) \in Nat
    BY <2>1, DocumentTyped
  <2> QED
    BY <2>1, <2>2 DEF ParseBlock
<1>2. /\ b.last \in next..Len(doc)
      /\ b.type = "heading" <=> doc[next] \in Heading
      /\ b.type \in TextTypes => \A n \in next..b.last : doc[n] \notin Heading \cup Fence
  BY <1>1, BlockFits
<1>3. PICK x : /\ blocks' = Append(blocks, x)
               /\ x.type = b.type /\ x.first = next /\ x.last = b.last /\ x.path = PathOf(stack')
  BY DEF ParseBlock
<1> HIDE DEF b
<1>4. /\ Len(blocks) \in Nat /\ DOMAIN blocks = 1..Len(blocks)
      /\ DOMAIN blocks' = DOMAIN blocks \cup {N}
      /\ \A i \in DOMAIN blocks : blocks'[i] = blocks[i]
      /\ blocks'[N] = x
      /\ ToSet(blocks') = ToSet(blocks) \cup {x}
      /\ blocks' \in Seq(ToSet(blocks'))
  BY <1>3, BlockAppended DEF ParserInv
<1> HIDE DEF N
<1>5. HeadingLines \in SUBSET (1..(next - 1))
  BY HeadingsBehind DEF ParserInv
<1>6. HeadingLines' = IF b.type = "heading" THEN HeadingLines \cup {next} ELSE HeadingLines
  BY <1>3, <1>4 DEF HeadingLines, Headings
<1>7. \A d \in DOMAIN stack : stack[d].line < next
  <2>1. OpenOf(doc, HeadingLines, next) \subseteq HeadingLines
    BY DEF OpenOf
  <2>2. \A d \in DOMAIN stack : stack[d].line \in HeadingLines
    BY <2>1, OpenByLines DEF ParserInv, Filed, LinesOf
  <2>3. \A f \in HeadingLines : f < next
    BY <1>1, <1>5
  <2> QED
    BY <2>2, <2>3
<1>8. /\ stack' \in Stack /\ Nested(stack') /\ Ranked(doc, stack')
      /\ \A n \in Nat : n >= next =>
             LinesOf(stack') = OpenOf(doc, HeadingLines', n)
  <2>1. /\ LinesOf(stack) = OpenOf(doc, HeadingLines, next)
        /\ Nested(stack) /\ Ranked(doc, stack)
    BY OpenByLines DEF ParserInv, Filed
  <2>2. CASE b.type = "heading"
    <3>1. stack' = Push(stack, Level(doc[next]), next)
      BY <1>1, <2>2
    <3>a. next \in Nat
      BY <1>1
    <3>2. /\ stack' \in Stack /\ Nested(stack') /\ Ranked(doc, stack')
          /\ \A f : f \in LinesOf(stack') <=>
                     \/ f \in LinesOf(stack) /\ Level(doc[f]) < Level(doc[next])
                     \/ f = next
      BY <1>1, <1>7, <2>1, <3>a, <3>1, PushOpens
    <3>3. \A n \in Nat : n >= next => \A f : f \in OpenOf(doc, HeadingLines', n) <=>
              \/ f \in OpenOf(doc, HeadingLines, next) /\ Level(doc[f]) < Level(doc[next])
              \/ f = next
      BY <1>5, <1>6, <2>2, <3>a, OpenSoFar
    <3> QED
      BY <2>1, <3>2, <3>3
  <2>3. CASE b.type # "heading"
    <3>1. stack' = stack /\ HeadingLines' = HeadingLines
      BY <1>1, <1>6, <2>3
    <3>2. next \in Nat
      BY <1>1
    <3>3. \A n \in Nat : n >= next => OpenOf(doc, HeadingLines, n) = OpenOf(doc, HeadingLines, next)
      BY <1>5, <3>2, OpenSoFar
    <3> QED
      BY <1>1, <1>7, <2>1, <3>1, <3>3
  <2> QED
    BY <2>2, <2>3
<1>9. ParserTypeOK'
  BY <1>1, <1>2, <1>4, <1>8 DEF ParserTypeOK
<1>10. Scanned'
  <2>1. /\ \A i \in DOMAIN blocks : /\ blocks[i].first \in 1..(next - 1)
                                    /\ blocks[i].last \in blocks[i].first..(next - 1)
        /\ next' - 1 = b.last /\ b.last \in Nat /\ next <= b.last
    BY <1>1, <1>2 DEF ParserInv, Scanned
  <2>2. \A i \in DOMAIN blocks' : /\ blocks'[i].first \in 1..(next' - 1)
                                  /\ blocks'[i].last \in blocks'[i].first..(next' - 1)
    <3>1. next \in Nat /\ next' - 1 \in Nat /\ next - 1 <= next' - 1
      BY <1>1, <2>1
    <3>2. ASSUME NEW i \in DOMAIN blocks
          PROVE  /\ blocks'[i].first \in 1..(next' - 1)
                 /\ blocks'[i].last \in blocks'[i].first..(next' - 1)
      <4>1. /\ blocks'[i] = blocks[i]
            /\ blocks[i].first \in 1..(next - 1) /\ blocks[i].last \in blocks[i].first..(next - 1)
        BY <1>4, <2>1
      <4> QED
        BY <3>1, <4>1
    <3>3. /\ blocks'[N].first \in 1..(next' - 1)
          /\ blocks'[N].last \in blocks'[N].first..(next' - 1)
      BY <1>1, <1>3, <1>4, <2>1
    <3> QED
      BY <1>4, <3>2, <3>3
  <2>3. \A i, j \in DOMAIN blocks' : i < j => blocks'[i].last < blocks'[j].first
    <3> SUFFICES ASSUME NEW i \in DOMAIN blocks', NEW j \in DOMAIN blocks', i < j
                 PROVE  blocks'[i].last < blocks'[j].first
      OBVIOUS
    <3>1. i \in DOMAIN blocks
      BY <1>4 DEF N
    <3>2. CASE j = N
      BY <1>1, <1>3, <1>4, <2>1, <3>1, <3>2
    <3>3. CASE j \in DOMAIN blocks
      BY <1>4, <3>1, <3>3 DEF ParserInv, Scanned
    <3> QED
      BY <1>4, <3>2, <3>3
  <2>4. \A n \in BodyStart(doc)..(next' - 1) : doc[n] # "blank" =>
            \E i \in DOMAIN blocks' : n \in Lines(blocks'[i])
    <3> SUFFICES ASSUME NEW n \in BodyStart(doc)..(next' - 1), doc[n] # "blank"
                 PROVE  \E i \in DOMAIN blocks' : n \in Lines(blocks'[i])
      OBVIOUS
    <3>1. CASE n < next
      <4>1. n \in BodyStart(doc)..(next - 1)
        BY <1>1, <3>1
      <4>2. PICK i \in DOMAIN blocks : n \in Lines(blocks[i])
        BY <4>1 DEF ParserInv, Scanned
      <4> QED
        BY <1>4, <4>2
    <3>2. CASE ~(n < next)
      <4>1. n \in Lines(blocks'[N])
        BY <1>1, <1>3, <1>4, <2>1, <3>2 DEF Lines
      <4> QED
        BY <1>4, <4>1
    <3> QED
      BY <3>1, <3>2
  <2>5. \A i \in DOMAIN blocks' : blocks'[i].type \in TextTypes =>
            \A n \in Lines(blocks'[i]) : doc[n] \notin Heading \cup Fence
    BY <1>2, <1>3, <1>4 DEF ParserInv, Scanned, Lines
  <2> QED
    BY <1>1, <2>2, <2>3, <2>4, <2>5 DEF Scanned, Lines
<1>11. Filed'
  <2>1. \A n : OpenAt(n)' = OpenOf(doc, HeadingLines', n)
    BY <1>1 DEF OpenAt, OpenOf, HeadingLines
  <2>2. next' \in Nat /\ next' >= next
    BY <1>1, <1>2
  <2>3. LinesOf(stack') = OpenOf(doc, HeadingLines', next')
    BY <1>8, <2>2
  <2>4. ASSUME NEW i \in DOMAIN blocks'
        PROVE  /\ ToSet(blocks'[i].path) = OpenOf(doc, HeadingLines', blocks'[i].first)
               /\ \A d, e \in DOMAIN blocks'[i].path :
                      d < e => blocks'[i].path[d] < blocks'[i].path[e]
    <3>1. CASE i = N
      <4>1. blocks'[i].path = PathOf(stack') /\ blocks'[i].first = next
        BY <1>3, <1>4, <3>1
      <4>2. DOMAIN PathOf(stack') = DOMAIN stack' /\ \A d \in DOMAIN stack' : PathOf(stack')[d] = stack'[d].line
        BY DEF PathOf
      <4>3. ToSet(PathOf(stack')) = LinesOf(stack')
        BY <4>2 DEF ToSet, LinesOf
      <4>4. next \in Nat /\ next >= next
        BY <1>1
      <4>5. LinesOf(stack') = OpenOf(doc, HeadingLines', next)
        BY <1>8, <4>4
      <4> QED
        BY <1>8, <4>1, <4>2, <4>3, <4>5 DEF Nested
    <3>2. CASE i \in DOMAIN blocks
      <4>1. blocks'[i] = blocks[i] /\ blocks[i].first \in 1..(next - 1) /\ next \in Nat
        BY <1>1, <1>4, <3>2 DEF ParserInv, Scanned
      <4>2. ToSet(blocks[i].path) = OpenOf(doc, HeadingLines, blocks[i].first)
        BY <3>2, OpenByLines DEF ParserInv, Filed, IsPathAt
      <4>3. OpenOf(doc, HeadingLines', blocks[i].first) = OpenOf(doc, HeadingLines, blocks[i].first)
        BY <1>5, <1>6, <4>1, OpenBefore, Zenon
      <4> QED
        BY <3>2, <4>1, <4>2, <4>3 DEF ParserInv, Filed, IsPathAt
    <3> QED
      BY <1>4, <3>1, <3>2
  <2>5. \A i \in DOMAIN blocks' : IsPathAt(blocks[i].path, blocks[i].first)'
    BY <2>1, <2>4 DEF IsPathAt
  <2> QED
    BY <1>1, <1>8, <2>1, <2>3, <2>5 DEF Filed
<1> QED
  BY <1>9, <1>10, <1>11 DEF ParserInv

LEMMA ParserStep ==
  ASSUME ParserInv, [Next]_vars
  PROVE  ParserInv'
<1>1. CASE UNCHANGED <<doc, next, stack, blocks>>
  <2>1. ParserTypeOK' /\ Scanned'
    BY <1>1 DEF ParserInv, ParserTypeOK, Scanned, Lines
  <2>2. Filed'
    BY <1>1 DEF ParserInv, Filed, IsPathAt, OpenAt, Headings
  <2> QED
    BY <2>1, <2>2 DEF ParserInv
<1>2. CASE Parsed \/ ChunkDocument \/ UNCHANGED vars
  BY <1>1, <1>2 DEF Parsed, ChunkDocument, vars
<1> QED
  BY <1>2, SkipKeeps, BlockKeeps DEF Next

(* For documents of any length: every written line of the body is cited by *)
(* exactly one block, under the path of the headings it is under, and no    *)
(* heading or fence is swallowed by a text block.                           *)
THEOREM LinesAlwaysCited == Spec => []BlocksCited
<1>1. Init => ParserInv
  BY ParserInit
<1>2. ParserInv /\ [Next]_vars => ParserInv'
  BY ParserStep
<1>3. ParserInv => BlocksCited
  BY InvGivesCited
<1> QED
  BY <1>1, <1>2, <1>3, PTL DEF Spec

-----------------------------------------------------------------------------
(* Packing: a text cut into parts loses nothing and keeps its order.        *)

\* The texts parts are those of t cut in order, none over the budget that could be divided.
CutOf(parts, t, X, budget) ==
    /\ ListOfLists(parts, X)
    /\ FlattenSeq(parts) = t
    /\ \A i \in 1..Len(parts) : Tokens(parts[i]) <= budget \/ Len(parts[i]) <= 1

PackState(X) == [parts : Seq(Seq(X)), part : Seq(X)]
PackTurn(s, t, X, budget, n) ==
    /\ ListOfLists(s.parts, X) /\ s.part \in Seq(X)
    /\ FlattenSeq(s.parts) \o s.part = SubSeq(t, 1, n)
    /\ \A i \in 1..Len(s.parts) : Tokens(s.parts[i]) <= budget \/ Len(s.parts[i]) <= 1
    /\ s.part # <<>> => Tokens(s.part) <= budget \/ Len(s.part) <= 1

LEMMA PackSentenceKeeps ==
  ASSUME NEW X, NEW t \in Seq(X), NEW budget, NEW n \in 1..Len(t), NEW s, PackTurn(s, t, X, budget, n - 1)
  PROVE  PackTurn(PackSentence(s, t[n], budget), t, X, budget, n)
<1>1. PICK parts, part, x, was, is, before, after :
         /\ parts = s.parts /\ part = s.part /\ x = t[n]
         /\ was = SubSeq(t, 1, n - 1) /\ is = SubSeq(t, 1, n) /\ before = FlattenSeq(parts)
         /\ after = PackSentence(s, t[n], budget)
  OBVIOUS
<1>2. was \in Seq(X) /\ x \in X /\ is = Append(was, x)
  BY <1>1, PrefixGrows
<1>3. ListOfLists(parts, X) /\ part \in Seq(X) /\ before \o part = was
  BY <1>1 DEF PackTurn
<1>4. /\ \A i \in 1..Len(parts) : Tokens(parts[i]) <= budget \/ Len(parts[i]) <= 1
      /\ part # <<>> => Tokens(part) <= budget \/ Len(part) <= 1
  BY <1>1 DEF PackTurn
<1>5. before \in Seq(X)
  BY <1>1, <1>3, FlattenTyped
<1>6. CASE part = <<>> \/ Tokens(Append(part, x)) <= budget
  <2>1. PICK more : more = Append(part, x)
    OBVIOUS
  <2>2. after.parts = parts /\ after.part = more
    BY <1>1, <1>6, <2>1 DEF PackSentence
  <2>3. more \in Seq(X) /\ before \o more = is
    <3>1. more \in Seq(X)
      BY <1>2, <1>3, <2>1
    <3>2. before \o Append(part, x) = Append(before \o part, x)
      BY <1>2, <1>3, <1>5, JoinAppend
    <3> QED
      BY <1>2, <1>3, <2>1, <3>1, <3>2, Zenon
  <2>4. Tokens(more) <= budget \/ Len(more) <= 1
    <3>1. part = <<>> => Len(more) = 1
      BY <1>3, <2>1
    <3> QED
      BY <1>6, <2>1, <3>1
  <2> QED
    BY <1>1, <1>3, <1>4, <2>2, <2>3, <2>4 DEF PackTurn
<1>7. CASE ~(part = <<>> \/ Tokens(Append(part, x)) <= budget)
  <2>1. PICK more, one : more = Append(parts, part) /\ one = <<x>>
    OBVIOUS
  <2>2. after.parts = more /\ after.part = one
    BY <1>1, <1>7, <2>1 DEF PackSentence
  <2>3. /\ ListOfLists(more, X) /\ Len(parts) \in Nat /\ Len(more) = Len(parts) + 1
        /\ more[Len(parts) + 1] = part /\ \A i \in 1..Len(parts) : more[i] = parts[i]
    BY <1>3, <2>1, AppendedList DEF Agree
  <2>4. one \in Seq(X) /\ Len(one) = 1 /\ was \o one = is
    BY <1>2, <2>1, AppendIsJoin
  <2>5. FlattenSeq(more) = was
    BY <1>1, <1>3, <2>1, FlattenAppend
  <2>6. \A i \in 1..Len(more) : Tokens(more[i]) <= budget \/ Len(more[i]) <= 1
    <3>1. TAKE i \in 1..Len(more)
    <3>2. i \in 1..Len(parts) \/ i = Len(parts) + 1
      BY <2>3
    <3> QED
      BY <1>4, <1>7, <2>3, <3>2
  <2>7. Len(one) <= 1 /\ FlattenSeq(more) \o one = is
    BY <2>4, <2>5
  <2>8. ListOfLists(more, X) /\ one \in Seq(X)
    BY <2>3, <2>4
  <2> QED
    BY <1>1, <2>2, <2>6, <2>7, <2>8 DEF PackTurn
<1> QED
  BY <1>1, <1>6, <1>7

LEMMA PackCuts ==
  ASSUME NEW X, NEW t \in Seq(X), NEW budget
  PROVE  CutOf(Pack(t, budget), t, X, budget)
<1> DEFINE S == PackState(X)
           s0 == [parts |-> <<>>, part |-> <<>>]
           chosen == CHOOSE u : u = [n \in 0..Len(t) |-> IF n = 0 THEN s0 ELSE PackSentence(u[n - 1], t[n], budget)]
           last == chosen[Len(t)]
           G(N) == [p \in (1..N) \X S |-> PackSentence(p[2], t[p[1]], budget)]
<1>1. PICK N : N = Len(t)
  OBVIOUS
<1>2. PICK up : up = chosen
  OBVIOUS
<1>3. PICK e : e = up[Len(t)]
  OBVIOUS
<1>4. Pack(t, budget) = IF e.part = <<>> THEN e.parts ELSE Append(e.parts, e.part)
  <2>1. Pack(t, budget) = IF last.part = <<>> THEN last.parts ELSE Append(last.parts, last.part)
    BY Zenon DEF Pack
  <2>2. e = last
    BY <1>2, <1>3
  <2> HIDE DEF last
  <2> QED
    BY <2>1, <2>2
<1>5. N \in Nat /\ \A n \in 1..N : t[n] \in X
  BY <1>1
<1>6. s0 \in S
  <2>1. <<>> \in Seq(X) /\ <<>> \in Seq(Seq(X))
    OBVIOUS
  <2> QED
    BY <2>1 DEF PackState
<1>7. \A n \in 1..N : \A s \in S : PackSentence(s, t[n], budget) \in S
  <2>1. TAKE n \in 1..N
  <2>2. TAKE s \in S
  <2>3. s.parts \in Seq(Seq(X)) /\ s.part \in Seq(X)
    BY DEF PackState
  <2>4. t[n] \in X
    BY <1>5
  <2>5. <<t[n]>> \in Seq(X) /\ Append(s.part, t[n]) \in Seq(X)
    BY <2>3, <2>4
  <2>6. Append(s.parts, s.part) \in Seq(Seq(X))
    BY <2>3
  <2> QED
    BY <2>3, <2>5, <2>6 DEF PackSentence, PackState
<1>8. G(N) \in [(1..N) \X S -> S] /\ \A n \in 1..N : \A s \in S : G(N)[<<n, s>>] = PackSentence(s, t[n], budget)
  BY <1>7
<1> HIDE DEF S, G, s0
<1>9. PICK f : Runs(f, N, S, s0, G(N))
  BY <1>5, <1>6, <1>8, LoopRuns
<1>10. f \in [0..N -> S] /\ f[0] = s0 /\ \A n \in 1..N : f[n] = PackSentence(f[n - 1], t[n], budget)
  <2>1. f \in [0..N -> S] /\ f[0] = s0
    BY <1>9 DEF Runs
  <2>2. \A n \in 1..N : f[n] = PackSentence(f[n - 1], t[n], budget)
    <3>1. TAKE n \in 1..N
    <3>2. n - 1 \in 0..N
      BY <1>5
    <3>3. f[n - 1] \in S /\ f[n] = G(N)[<<n, f[n - 1]>>]
      BY <1>9, <2>1, <3>2 DEF Runs
    <3> QED
      BY <1>8, <3>3
  <2> QED
    BY <2>1, <2>2
<1>11. f = [n \in 0..N |-> IF n = 0 THEN s0 ELSE PackSentence(f[n - 1], t[n], budget)]
  <2>1. f = [n \in 0..N |-> f[n]]
    BY <1>10
  <2>2. \A n \in 0..N : f[n] = IF n = 0 THEN s0 ELSE PackSentence(f[n - 1], t[n], budget)
    BY <1>5, <1>10
  <2> QED
    BY <2>1, <2>2
<1>12. up = [n \in 0..N |-> IF n = 0 THEN s0 ELSE PackSentence(up[n - 1], t[n], budget)]
  <2>1. up = CHOOSE u : u = [n \in 0..N |-> IF n = 0 THEN s0 ELSE PackSentence(u[n - 1], t[n], budget)]
    BY <1>1, <1>2 DEF s0
  <2> QED
    BY <1>11, <2>1
<1>13. \A n \in 0..N : up[n] = IF n = 0 THEN s0 ELSE PackSentence(up[n - 1], t[n], budget)
  BY <1>12
<1>14. PICK P : P = {n \in 0..N : PackTurn(up[n], t, X, budget, n)}
  OBVIOUS
<1>15. 0 \in P
  <2>1. PICK z : z = up[0]
    OBVIOUS
  <2>2. z.parts = <<>> /\ z.part = <<>> /\ 0 \in 0..N
    BY <1>5, <1>13, <2>1 DEF s0
  <2>3. ListOfLists(<<>>, X) /\ <<>> \in Seq(X) /\ Len(<<>>) = 0
    BY DEF ListOfLists
  <2>4. FlattenSeq(<<>>) \o <<>> = SubSeq(t, 1, 0)
    <3>1. SubSeq(t, 1, 0) = <<>>
      BY PrefixEnds
    <3>2. <<>> \o <<>> = <<>>
      OBVIOUS
    <3> QED
      BY <3>1, <3>2, FlattenNothing
  <2>5. PackTurn(z, t, X, budget, 0)
    BY <2>2, <2>3, <2>4 DEF PackTurn
  <2> QED
    BY <1>14, <2>1, <2>2, <2>5
<1>16. \A n \in 1..N : n - 1 \in P => n \in P
  <2>1. SUFFICES ASSUME NEW n \in 1..N, n - 1 \in P
                 PROVE  n \in P
    OBVIOUS
  <2>2. n \in 0..N /\ n # 0
    BY <1>5
  <2>3. up[n] = PackSentence(up[n - 1], t[n], budget)
    BY <1>13, <2>2
  <2>4. PackTurn(up[n - 1], t, X, budget, n - 1)
    BY <1>14, <2>1
  <2>5. n \in 1..Len(t)
    BY <1>1
  <2>6. PackTurn(up[n], t, X, budget, n)
    BY <2>3, <2>4, <2>5, PackSentenceKeeps
  <2> QED
    BY <1>14, <2>2, <2>6
<1>17. N \in P
  <2>1. N \in Nat
    BY <1>5
  <2>2. \A n \in 0..N : n \in P
    BY <1>15, <1>16, <2>1, TurnInduction
  <2> QED
    BY <2>1, <2>2
<1>18. PackTurn(e, t, X, budget, N) /\ SubSeq(t, 1, N) = t
  BY <1>1, <1>3, <1>14, <1>17, PrefixEnds
<1>19. PICK parts, part : parts = e.parts /\ part = e.part
  OBVIOUS
<1>20. /\ ListOfLists(parts, X) /\ part \in Seq(X)
       /\ FlattenSeq(parts) \o part = t
       /\ \A i \in 1..Len(parts) : Tokens(parts[i]) <= budget \/ Len(parts[i]) <= 1
       /\ part # <<>> => Tokens(part) <= budget \/ Len(part) <= 1
  BY <1>18, <1>19 DEF PackTurn
<1>21. CASE part = <<>>
  <2>1. PICK fl : fl = FlattenSeq(parts)
    OBVIOUS
  <2>2. fl \in Seq(X)
    BY <1>20, <2>1, FlattenTyped
  <2>3. FlattenSeq(parts) = t
    BY <1>20, <1>21, <2>1, <2>2, ConcatEmptySeq
  <2> QED
    BY <1>4, <1>19, <1>20, <1>21, <2>3 DEF CutOf
<1>22. CASE part # <<>>
  <2>1. PICK r : r = Append(parts, part)
    OBVIOUS
  <2>2. /\ ListOfLists(r, X) /\ Len(parts) \in Nat /\ Len(r) = Len(parts) + 1
        /\ r[Len(parts) + 1] = part
        /\ \A i \in 1..Len(parts) : r[i] = parts[i]
    BY <1>20, <2>1, AppendedList DEF Agree
  <2>3. FlattenSeq(r) = t
    BY <1>20, <2>1, FlattenAppend
  <2>4. \A i \in 1..Len(r) : Tokens(r[i]) <= budget \/ Len(r[i]) <= 1
    <3>1. TAKE i \in 1..Len(r)
    <3>2. i \in 1..Len(parts) \/ i = Len(parts) + 1
      BY <2>2
    <3> QED
      BY <1>20, <1>22, <2>2, <3>2
  <2> QED
    BY <1>4, <1>19, <1>22, <2>1, <2>2, <2>3, <2>4 DEF CutOf
<1> QED
  BY <1>21, <1>22

\* A text of one part.
LEMMA WholeCut ==
  ASSUME NEW X, NEW t \in Seq(X)
  PROVE  ListOfLists(<<t>>, X) /\ FlattenSeq(<<t>>) = t /\ Len(<<t>>) = 1
<1>1. PICK none : none = <<>>
  OBVIOUS
<1>2. ListOfLists(none, X) /\ Len(none) = 0
  BY <1>1 DEF ListOfLists
<1>3. FlattenSeq(Append(none, t)) = FlattenSeq(none) \o t
  BY <1>2, FlattenAppend
<1>4. FlattenSeq(none) = <<>>
  BY <1>1, FlattenNothing
<1>5. <<>> \o t = t
  OBVIOUS
<1>6. Append(none, t) = <<t>>
  BY <1>1
<1>7. PICK Y : Y = Seq(X)
  OBVIOUS
<1>8. <<t>> \in Seq(Y) /\ Len(<<t>>) = 1
  BY <1>7
<1> QED
  BY <1>3, <1>4, <1>5, <1>6, <1>7, <1>8 DEF ListOfLists

LEMMA TokenSplitCuts ==
  ASSUME NEW X, NEW t \in Seq(X), NEW budget
  PROVE  CutOf(TokenSplit(t, budget), t, X, budget)
<1>1. CASE Tokens(t) <= budget
  <2>1. PICK one : one = <<t>>
    OBVIOUS
  <2>2. ListOfLists(one, X) /\ FlattenSeq(one) = t /\ Len(one) = 1 /\ one[1] = t
    BY <2>1, WholeCut
  <2>3. \A i \in 1..Len(one) : one[i] = t
    BY <2>2
  <2>4. TokenSplit(t, budget) = one
    BY <1>1, <2>1 DEF TokenSplit
  <2> QED
    BY <1>1, <2>2, <2>3, <2>4 DEF CutOf
<1>2. CASE ~(Tokens(t) <= budget)
  BY <1>2, PackCuts DEF TokenSplit
<1> QED
  BY <1>1, <1>2

GroupTurn(s, t, X, n) ==
    /\ ListOfLists(s.parts, X) /\ s.part \in Seq(X)
    /\ FlattenSeq(s.parts) \o s.part = SubSeq(t, 1, n)

LEMMA GroupSentenceKeeps ==
  ASSUME NEW X, NEW t \in Seq(X), NEW low, NEW n \in 1..Len(t), NEW s, GroupTurn(s, t, X, n - 1)
  PROVE  GroupTurn(GroupSentence(s, t[n], low), t, X, n)
<1>1. PICK parts, part, x, was, is, before, after :
         /\ parts = s.parts /\ part = s.part /\ x = t[n]
         /\ was = SubSeq(t, 1, n - 1) /\ is = SubSeq(t, 1, n) /\ before = FlattenSeq(parts)
         /\ after = GroupSentence(s, t[n], low)
  OBVIOUS
<1>2. was \in Seq(X) /\ x \in X /\ is = Append(was, x)
  BY <1>1, PrefixGrows
<1>3. ListOfLists(parts, X) /\ part \in Seq(X) /\ before \o part = was
  BY <1>1 DEF GroupTurn
<1>4. before \in Seq(X)
  BY <1>1, <1>3, FlattenTyped
<1>5. CASE ~(part # <<>> /\ x \in low)
  <2>1. PICK more : more = Append(part, x)
    OBVIOUS
  <2>2. after.parts = parts /\ after.part = more
    BY <1>1, <1>5, <2>1 DEF GroupSentence
  <2>3. more \in Seq(X) /\ before \o more = is
    <3>1. more \in Seq(X)
      BY <1>2, <1>3, <2>1
    <3>2. before \o Append(part, x) = Append(before \o part, x)
      BY <1>2, <1>3, <1>4, JoinAppend
    <3> QED
      BY <1>2, <1>3, <2>1, <3>1, <3>2, Zenon
  <2> QED
    BY <1>1, <1>3, <2>2, <2>3 DEF GroupTurn
<1>6. CASE part # <<>> /\ x \in low
  <2>1. PICK more, one : more = Append(parts, part) /\ one = <<x>>
    OBVIOUS
  <2>2. after.parts = more /\ after.part = one
    BY <1>1, <1>6, <2>1 DEF GroupSentence
  <2>3. ListOfLists(more, X)
    BY <1>3, <2>1, AppendedList
  <2>4. one \in Seq(X) /\ was \o one = is
    BY <1>2, <2>1, AppendIsJoin
  <2>5. FlattenSeq(more) = was
    BY <1>1, <1>3, <2>1, FlattenAppend
  <2> QED
    BY <1>1, <2>2, <2>3, <2>4, <2>5 DEF GroupTurn
<1> QED
  BY <1>1, <1>5, <1>6

\* The groups between the breaks are the text, in order.
LEMMA GroupsCut ==
  ASSUME NEW X, NEW t \in Seq(X), NEW low
  PROVE  ListOfLists(Groups(t, low), X) /\ FlattenSeq(Groups(t, low)) = t
<1> DEFINE S == PackState(X)
           s0 == [parts |-> <<>>, part |-> <<>>]
           chosen == CHOOSE u : u = [n \in 0..Len(t) |-> IF n = 0 THEN s0 ELSE GroupSentence(u[n - 1], t[n], low)]
           last == chosen[Len(t)]
           G(N) == [p \in (1..N) \X S |-> GroupSentence(p[2], t[p[1]], low)]
<1>1. PICK N : N = Len(t)
  OBVIOUS
<1>2. PICK up : up = chosen
  OBVIOUS
<1>3. PICK e : e = up[Len(t)]
  OBVIOUS
<1>4. Groups(t, low) = Append(e.parts, e.part)
  <2>1. Groups(t, low) = Append(last.parts, last.part)
    BY Zenon DEF Groups
  <2>2. e = last
    BY <1>2, <1>3
  <2> HIDE DEF last
  <2> QED
    BY <2>1, <2>2
<1>5. N \in Nat /\ \A n \in 1..N : t[n] \in X
  BY <1>1
<1>6. s0 \in S
  <2>1. <<>> \in Seq(X) /\ <<>> \in Seq(Seq(X))
    OBVIOUS
  <2> QED
    BY <2>1 DEF PackState
<1>7. \A n \in 1..N : \A s \in S : GroupSentence(s, t[n], low) \in S
  <2>1. TAKE n \in 1..N
  <2>2. TAKE s \in S
  <2>3. s.parts \in Seq(Seq(X)) /\ s.part \in Seq(X)
    BY DEF PackState
  <2>4. t[n] \in X
    BY <1>5
  <2>5. <<t[n]>> \in Seq(X) /\ Append(s.part, t[n]) \in Seq(X)
    BY <2>3, <2>4
  <2>6. Append(s.parts, s.part) \in Seq(Seq(X))
    BY <2>3
  <2> QED
    BY <2>3, <2>5, <2>6 DEF GroupSentence, PackState
<1>8. G(N) \in [(1..N) \X S -> S] /\ \A n \in 1..N : \A s \in S : G(N)[<<n, s>>] = GroupSentence(s, t[n], low)
  BY <1>7
<1> HIDE DEF S, G, s0
<1>9. PICK f : Runs(f, N, S, s0, G(N))
  BY <1>5, <1>6, <1>8, LoopRuns
<1>10. f \in [0..N -> S] /\ f[0] = s0 /\ \A n \in 1..N : f[n] = GroupSentence(f[n - 1], t[n], low)
  <2>1. f \in [0..N -> S] /\ f[0] = s0
    BY <1>9 DEF Runs
  <2>2. \A n \in 1..N : f[n] = GroupSentence(f[n - 1], t[n], low)
    <3>1. TAKE n \in 1..N
    <3>2. n - 1 \in 0..N
      BY <1>5
    <3>3. f[n - 1] \in S /\ f[n] = G(N)[<<n, f[n - 1]>>]
      BY <1>9, <2>1, <3>2 DEF Runs
    <3> QED
      BY <1>8, <3>3
  <2> QED
    BY <2>1, <2>2
<1>11. f = [n \in 0..N |-> IF n = 0 THEN s0 ELSE GroupSentence(f[n - 1], t[n], low)]
  <2>1. f = [n \in 0..N |-> f[n]]
    BY <1>10
  <2>2. \A n \in 0..N : f[n] = IF n = 0 THEN s0 ELSE GroupSentence(f[n - 1], t[n], low)
    BY <1>5, <1>10
  <2> QED
    BY <2>1, <2>2
<1>12. up = [n \in 0..N |-> IF n = 0 THEN s0 ELSE GroupSentence(up[n - 1], t[n], low)]
  <2>1. up = CHOOSE u : u = [n \in 0..N |-> IF n = 0 THEN s0 ELSE GroupSentence(u[n - 1], t[n], low)]
    BY <1>1, <1>2 DEF s0
  <2> QED
    BY <1>11, <2>1
<1>13. \A n \in 0..N : up[n] = IF n = 0 THEN s0 ELSE GroupSentence(up[n - 1], t[n], low)
  BY <1>12
<1>14. PICK P : P = {n \in 0..N : GroupTurn(up[n], t, X, n)}
  OBVIOUS
<1>15. 0 \in P
  <2>1. PICK z : z = up[0]
    OBVIOUS
  <2>2. z.parts = <<>> /\ z.part = <<>> /\ 0 \in 0..N
    BY <1>5, <1>13, <2>1 DEF s0
  <2>3. ListOfLists(<<>>, X) /\ <<>> \in Seq(X)
    BY DEF ListOfLists
  <2>4. FlattenSeq(<<>>) \o <<>> = SubSeq(t, 1, 0)
    <3>1. SubSeq(t, 1, 0) = <<>>
      BY PrefixEnds
    <3>2. <<>> \o <<>> = <<>>
      OBVIOUS
    <3> QED
      BY <3>1, <3>2, FlattenNothing
  <2>5. GroupTurn(z, t, X, 0)
    BY <2>2, <2>3, <2>4 DEF GroupTurn
  <2> QED
    BY <1>14, <2>1, <2>2, <2>5
<1>16. \A n \in 1..N : n - 1 \in P => n \in P
  <2>1. SUFFICES ASSUME NEW n \in 1..N, n - 1 \in P
                 PROVE  n \in P
    OBVIOUS
  <2>2. n \in 0..N /\ n # 0
    BY <1>5
  <2>3. up[n] = GroupSentence(up[n - 1], t[n], low)
    BY <1>13, <2>2
  <2>4. GroupTurn(up[n - 1], t, X, n - 1)
    BY <1>14, <2>1
  <2>5. n \in 1..Len(t)
    BY <1>1
  <2>6. GroupTurn(up[n], t, X, n)
    BY <2>3, <2>4, <2>5, GroupSentenceKeeps
  <2> QED
    BY <1>14, <2>2, <2>6
<1>17. N \in P
  <2>1. N \in Nat
    BY <1>5
  <2>2. \A n \in 0..N : n \in P
    BY <1>15, <1>16, <2>1, TurnInduction
  <2> QED
    BY <2>1, <2>2
<1>18. GroupTurn(e, t, X, N) /\ SubSeq(t, 1, N) = t
  BY <1>1, <1>3, <1>14, <1>17, PrefixEnds
<1>19. PICK parts, part, r : parts = e.parts /\ part = e.part /\ r = Append(parts, part)
  OBVIOUS
<1>20. ListOfLists(parts, X) /\ part \in Seq(X) /\ FlattenSeq(parts) \o part = t
  BY <1>18, <1>19 DEF GroupTurn
<1>21. ListOfLists(r, X)
  BY <1>19, <1>20, AppendedList
<1>22. FlattenSeq(r) = t
  BY <1>19, <1>20, FlattenAppend
<1> QED
  BY <1>4, <1>19, <1>21, <1>22

\* Two cuts side by side.
LEMMA CutsJoin ==
  ASSUME NEW X, NEW budget, NEW p, NEW q, NEW s, NEW t, CutOf(p, s, X, budget), CutOf(q, t, X, budget)
  PROVE  CutOf(p \o q, s \o t, X, budget)
<1>1. PICK w : w = p \o q
  OBVIOUS
<1>2. ListOfLists(p, X) /\ ListOfLists(q, X) /\ FlattenSeq(p) = s /\ FlattenSeq(q) = t
  BY DEF CutOf
<1>3. FlattenSeq(w) = s \o t
  <2>1. ListOfLists(p, X) /\ ListOfLists(q, X)
    BY <1>2
  <2>2. FlattenSeq(p \o q) = FlattenSeq(p) \o FlattenSeq(q)
    BY ONLY <2>1, FlattenConcat
  <2> QED
    BY <1>1, <1>2, <2>2
<1>4. PICK Y : Y = Seq(X)
  OBVIOUS
<1>5. p \in Seq(Y) /\ q \in Seq(Y)
  BY <1>2, <1>4 DEF ListOfLists
<1>6. w \in Seq(Y) /\ JoinOf(w, p, q)
  BY <1>1, <1>5, JoinIs
<1>7. PICK M, N : M = Len(p) /\ N = Len(q) /\ M \in Nat /\ N \in Nat
  BY <1>6 DEF JoinOf
<1>8. Len(w) = M + N /\ \A i \in 1..(M + N) : w[i] = IF i <= M THEN p[i] ELSE q[i - M]
  BY <1>6, <1>7 DEF JoinOf
<1>9. ASSUME NEW i \in 1..Len(w)
      PROVE  Tokens(w[i]) <= budget \/ Len(w[i]) <= 1
  <2>1. CASE i <= M
    <3>1. i \in 1..Len(p) /\ w[i] = p[i]
      BY <1>7, <1>8, <2>1
    <3> QED
      BY <3>1 DEF CutOf
  <2>2. CASE ~(i <= M)
    <3>1. i - M \in 1..Len(q) /\ w[i] = q[i - M]
      BY <1>7, <1>8, <2>2
    <3> QED
      BY <3>1 DEF CutOf
  <2> QED
    BY <2>1, <2>2
<1> QED
  BY <1>1, <1>3, <1>4, <1>6, <1>9 DEF CutOf, ListOfLists

\* The cuts of the lists of gg, one after another, cut what the lists make together.
LEMMA CutsTogether ==
  ASSUME NEW X, NEW budget, NEW gg, ListOfLists(gg, X), NEW pp, Len(pp) = Len(gg), ListOfLists(pp, Seq(X)),
         \A i \in 1..Len(gg) : CutOf(pp[i], gg[i], X, budget)
  PROVE  CutOf(FlattenSeq(pp), FlattenSeq(gg), X, budget)
<1>1. PICK N, Y : N = Len(gg) /\ Y = Seq(X)
  OBVIOUS
<1>2. N \in Nat
  BY <1>1 DEF ListOfLists
<1>3. PICK h : Together(h, gg, X) /\ FlattenSeq(gg) = h[Len(gg)]
  BY FlattenIs
<1>4. PICK f : Together(f, pp, Y) /\ FlattenSeq(pp) = f[Len(pp)]
  BY <1>1, FlattenIs
<1>5. h[0] = <<>> /\ \A n \in 1..N : h[n] = h[n - 1] \o gg[n]
  BY <1>1, <1>3 DEF Together
<1>6. f[0] = <<>> /\ \A n \in 1..N : f[n] = f[n - 1] \o pp[n]
  BY <1>1, <1>4 DEF Together
<1>7. PICK P : P = {n \in 0..N : CutOf(f[n], h[n], X, budget)}
  OBVIOUS
<1>8. 0 \in P
  <2>1. ListOfLists(<<>>, X) /\ Len(<<>>) = 0
    BY DEF ListOfLists
  <2>2. CutOf(<<>>, <<>>, X, budget)
    BY <2>1, FlattenNothing DEF CutOf
  <2>3. 0 \in 0..N
    BY <1>2
  <2> QED
    BY <1>5, <1>6, <1>7, <2>2, <2>3
<1>9. \A n \in 1..N : n - 1 \in P => n \in P
  <2>1. SUFFICES ASSUME NEW n \in 1..N, n - 1 \in P
                 PROVE  n \in P
    OBVIOUS
  <2>2. n \in 0..N /\ n \in 1..Len(gg)
    BY <1>1, <1>2
  <2>3. CutOf(f[n - 1], h[n - 1], X, budget)
    BY <1>7, <2>1
  <2>4. CutOf(pp[n], gg[n], X, budget)
    BY <2>2
  <2>5. CutOf(f[n - 1] \o pp[n], h[n - 1] \o gg[n], X, budget)
    BY <2>3, <2>4, CutsJoin
  <2> QED
    BY <1>5, <1>6, <1>7, <2>2, <2>5
<1>10. N \in P
  <2>1. \A n \in 0..N : n \in P
    BY <1>2, <1>8, <1>9, TurnInduction
  <2> QED
    BY <1>2, <2>1
<1> QED
  BY <1>1, <1>3, <1>4, <1>7, <1>10

LEMMA SplitCuts ==
  ASSUME NEW X, NEW t \in Seq(X), NEW budget, NEW low, NEW down
  PROVE  CutOf(SplitOversized(t, budget, low, down), t, X, budget)
<1>1. CASE Len(t) <= 1
  <2>1. PICK one : one = <<t>>
    OBVIOUS
  <2>2. ListOfLists(one, X) /\ FlattenSeq(one) = t /\ Len(one) = 1 /\ one[1] = t
    BY <2>1, WholeCut
  <2>3. \A i \in 1..Len(one) : one[i] = t
    BY <2>2
  <2>4. SplitOversized(t, budget, low, down) = one
    BY <1>1, <2>1 DEF SplitOversized
  <2> QED
    BY <1>1, <2>2, <2>3, <2>4 DEF CutOf
<1>2. CASE ~(Len(t) <= 1) /\ down
  <2>1. SplitOversized(t, budget, low, down) = TokenSplit(t, budget)
    BY <1>2 DEF SplitOversized
  <2> QED
    BY <2>1, TokenSplitCuts
<1>3. CASE ~(Len(t) <= 1) /\ ~down
  <2>1. PICK gg, pp : gg = Groups(t, low) /\ pp = [g \in DOMAIN gg |-> TokenSplit(gg[g], budget)]
    OBVIOUS
  <2>2. SplitOversized(t, budget, low, down) = FlattenSeq(pp)
    BY <1>3, <2>1, Zenon DEF SplitOversized
  <2>3. ListOfLists(gg, X) /\ FlattenSeq(gg) = t
    BY <2>1, GroupsCut
  <2>4. PICK N : N = Len(gg) /\ N \in Nat /\ DOMAIN gg = 1..N /\ \A i \in 1..N : gg[i] \in Seq(X)
    BY <2>3 DEF ListOfLists
  <2>5. \A i \in 1..N : pp[i] = TokenSplit(gg[i], budget)
    BY <2>1, <2>4
  <2>6. \A i \in 1..N : CutOf(pp[i], gg[i], X, budget)
    BY <2>4, <2>5, TokenSplitCuts
  <2>7. \A i \in 1..N : pp[i] \in Seq(Seq(X))
    BY <2>6 DEF CutOf, ListOfLists
  <2>8. ListOfLists(pp, Seq(X)) /\ Len(pp) = N
    <3>1. PICK Y : Y = Seq(Seq(X))
      OBVIOUS
    <3>2. pp = [i \in 1..N |-> pp[i]]
      BY <2>1, <2>4
    <3>3. pp \in [1..N -> Y]
      BY <2>7, <3>1, <3>2
    <3>4. pp \in Seq(Y) /\ Len(pp) = N
      BY ONLY <2>4, <3>3
    <3> QED
      BY <3>1, <3>4 DEF ListOfLists
  <2> QED
    BY <2>2, <2>3, <2>4, <2>6, <2>8, CutsTogether
<1> QED
  BY <1>1, <1>2, <1>3

-----------------------------------------------------------------------------
(* Passages: blocks and chunks are records of the same fields.              *)

PassageTypes == {"heading", "code", "table", "list", "quote", "paragraph", "text"}
Passage(X) == [type : PassageTypes, path : Seq(Nat), first : Nat, last : Nat, content : Seq(X)]

LEMMA PassageTyped ==
  ASSUME NEW X, NEW p, p \in Passage(X)
  PROVE  /\ p.type \in PassageTypes /\ p.path \in Seq(Nat)
         /\ p.first \in Nat /\ p.last \in Nat /\ p.content \in Seq(X)
BY DEF Passage

LEMMA ChunkTyped ==
  ASSUME NEW X, NEW type \in PassageTypes, NEW from, from \in Passage(X), NEW to, to \in Passage(X),
         NEW text, text \in Seq(X), NEW c, c = Chunk(type, from, to, text)
  PROVE  /\ c \in Passage(X) /\ c.type = type /\ c.path = from.path
         /\ c.first = from.first /\ c.last = to.last /\ c.content = text
BY DEF Passage, Chunk

\* What passages say one after another.
Said(q) == FlattenSeq(Contents(q))

LEMMA ContentsList ==
  ASSUME NEW X, NEW q, q \in Seq(Passage(X))
  PROVE  ListOfLists(Contents(q), X) /\ Len(Contents(q)) = Len(q)
<1>1. PICK N, P, tt : N = Len(q) /\ P = Passage(X) /\ tt = Contents(q)
  OBVIOUS
<1>2. N \in Nat /\ DOMAIN q = 1..N /\ \A i \in 1..N : q[i] \in P
  BY <1>1
<1>3. \A i \in 1..N : q[i].content \in Seq(X)
  BY <1>1, <1>2, PassageTyped
<1>4. DOMAIN tt = 1..N /\ \A i \in 1..N : tt[i] = q[i].content
  BY <1>1, <1>2 DEF Contents
<1>5. tt \in [1..N -> Seq(X)]
  <2>1. tt = [i \in 1..N |-> q[i].content]
    BY <1>1, <1>2 DEF Contents
  <2> QED
    BY <1>3, <2>1
<1> QED
  BY <1>1, <1>2, <1>5 DEF ListOfLists

LEMMA SaidTyped ==
  ASSUME NEW X, NEW q, q \in Seq(Passage(X))
  PROVE  Said(q) \in Seq(X)
<1>1. PICK tt : tt = Contents(q)
  OBVIOUS
<1>2. ListOfLists(tt, X)
  BY <1>1, ContentsList
<1> QED
  BY <1>1, <1>2, FlattenTyped DEF Said

LEMMA SaidNothing == Said(<<>>) = <<>>
<1>1. Contents(<<>>) = <<>>
  BY DEF Contents
<1> QED
  BY <1>1, FlattenNothing DEF Said

LEMMA SaidAppend ==
  ASSUME NEW X, NEW q, q \in Seq(Passage(X)), NEW c, c \in Passage(X)
  PROVE  Said(Append(q, c)) = Said(q) \o c.content
<1>1. PICK tt, t, uu, r : tt = Contents(q) /\ t = c.content /\ r = Append(q, c) /\ uu = Contents(r)
  OBVIOUS
<1>2. ListOfLists(tt, X) /\ Len(tt) = Len(q) /\ t \in Seq(X)
  BY <1>1, ContentsList, PassageTyped
<1>a. PICK Y : tt \in Seq(Y) /\ t \in Y /\ uu \in Seq(Y)
  <2>1. r \in Seq(Passage(X))
    BY <1>1
  <2>2. ListOfLists(uu, X)
    BY <1>1, <2>1, ContentsList
  <2> QED
    BY <1>2, <2>2 DEF ListOfLists
<1>3. PICK N : N = Len(q) /\ N \in Nat /\ DOMAIN q = 1..N
  OBVIOUS
<1>4. /\ DOMAIN r = 1..(N + 1) /\ r[N + 1] = c
      /\ \A i \in 1..N : r[i] = q[i]
  BY <1>1, <1>3
<1>5. uu = Append(tt, t)
  <2>1. DOMAIN uu = 1..(N + 1) /\ \A i \in 1..(N + 1) : uu[i] = r[i].content
    BY <1>1, <1>4 DEF Contents
  <2>2. \A i \in 1..N : tt[i] = q[i].content
    BY <1>1, <1>3 DEF Contents
  <2>3. /\ DOMAIN Append(tt, t) = 1..(N + 1) /\ Append(tt, t)[N + 1] = t
        /\ \A i \in 1..N : Append(tt, t)[i] = tt[i]
    BY <1>2, <1>3, <1>a
  <2>4. \A i \in 1..(N + 1) : uu[i] = Append(tt, t)[i]
    BY <1>1, <1>3, <1>4, <2>1, <2>2, <2>3
  <2>5. PICK v : v = Append(tt, t)
    OBVIOUS
  <2>6. v \in Seq(Y) /\ uu \in Seq(Y) /\ Len(v) = N + 1 /\ Len(uu) = N + 1
    BY <1>2, <1>3, <1>a, <2>1, <2>5
  <2>7. \A i \in 1..Len(v) : v[i] = uu[i]
    BY <2>4, <2>5, <2>6
  <2> QED
    BY <2>5, <2>6, <2>7, SeqEqual
<1>6. FlattenSeq(Append(tt, t)) = FlattenSeq(tt) \o t
  BY <1>2, FlattenAppend
<1> QED
  BY <1>1, <1>5, <1>6 DEF Said

LEMMA SaidConcat ==
  ASSUME NEW X, NEW q, q \in Seq(Passage(X)), NEW r, r \in Seq(Passage(X))
  PROVE  Said(q \o r) = Said(q) \o Said(r)
<1>1. PICK tt, uu, ww, w : tt = Contents(q) /\ uu = Contents(r) /\ w = q \o r /\ ww = Contents(w)
  OBVIOUS
<1>2. ListOfLists(tt, X) /\ Len(tt) = Len(q) /\ ListOfLists(uu, X) /\ Len(uu) = Len(r)
  BY <1>1, ContentsList
<1>a. PICK Y : tt \in Seq(Y) /\ uu \in Seq(Y) /\ ww \in Seq(Y)
  <2>1. w \in Seq(Passage(X))
    BY <1>1
  <2>2. ListOfLists(ww, X)
    BY <1>1, <2>1, ContentsList
  <2> QED
    BY <1>2, <2>2 DEF ListOfLists
<1>b. JoinOf(w, q, r)
  BY <1>1, JoinIs
<1>c. PICK v : v = tt \o uu
  OBVIOUS
<1>d. v \in Seq(Y) /\ JoinOf(v, tt, uu)
  BY <1>a, <1>c, JoinIs
<1>3. PICK M, N : M = Len(q) /\ N = Len(r) /\ M \in Nat /\ N \in Nat
  BY <1>b DEF JoinOf
<1>4. DOMAIN w = 1..(M + N) /\ \A i \in 1..(M + N) : w[i] = IF i <= M THEN q[i] ELSE r[i - M]
  BY <1>b, <1>3 DEF JoinOf
<1>5. ww = v
  <2>1. DOMAIN ww = 1..(M + N) /\ \A i \in 1..(M + N) : ww[i] = w[i].content
    BY <1>1, <1>4 DEF Contents
  <2>2. (\A i \in 1..M : tt[i] = q[i].content) /\ \A i \in 1..N : uu[i] = r[i].content
    <3>1. DOMAIN q = 1..M /\ DOMAIN r = 1..N
      BY <1>3
    <3> QED
      BY <1>1, <3>1 DEF Contents
  <2>3. Len(v) = M + N /\ \A i \in 1..(M + N) : v[i] = IF i <= M THEN tt[i] ELSE uu[i - M]
    BY <1>2, <1>3, <1>d DEF JoinOf
  <2>4. ASSUME NEW i \in 1..(M + N)
        PROVE  ww[i] = v[i]
    <3>1. CASE i <= M
      <4>1. i \in 1..M
        BY <1>3, <3>1
      <4> QED
        BY <1>4, <2>1, <2>2, <2>3, <3>1, <4>1
    <3>2. CASE ~(i <= M)
      <4>1. i - M \in 1..N
        BY <1>3, <3>2
      <4> QED
        BY <1>4, <2>1, <2>2, <2>3, <3>2, <4>1
    <3> QED
      BY <3>1, <3>2
  <2>5. Len(ww) = M + N
    BY <1>3, <1>a, <2>1
  <2>6. \A i \in 1..Len(v) : v[i] = ww[i]
    BY <2>3, <2>4
  <2> QED
    BY <1>a, <1>d, <2>3, <2>5, <2>6, SeqEqual
<1>6. FlattenSeq(v) = FlattenSeq(tt) \o FlattenSeq(uu)
  BY <1>2, <1>c, FlattenConcat
<1> QED
  BY <1>1, <1>5, <1>6 DEF Said

-----------------------------------------------------------------------------
(* Where a chunk stems from.                                                *)

\* t holds what the passages a to z of B hold.
Says(t, B, a, z) == \A x : x \in ToSet(t) <=> \E i \in a..z : x \in ToSet(B[i].content)
Under(path, B, a, z) == \A i \in a..z : B[i].path = path

\* c is the passages a to z of B together, or a piece of one that is over the budget.
StemsFrom(c, B, budget, a, z) ==
    /\ c.first = B[a].first /\ c.last = B[z].last /\ Under(c.path, B, a, z)
    /\ \/ Says(c.content, B, a, z)
       \/ a = z /\ ToSet(c.content) \subseteq ToSet(B[a].content) /\ ~(Tokens(B[a].content) <= budget)
Stems(c, B, budget) == \E a, z \in 1..Len(B) : a <= z /\ StemsFrom(c, B, budget, a, z)
Sized(c, budget) == c.type \in {"text", "list"} => Tokens(c.content) <= budget \/ Len(c.content) <= 1
\* Code and tables are chunks as they stand.
Whole(c, B) ==
    c.type \in {"code", "table"} =>
        \E i \in 1..Len(B) : c.first = B[i].first /\ c.last = B[i].last /\ c.content = B[i].content
Good(c, B, budget) == Sized(c, budget) /\ Stems(c, B, budget) /\ Whole(c, B)
AllGood(q, B, budget) == \A i \in 1..Len(q) : Good(q[i], B, budget)

LEMMA GoodAppend ==
  ASSUME NEW P, NEW q, q \in Seq(P), NEW c, c \in P, NEW B, NEW budget, AllGood(q, B, budget), Good(c, B, budget)
  PROVE  Append(q, c) \in Seq(P) /\ AllGood(Append(q, c), B, budget)
<1>1. PICK r : r = Append(q, c)
  OBVIOUS
<1>2. /\ r \in Seq(P) /\ Len(q) \in Nat /\ Len(r) = Len(q) + 1 /\ r[Len(q) + 1] = c
      /\ \A i \in 1..Len(q) : r[i] = q[i]
  BY <1>1
<1>3. \A i \in 1..Len(r) : i \in 1..Len(q) \/ i = Len(q) + 1
  BY <1>2
<1>4. AllGood(r, B, budget)
  BY <1>2, <1>3 DEF AllGood
<1> QED
  BY <1>1, <1>2, <1>4

LEMMA GoodConcat ==
  ASSUME NEW P, NEW q \in Seq(P), NEW r \in Seq(P), NEW B, NEW budget,
         AllGood(q, B, budget), AllGood(r, B, budget)
  PROVE  q \o r \in Seq(P) /\ AllGood(q \o r, B, budget)
<1>1. PICK w : w = q \o r
  OBVIOUS
<1>2. w \in Seq(P) /\ JoinOf(w, q, r)
  BY <1>1, JoinIs
<1>3. PICK M, N : M = Len(q) /\ N = Len(r) /\ M \in Nat /\ N \in Nat
  BY <1>2 DEF JoinOf
<1>4. Len(w) = M + N /\ \A i \in 1..(M + N) : w[i] = IF i <= M THEN q[i] ELSE r[i - M]
  BY <1>2, <1>3 DEF JoinOf
<1>5. ASSUME NEW i \in 1..Len(w)
      PROVE  Good(w[i], B, budget)
  <2>1. CASE i <= M
    <3>1. i \in 1..Len(q) /\ w[i] = q[i]
      BY <1>3, <1>4, <2>1
    <3> QED
      BY <3>1 DEF AllGood
  <2>2. CASE ~(i <= M)
    <3>1. i - M \in 1..Len(r) /\ w[i] = r[i - M]
      BY <1>3, <1>4, <2>2
    <3> QED
      BY <3>1 DEF AllGood
  <2> QED
    BY <2>1, <2>2
<1> QED
  BY <1>1, <1>2, <1>5 DEF AllGood

-----------------------------------------------------------------------------
(* The text units of a stretch.                                             *)

LEMMA PiecesGood ==
  ASSUME NEW X, NEW U, U \in Seq(Passage(X)), NEW n \in 1..Len(U), NEW budget, NEW split,
         ~(Tokens(U[n].content) <= budget)
  PROVE  /\ Pieces(U[n], budget, split) \in Seq(Passage(X))
         /\ Said(Pieces(U[n], budget, split)) = U[n].content
         /\ AllGood(Pieces(U[n], budget, split), U, budget)
<1>1. PICK b, t, ss, type, q :
         /\ b = U[n] /\ t = b.content /\ ss = SplitOversized(t, budget, split.low, b.first \in split.down)
         /\ type = (IF b.type = "list" THEN "list" ELSE "text")
         /\ q = Pieces(b, budget, split)
  OBVIOUS
<1>2. b \in Passage(X)
  <2>1. PICK P : P = Passage(X)
    OBVIOUS
  <2>2. U \in Seq(P)
    BY <2>1
  <2>3. U[n] \in P
    BY <2>2
  <2> QED
    BY <1>1, <2>1, <2>3
<1>3. t \in Seq(X) /\ type \in PassageTypes /\ type \in {"list", "text"}
  BY <1>1, <1>2, PassageTyped DEF PassageTypes
<1>4. CutOf(ss, t, X, budget)
  BY <1>1, <1>3, SplitCuts
<1>5. ListOfLists(ss, X) /\ FlattenSeq(ss) = t
  BY <1>4 DEF CutOf
<1>6. PICK N : N = Len(ss) /\ N \in Nat /\ DOMAIN ss = 1..N /\ \A i \in 1..N : ss[i] \in Seq(X)
  BY <1>5 DEF ListOfLists
<1>7. q = [i \in 1..N |-> Chunk(type, b, b, ss[i])]
  BY <1>1, <1>6, Zenon DEF Pieces
<1>8. ASSUME NEW i \in 1..N
      PROVE  /\ q[i] \in Passage(X) /\ q[i].content = ss[i] /\ Good(q[i], U, budget)
  <2>1. PICK c, s : c = q[i] /\ s = ss[i]
    OBVIOUS
  <2>2. c = Chunk(type, b, b, s)
    BY <1>7, <2>1
  <2>3. s \in Seq(X)
    BY <1>6, <2>1
  <2>4. /\ c \in Passage(X) /\ c.type = type /\ c.path = b.path
        /\ c.first = b.first /\ c.last = b.last /\ c.content = s
    <3>1. type \in PassageTypes
      BY <1>3
    <3>2. c \in Passage(X)
      BY <1>2, <2>2, <2>3, <3>1, ChunkTyped
    <3> QED
      BY <2>2, <3>2 DEF Chunk
  <2>5. ToSet(s) \subseteq ToSet(t)
    BY <1>5, <1>6, <2>1, FlattenHolds
  <2>6. Sized(c, budget)
    BY <1>4, <1>6, <2>1, <2>4 DEF CutOf, Sized
  <2>7. Under(c.path, U, n, n)
    BY <1>1, <2>4 DEF Under
  <2>8. StemsFrom(c, U, budget, n, n)
    BY <1>1, <2>4, <2>5, <2>7 DEF StemsFrom
  <2>9. Stems(c, U, budget)
    BY <2>8 DEF Stems
  <2>10. Whole(c, U)
    BY <1>3, <2>4 DEF Whole
  <2> QED
    BY <2>1, <2>4, <2>6, <2>9, <2>10 DEF Good
<1>9. q \in Seq(Passage(X)) /\ Len(q) = N /\ DOMAIN q = 1..N
  <2>1. PICK P : P = Passage(X)
    OBVIOUS
  <2>2. \A i \in 1..N : q[i] \in P
    BY <1>8, <2>1
  <2>3. q \in [1..N -> P] /\ q \in Seq(P)
    BY <1>6, <1>7, <2>2
  <2> QED
    BY <1>6, <2>1, <2>3
<1>10. Contents(q) = ss
  <2>1. Contents(q) = [i \in 1..N |-> q[i].content]
    BY <1>9 DEF Contents
  <2>2. ss = [i \in 1..N |-> ss[i]]
    BY <1>5, <1>6 DEF ListOfLists
  <2> QED
    BY <1>8, <2>1, <2>2
<1>11. AllGood(q, U, budget)
  BY <1>8, <1>9 DEF AllGood
<1> QED
  BY <1>1, <1>5, <1>9, <1>10, <1>11 DEF Said

Holding(part, range, U, budget, n) ==
    \E a \in 1..n : /\ range[1] = U[a] /\ range[2] = U[n] /\ Under(U[a].path, U, a, n)
                    /\ Says(part, U, a, n) /\ Tokens(part) <= budget
EmitTurn(part, range, out, U, X, budget, n) ==
    /\ part \in Seq(X) /\ out \in Seq(Passage(X))
    /\ Said(out) \o part = Said(SubSeq(U, 1, n))
    /\ AllGood(out, U, budget)
    /\ part # <<>> => Holding(part, range, U, budget, n)

LEMMA FlushKeeps ==
  ASSUME NEW X, NEW U, U \in Seq(Passage(X)), NEW n \in 0..Len(U), NEW budget, NEW s, NEW r, r = FlushParts(s),
         NEW part, NEW range, NEW out, s.part = part, s.range = range, s.out = out,
         EmitTurn(part, range, out, U, X, budget, n)
  PROVE  EmitTurn(<<>>, r.range, r.out, U, X, budget, n) /\ r.part = <<>>
<1>1. PICK is, P : is = Said(SubSeq(U, 1, n)) /\ P = Passage(X)
  OBVIOUS
<1>2. /\ part \in Seq(X) /\ out \in Seq(P)
      /\ Said(out) \o part = is /\ AllGood(out, U, budget)
      /\ part # <<>> => Holding(part, range, U, budget, n)
  BY <1>1 DEF EmitTurn
<1>3. Said(out) \in Seq(X) /\ <<>> \in Seq(X)
  BY <1>1, <1>2, SaidTyped
<1>4. CASE part = <<>>
  <2>1. r = s
    BY <1>1, <1>4 DEF FlushParts
  <2> QED
    BY <1>1, <1>4, <2>1
<1>5. CASE part # <<>>
  <2>1. PICK a \in 1..n : /\ range[1] = U[a] /\ range[2] = U[n] /\ Under(U[a].path, U, a, n)
                          /\ Says(part, U, a, n) /\ Tokens(part) <= budget
    BY <1>2, <1>5 DEF Holding
  <2>2. PICK from, to, c : from = U[a] /\ to = U[n] /\ c = Chunk("text", from, to, part)
    OBVIOUS
  <2>3. a \in 1..Len(U) /\ n \in 1..Len(U) /\ a <= n
    OBVIOUS
  <2>4. from \in P /\ to \in P
    BY <1>1, <2>2, <2>3
  <2>5. "text" \in PassageTypes
    BY DEF PassageTypes
  <2>6. /\ c \in P /\ c.type = "text" /\ c.path = from.path
        /\ c.first = from.first /\ c.last = to.last /\ c.content = part
    <3>1. from \in Passage(X) /\ to \in Passage(X)
      BY <1>1, <2>4
    <3>2. part \in Seq(X)
      BY <1>2
    <3>3. c \in Passage(X)
      BY <2>2, <2>5, <3>1, <3>2, ChunkTyped
    <3> QED
      BY <1>1, <2>2, <3>3 DEF Chunk
  <2>7. StemsFrom(c, U, budget, a, n)
    BY <2>1, <2>2, <2>6 DEF StemsFrom
  <2>8. Good(c, U, budget)
    BY <2>1, <2>3, <2>6, <2>7 DEF Good, Sized, Stems, Whole
  <2>9. PICK more : more = Append(out, c)
    OBVIOUS
  <2>10. more \in Seq(P) /\ AllGood(more, U, budget)
    BY <1>2, <2>6, <2>8, <2>9, GoodAppend
  <2>11. Said(more) = is
    <3>1. out \in Seq(Passage(X)) /\ c \in Passage(X)
      BY <1>1, <1>2, <2>6
    <3>2. Said(Append(out, c)) = Said(out) \o c.content
      BY <3>1, SaidAppend
    <3> QED
      BY <1>2, <2>6, <2>9, <3>2
  <2>12. Said(more) \in Seq(X)
    BY <1>1, <2>10, SaidTyped
  <2>13. Said(more) \o <<>> = is
    BY <2>11, <2>12, ConcatEmptySeq
  <2>14. r.part = <<>> /\ r.out = more
    BY <1>1, <1>5, <2>1, <2>2, <2>9 DEF FlushParts
  <2> QED
    BY <1>1, <1>3, <2>10, <2>13, <2>14 DEF EmitTurn
<1> QED
  BY <1>4, <1>5

Follows(st, s, t) == st = s \o t

LEMMA SaidPrefix ==
  ASSUME NEW X, NEW U, U \in Seq(Passage(X)), NEW n \in 1..Len(U), NEW t, t = U[n].content,
         NEW was, was = Said(SubSeq(U, 1, n - 1)), NEW is, is = Said(SubSeq(U, 1, n))
  PROVE  U[n] \in Passage(X) /\ t \in Seq(X) /\ was \in Seq(X) /\ Follows(is, was, t)
<1>1. PICK P, q, r, b : P = Passage(X) /\ q = SubSeq(U, 1, n - 1) /\ r = SubSeq(U, 1, n) /\ b = U[n]
  OBVIOUS
<1>2. U \in Seq(P)
  BY <1>1
<1>3. q \in Seq(P) /\ b \in P /\ r = Append(q, b)
  BY <1>1, <1>2, PrefixGrows
<1>4. q \in Seq(Passage(X)) /\ b \in Passage(X)
  BY <1>1, <1>3
<1>5. t \in Seq(X)
  BY <1>1, <1>4, PassageTyped
<1>6. Said(Append(q, b)) = Said(q) \o b.content
  BY <1>4, SaidAppend
<1>7. Said(q) \in Seq(X)
  BY <1>4, SaidTyped
<1> QED
  BY <1>1, <1>3, <1>4, <1>5, <1>6, <1>7 DEF Follows

LEMMA AddUnitKeeps ==
  ASSUME NEW X, NEW U, U \in Seq(Passage(X)), NEW n \in 1..Len(U), NEW budget, NEW split,
         NEW s, NEW r, r = AddUnit(s, U[n], budget, split),
         NEW part0, NEW range0, NEW out0, s.part = part0, s.range = range0, s.out = out0,
         EmitTurn(part0, range0, out0, U, X, budget, n - 1)
  PROVE  EmitTurn(r.part, r.range, r.out, U, X, budget, n)
<1>1. PICK b, text, was, is, t :
         /\ b = U[n] /\ text = b.content /\ was = Said(SubSeq(U, 1, n - 1)) /\ is = Said(SubSeq(U, 1, n))
         /\ t = (IF Fits(s, b, budget) THEN s ELSE FlushParts(s))
  OBVIOUS
<1>2. b \in Passage(X) /\ text \in Seq(X) /\ was \in Seq(X) /\ is = was \o text
  <2>1. text = U[n].content
    BY <1>1
  <2>a. /\ U \in Seq(Passage(X)) /\ n \in 1..Len(U)
        /\ was = Said(SubSeq(U, 1, n - 1)) /\ is = Said(SubSeq(U, 1, n))
    BY <1>1
  <2>2. U[n] \in Passage(X) /\ text \in Seq(X) /\ was \in Seq(X) /\ Follows(is, was, text)
    BY <2>1, <2>a, SaidPrefix
  <2> QED
    BY <1>1, <2>2 DEF Follows
<1>3. r = IF t.part # <<>> \/ Tokens(text) <= budget THEN Joined(t, b)
          ELSE [part |-> <<>>, range |-> t.range, out |-> t.out \o Pieces(b, budget, split)]
  BY <1>1, Zenon DEF AddUnit
<1>4. PICK part, range, out : part = t.part /\ range = t.range /\ out = t.out
  OBVIOUS
<1>5. EmitTurn(part, range, out, U, X, budget, n - 1) /\ (~Fits(s, b, budget) => part = <<>>)
  <2>1. CASE Fits(s, b, budget)
    BY <1>1, <1>4, <2>1
  <2>2. CASE ~Fits(s, b, budget)
    <3>1. t = FlushParts(s)
      BY <1>1, <2>2
    <3>2. n - 1 \in 0..Len(U)
      OBVIOUS
    <3>a. PICK m : m = n - 1
      OBVIOUS
    <3>b. m \in 0..Len(U) /\ EmitTurn(part0, range0, out0, U, X, budget, m)
      BY <3>2, <3>a
    <3>3. EmitTurn(<<>>, t.range, t.out, U, X, budget, n - 1) /\ t.part = <<>>
      BY <3>1, <3>a, <3>b, FlushKeeps
    <3> QED
      BY <1>4, <3>3
  <2> QED
    BY <2>1, <2>2
<1>6. /\ part \in Seq(X) /\ out \in Seq(Passage(X))
      /\ Said(out) \o part = was /\ AllGood(out, U, budget)
      /\ part # <<>> => Holding(part, range, U, budget, n - 1)
  BY <1>1, <1>5 DEF EmitTurn
<1>7. Said(out) \in Seq(X)
  BY <1>6, SaidTyped
<1>8. Says(text, U, n, n) /\ Under(b.path, U, n, n)
  BY <1>1 DEF Says, Under
<1>9. CASE part # <<>>
  <2>1. Fits(s, b, budget) /\ t = s
    BY <1>1, <1>5, <1>9
  <2>2. PICK more : more = part \o text
    OBVIOUS
  <2>3. range[1].path = b.path /\ Tokens(more) <= budget
    BY <1>1, <1>4, <2>1, <2>2 DEF Fits
  <2>4. PICK a \in 1..(n - 1) : /\ range[1] = U[a] /\ Under(U[a].path, U, a, n - 1) /\ Says(part, U, a, n - 1)
    BY <1>6, <1>9 DEF Holding
  <2>5. r = Joined(t, b)
    BY <1>3, <1>4, <1>9
  <2>6. r.part = more /\ r.range[1] = U[a] /\ r.range[2] = U[n] /\ r.out = out
    <3>1. PICK pair : pair = <<range[1], b>>
      OBVIOUS
    <3>2. r = [part |-> more, range |-> pair, out |-> out]
      BY <1>1, <1>4, <1>9, <2>2, <2>5, <3>1 DEF Joined
    <3> QED
      BY <1>1, <2>4, <3>1, <3>2
  <2>7. more \in Seq(X) /\ ToSet(more) = ToSet(part) \cup ToSet(text)
    BY <1>2, <1>6, <2>2, HoldsBoth
  <2>8. Said(out) \o more = is
    <3>1. PICK said : said = Said(out)
      OBVIOUS
    <3>2. said \in Seq(X) /\ part \in Seq(X) /\ text \in Seq(X) /\ was = said \o part
      BY <1>2, <1>6, <1>7, <3>1
    <3>3. said \o more = was \o text
      BY ONLY <2>2, <3>2, JoinsRegroup
    <3> QED
      BY <1>2, <3>1, <3>3
  <2>9. \A i : i \in a..n <=> i \in a..(n - 1) \/ i = n
    OBVIOUS
  <2>10. Under(U[a].path, U, a, n)
    BY <1>1, <2>3, <2>4, <2>9 DEF Under
  <2>11. Says(more, U, a, n)
    <3>1. \A x : x \in ToSet(part) <=> \E i \in a..(n - 1) : x \in ToSet(U[i].content)
      BY <2>4 DEF Says
    <3> QED
      BY <1>1, <2>7, <2>9, <3>1 DEF Says
  <2>12. a \in 1..n
    OBVIOUS
  <2>13. Holding(more, r.range, U, budget, n)
    BY <2>3, <2>6, <2>10, <2>11, <2>12 DEF Holding
  <2> QED
    BY <1>1, <1>6, <2>6, <2>7, <2>8, <2>13 DEF EmitTurn
<1>10. CASE part = <<>> /\ Tokens(text) <= budget
  <2>1. r = Joined(t, b)
    BY <1>3, <1>10
  <2>2. <<>> \o text = text
    BY <1>2
  <2>3. r.part = text /\ r.range[1] = U[n] /\ r.range[2] = U[n] /\ r.out = out
    <3>1. PICK pair : pair = <<b, b>>
      OBVIOUS
    <3>2. r = [part |-> text, range |-> pair, out |-> out]
      BY <1>1, <1>4, <1>10, <2>1, <2>2, <3>1 DEF Joined
    <3> QED
      BY <1>1, <3>1, <3>2
  <2>4. Said(out) = was
    BY <1>6, <1>7, <1>10, ConcatEmptySeq
  <2>5. n \in 1..n
    OBVIOUS
  <2>6. Holding(text, r.range, U, budget, n)
    BY <1>1, <1>8, <1>10, <2>3, <2>5 DEF Holding
  <2> QED
    BY <1>1, <1>2, <1>6, <2>3, <2>4, <2>6 DEF EmitTurn
<1>11. CASE part = <<>> /\ ~(Tokens(text) <= budget)
  <2>1. PICK q, more : q = Pieces(b, budget, split) /\ more = out \o q
    OBVIOUS
  <2>2. r.part = <<>> /\ r.out = more
    BY <1>3, <1>4, <1>11, <2>1
  <2>3. q \in Seq(Passage(X)) /\ Said(q) = text /\ AllGood(q, U, budget)
    <3>1. ~(Tokens(U[n].content) <= budget) /\ q = Pieces(U[n], budget, split) /\ text = U[n].content
      BY <1>1, <1>11, <2>1
    <3>2. q \in Seq(Passage(X))
      BY <3>1, PiecesGood
    <3>3. Said(q) = text
      BY <3>1, PiecesGood
    <3>4. AllGood(q, U, budget)
      BY <3>1, PiecesGood
    <3> QED
      BY <3>2, <3>3, <3>4
  <2>4. more \in Seq(Passage(X)) /\ AllGood(more, U, budget)
    BY <1>6, <2>1, <2>3, GoodConcat
  <2>5. Said(out) = was
    BY <1>6, <1>7, <1>11, ConcatEmptySeq
  <2>6. Said(more) = is
    <3>1. Said(out \o q) = Said(out) \o Said(q)
      <4>1. out \in Seq(Passage(X)) /\ q \in Seq(Passage(X))
        BY <1>6, <2>3
      <4> QED
        BY <4>1, SaidConcat
    <3> QED
      BY <1>2, <2>1, <2>3, <2>5, <3>1
  <2>7. Said(more) \in Seq(X)
    BY <2>4, SaidTyped
  <2>8. <<>> \in Seq(X) /\ Said(more) \o <<>> = is
    BY <2>6, <2>7, ConcatEmptySeq
  <2> QED
    BY <1>1, <2>2, <2>4, <2>8 DEF EmitTurn
<1> QED
  BY <1>9, <1>10, <1>11

EmitState(X) ==
    {s \in [part : Seq(X), range : Seq(Passage(X)), out : Seq(Passage(X))] : s.part # <<>> => Len(s.range) = 2}

LEMMA FlushCloses ==
  ASSUME NEW X, NEW s, s \in EmitState(X), NEW r, r = FlushParts(s)
  PROVE  r \in EmitState(X)
<1>1. CASE s.part = <<>>
  BY <1>1 DEF FlushParts
<1>2. CASE s.part # <<>>
  <2>1. PICK P, part, range, out : P = Passage(X) /\ part = s.part /\ range = s.range /\ out = s.out
    OBVIOUS
  <2>2. part \in Seq(X) /\ range \in Seq(P) /\ out \in Seq(P) /\ Len(range) = 2
    BY <1>2, <2>1 DEF EmitState
  <2>3. PICK c, from, to : from = range[1] /\ to = range[2] /\ c = Chunk("text", from, to, part)
    OBVIOUS
  <2>4. from \in Passage(X) /\ to \in Passage(X)
    <3>a. range \in Seq(P) /\ 1 \in 1..Len(range) /\ 2 \in 1..Len(range)
      BY <2>2
    <3>1. from \in P /\ to \in P
      BY <2>3, <3>a
    <3> QED
      BY <2>1, <3>1
  <2>5. "text" \in PassageTypes
    BY DEF PassageTypes
  <2>6. part \in Seq(X)
    BY <2>2
  <2>7. c \in Passage(X)
    BY <2>3, <2>4, <2>5, <2>6, ChunkTyped
  <2>8. Append(out, c) \in Seq(P) /\ <<>> \in Seq(X)
    BY <2>1, <2>2, <2>7
  <2>9. r = [part |-> <<>>, range |-> range, out |-> Append(out, c)]
    BY <1>2, <2>1, <2>3 DEF FlushParts
  <2> QED
    BY <2>1, <2>2, <2>8, <2>9 DEF EmitState
<1> QED
  BY <1>1, <1>2

LEMMA AddUnitCloses ==
  ASSUME NEW X, NEW U, U \in Seq(Passage(X)), NEW n \in 1..Len(U), NEW budget, NEW split,
         NEW s, s \in EmitState(X), NEW r, r = AddUnit(s, U[n], budget, split)
  PROVE  r \in EmitState(X)
<1>1. PICK b, text, t, P :
         /\ b = U[n] /\ text = b.content /\ P = Passage(X)
         /\ t = (IF Fits(s, b, budget) THEN s ELSE FlushParts(s))
  OBVIOUS
<1>2. b \in Passage(X) /\ text \in Seq(X)
  <2>2. U \in Seq(P)
    BY <1>1
  <2>3. b \in P
    BY <1>1, <2>2
  <2> QED
    BY <1>1, <2>3, PassageTyped
<1>3. r = IF t.part # <<>> \/ Tokens(text) <= budget THEN Joined(t, b)
          ELSE [part |-> <<>>, range |-> t.range, out |-> t.out \o Pieces(b, budget, split)]
  BY <1>1, Zenon DEF AddUnit
<1>4. t \in EmitState(X)
  BY <1>1, FlushCloses
<1>5. PICK part, range, out : part = t.part /\ range = t.range /\ out = t.out
  OBVIOUS
<1>6. part \in Seq(X) /\ range \in Seq(P) /\ out \in Seq(P) /\ (part # <<>> => Len(range) = 2)
  BY <1>1, <1>4, <1>5 DEF EmitState
<1>7. ASSUME r = Joined(t, b)
      PROVE  r \in EmitState(X)
  <2>1. PICK from : from = IF part = <<>> THEN b ELSE range[1]
    OBVIOUS
  <2>2. from \in P /\ b \in P
    <3>1. part # <<>> => 1 \in 1..Len(range)
      <4>1. part # <<>> => Len(range) = 2
        BY <1>6
      <4>2. 1 \in 1..2
        OBVIOUS
      <4> QED
        BY <4>1, <4>2
    <3> QED
      BY <1>1, <1>2, <1>6, <2>1, <3>1
  <2>3. <<from, b>> \in Seq(P) /\ Len(<<from, b>>) = 2
    BY <2>2
  <2>4. part \o text \in Seq(X)
    BY <1>2, <1>6
  <2>5. r = [part |-> part \o text, range |-> <<from, b>>, out |-> out]
    BY <1>1, <1>5, <1>7, <2>1 DEF Joined
  <2> QED
    BY <1>1, <1>6, <2>3, <2>4, <2>5 DEF EmitState
<1>8. CASE t.part # <<>> \/ Tokens(text) <= budget
  BY <1>3, <1>7, <1>8
<1>9. CASE ~(t.part # <<>> \/ Tokens(text) <= budget)
  <2>1. PICK q : q = Pieces(b, budget, split)
    OBVIOUS
  <2>2. q \in Seq(Passage(X))
    BY <1>1, <1>9, <2>1, PiecesGood
  <2>3. out \o q \in Seq(P) /\ <<>> \in Seq(X)
    BY <1>1, <1>6, <2>2
  <2>4. r = [part |-> <<>>, range |-> range, out |-> out \o q]
    BY <1>3, <1>5, <1>9, <2>1
  <2> QED
    BY <1>1, <1>6, <2>3, <2>4 DEF EmitState
<1> QED
  BY <1>8, <1>9

\* The chunks q say what the passages B do, in order, and each stems from some of them.
Covers(q, B, X, budget) ==
    q \in Seq(Passage(X)) /\ Said(q) = Said(B) /\ AllGood(q, B, budget)

LEMMA EmitCovers ==
  ASSUME NEW X, NEW U, U \in Seq(Passage(X)), NEW budget, NEW split
  PROVE  Covers(EmitTextUnits(U, budget, split), U, X, budget)
<1> DEFINE S == EmitState(X)
           chosen == CHOOSE u : u = [n \in 0..Len(U) |-> IF n = 0 THEN NoUnits ELSE AddUnit(u[n - 1], U[n], budget, split)]
           last == FlushParts(chosen[Len(U)]).out
           G(N) == [p \in (1..N) \X S |-> AddUnit(p[2], U[p[1]], budget, split)]
<1>1. PICK N : N = Len(U)
  OBVIOUS
<1>2. PICK up : up = chosen
  OBVIOUS
<1>3. PICK e, all : e = up[Len(U)] /\ all = FlushParts(e).out
  OBVIOUS
<1>4. EmitTextUnits(U, budget, split) = all
  <2>1. EmitTextUnits(U, budget, split) = last
    BY Zenon DEF EmitTextUnits
  <2>2. all = last
    BY <1>2, <1>3
  <2> HIDE DEF last
  <2> QED
    BY <2>1, <2>2
<1>5. N \in Nat
  BY <1>1
<1>6. NoUnits \in S
  <2>1. PICK P : P = Passage(X)
    OBVIOUS
  <2>2. <<>> \in Seq(X) /\ <<>> \in Seq(P)
    OBVIOUS
  <2> QED
    BY <2>1, <2>2 DEF EmitState, NoUnits
<1>7. \A n \in 1..N : \A s \in S : AddUnit(s, U[n], budget, split) \in S
  BY <1>1, AddUnitCloses
<1>8. G(N) \in [(1..N) \X S -> S] /\ \A n \in 1..N : \A s \in S : G(N)[<<n, s>>] = AddUnit(s, U[n], budget, split)
  BY <1>7
<1> HIDE DEF S, G
<1>9. PICK f : Runs(f, N, S, NoUnits, G(N))
  BY <1>5, <1>6, <1>8, LoopRuns
<1>10. f \in [0..N -> S] /\ f[0] = NoUnits /\ \A n \in 1..N : f[n] = AddUnit(f[n - 1], U[n], budget, split)
  <2>1. f \in [0..N -> S] /\ f[0] = NoUnits
    BY <1>9 DEF Runs
  <2>2. \A n \in 1..N : f[n] = AddUnit(f[n - 1], U[n], budget, split)
    <3>1. TAKE n \in 1..N
    <3>2. n - 1 \in 0..N
      BY <1>5
    <3>3. f[n - 1] \in S /\ f[n] = G(N)[<<n, f[n - 1]>>]
      BY <1>9, <2>1, <3>2 DEF Runs
    <3> QED
      BY <1>8, <3>3
  <2> QED
    BY <2>1, <2>2
<1>11. f = [n \in 0..N |-> IF n = 0 THEN NoUnits ELSE AddUnit(f[n - 1], U[n], budget, split)]
  <2>1. f = [n \in 0..N |-> f[n]]
    BY <1>10
  <2>2. \A n \in 0..N : f[n] = IF n = 0 THEN NoUnits ELSE AddUnit(f[n - 1], U[n], budget, split)
    BY <1>5, <1>10
  <2> QED
    BY <2>1, <2>2
<1>12. up = [n \in 0..N |-> IF n = 0 THEN NoUnits ELSE AddUnit(up[n - 1], U[n], budget, split)]
  <2>1. up = CHOOSE u : u = [n \in 0..N |-> IF n = 0 THEN NoUnits ELSE AddUnit(u[n - 1], U[n], budget, split)]
    BY <1>1, <1>2
  <2> QED
    BY <1>11, <2>1
<1>13. \A n \in 0..N : up[n] = IF n = 0 THEN NoUnits ELSE AddUnit(up[n - 1], U[n], budget, split)
  BY <1>12
<1> DEFINE Turn(n) == EmitTurn(up[n].part, up[n].range, up[n].out, U, X, budget, n)
<1>14. PICK P : P = {n \in 0..N : Turn(n)}
  OBVIOUS
<1>15. 0 \in P
  <2>1. PICK z : z = up[0]
    OBVIOUS
  <2>2. z.part = <<>> /\ z.out = <<>> /\ 0 \in 0..N
    BY <1>5, <1>13, <2>1 DEF NoUnits
  <2>3. <<>> \in Seq(Passage(X)) /\ <<>> \in Seq(X) /\ AllGood(<<>>, U, budget)
    <3>1. Len(<<>>) = 0
      OBVIOUS
    <3>2. PICK Y : Y = Passage(X)
      OBVIOUS
    <3>3. <<>> \in Seq(Y) /\ <<>> \in Seq(X)
      OBVIOUS
    <3> QED
      BY <3>1, <3>2, <3>3 DEF AllGood
  <2>4. Said(<<>>) \o <<>> = Said(SubSeq(U, 1, 0))
    <3>1. SubSeq(U, 1, 0) = <<>>
      BY PrefixEnds
    <3>2. <<>> \o <<>> = <<>>
      OBVIOUS
    <3> QED
      BY <3>1, <3>2, SaidNothing
  <2>5. EmitTurn(<<>>, z.range, <<>>, U, X, budget, 0)
    BY <2>3, <2>4 DEF EmitTurn
  <2> QED
    BY <1>14, <2>1, <2>2, <2>5
<1>16. \A n \in 1..N : n - 1 \in P => n \in P
  <2>1. SUFFICES ASSUME NEW n \in 1..N, n - 1 \in P
                 PROVE  n \in P
    OBVIOUS
  <2>2. n \in 0..N /\ n # 0 /\ n \in 1..Len(U)
    BY <1>1, <1>5
  <2>3. PICK s, r, part, range, out :
           s = up[n - 1] /\ r = up[n] /\ part = s.part /\ range = s.range /\ out = s.out
    OBVIOUS
  <2>4. r = AddUnit(s, U[n], budget, split)
    BY <1>13, <2>2, <2>3
  <2>5. EmitTurn(part, range, out, U, X, budget, n - 1)
    BY <1>14, <2>1, <2>3
  <2>6. EmitTurn(r.part, r.range, r.out, U, X, budget, n)
    BY <2>2, <2>3, <2>4, <2>5, AddUnitKeeps
  <2> QED
    BY <1>14, <2>2, <2>3, <2>6
<1>17. N \in P
  <2>1. N \in Nat
    BY <1>5
  <2>2. \A n \in 0..N : n \in P
    BY <1>15, <1>16, <2>1, TurnInduction
  <2> QED
    BY <2>1, <2>2
<1> HIDE DEF chosen
<1>18. PICK part, range, out, r : part = e.part /\ range = e.range /\ out = e.out /\ r = FlushParts(e)
  OBVIOUS
<1>19. EmitTurn(part, range, out, U, X, budget, N)
  BY <1>1, <1>3, <1>14, <1>17, <1>18
<1>20. N \in 0..Len(U) /\ SubSeq(U, 1, N) = U
  BY <1>1, <1>5, PrefixEnds
<1>21. EmitTurn(<<>>, r.range, r.out, U, X, budget, N)
  BY <1>18, <1>19, <1>20, FlushKeeps
<1>22. all \in Seq(Passage(X)) /\ Said(all) \o <<>> = Said(U) /\ AllGood(all, U, budget)
  BY <1>3, <1>18, <1>20, <1>21 DEF EmitTurn
<1>23. Said(all) \in Seq(X)
  BY <1>22, SaidTyped
<1> QED
  BY <1>4, <1>22, <1>23, ConcatEmptySeq DEF Covers

-----------------------------------------------------------------------------
(* One pass over the blocks.                                                *)

\* A chunk of a stretch of B is a chunk of B.
Stretch(U, B, k) == \A i \in 1..Len(U) : U[i] = B[k + i]

LEMMA StretchGood ==
  ASSUME NEW U, NEW B, Len(U) \in Nat, Len(B) \in Nat, NEW k \in Nat, k + Len(U) <= Len(B), Stretch(U, B, k),
         NEW c, NEW budget, Good(c, U, budget)
  PROVE  Good(c, B, budget)
<1>1. PICK a, z \in 1..Len(U) : a <= z /\ StemsFrom(c, U, budget, a, z)
  BY DEF Good, Stems
<1>2. PICK M, N, a1, z1 : M = Len(U) /\ N = Len(B) /\ a1 = k + a /\ z1 = k + z
  OBVIOUS
<1>3. /\ M \in Nat /\ N \in Nat /\ a \in 1..M /\ z \in 1..M /\ a1 \in 1..N /\ z1 \in 1..N /\ a1 <= z1
      /\ \A i \in a1..z1 : i - k \in a..z /\ i - k \in 1..M /\ k + (i - k) = i
      /\ \A i \in a..z : i \in 1..M /\ k + i \in a1..z1
  BY <1>1, <1>2
<1>4. \A i \in 1..M : U[i] = B[k + i]
  BY <1>2 DEF Stretch
<1>5. /\ U[a] = B[a1] /\ U[z] = B[z1] /\ (a = z => a1 = z1)
      /\ \A i \in a1..z1 : B[i] = U[i - k]
      /\ \A i \in a..z : U[i] = B[k + i]
  BY <1>2, <1>3, <1>4
<1>6. Under(c.path, U, a, z) => Under(c.path, B, a1, z1)
  BY <1>3, <1>5 DEF Under
<1>7. ASSUME Says(c.content, U, a, z)
      PROVE  Says(c.content, B, a1, z1)
  <2>1. ASSUME NEW x
        PROVE  (\E i \in a..z : x \in ToSet(U[i].content)) <=> \E i \in a1..z1 : x \in ToSet(B[i].content)
    <3>1. ASSUME NEW i \in a..z, x \in ToSet(U[i].content)
          PROVE  \E j \in a1..z1 : x \in ToSet(B[j].content)
      <4>1. U[i] = B[k + i] /\ k + i \in a1..z1
        BY <1>3, <1>5
      <4>2. x \in ToSet(B[k + i].content)
        BY <3>1, <4>1
      <4> QED
        BY <4>1, <4>2
    <3>2. ASSUME NEW i \in a1..z1, x \in ToSet(B[i].content)
          PROVE  \E j \in a..z : x \in ToSet(U[j].content)
      <4>1. B[i] = U[i - k] /\ i - k \in a..z
        BY <1>3, <1>5
      <4>2. x \in ToSet(U[i - k].content)
        BY <3>2, <4>1
      <4> QED
        BY <4>1, <4>2
    <3> QED
      BY <3>1, <3>2
  <2> QED
    BY <1>7, <2>1 DEF Says
<1>8. StemsFrom(c, B, budget, a1, z1)
  BY <1>1, <1>5, <1>6, <1>7 DEF StemsFrom
<1>9. Stems(c, B, budget)
  BY <1>2, <1>3, <1>8 DEF Stems
<1>10. Whole(c, B)
  <2>1. Whole(c, U)
    BY DEF Good
  <2>2. SUFFICES ASSUME c.type \in {"code", "table"}
                 PROVE  \E i \in 1..Len(B) : /\ c.first = B[i].first /\ c.last = B[i].last
                                             /\ c.content = B[i].content
    BY DEF Whole
  <2>3. PICK i \in 1..Len(U) : c.first = U[i].first /\ c.last = U[i].last /\ c.content = U[i].content
    BY <2>1, <2>2 DEF Whole
  <2>4. k + i \in 1..Len(B) /\ U[i] = B[k + i]
    BY DEF Stretch
  <2> QED
    BY <2>3, <2>4
<1> QED
  BY <1>9, <1>10 DEF Good

BodyOf(B) == [i \in DOMAIN B |-> IF B[i].type = "heading" THEN <<>> ELSE B[i].content]
BodyTo(B, n) == FlattenSeq(SubSeq(BodyOf(B), 1, n))

LEMMA BodyList ==
  ASSUME NEW X, NEW B, B \in Seq(Passage(X))
  PROVE  ListOfLists(BodyOf(B), X) /\ Len(BodyOf(B)) = Len(B)
<1>1. PICK N, P, tt : N = Len(B) /\ P = Passage(X) /\ tt = BodyOf(B)
  OBVIOUS
<1>2. N \in Nat /\ DOMAIN B = 1..N /\ \A i \in 1..N : B[i] \in P
  BY <1>1
<1>3. \A i \in 1..N : B[i].content \in Seq(X) /\ <<>> \in Seq(X)
  BY <1>1, <1>2, PassageTyped
<1>4. tt = [i \in 1..N |-> IF B[i].type = "heading" THEN <<>> ELSE B[i].content]
  BY <1>1, <1>2 DEF BodyOf
<1>5. tt \in [1..N -> Seq(X)]
  BY <1>3, <1>4
<1> QED
  BY <1>1, <1>2, <1>5 DEF ListOfLists

LEMMA BodyGrows ==
  ASSUME NEW X, NEW B, B \in Seq(Passage(X)), NEW n \in 1..Len(B), NEW t,
         t = (IF B[n].type = "heading" THEN <<>> ELSE B[n].content),
         NEW was, was = BodyTo(B, n - 1), NEW is, is = BodyTo(B, n)
  PROVE  t \in Seq(X) /\ was \in Seq(X) /\ Follows(is, was, t)
<1>1. PICK Y, tt, q, r : Y = Seq(X) /\ tt = BodyOf(B) /\ q = SubSeq(tt, 1, n - 1) /\ r = SubSeq(tt, 1, n)
  OBVIOUS
<1>2. tt \in Seq(Y) /\ Len(tt) = Len(B)
  BY <1>1, BodyList DEF ListOfLists
<1>3. tt[n] = t
  <2>1. n \in DOMAIN B
    OBVIOUS
  <2> QED
    BY <1>1, <2>1 DEF BodyOf
<1>4. q \in Seq(Y) /\ t \in Y /\ r = Append(q, t)
  BY <1>1, <1>2, <1>3, PrefixGrows
<1>5. ListOfLists(q, X) /\ t \in Seq(X)
  BY <1>1, <1>4 DEF ListOfLists
<1>6. FlattenSeq(Append(q, t)) = FlattenSeq(q) \o t
  BY <1>5, FlattenAppend
<1>7. FlattenSeq(q) \in Seq(X)
  BY <1>5, FlattenTyped
<1> QED
  BY <1>1, <1>4, <1>5, <1>6, <1>7 DEF Follows, BodyTo

LEMMA BodyEnds ==
  ASSUME NEW X, NEW B, B \in Seq(Passage(X))
  PROVE  BodyTo(B, 0) = <<>> /\ BodyTo(B, Len(B)) = FlattenSeq(BodyOf(B))
<1>1. PICK Y, tt : Y = Seq(X) /\ tt = BodyOf(B)
  OBVIOUS
<1>2. tt \in Seq(Y) /\ Len(tt) = Len(B)
  BY <1>1, BodyList DEF ListOfLists
<1>3. SubSeq(tt, 1, Len(B)) = tt /\ SubSeq(tt, 1, 0) = <<>>
  BY <1>2, PrefixEnds
<1> QED
  BY <1>1, <1>3, FlattenNothing DEF BodyTo

\* pending holds the last passages of the first n of B.
Pending(pending, B, n) == \E k \in 0..n : Len(pending) = n - k /\ Stretch(pending, B, k)
FlatTurn(pending, out, B, X, budget, n) ==
    /\ pending \in Seq(Passage(X)) /\ out \in Seq(Passage(X))
    /\ Said(out) \o Said(pending) = BodyTo(B, n)
    /\ AllGood(out, B, budget)
    /\ Pending(pending, B, n)
\* Without pending text: q holds the chunks of the first n of B.
FlatDone(q, B, X, budget, n) ==
    q \in Seq(Passage(X)) /\ Said(q) = BodyTo(B, n) /\ AllGood(q, B, budget)

LEMMA PendingFlushed ==
  ASSUME NEW X, NEW B, B \in Seq(Passage(X)), NEW n \in 0..Len(B), NEW budget, NEW split,
         NEW s, NEW pending, NEW out, s.pending = pending, s.out = out,
         FlatTurn(pending, out, B, X, budget, n), NEW r, r = FlushPending(s, budget, split)
  PROVE  FlatDone(r, B, X, budget, n)
<1>1. /\ pending \in Seq(Passage(X)) /\ out \in Seq(Passage(X))
      /\ Said(out) \o Said(pending) = BodyTo(B, n) /\ AllGood(out, B, budget)
  BY DEF FlatTurn
<1>2. PICK k \in 0..n : Len(pending) = n - k /\ Stretch(pending, B, k)
  BY DEF FlatTurn, Pending
<1>3. PICK q : q = EmitTextUnits(pending, budget, split)
  OBVIOUS
<1>4. Covers(q, pending, X, budget)
  BY <1>1, <1>3, EmitCovers
<1>5. q \in Seq(Passage(X)) /\ Said(q) = Said(pending) /\ AllGood(q, pending, budget)
  BY <1>4 DEF Covers
<1>6. /\ Len(pending) \in Nat /\ Len(B) \in Nat /\ k \in Nat /\ k + Len(pending) <= Len(B)
  BY <1>2
<1>7. AllGood(q, B, budget)
  BY <1>2, <1>5, <1>6, StretchGood DEF AllGood
<1>8. r = out \o q
  BY <1>3 DEF FlushPending
<1>9. r \in Seq(Passage(X)) /\ AllGood(r, B, budget)
  BY <1>1, <1>5, <1>7, <1>8, GoodConcat
<1>10. Said(out \o q) = Said(out) \o Said(q)
  <2>1. out \in Seq(Passage(X)) /\ q \in Seq(Passage(X))
    BY <1>1, <1>5
  <2> QED
    BY <2>1, SaidConcat
<1> QED
  BY <1>1, <1>5, <1>8, <1>9, <1>10 DEF FlatDone

LEMMA AddBlockKeeps ==
  ASSUME NEW X, NEW B, B \in Seq(Passage(X)), NEW n \in 1..Len(B), NEW budget, NEW split,
         NEW s, NEW pending, NEW out, s.pending = pending, s.out = out,
         FlatTurn(pending, out, B, X, budget, n - 1), NEW r, r = AddBlock(s, B[n], budget, split)
  PROVE  FlatTurn(r.pending, r.out, B, X, budget, n)
<1>1. PICK b, q, was, is, m : /\ b = B[n] /\ q = FlushPending(s, budget, split)
                              /\ was = BodyTo(B, n - 1) /\ is = BodyTo(B, n) /\ m = n - 1
  OBVIOUS
<1>2. b \in Passage(X)
  <2>1. PICK P : P = Passage(X)
    OBVIOUS
  <2>2. B \in Seq(P)
    BY <2>1
  <2>3. b \in P
    BY <1>1, <2>2
  <2> QED
    BY <2>1, <2>3
<1>3. FlatDone(q, B, X, budget, n - 1)
  <2>1. m \in 0..Len(B) /\ FlatTurn(pending, out, B, X, budget, m)
    BY <1>1
  <2>2. FlatDone(q, B, X, budget, m)
    BY <1>1, <2>1, PendingFlushed
  <2> QED
    BY <1>1, <2>2
<1>4. q \in Seq(Passage(X)) /\ Said(q) = was /\ AllGood(q, B, budget)
  BY <1>1, <1>3 DEF FlatDone
<1>5. ASSUME NEW w, FlatDone(w, B, X, budget, n), r.pending = <<>>, r.out = w
      PROVE  FlatTurn(r.pending, r.out, B, X, budget, n)
  <2>1. w \in Seq(Passage(X)) /\ Said(w) = is /\ AllGood(w, B, budget)
    BY <1>1, <1>5 DEF FlatDone
  <2>2. Said(w) \in Seq(X)
    BY <2>1, SaidTyped
  <2>3. Said(w) \o Said(<<>>) = is
    BY <2>1, <2>2, SaidNothing, ConcatEmptySeq
  <2>4. n \in 0..n /\ Len(<<>>) = n - n /\ Stretch(<<>>, B, n)
    BY DEF Stretch
  <2>5. <<>> \in Seq(Passage(X))
    <3>1. PICK Y : Y = Passage(X)
      OBVIOUS
    <3>2. <<>> \in Seq(Y)
      OBVIOUS
    <3> QED
      BY <3>1, <3>2
  <2>6. Pending(<<>>, B, n)
    BY <2>4 DEF Pending
  <2> QED
    BY <1>1, <1>5, <2>1, <2>3, <2>5, <2>6 DEF FlatTurn
<1>6. CASE b.type = "heading"
  <2>1. r.pending = <<>> /\ r.out = q
    BY <1>1, <1>6 DEF AddBlock
  <2>2. PICK t : t = (IF B[n].type = "heading" THEN <<>> ELSE B[n].content)
    OBVIOUS
  <2>3. was \in Seq(X) /\ Follows(is, was, t)
    BY <1>1, <2>2, BodyGrows
  <2>4. is = was
    BY <1>1, <1>6, <2>2, <2>3, ConcatEmptySeq DEF Follows
  <2>5. FlatDone(q, B, X, budget, n)
    BY <1>1, <1>4, <2>4 DEF FlatDone
  <2> QED
    BY <1>5, <2>1, <2>5
<1>7. PICK text : text = b.content
  OBVIOUS
<1>8. ASSUME b.type # "heading"
      PROVE  text \in Seq(X) /\ was \in Seq(X) /\ is = was \o text
  <2>1. text = (IF B[n].type = "heading" THEN <<>> ELSE B[n].content)
    BY <1>1, <1>7, <1>8
  <2>2. text \in Seq(X) /\ was \in Seq(X) /\ Follows(is, was, text)
    BY <1>1, <2>1, BodyGrows
  <2> QED
    BY <2>2 DEF Follows
<1>9. CASE b.type \in {"code", "table"}
  <2>1. b.type # "heading"
    BY <1>9
  <2>2. PICK c, w, type : type = b.type /\ c = Chunk(type, b, b, text) /\ w = Append(q, c)
    OBVIOUS
  <2>3. r.pending = <<>> /\ r.out = w
    BY <1>1, <1>7, <1>9, <2>1, <2>2 DEF AddBlock
  <2>4. type \in PassageTypes /\ text \in Seq(X)
    BY <1>8, <1>9, <2>1, <2>2 DEF PassageTypes
  <2>5. c \in Passage(X)
    BY <1>2, <2>2, <2>4, ChunkTyped
  <2>6. c.type = type /\ c.path = b.path /\ c.first = b.first /\ c.last = b.last /\ c.content = text
    BY <2>2 DEF Chunk
  <2>7. StemsFrom(c, B, budget, n, n)
    BY <1>1, <1>7, <2>6 DEF StemsFrom, Under, Says
  <2>8. Good(c, B, budget)
    <3>1. c.first = B[n].first /\ c.last = B[n].last /\ c.content = B[n].content
      BY <1>1, <1>7, <2>6
    <3>2. Sized(c, budget)
      BY <1>9, <2>2, <2>6 DEF Sized
    <3>3. Stems(c, B, budget)
      BY <2>7 DEF Stems
    <3>4. Whole(c, B)
      BY <3>1 DEF Whole
    <3> QED
      BY <3>2, <3>3, <3>4 DEF Good
  <2>9. w \in Seq(Passage(X)) /\ AllGood(w, B, budget)
    BY <1>4, <2>2, <2>5, <2>8, GoodAppend
  <2>10. Said(Append(q, c)) = Said(q) \o c.content
    BY <1>4, <2>5, SaidAppend
  <2>11. Said(w) = is
    BY <1>4, <1>8, <2>1, <2>2, <2>6, <2>10
  <2>12. FlatDone(w, B, X, budget, n)
    BY <1>1, <2>9, <2>11 DEF FlatDone
  <2> QED
    BY <1>5, <2>3, <2>12
<1>10. CASE b.type # "heading" /\ b.type \notin {"code", "table"}
  <2>1. PICK more : more = Append(pending, b)
    OBVIOUS
  <2>2. r.pending = more /\ r.out = out
    BY <1>1, <1>10, <2>1 DEF AddBlock
  <2>3. /\ pending \in Seq(Passage(X)) /\ out \in Seq(Passage(X))
        /\ Said(out) \o Said(pending) = was /\ AllGood(out, B, budget)
    BY <1>1 DEF FlatTurn
  <2>4. PICK k \in 0..m : Len(pending) = m - k /\ Stretch(pending, B, k)
    BY <1>1 DEF FlatTurn, Pending
  <2>5. PICK P, so, sp, sm : P = Passage(X) /\ so = Said(out) /\ sp = Said(pending) /\ sm = Said(more)
    OBVIOUS
  <2>6. pending \in Seq(P) /\ b \in P
    BY <1>2, <2>3, <2>5
  <2>7. /\ more \in Seq(P) /\ Len(more) = Len(pending) + 1 /\ Len(pending) \in Nat
        /\ more[Len(pending) + 1] = b /\ \A i \in 1..Len(pending) : more[i] = pending[i]
    BY <2>1, <2>6
  <2>8. Said(Append(pending, b)) = Said(pending) \o b.content
    BY <1>2, <2>3, SaidAppend
  <2>9. so \in Seq(X) /\ sp \in Seq(X)
    BY <2>3, <2>5, SaidTyped
  <2>10. text \in Seq(X) /\ was \in Seq(X) /\ is = was \o text
    BY <1>8, <1>10
  <2>11. sm = sp \o text /\ was = so \o sp
    BY <1>7, <2>1, <2>3, <2>5, <2>8
  <2>12. so \o sm = was \o text
    BY <2>9, <2>10, <2>11, JoinsRegroup, SMTT(30)
  <2>13. Stretch(more, B, k)
    <3>1. SUFFICES ASSUME NEW i \in 1..Len(more)
                   PROVE  more[i] = B[k + i]
      BY DEF Stretch
    <3>2. CASE i \in 1..Len(pending)
      BY <2>4, <2>7, <3>2 DEF Stretch
    <3>3. CASE i \notin 1..Len(pending)
      <4>1. i = Len(pending) + 1 /\ k + i = n
        BY <1>1, <2>4, <2>7, <3>3
      <4> QED
        BY <1>1, <2>7, <4>1
    <3> QED
      BY <3>2, <3>3
  <2>14. k \in 0..n /\ Len(more) = n - k
    BY <1>1, <2>4, <2>7
  <2>15. Pending(more, B, n)
    BY <2>13, <2>14 DEF Pending
  <2> QED
    BY <1>1, <2>2, <2>3, <2>5, <2>7, <2>10, <2>12, <2>15 DEF FlatTurn
<1> QED
  BY <1>6, <1>9, <1>10

FlatState(X) == [pending : Seq(Passage(X)), out : Seq(Passage(X))]

LEMMA AddBlockCloses ==
  ASSUME NEW X, NEW B, B \in Seq(Passage(X)), NEW n \in 1..Len(B), NEW budget, NEW split,
         NEW s, s \in FlatState(X), NEW r, r = AddBlock(s, B[n], budget, split)
  PROVE  r \in FlatState(X)
<1>1. PICK b, P, pending, out, q, text, type :
         /\ b = B[n] /\ P = Passage(X) /\ pending = s.pending /\ out = s.out
         /\ q = FlushPending(s, budget, split) /\ text = b.content /\ type = b.type
  OBVIOUS
<1>2. pending \in Seq(P) /\ out \in Seq(P) /\ b \in P
  <2>1. B \in Seq(P)
    BY <1>1
  <2>2. b \in P
    BY <1>1, <2>1
  <2> QED
    BY <1>1, <2>2 DEF FlatState
<1>3. <<>> \in Seq(P)
  OBVIOUS
<1>4. q \in Seq(P)
  <2>1. PICK e : e = EmitTextUnits(pending, budget, split)
    OBVIOUS
  <2>2. pending \in Seq(Passage(X))
    BY <1>1, <1>2
  <2>3. e \in Seq(P)
    BY <1>1, <2>1, <2>2, EmitCovers DEF Covers
  <2> QED
    BY <1>1, <1>2, <2>1, <2>3 DEF FlushPending
<1>5. CASE type = "heading"
  <2>1. r = [pending |-> <<>>, out |-> q]
    BY <1>1, <1>5 DEF AddBlock
  <2> QED
    BY <1>1, <1>3, <1>4, <2>1 DEF FlatState
<1>6. CASE type \in {"code", "table"}
  <2>1. PICK c : c = Chunk(type, b, b, text)
    OBVIOUS
  <2>2. type # "heading" /\ type \in PassageTypes
    BY <1>6 DEF PassageTypes
  <2>3. r = [pending |-> <<>>, out |-> Append(q, c)]
    BY <1>1, <1>6, <2>1, <2>2 DEF AddBlock
  <2>4. b \in Passage(X) /\ text \in Seq(X)
    BY <1>1, <1>2, PassageTyped
  <2>5. c \in Passage(X)
    BY <2>1, <2>2, <2>4, ChunkTyped
  <2>6. Append(q, c) \in Seq(P)
    BY <1>1, <1>4, <2>5
  <2> QED
    BY <1>1, <1>3, <2>3, <2>6 DEF FlatState
<1>7. CASE type # "heading" /\ type \notin {"code", "table"}
  <2>1. r = [pending |-> Append(pending, b), out |-> out]
    BY <1>1, <1>7 DEF AddBlock
  <2>2. Append(pending, b) \in Seq(P)
    BY <1>2
  <2> QED
    BY <1>1, <1>2, <2>1, <2>2 DEF FlatState
<1> QED
  BY <1>5, <1>6, <1>7

LEMMA FlatCovers ==
  ASSUME NEW X, NEW B, B \in Seq(Passage(X)), NEW budget, NEW split
  PROVE  FlatDone(ChunkFlat(B, budget, split), B, X, budget, Len(B))
<1> DEFINE S == FlatState(X)
           s0 == [pending |-> <<>>, out |-> <<>>]
           chosen == CHOOSE u : u = [n \in 0..Len(B) |-> IF n = 0 THEN s0 ELSE AddBlock(u[n - 1], B[n], budget, split)]
           last == FlushPending(chosen[Len(B)], budget, split)
           G(N) == [p \in (1..N) \X S |-> AddBlock(p[2], B[p[1]], budget, split)]
<1>1. PICK N : N = Len(B)
  OBVIOUS
<1>2. PICK up : up = chosen
  OBVIOUS
<1>3. PICK e, all : e = up[Len(B)] /\ all = FlushPending(e, budget, split)
  OBVIOUS
<1>4. ChunkFlat(B, budget, split) = all
  <2>1. ChunkFlat(B, budget, split) = last
    BY Zenon DEF ChunkFlat
  <2>2. all = last
    BY <1>2, <1>3
  <2> HIDE DEF last
  <2> QED
    BY <2>1, <2>2
<1>5. N \in Nat
  BY <1>1
<1>6. s0 \in S
  <2>1. PICK P : P = Passage(X)
    OBVIOUS
  <2>2. <<>> \in Seq(P)
    OBVIOUS
  <2> QED
    BY <2>1, <2>2 DEF FlatState
<1>7. \A n \in 1..N : \A s \in S : AddBlock(s, B[n], budget, split) \in S
  BY <1>1, AddBlockCloses
<1>8. G(N) \in [(1..N) \X S -> S] /\ \A n \in 1..N : \A s \in S : G(N)[<<n, s>>] = AddBlock(s, B[n], budget, split)
  BY <1>7
<1> HIDE DEF S, G, s0
<1>9. PICK f : Runs(f, N, S, s0, G(N))
  BY <1>5, <1>6, <1>8, LoopRuns
<1>10. f \in [0..N -> S] /\ f[0] = s0 /\ \A n \in 1..N : f[n] = AddBlock(f[n - 1], B[n], budget, split)
  <2>1. f \in [0..N -> S] /\ f[0] = s0
    BY <1>9 DEF Runs
  <2>2. \A n \in 1..N : f[n] = AddBlock(f[n - 1], B[n], budget, split)
    <3>1. TAKE n \in 1..N
    <3>2. n - 1 \in 0..N
      BY <1>5
    <3>3. f[n - 1] \in S /\ f[n] = G(N)[<<n, f[n - 1]>>]
      BY <1>9, <2>1, <3>2 DEF Runs
    <3> QED
      BY <1>8, <3>3
  <2> QED
    BY <2>1, <2>2
<1>11. f = [n \in 0..N |-> IF n = 0 THEN s0 ELSE AddBlock(f[n - 1], B[n], budget, split)]
  <2>1. f = [n \in 0..N |-> f[n]]
    BY <1>10
  <2>2. \A n \in 0..N : f[n] = IF n = 0 THEN s0 ELSE AddBlock(f[n - 1], B[n], budget, split)
    BY <1>5, <1>10
  <2> QED
    BY <2>1, <2>2
<1>12. up = [n \in 0..N |-> IF n = 0 THEN s0 ELSE AddBlock(up[n - 1], B[n], budget, split)]
  <2>1. up = CHOOSE u : u = [n \in 0..N |-> IF n = 0 THEN s0 ELSE AddBlock(u[n - 1], B[n], budget, split)]
    BY <1>1, <1>2
  <2> QED
    BY <1>11, <2>1
<1>13. \A n \in 0..N : up[n] = IF n = 0 THEN s0 ELSE AddBlock(up[n - 1], B[n], budget, split)
  BY <1>12
<1> HIDE DEF chosen
<1> DEFINE Turn(n) == FlatTurn(up[n].pending, up[n].out, B, X, budget, n)
<1>14. PICK P : P = {n \in 0..N : Turn(n)}
  OBVIOUS
<1>15. 0 \in P
  <2>1. PICK z : z = up[0]
    OBVIOUS
  <2>2. z.pending = <<>> /\ z.out = <<>> /\ 0 \in 0..N
    BY <1>5, <1>13, <2>1 DEF s0
  <2>3. <<>> \in Seq(Passage(X)) /\ AllGood(<<>>, B, budget) /\ Pending(<<>>, B, 0)
    <3>1. Len(<<>>) = 0
      OBVIOUS
    <3>2. PICK Y : Y = Passage(X)
      OBVIOUS
    <3>3. <<>> \in Seq(Y)
      OBVIOUS
    <3> QED
      <4>1. AllGood(<<>>, B, budget) /\ Stretch(<<>>, B, 0)
        BY <3>1 DEF AllGood, Stretch
      <4>2. Len(<<>>) = 0 - 0 /\ 0 \in 0..0
        BY <3>1
      <4>3. Pending(<<>>, B, 0)
        BY <4>1, <4>2 DEF Pending
      <4> QED
        BY <3>2, <3>3, <4>1, <4>3
  <2>4. Said(<<>>) \o Said(<<>>) = BodyTo(B, 0)
    <3>1. BodyTo(B, 0) = <<>>
      BY BodyEnds
    <3>2. <<>> \o <<>> = <<>>
      OBVIOUS
    <3> QED
      BY <3>1, <3>2, SaidNothing
  <2>5. FlatTurn(<<>>, <<>>, B, X, budget, 0)
    BY <2>3, <2>4 DEF FlatTurn
  <2> QED
    BY <1>14, <2>1, <2>2, <2>5
<1>16. \A n \in 1..N : n - 1 \in P => n \in P
  <2>1. SUFFICES ASSUME NEW n \in 1..N, n - 1 \in P
                 PROVE  n \in P
    OBVIOUS
  <2>2. n \in 0..N /\ n # 0 /\ n \in 1..Len(B)
    BY <1>1, <1>5
  <2>3. PICK s, r, pending, out : s = up[n - 1] /\ r = up[n] /\ pending = s.pending /\ out = s.out
    OBVIOUS
  <2>4. r = AddBlock(s, B[n], budget, split)
    BY <1>13, <2>2, <2>3
  <2>5. FlatTurn(pending, out, B, X, budget, n - 1)
    BY <1>14, <2>1, <2>3
  <2>6. FlatTurn(r.pending, r.out, B, X, budget, n)
    BY <2>2, <2>3, <2>4, <2>5, AddBlockKeeps
  <2> QED
    BY <1>14, <2>2, <2>3, <2>6
<1>17. N \in P
  <2>1. N \in Nat
    BY <1>5
  <2>2. \A n \in 0..N : n \in P
    BY <1>15, <1>16, <2>1, TurnInduction
  <2> QED
    BY <2>1, <2>2
<1>18. PICK pending, out : pending = e.pending /\ out = e.out
  OBVIOUS
<1>19. FlatTurn(pending, out, B, X, budget, N) /\ N \in 0..Len(B)
  BY <1>1, <1>3, <1>5, <1>14, <1>17, <1>18
<1>20. FlatDone(all, B, X, budget, N)
  BY <1>3, <1>18, <1>19, PendingFlushed
<1> QED
  BY <1>1, <1>4, <1>20

(* A pass loses and repeats nothing: its chunks say the body of the blocks, *)
(* in order.                                                                *)
LEMMA FlatSays ==
  ASSUME NEW X, NEW B, B \in Seq(Passage(X)), NEW budget, NEW split, NEW q, q = ChunkFlat(B, budget, split)
  PROVE  q \in Seq(Passage(X)) /\ Said(q) = FlattenSeq(BodyOf(B)) /\ AllGood(q, B, budget)
<1>1. FlatDone(q, B, X, budget, Len(B))
  BY FlatCovers
<1>2. BodyTo(B, Len(B)) = FlattenSeq(BodyOf(B))
  BY BodyEnds
<1> QED
  BY <1>1, <1>2 DEF FlatDone

-----------------------------------------------------------------------------
(* The sentences of the lines.                                              *)

Sentence == Nat \X Nat \X Nat

LEMMA SentencesTyped ==
  ASSUME NEW k
  PROVE  Sentences(k) \in Seq(Nat)
<1>1. /\ <<>> \in Seq(Nat) /\ <<2, 2>> \in Seq(Nat) /\ <<4>> \in Seq(Nat) /\ <<1>> \in Seq(Nat)
      /\ <<1, 1>> \in Seq(Nat) /\ <<0, 0>> \in Seq(Nat) /\ <<0, 1, 1>> \in Seq(Nat)
  OBVIOUS
<1>2. CASE k = "blank"
  <2>1. Sentences(k) = <<>>
    BY <1>2, Zenon DEF Sentences
  <2> QED
    BY <1>1, <2>1
<1>3. CASE k = "long"
  <2>1. k # "blank" /\ k # "huge" /\ k \notin {"row", "edge"} /\ k # "bar" /\ k # "spill"
    BY <1>3
  <2>2. Sentences(k) = <<2, 2>>
    BY <1>3, <2>1, Zenon DEF Sentences
  <2> QED
    BY <1>1, <2>2
<1>4. CASE k = "huge"
  <2>1. k # "blank" /\ k # "long" /\ k \notin {"row", "edge"} /\ k # "bar" /\ k # "spill"
    BY <1>4
  <2>2. Sentences(k) = <<4>>
    BY <1>4, <2>1, Zenon DEF Sentences
  <2> QED
    BY <1>1, <2>2
<1>5. CASE k \in {"row", "edge"}
  <2>1. k # "blank" /\ k # "long" /\ k # "huge" /\ k # "bar" /\ k # "spill"
    BY <1>5
  <2>2. Sentences(k) = <<1, 1>>
    BY <1>5, <2>1, Zenon DEF Sentences
  <2> QED
    BY <1>1, <2>2
<1>6. CASE k = "bar"
  <2>1. k # "blank" /\ k # "long" /\ k # "huge" /\ k \notin {"row", "edge"} /\ k # "spill"
    BY <1>6
  <2>2. Sentences(k) = <<0, 0>>
    BY <1>6, <2>1, Zenon DEF Sentences
  <2> QED
    BY <1>1, <2>2
<1>7. CASE k = "spill"
  <2>1. k # "blank" /\ k # "long" /\ k # "huge" /\ k \notin {"row", "edge"} /\ k # "bar"
    BY <1>7
  <2>2. Sentences(k) = <<0, 1, 1>>
    BY <1>7, <2>1, Zenon DEF Sentences
  <2> QED
    BY <1>1, <2>2
<1>8. CASE k # "blank" /\ k # "long" /\ k # "huge" /\ k \notin {"row", "edge"} /\ k # "bar" /\ k # "spill"
  <2>1. Sentences(k) = <<1>>
    BY <1>8, Zenon DEF Sentences
  <2> QED
    BY <1>1, <2>1
<1> QED
  BY <1>2, <1>3, <1>4, <1>5, <1>6, <1>7, <1>8

LEMMA LineTextTyped ==
  ASSUME NEW d, NEW n \in Nat
  PROVE  LineText(d, n) \in Seq(Sentence) /\ \A s \in ToSet(LineText(d, n)) : s[1] = n
<1>1. PICK ss, t, N : ss = Sentences(d[n]) /\ t = LineText(d, n) /\ N = Len(ss)
  OBVIOUS
<1>2. ss \in Seq(Nat)
  BY <1>1, SentencesTyped
<1>3. N \in Nat /\ DOMAIN ss = 1..N /\ \A j \in 1..N : ss[j] \in Nat
  BY <1>1, <1>2
<1>4. t = [j \in 1..N |-> <<n, j, ss[j]>>]
  BY <1>1, <1>3 DEF LineText
<1>5. \A j \in 1..N : <<n, j, ss[j]>> \in Sentence
  BY <1>3 DEF Sentence
<1>6. t \in [1..N -> Sentence]
  BY <1>4, <1>5
<1>7. t \in Seq(Sentence)
  BY <1>3, <1>6
<1>8. DOMAIN t = 1..N /\ \A j \in 1..N : t[j][1] = n
  BY <1>4
<1>9. \A s \in ToSet(t) : s[1] = n
  BY <1>8 DEF ToSet
<1> QED
  BY <1>1, <1>7, <1>9

LEMMA TextTyped ==
  ASSUME NEW d, NEW first \in Nat, NEW last \in Nat, first <= last
  PROVE  /\ TextOf(d, first, last) \in Seq(Sentence)
         /\ \A s \in ToSet(TextOf(d, first, last)) : s[1] \in first..last
<1>1. PICK N, ss, t : /\ N = last - first + 1 /\ ss = [i \in 1..(last - first + 1) |-> LineText(d, first + i - 1)]
                      /\ t = TextOf(d, first, last)
  OBVIOUS
<1>2. N \in Nat /\ \A i \in 1..N : first + i - 1 \in first..last /\ first + i - 1 \in Nat
  BY <1>1
<1>3. DOMAIN ss = 1..N /\ \A i \in 1..N : ss[i] = LineText(d, first + i - 1)
  BY <1>1
<1>4. ASSUME NEW i \in 1..N
      PROVE  ss[i] \in Seq(Sentence) /\ \A s \in ToSet(ss[i]) : s[1] \in first..last
  <2>1. PICK n, u : n = first + i - 1 /\ u = ss[i]
    OBVIOUS
  <2>2. n \in Nat /\ n \in first..last /\ u = LineText(d, n)
    BY <1>2, <1>3, <2>1
  <2>3. u \in Seq(Sentence) /\ \A s \in ToSet(u) : s[1] = n
    BY <2>2, LineTextTyped
  <2> QED
    BY <2>1, <2>2, <2>3
<1>5. ListOfLists(ss, Sentence) /\ Len(ss) = N
  <2>1. PICK Y : Y = Seq(Sentence)
    OBVIOUS
  <2>2. ss = [i \in 1..N |-> ss[i]]
    BY <1>1, <1>3
  <2>3. \A i \in 1..N : ss[i] \in Y
    BY <1>4, <2>1
  <2>4. ss \in [1..N -> Y]
    BY <2>2, <2>3
  <2>5. ss \in Seq(Y) /\ Len(ss) = N
    BY <1>2, <2>4
  <2> QED
    BY <2>1, <2>5 DEF ListOfLists
<1>6. t = FlattenSeq(ss)
  BY <1>1 DEF TextOf
<1>7. t \in Seq(Sentence)
  BY <1>5, <1>6, FlattenTyped
<1>8. ASSUME NEW s \in ToSet(t)
      PROVE  s[1] \in first..last
  <2>1. \E i \in 1..Len(ss) : s \in ToSet(ss[i])
    BY <1>5, <1>6, FlattenHolds
  <2> QED
    BY <1>4, <1>5, <2>1
<1> QED
  BY <1>1, <1>7, <1>8

-----------------------------------------------------------------------------
(* The second pass.                                                         *)

LEMMA ContainerHolds ==
  ASSUME NEW X, NEW parents, parents \in Seq(Passage(X)), NEW child, NEW p, p = Container(child, parents), p # 0
  PROVE  p \in 1..Len(parents) /\ Holds(parents[p], child)
<1> DEFINE holding == {i \in DOMAIN parents : Holds(parents[i], child)}
           span(i) == parents[i].last - parents[i].first
           least == {i \in holding : \A j \in holding : span(i) <= span(j)}
<1>1. p = IF child.type \in {"code", "table"} \/ holding = {} THEN 0 ELSE Min(least)
  BY Zenon DEF Container
<1>2. holding # {} /\ p = Min(least)
  BY <1>1
<1>3. PICK N, P : N = Len(parents) /\ P = Passage(X)
  OBVIOUS
<1>4. N \in Nat /\ DOMAIN parents = 1..N /\ \A i \in 1..N : parents[i] \in P
  BY <1>3
<1>5. holding \in SUBSET (1..N)
  BY <1>4
<1>6. \A i \in holding : i \in 1..N /\ Holds(parents[i], child)
  BY <1>4
<1> HIDE DEF holding
<1> DEFINE f == [i \in holding |-> 0 - span(i)]
<1>7. ASSUME NEW i \in holding
      PROVE  span(i) \in Int /\ f[i] = 0 - span(i) /\ f[i] \in Int
  <2>1. PICK c : c = parents[i]
    OBVIOUS
  <2>2. c \in Passage(X)
    BY <1>3, <1>4, <1>6, <2>1
  <2>3. c.first \in Nat /\ c.last \in Nat
    BY <2>2, PassageTyped
  <2>4. span(i) \in Int
    BY <2>1, <2>3
  <2> HIDE DEF span
  <2>5. f[i] = 0 - span(i)
    OBVIOUS
  <2> QED
    BY <2>4, <2>5
<1> HIDE DEF f
<1>8. \E i \in holding : \A j \in holding : f[j] < f[i] \/ (f[j] = f[i] /\ i <= j)
  <2>1. \A i \in holding : f[i] \in Int
    BY <1>7
  <2> QED
    BY <1>2, <1>4, <1>5, <2>1, BestExists
<1>9. PICK i \in holding : \A j \in holding : f[j] < f[i] \/ (f[j] = f[i] /\ i <= j)
  BY <1>8
<1>10. \A j \in holding : span(i) <= span(j)
  <2>1. TAKE j \in holding
  <2>2. f[j] <= f[i]
    BY <1>7, <1>9
  <2>3. span(i) \in Int /\ span(j) \in Int /\ f[i] = 0 - span(i) /\ f[j] = 0 - span(j)
    BY <1>7
  <2> HIDE DEF span
  <2> QED
    BY <2>2, <2>3
<1>11. least # {} /\ least \in SUBSET Nat /\ least \subseteq holding
  <2>1. i \in least
    BY <1>10
  <2>2. least \subseteq holding
    OBVIOUS
  <2> HIDE DEF least
  <2> QED
    BY <1>4, <1>5, <2>1, <2>2
<1> HIDE DEF least
<1>12. Min(least) \in least
  BY <1>11, MinOf
<1> QED
  BY <1>2, <1>3, <1>6, <1>11, <1>12

\* Every child once, with a parent that holds it or none.
Parented(list, children, parents) ==
    /\ DOMAIN list = DOMAIN children
    /\ \A i \in DOMAIN children :
           /\ list[i].child = children[i]
           /\ \/ list[i].parent = <<>>
              \/ \E p \in 1..Len(parents) : list[i].parent = <<parents[p]>> /\ Holds(parents[p], children[i])

LEMMA ParentsHold ==
  ASSUME NEW X, NEW B, B \in Seq(Passage(X)), NEW split, NEW parentSplit,
         NEW list, list = ChunkWithParents(B, split, parentSplit),
         NEW parents, parents = ChunkFlat(B, ParentMaxTokens, parentSplit),
         NEW children, children = ChunkFlat(B, MaxTokens, split)
  PROVE  Parented(list, children, parents)
<1>1. parents \in Seq(Passage(X))
  BY FlatSays
<1>2. list = [i \in DOMAIN children |->
                 [child |-> children[i],
                  parent |-> IF Container(children[i], parents) = 0 THEN <<>>
                             ELSE <<parents[Container(children[i], parents)]>>]]
  BY DEF ChunkWithParents
<1>3. ASSUME NEW i \in DOMAIN children
      PROVE  /\ list[i].child = children[i]
             /\ \/ list[i].parent = <<>>
                \/ \E p \in 1..Len(parents) : list[i].parent = <<parents[p]>> /\ Holds(parents[p], children[i])
  <2>1. PICK c, p, node : c = children[i] /\ p = Container(c, parents) /\ node = list[i]
    OBVIOUS
  <2>2. node.child = c /\ node.parent = IF p = 0 THEN <<>> ELSE <<parents[p]>>
    BY <1>2, <2>1
  <2>3. CASE p = 0
    BY <2>1, <2>2, <2>3
  <2>4. CASE p # 0
    <3>1. p \in 1..Len(parents) /\ Holds(parents[p], c)
      BY <1>1, <2>1, <2>4, ContainerHolds
    <3> QED
      BY <2>1, <2>2, <2>4, <3>1
  <2> QED
    BY <2>3, <2>4
<1>4. DOMAIN list = DOMAIN children
  BY <1>2
<1> QED
  BY <1>3, <1>4 DEF Parented

LEMMA AloneHold ==
  ASSUME NEW B, NEW split, NEW list, list = ChunkAlone(B, split),
         NEW parents, NEW children, children = ChunkFlat(B, MaxTokens, split)
  PROVE  Parented(list, children, parents)
<1>1. list = [i \in DOMAIN children |-> [child |-> children[i], parent |-> <<>>]]
  BY Zenon DEF ChunkAlone
<1>2. DOMAIN list = DOMAIN children
  BY <1>1
<1>3. \A i \in DOMAIN children : list[i].child = children[i] /\ list[i].parent = <<>>
  BY <1>1
<1> QED
  BY <1>2, <1>3 DEF Parented

-----------------------------------------------------------------------------
(* From the lines to the chunks.                                            *)

Typed ==
    \A i \in DOMAIN blocks : /\ blocks[i] \in Passage(Sentence)
                             /\ blocks[i].content = TextOf(doc, blocks[i].first, blocks[i].last)
Chunked ==
    IF stage = "done"
    THEN \E split, parentSplit :
             nodes = ChunkAlone(blocks, split) \/ nodes = ChunkWithParents(blocks, split, parentSplit)
    ELSE nodes = <<>>
ContentInv == ParserInv /\ Typed /\ Chunked

LEMMA PathTyped ==
  ASSUME NEW s \in Stack
  PROVE  PathOf(s) \in Seq(Nat)
<1>1. Len(s) \in Nat /\ DOMAIN s = 1..Len(s) /\ \A d \in 1..Len(s) : s[d].line \in Nat
  BY StackTyped
<1>2. PathOf(s) \in [1..Len(s) -> Nat]
  BY <1>1 DEF PathOf
<1> QED
  BY <1>1, <1>2

LEMMA BlockTyped ==
  ASSUME ParserInv, Typed, ParseBlock
  PROVE  Typed'
<1>1. PICK b, x : /\ b = BlockAt(doc, next) /\ blocks' = Append(blocks, x)
                  /\ x = [type |-> b.type, first |-> next, last |-> b.last, path |-> PathOf(stack'),
                          content |-> TextOf(doc, next, b.last)]
  BY DEF ParseBlock
<1>2. doc \in Document /\ next \in 1..Len(doc) /\ next \in Nat /\ doc[next] # "blank" /\ doc' = doc
  <2>1. doc \in Document /\ next \in Nat \ {0}
    BY DEF ParserInv, ParserTypeOK
  <2>2. Len(doc) \in Nat
    BY <2>1, DocumentTyped
  <2> QED
    BY <2>1, <2>2 DEF ParseBlock
<1>3. b.last \in Nat /\ next <= b.last /\ b.type \in PassageTypes
  <2>1. b.last \in next..Len(doc) /\ b.type \in BlockTypes
    BY <1>1, <1>2, BlockFits
  <2>2. Len(doc) \in Nat
    BY <1>2, DocumentTyped
  <2> QED
    BY <1>2, <2>1, <2>2 DEF BlockTypes, TextTypes, PassageTypes
<1>4. PICK path, text : path = PathOf(stack') /\ text = TextOf(doc, next, b.last)
  OBVIOUS
<1>5. path \in Seq(Nat) /\ text \in Seq(Sentence)
  <2>1. ParserInv'
    BY BlockKeeps
  <2>2. stack' \in Stack
    BY <2>1 DEF ParserInv, ParserTypeOK
  <2>3. PathOf(stack') \in Seq(Nat)
    BY <2>2, PathTyped
  <2> QED
    BY <1>2, <1>3, <1>4, <2>3, TextTyped
<1>6. x \in Passage(Sentence)
  BY <1>1, <1>2, <1>3, <1>4, <1>5 DEF Passage
<1>7. x.content = TextOf(doc, x.first, x.last)
  BY <1>1
<1>8. /\ DOMAIN blocks' = DOMAIN blocks \cup {Len(blocks) + 1}
      /\ \A i \in DOMAIN blocks : blocks'[i] = blocks[i]
      /\ blocks'[Len(blocks) + 1] = x
  BY <1>1, BlockAppended DEF ParserInv
<1>9. ASSUME NEW i \in DOMAIN blocks'
      PROVE  blocks'[i] \in Passage(Sentence) /\ blocks'[i].content = TextOf(doc', blocks'[i].first, blocks'[i].last)
  <2>1. CASE i \in DOMAIN blocks
    BY <1>2, <1>8, <2>1 DEF Typed
  <2>2. CASE i = Len(blocks) + 1
    BY <1>2, <1>6, <1>7, <1>8, <2>2
  <2> QED
    BY <1>8, <2>1, <2>2
<1> QED
  BY <1>9 DEF Typed

LEMMA ContentInit ==
  ASSUME Init
  PROVE  ContentInv
<1>1. ParserInv
  BY ParserInit
<1>2. blocks = <<>> /\ nodes = <<>> /\ stage # "done"
  BY DEF Init
<1> QED
  BY <1>1, <1>2 DEF ContentInv, Typed, Chunked

LEMMA ContentStep ==
  ASSUME ContentInv, [Next]_vars
  PROVE  ContentInv'
<1>1. ParserInv'
  BY ParserStep DEF ContentInv
<1>2. CASE SkipBlank
  <2>1. blocks' = blocks /\ doc' = doc /\ stage' = stage /\ nodes' = nodes
    BY <1>2 DEF SkipBlank
  <2> QED
    BY <1>1, <2>1 DEF ContentInv, Typed, Chunked
<1>3. CASE ParseBlock
  <2>1. Typed'
    BY <1>3, BlockTyped DEF ContentInv
  <2>2. stage = "parse" /\ stage' = stage /\ nodes' = nodes
    BY <1>3 DEF ParseBlock
  <2> QED
    BY <1>1, <2>1, <2>2 DEF ContentInv, Chunked
<1>4. CASE Parsed
  <2>1. blocks' = blocks /\ doc' = doc /\ stage = "parse" /\ stage' = "chunk" /\ nodes' = nodes
    BY <1>4 DEF Parsed
  <2> QED
    BY <1>1, <2>1 DEF ContentInv, Typed, Chunked
<1>5. CASE ChunkDocument
  <2>1. /\ blocks' = blocks /\ doc' = doc /\ stage' = "done"
        /\ \E split, parentSplit :
               nodes' = ChunkAlone(blocks, split) \/ nodes' = ChunkWithParents(blocks, split, parentSplit)
    BY <1>5 DEF ChunkDocument
  <2>2. Typed' /\ Chunked'
    BY <2>1 DEF ContentInv, Typed, Chunked
  <2> QED
    BY <1>1, <2>2 DEF ContentInv
<1>6. CASE UNCHANGED vars
  <2>1. blocks' = blocks /\ doc' = doc /\ stage' = stage /\ nodes' = nodes
    BY <1>6 DEF vars
  <2> QED
    BY <1>1, <2>1 DEF ContentInv, Typed, Chunked
<1> QED
  BY <1>2, <1>3, <1>4, <1>5, <1>6 DEF Next

\* The blocks in the order of their lines.
LEMMA BlocksOrdered ==
  ASSUME ContentInv
  PROVE  /\ blocks \in Seq(Passage(Sentence)) /\ Len(blocks) \in Nat /\ DOMAIN blocks = 1..Len(blocks)
         /\ \A i \in 1..Len(blocks) : /\ blocks[i].first \in Nat /\ blocks[i].last \in Nat
                                      /\ blocks[i].first <= blocks[i].last
                                      /\ blocks[i].content = TextOf(doc, blocks[i].first, blocks[i].last)
         /\ \A i, j \in 1..Len(blocks) : i < j => blocks[i].last < blocks[j].first
<1>1. PICK S : S = ToSet(blocks) /\ blocks \in Seq(S)
  BY DEF ContentInv, ParserInv, ParserTypeOK
<1>2. Len(blocks) \in Nat /\ DOMAIN blocks = 1..Len(blocks)
  BY <1>1
<1>3. PICK N, P : N = Len(blocks) /\ P = Passage(Sentence)
  OBVIOUS
<1>4. N \in Nat /\ DOMAIN blocks = 1..N /\ \A i \in 1..N : blocks[i] \in P
  BY <1>2, <1>3 DEF ContentInv, Typed
<1>5. blocks \in Seq(P)
  <2>1. blocks \in [1..N -> S]
    BY <1>1, <1>3
  <2>2. blocks = [i \in 1..N |-> blocks[i]]
    BY <2>1
  <2>3. blocks \in [1..N -> P]
    BY <1>4, <2>2
  <2> QED
    BY <1>4, <2>3
<1>6. \A i \in 1..N : /\ blocks[i].first \in 1..(next - 1) /\ blocks[i].last \in blocks[i].first..(next - 1)
  BY <1>4 DEF ContentInv, ParserInv, Scanned
<1>7. \A i, j \in 1..N : i < j => blocks[i].last < blocks[j].first
  BY <1>4 DEF ContentInv, ParserInv, Scanned
<1>8. \A i \in 1..N : blocks[i].content = TextOf(doc, blocks[i].first, blocks[i].last)
  BY <1>4 DEF ContentInv, Typed
<1>9. \A i \in 1..N : blocks[i].first \in Nat /\ blocks[i].last \in Nat /\ blocks[i].first <= blocks[i].last
  <2>1. next \in Nat
    BY DEF ContentInv, ParserInv, ParserTypeOK
  <2> QED
    BY <1>6, <2>1
<1> QED
  BY <1>3, <1>4, <1>5, <1>7, <1>8, <1>9

\* No heading starts within a block, so all its lines are under the headings its first is under.
LEMMA PathOverBlock ==
  ASSUME ContentInv, NEW i \in 1..Len(blocks), NEW n \in Lines(blocks[i])
  PROVE  IsPathAt(blocks[i].path, n)
<1>1. /\ Len(blocks) \in Nat /\ DOMAIN blocks = 1..Len(blocks)
      /\ \A j \in 1..Len(blocks) : /\ blocks[j].first \in Nat /\ blocks[j].last \in Nat
                                   /\ blocks[j].first <= blocks[j].last
      /\ \A j, k \in 1..Len(blocks) : j < k => blocks[j].last < blocks[k].first
  BY BlocksOrdered
<1>2. PICK first, last : first = blocks[i].first /\ last = blocks[i].last
  OBVIOUS
<1>3. first \in Nat /\ last \in Nat /\ n \in first..last
  BY <1>1, <1>2 DEF Lines
<1>4. ASSUME NEW f \in HeadingLines
      PROVE  f <= n <=> f <= first
  <2>1. PICK j \in 1..Len(blocks) : f = blocks[j].first
    BY <1>1 DEF HeadingLines, Headings, ToSet
  <2>2. CASE j < i
    BY <1>1, <1>2, <1>3, <2>1, <2>2
  <2>3. CASE j = i
    BY <1>2, <1>3, <2>1, <2>3
  <2>4. CASE i < j
    BY <1>1, <1>2, <1>3, <2>1, <2>4
  <2> QED
    BY <1>1, <2>2, <2>3, <2>4
<1>5. OpenOf(doc, HeadingLines, n) = OpenOf(doc, HeadingLines, first)
  BY <1>4 DEF OpenOf
<1>6. OpenAt(n) = OpenAt(first)
  BY <1>5, OpenByLines
<1>7. IsPathAt(blocks[i].path, first)
  BY <1>1, <1>2 DEF ContentInv, ParserInv, Filed
<1> QED
  BY <1>6, <1>7 DEF IsPathAt

\* What a chunk says is on the lines and under the path it cites.
LEMMA ChunkCited ==
  ASSUME ContentInv, NEW c, NEW budget, Stems(c, blocks, budget), NEW s \in ToSet(c.content)
  PROVE  s[1] \in Lines(c) /\ IsPathAt(c.path, s[1])
<1>1. /\ Len(blocks) \in Nat
      /\ \A j \in 1..Len(blocks) : /\ blocks[j].first \in Nat /\ blocks[j].last \in Nat
                                   /\ blocks[j].first <= blocks[j].last
                                   /\ blocks[j].content = TextOf(doc, blocks[j].first, blocks[j].last)
      /\ \A j, k \in 1..Len(blocks) : j < k => blocks[j].last < blocks[k].first
  BY BlocksOrdered
<1>2. PICK a, z \in 1..Len(blocks) : a <= z /\ StemsFrom(c, blocks, budget, a, z)
  BY DEF Stems
<1>3. /\ c.first = blocks[a].first /\ c.last = blocks[z].last /\ Under(c.path, blocks, a, z)
      /\ \/ Says(c.content, blocks, a, z)
         \/ a = z /\ ToSet(c.content) \subseteq ToSet(blocks[a].content)
  BY <1>2 DEF StemsFrom
<1>4. a \in a..z
  BY <1>2
<1>5. PICK i \in a..z : s \in ToSet(blocks[i].content)
  BY <1>3, <1>4 DEF Says
<1>6. i \in 1..Len(blocks) /\ a <= i /\ i <= z
  BY <1>1, <1>2
<1>7. PICK first, last, text : first = blocks[i].first /\ last = blocks[i].last /\ text = blocks[i].content
  OBVIOUS
<1>8. first \in Nat /\ last \in Nat /\ first <= last /\ text = TextOf(doc, first, last)
  BY <1>1, <1>6, <1>7
<1>9. s[1] \in first..last
  <2>1. \A x \in ToSet(TextOf(doc, first, last)) : x[1] \in first..last
    BY <1>8, TextTyped
  <2> QED
    BY <1>5, <1>7, <1>8, <2>1
<1>10. c.first <= first /\ last <= c.last /\ c.first \in Nat /\ c.last \in Nat
  <2>1. a = i \/ (a < i /\ blocks[a].last < first)
    BY <1>1, <1>6, <1>7
  <2>2. i = z \/ (i < z /\ last < blocks[z].first)
    BY <1>1, <1>6, <1>7
  <2> QED
    BY <1>1, <1>3, <1>6, <1>7, <1>8, <2>1, <2>2
<1>11. s[1] \in Lines(blocks[i])
  BY <1>7, <1>9 DEF Lines
<1>12. blocks[i].path = c.path
  BY <1>3 DEF Under
<1>13. IsPathAt(c.path, s[1])
  BY <1>6, <1>11, <1>12, PathOverBlock
<1>14. s[1] \in Lines(c)
  BY <1>8, <1>9, <1>10 DEF Lines
<1> QED
  BY <1>13, <1>14

\* What the chunks are when there are any.
LEMMA NodesFrom ==
  ASSUME ContentInv, stage = "done"
  PROVE  \E q, parents : /\ Parented(nodes, q, parents)
                         /\ q \in Seq(Passage(Sentence)) /\ Said(q) = FlattenSeq(BodyOf(blocks))
                         /\ AllGood(q, blocks, MaxTokens) /\ AllGood(parents, blocks, ParentMaxTokens)
<1>1. PICK split, parentSplit :
         nodes = ChunkAlone(blocks, split) \/ nodes = ChunkWithParents(blocks, split, parentSplit)
  BY DEF ContentInv, Chunked
<1>2. PICK q, parents : /\ q = ChunkFlat(blocks, MaxTokens, split)
                        /\ parents = ChunkFlat(blocks, ParentMaxTokens, parentSplit)
  OBVIOUS
<1>3. blocks \in Seq(Passage(Sentence))
  BY BlocksOrdered
<1>4. Parented(nodes, q, parents)
  <2>1. CASE nodes = ChunkAlone(blocks, split)
    BY <1>2, <2>1, AloneHold
  <2>2. CASE nodes = ChunkWithParents(blocks, split, parentSplit)
    BY <1>2, <1>3, <2>2, ParentsHold
  <2> QED
    BY <1>1, <2>1, <2>2
<1>5. q \in Seq(Passage(Sentence)) /\ Said(q) = FlattenSeq(BodyOf(blocks)) /\ AllGood(q, blocks, MaxTokens)
  BY <1>2, <1>3, FlatSays
<1>6. AllGood(parents, blocks, ParentMaxTokens)
  BY <1>2, <1>3, FlatSays
<1> QED
  BY <1>4, <1>5, <1>6

LEMMA InvGivesComplete ==
  ASSUME ContentInv
  PROVE  ChunksComplete
<1> DEFINE children == [i \in DOMAIN nodes |-> nodes[i].child]
<1>1. SUFFICES ASSUME stage = "done"
               PROVE  /\ FlattenSeq(Contents(children)) = FlattenSeq(Body)
                      /\ \A c \in ToSet(children) :
                             /\ \A s \in ToSet(c.content) : s[1] \in Lines(c) /\ IsPathAt(c.path, s[1])
                             /\ c.type \in {"code", "table"} => c.content = TextOf(doc, c.first, c.last)
                             /\ c.type \in {"text", "list"} => Tokens(c.content) <= MaxTokens \/ Len(c.content) <= 1
  BY DEF ChunksComplete
<1>5. PICK q, parents : /\ Parented(nodes, q, parents)
                        /\ q \in Seq(Passage(Sentence)) /\ Said(q) = FlattenSeq(BodyOf(blocks))
                        /\ AllGood(q, blocks, MaxTokens)
  BY <1>1, NodesFrom
<1>6. q \in Seq(Passage(Sentence)) /\ Said(q) = FlattenSeq(BodyOf(blocks)) /\ AllGood(q, blocks, MaxTokens)
  BY <1>5
<1>7. q = children
  <2>1. PICK P : P = Passage(Sentence)
    OBVIOUS
  <2>2. q \in Seq(P)
    BY <1>6, <2>1
  <2>3. q = [i \in DOMAIN q |-> q[i]] /\ DOMAIN q = 1..Len(q)
    BY <2>2
  <2>4. DOMAIN nodes = DOMAIN q /\ \A i \in DOMAIN q : nodes[i].child = q[i]
    BY <1>5 DEF Parented
  <2> QED
    BY <2>3, <2>4
<1>8. DOMAIN q = 1..Len(q)
  <2>1. PICK P : P = Passage(Sentence)
    OBVIOUS
  <2>2. q \in Seq(P)
    BY <1>6, <2>1
  <2> QED
    BY <2>2
<1> HIDE DEF children
<1>9. FlattenSeq(Contents(children)) = FlattenSeq(Body)
  <2>1. Body = BodyOf(blocks)
    BY DEF Body, BodyOf
  <2> QED
    BY <1>6, <1>7, <2>1 DEF Said
<1>10. ASSUME NEW c \in ToSet(children)
       PROVE  /\ \A s \in ToSet(c.content) : s[1] \in Lines(c) /\ IsPathAt(c.path, s[1])
              /\ c.type \in {"code", "table"} => c.content = TextOf(doc, c.first, c.last)
              /\ c.type \in {"text", "list"} => Tokens(c.content) <= MaxTokens \/ Len(c.content) <= 1
  <2>1. PICK i \in 1..Len(q) : c = q[i]
    BY <1>7, <1>8 DEF ToSet
  <2>2. Good(c, blocks, MaxTokens)
    BY <1>6, <2>1 DEF AllGood
  <2>3. Sized(c, MaxTokens) /\ Stems(c, blocks, MaxTokens) /\ Whole(c, blocks)
    BY <2>2 DEF Good
  <2>4. \A s \in ToSet(c.content) : s[1] \in Lines(c) /\ IsPathAt(c.path, s[1])
    BY <2>3, ChunkCited
  <2>5. ASSUME c.type \in {"code", "table"}
        PROVE  c.content = TextOf(doc, c.first, c.last)
    <3>1. PICK j \in 1..Len(blocks) : /\ c.first = blocks[j].first /\ c.last = blocks[j].last
                                      /\ c.content = blocks[j].content
      BY <2>3, <2>5 DEF Whole
    <3>2. blocks[j].content = TextOf(doc, blocks[j].first, blocks[j].last)
      BY BlocksOrdered
    <3> QED
      BY <3>1, <3>2
  <2> QED
    BY <2>3, <2>4, <2>5 DEF Sized
<1> QED
  BY <1>9, <1>10

LEMMA InvGivesHeld ==
  ASSUME ContentInv
  PROVE  ParentHoldsChild
<1>1. SUFFICES ASSUME NEW node \in ToSet(nodes), node.parent # <<>>,
                      Tokens(TextOf(doc, node.child.first, node.child.last)) <= ParentMaxTokens
               PROVE  /\ ToSet(node.child.content) \subseteq ToSet(node.parent[1].content)
                      /\ node.parent[1].path = node.child.path
  BY DEF ParentHoldsChild
<1>2. stage = "done"
  <2>1. nodes # <<>>
    BY DEF ToSet
  <2> QED
    BY <2>1 DEF ContentInv, Chunked
<1>3. PICK q, parents : /\ Parented(nodes, q, parents) /\ q \in Seq(Passage(Sentence))
                        /\ AllGood(q, blocks, MaxTokens) /\ AllGood(parents, blocks, ParentMaxTokens)
  BY <1>2, NodesFrom
<1>6. Parented(nodes, q, parents)
  BY <1>3
<1>7. q \in Seq(Passage(Sentence)) /\ AllGood(q, blocks, MaxTokens)
  BY <1>3
<1>8. AllGood(parents, blocks, ParentMaxTokens)
  BY <1>3
<1>9. DOMAIN q = 1..Len(q)
  <2>1. PICK P : P = Passage(Sentence)
    OBVIOUS
  <2>2. q \in Seq(P)
    BY <1>7, <2>1
  <2> QED
    BY <2>2
<1>10. PICK i \in 1..Len(q) : node = nodes[i]
  BY <1>6, <1>9 DEF ToSet, Parented
<1>11. PICK c : c = q[i]
  OBVIOUS
<1>12. PICK p \in 1..Len(parents) : node.child = c /\ node.parent = <<parents[p]>> /\ Holds(parents[p], c)
  BY <1>1, <1>6, <1>9, <1>10, <1>11 DEF Parented
<1>13. PICK d : d = parents[p]
  OBVIOUS
<1>14. node.parent[1] = d /\ d.first <= c.first /\ c.last <= d.last
  BY <1>12, <1>13 DEF Holds
<1>15. Stems(c, blocks, MaxTokens) /\ Stems(d, blocks, ParentMaxTokens)
  BY <1>7, <1>8, <1>11, <1>13 DEF AllGood, Good
<1>16. PICK a, z \in 1..Len(blocks) : a <= z /\ StemsFrom(c, blocks, MaxTokens, a, z)
  BY <1>15 DEF Stems
<1>17. PICK b, y \in 1..Len(blocks) : b <= y /\ StemsFrom(d, blocks, ParentMaxTokens, b, y)
  BY <1>15 DEF Stems
<1>18. /\ Len(blocks) \in Nat
       /\ \A j \in 1..Len(blocks) : /\ blocks[j].first \in Nat /\ blocks[j].last \in Nat
                                    /\ blocks[j].first <= blocks[j].last
                                    /\ blocks[j].content = TextOf(doc, blocks[j].first, blocks[j].last)
       /\ \A j, k \in 1..Len(blocks) : j < k => blocks[j].last < blocks[k].first
  BY BlocksOrdered
<1>19. /\ c.first = blocks[a].first /\ c.last = blocks[z].last /\ Under(c.path, blocks, a, z)
       /\ \/ Says(c.content, blocks, a, z)
          \/ a = z /\ ToSet(c.content) \subseteq ToSet(blocks[a].content)
  BY <1>16 DEF StemsFrom
<1>20. /\ d.first = blocks[b].first /\ d.last = blocks[y].last /\ Under(d.path, blocks, b, y)
       /\ \/ Says(d.content, blocks, b, y)
          \/ b = y /\ ~(Tokens(blocks[b].content) <= ParentMaxTokens)
  BY <1>17 DEF StemsFrom
<1>21. b <= a /\ z <= y
  <2>1. ~(a < b)
    <3>1. a < b => blocks[a].last < blocks[b].first
      BY <1>18
    <3>2. /\ blocks[a].first \in Nat /\ blocks[a].last \in Nat /\ blocks[b].first \in Nat
          /\ blocks[a].first <= blocks[a].last
      BY <1>18
    <3>3. blocks[b].first <= blocks[a].first
      BY <1>14, <1>19, <1>20
    <3>4. PICK f, g, h : f = blocks[a].first /\ g = blocks[a].last /\ h = blocks[b].first
      OBVIOUS
    <3>5. f \in Nat /\ g \in Nat /\ h \in Nat /\ f <= g /\ h <= f /\ (a < b => g < h)
      BY ONLY <3>1, <3>2, <3>3, <3>4
    <3> QED
      BY ONLY <3>5
  <2>2. ~(y < z)
    <3>1. y < z => blocks[y].last < blocks[z].first
      BY <1>18
    <3>2. /\ blocks[y].last \in Nat /\ blocks[z].first \in Nat /\ blocks[z].last \in Nat
          /\ blocks[z].first <= blocks[z].last
      BY <1>18
    <3>3. blocks[z].last <= blocks[y].last
      BY <1>14, <1>19, <1>20
    <3>4. PICK f, g, h : f = blocks[z].first /\ g = blocks[z].last /\ h = blocks[y].last
      OBVIOUS
    <3>5. f \in Nat /\ g \in Nat /\ h \in Nat /\ f <= g /\ g <= h /\ (y < z => h < f)
      BY ONLY <3>1, <3>2, <3>3, <3>4
    <3> QED
      BY ONLY <3>5
  <2> QED
    BY <1>18, <2>1, <2>2
<1>22. a \in a..z /\ a \in b..y /\ \A j \in a..z : j \in b..y
  BY <1>16, <1>17, <1>21
<1>23. d.path = c.path
  BY <1>19, <1>20, <1>22 DEF Under
<1>24. Says(d.content, blocks, b, y)
  <2>1. SUFFICES ASSUME b = y, ~(Tokens(blocks[b].content) <= ParentMaxTokens)
                 PROVE  FALSE
    BY <1>20
  <2>2. a = b /\ z = b
    BY <1>16, <1>18, <1>21, <2>1
  <2>3. blocks[b].content = TextOf(doc, c.first, c.last)
    BY <1>18, <1>19, <2>2
  <2> QED
    BY <1>1, <1>12, <2>1, <2>3
<1>25. ToSet(c.content) \subseteq ToSet(d.content)
  <2>1. SUFFICES ASSUME NEW x \in ToSet(c.content)
                 PROVE  x \in ToSet(d.content)
    OBVIOUS
  <2>2. PICK j \in a..z : x \in ToSet(blocks[j].content)
    BY <1>19, <1>22 DEF Says
  <2> QED
    BY <1>22, <1>24, <2>2 DEF Says
<1> QED
  BY <1>12, <1>14, <1>23, <1>25

LEMMA ContentHolds == Spec => []ContentInv
<1>1. Init => ContentInv
  BY ContentInit
<1>2. ContentInv /\ [Next]_vars => ContentInv'
  BY ContentStep
<1> QED
  BY <1>1, <1>2, PTL DEF Spec

(* For documents of any length and any budgets: chunking loses, repeats and *)
(* reorders nothing, every sentence of a chunk is within the lines and under *)
(* the path the chunk cites, and no text chunk that could be divided is over *)
(* the budget.                                                              *)
THEOREM NothingLost == Spec => []ChunksComplete
<1>1. ContentInv => ChunksComplete
  BY InvGivesComplete
<1> QED
  BY <1>1, ContentHolds, PTL

(* For documents of any length and any budgets: a parent's text contains its *)
(* child's and cites its path, whenever the child's lines fit a parent.      *)
THEOREM ParentsHoldChildren == Spec => []ParentHoldsChild
<1>1. ContentInv => ParentHoldsChild
  BY InvGivesHeld
<1> QED
  BY <1>1, ContentHolds, PTL
=============================================================================
