------------------------------ MODULE Chunker ------------------------------
(***************************************************************************)
(* ingest/chunker.py: a document's lines become blocks (split_blocks), and *)
(* the blocks become chunks, one block at a time (chunk_document).  A line *)
(* is its kind, its number of words and, of a heading, its level; its text *)
(* is its position in the document, and a heading's position is the name   *)
(* of its section.  The last line of a paragraph is its last sentence.     *)
(***************************************************************************)
EXTENDS Integers, FiniteSets, Sequences, SequencesExt

CONSTANTS Bodies,           \* the documents: sequences of lines
          MaxWords, MinWords,
          OverlapSentences, \* 0 or 1
          MarkerWords       \* words of "(continues from HR-01#002)"

Content == {"paragraph", "table", "list", "quote", "code"}

LineKinds == {"blank", "heading", "text", "indented", "table", "list", "quote", "fence"}

Lines == [kind : LineKinds, words : Nat, level : 0 .. 6]

ASSUME ChunkerConstants ==
    /\ Bodies \subseteq Seq(Lines)
    /\ MaxWords \in Nat \ {0} /\ MinWords \in Nat /\ MarkerWords \in Nat
    /\ OverlapSentences \in {0, 1}

Block(kind, lines, level) == [kind |-> kind, lines |-> lines, level |-> level]

Atomic(block) == block.kind \in {"table", "list", "code"}

\* The parser's buffer, with what has been flushed.
NoBuffer == [blocks |-> <<>>, lines |-> <<>>, kind |-> "none", code |-> FALSE]

Flush(b) ==
    [blocks |-> IF b.lines = <<>> THEN b.blocks ELSE Append(b.blocks, Block(b.kind, b.lines, 0)),
     lines |-> <<>>, kind |-> "none", code |-> b.code]

Buffer(b, kind, i) ==
    [blocks |-> b.blocks, lines |-> Append(b.lines, i), kind |-> kind, code |-> b.code]

Fenced(b, code) == [blocks |-> b.blocks, lines |-> b.lines, kind |-> b.kind, code |-> code]

KindOfLine(b, line) ==
    IF line.kind \in {"text", "indented"} THEN "paragraph" ELSE line.kind

\* An indented line under a list item continues it.
KindOf(b, line) ==
    IF line.kind = "indented"
    THEN IF b.kind = "list" THEN "list" ELSE "paragraph"
    ELSE IF line.kind = "text" THEN "paragraph" ELSE line.kind

ParseLine(document, b, i) ==
    LET line == document[i]
        kind == KindOf(b, line)
    IN CASE line.kind = "fence" ->
              IF b.code THEN Fenced(Flush(Buffer(b, "code", i)), FALSE)
                        ELSE Fenced(Buffer(Flush(b), "code", i), TRUE)
         [] line.kind # "fence" /\ b.code ->
              IF line.kind = "blank" THEN b ELSE Buffer(b, "code", i)
         [] line.kind = "blank" /\ ~ b.code -> Flush(b)
         [] line.kind = "heading" /\ ~ b.code ->
              [blocks |-> Append(Flush(b).blocks, Block("heading", <<i>>, line.level)),
               lines |-> <<>>, kind |-> "none", code |-> FALSE]
         [] OTHER ->
              Buffer(IF b.kind # kind THEN Flush(b) ELSE b, kind, i)

\* The buffer after each line.
Parsed(document) ==
    LET parsed[n \in 0 .. Len(document)] ==
          IF n = 0 THEN NoBuffer ELSE ParseLine(document, parsed[n - 1], n)
    IN parsed

split_blocks(document) == Flush(Parsed(document)[Len(document)]).blocks

---------------------------------------------------------------------------
VARIABLES body,     \* the document
          blocks,   \* its blocks
          at,       \* how many of them have been read
          stack,    \* the heading in scope at each level
          pending,  \* what the blocks gathered for the next chunk add up to
          sections, \* pending_sections
          carry,    \* the sentence to carry: its line, the chunk, its sections
          chunks,
          pc

chunker_vars == <<body, blocks, at, stack, pending, sections, carry, chunks, pc>>

WordsOf(document, lines) ==
    SumFunctionOnSet([i \in DOMAIN document |-> document[i].words], lines)

\* A chunk's text: its own lines, and the copies carried in, with the chunk
\* they are said to come from.
WordCount(document, chunk) ==
    SumFunction([m \in DOMAIN chunk.text |->
        document[chunk.text[m].line].words
            + (IF chunk.text[m].from = 0 THEN 0 ELSE MarkerWords)])

NoCarry == [line |-> 0, from |-> 0, sections |-> {}]

NoBlocks == [lines |-> <<>>, blocks |-> 0, words |-> 0, sentence |-> 0]

\* One block more: the sentence that a chunk would hand on is the last of its
\* last paragraph.
Join(document, gathered, block) ==
    [lines |-> gathered.lines \o block.lines,
     blocks |-> gathered.blocks + 1,
     words |-> gathered.words + WordsOf(document, ToSet(block.lines)),
     sentence |-> IF block.kind = "paragraph" THEN Last(block.lines) ELSE gathered.sentence]

\* _current_section: the headings in scope below the title, and its last.
InScope(levels) == {levels[l] : l \in {k \in DOMAIN levels : k > 1}}

Innermost(levels) ==
    {levels[l] : l \in {k \in DOMAIN levels : k > 1 /\ \A j \in DOMAIN levels : j <= k}}

\* The overlap is dropped unless the two chunks share a section.
Carried(from, to) == IF from.sections \cap to = {} THEN NoCarry ELSE from

OrdinalFromZero(before) == Len(before)

Ordinal(before) == Len(before) + 1

\* What emit() leaves, of the chunks so far, the blocks gathered, their
\* sections and the sentence to carry.
Emitted(before, gathered, labels, carrying) ==
    IF gathered.blocks = 0 THEN [chunks |-> before, carry |-> carrying]
    ELSE LET kept == Carried(carrying, labels)
             opening == IF kept.line = 0 THEN <<>>
                        ELSE <<[line |-> kept.line, from |-> kept.from]>>
             own == [n \in DOMAIN gathered.lines |-> [line |-> gathered.lines[n], from |-> 0]]
         IN [chunks |-> Append(before, [text |-> opening \o own,
                                        blocks |-> gathered.blocks, sections |-> labels]),
             carry |-> IF gathered.sentence = 0 \/ OverlapSentences = 0 THEN NoCarry
                       ELSE [line |-> gathered.sentence, from |-> Ordinal(before),
                             sections |-> labels]]

ChunkerInit ==
    /\ body \in Bodies
    /\ blocks = split_blocks(body)
    /\ blocks # <<>>                 \* else ChunkingError
    /\ at = 0
    /\ stack = [l \in {} |-> 0]
    /\ pending = NoBlocks /\ sections = {} /\ carry = NoCarry /\ chunks = <<>>
    /\ pc = "blocks"

ReadBlock(kinds) ==
    /\ pc = "blocks" /\ at < Len(blocks)
    /\ blocks[at + 1].kind \in kinds
    /\ at' = at + 1
    /\ UNCHANGED <<body, blocks, pc>>

\* The chunk being gathered is emitted.
Emit ==
    LET e == Emitted(chunks, pending, sections, carry)
    IN chunks' = e.chunks /\ carry' = e.carry

\* A section boundary closes a chunk that can stand on its own.
ClosesChunk(block) == block.level >= 2 /\ pending.words >= MinWords

\* A heading replaces the one at its level and ends those below it.
Under(levels, block) ==
    [l \in {k \in DOMAIN levels : k < block.level} \cup {block.level} |->
        IF l = block.level THEN Head(block.lines) ELSE levels[l]]

Heading ==
    /\ ReadBlock({"heading"})
    /\ stack' = Under(stack, blocks[at + 1])
    /\ IF ClosesChunk(blocks[at + 1])
       THEN Emit /\ pending' = NoBlocks /\ sections' = {}
       ELSE UNCHANGED <<pending, sections, carry, chunks>>

LabelledOnce(labels, levels) == IF labels = {} THEN InScope(levels) ELSE labels

\* The sections of the chunk a block joins.
Labelled(labels, levels) ==
    IF labels = {} THEN InScope(levels) ELSE labels \cup Innermost(levels)

Overflows(block) ==
    pending.blocks > 0 /\ pending.words + WordsOf(body, ToSet(block.lines)) > MaxWords

Oversized(block) == Atomic(block) /\ WordsOf(body, ToSet(block.lines)) > MaxWords

\* A block joins the pending ones, or is the first of the next chunk.
AddBlock ==
    /\ ReadBlock(Content)
    /\ ~ Oversized(blocks[at + 1])
    /\ UNCHANGED stack
    /\ IF Overflows(blocks[at + 1])
       THEN /\ Emit
            /\ pending' = Join(body, NoBlocks, blocks[at + 1])
            /\ sections' = Labelled({}, stack)
       ELSE /\ pending' = Join(body, pending, blocks[at + 1])
            /\ sections' = Labelled(sections, stack)
            /\ UNCHANGED <<carry, chunks>>

\* A table or list over the budget overflows whatever is pending, and is then
\* a chunk of its own.
AddOversized ==
    /\ ReadBlock(Content)
    /\ Oversized(blocks[at + 1])
    /\ UNCHANGED stack
    /\ LET first == Emitted(chunks, pending, sections, carry)
           alone == Emitted(first.chunks, Join(body, NoBlocks, blocks[at + 1]),
                            Labelled({}, stack), first.carry)
       IN chunks' = alone.chunks /\ carry' = alone.carry
    /\ pending' = NoBlocks /\ sections' = {}

Merged(previous, tail) ==
    [text |-> previous.text \o tail.text,
     blocks |-> previous.blocks + tail.blocks,
     sections |-> previous.sections \cup tail.sections]

AbsorbedAlways(document, all) ==
    IF Len(all) > 1 /\ WordCount(document, Last(all)) < MinWords
    THEN Append(SubSeq(all, 1, Len(all) - 2), Merged(all[Len(all) - 1], Last(all)))
    ELSE all

\* A short tail goes into the chunk before it when the two fit.
Absorbed(document, all) ==
    IF /\ Len(all) > 1
       /\ WordCount(document, Last(all)) < MinWords
       /\ WordCount(document, all[Len(all) - 1]) + WordCount(document, Last(all)) <= MaxWords
    THEN Append(SubSeq(all, 1, Len(all) - 2), Merged(all[Len(all) - 1], Last(all)))
    ELSE all

\* The last emit and the merge of the tail.
Close ==
    /\ pc = "blocks" /\ at = Len(blocks)
    /\ pc' = "done"
    /\ chunks' = Absorbed(body, Emitted(chunks, pending, sections, carry).chunks)
    /\ pending' = NoBlocks /\ sections' = {} /\ carry' = NoCarry
    /\ UNCHANGED <<body, blocks, at, stack>>

ChunkerNext == Heading \/ AddBlock \/ AddOversized \/ Close

ChunkerSpec == ChunkerInit /\ [][ChunkerNext]_chunker_vars

---------------------------------------------------------------------------
(***************************************************************************)
(* What the chunks of a document must be, read off its lines.              *)
(***************************************************************************)
Done == pc = "done"

OwnAt(chunk) == {m \in DOMAIN chunk.text : chunk.text[m].from = 0}

OwnLines(chunk) == {chunk.text[m].line : m \in OwnAt(chunk)}

\* A copied sentence opens the chunk, and all the rest is its own.
OpensWithACopy(chunk) == OwnAt(chunk) = 2 .. Len(chunk.text)

InFence(document, i) ==
    Cardinality({j \in 1 .. i - 1 : document[j].kind = "fence"}) % 2 = 1

IsHeading(document, i) == document[i].kind = "heading" /\ ~ InFence(document, i)

IsContent(document, i) == document[i].kind # "blank" /\ ~ IsHeading(document, i)

\* Two rows of a table, or a list item and its continuation.
OneBlock(document, i) ==
    /\ ~ InFence(document, i)
    /\ \/ document[i].kind = "table" /\ document[i + 1].kind = "table"
       \/ document[i].kind = "list" /\ document[i + 1].kind \in {"list", "indented"}

\* The headings a line stands under, below the title.
Scope(document, i) ==
    {j \in 1 .. i - 1 :
        /\ IsHeading(document, j) /\ document[j].level > 1
        /\ \A k \in j + 1 .. i - 1 :
              IsHeading(document, k) => document[k].level > document[j].level}

\* Every line of a document is in its chunks exactly once and in its place,
\* whatever was flushed, left open, oversized or merged; and two rows of a
\* table, or a list item and its continuation, are never in different chunks.
NothingLostOrSplit ==
    Done =>
        /\ UNION {OwnLines(chunks[n]) : n \in DOMAIN chunks}
           = {i \in DOMAIN body : IsContent(body, i)}
        /\ \A n \in DOMAIN chunks : \A l, m \in OwnAt(chunks[n]) :
              l < m => chunks[n].text[l].line < chunks[n].text[m].line
        /\ \A m, n \in DOMAIN chunks : m < n =>
              \A i \in OwnLines(chunks[m]), j \in OwnLines(chunks[n]) : i < j
        /\ \A i \in 1 .. Len(body) - 1 : OneBlock(body, i) =>
              \E n \in DOMAIN chunks : {i, i + 1} \subseteq OwnLines(chunks[n])

\* A chunk's size is justified.  One whose own words exceed the budget is a
\* single block; any other exceeds it by no more than the one sentence copied to
\* its opening, which the overflow test does not count, so a merge never takes a
\* chunk over the budget.  One too short to retrieve could not be longer: the
\* block that opens the chunk after it left no room, and a last chunk that is
\* short for all that was carried into it does not fit the chunk before it.
SizeIsJustified ==
    Done => \A n \in DOMAIN chunks :
        LET words == WordsOf(body, OwnLines(chunks[n])) IN
        /\ words > MaxWords => chunks[n].blocks = 1
        /\ words <= MaxWords /\ WordCount(body, chunks[n]) > MaxWords =>
              OpensWithACopy(chunks[n])
        /\ n < Len(chunks) /\ words < MinWords =>
              \E k \in DOMAIN blocks :
                  /\ \E i \in ToSet(blocks[k].lines) \cap OwnLines(chunks[n + 1]) :
                        \A j \in OwnLines(chunks[n + 1]) : i <= j
                  /\ words + WordsOf(body, ToSet(blocks[k].lines)) > MaxWords
        /\ n = Len(chunks) /\ n > 1 /\ WordCount(body, chunks[n]) < MinWords =>
              WordCount(body, chunks[n - 1]) + WordCount(body, chunks[n]) > MaxWords

\* A chunk's sections are those its own lines stand under: none without
\* content in it, and the innermost section of every line among them.
SectionsAreTrue ==
    Done => \A n \in DOMAIN chunks :
        /\ chunks[n].sections \subseteq UNION {Scope(body, i) : i \in OwnLines(chunks[n])}
        /\ \A i \in OwnLines(chunks[n]) : Scope(body, i) # {} =>
              \E j \in chunks[n].sections \cap Scope(body, i) :
                  \A k \in Scope(body, i) : k <= j

\* A copied sentence is one of the chunk it is said to continue, and that
\* chunk comes no later: merging the tail never leaves a reference to a chunk
\* that is gone.
CopiesResolve ==
    Done => \A n \in DOMAIN chunks : \A m \in DOMAIN chunks[n].text :
        LET part == chunks[n].text[m] IN
        part.from # 0 =>
            /\ part.from <= n
            /\ part.line \in OwnLines(chunks[part.from])

=============================================================================
