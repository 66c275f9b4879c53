----------------------------- MODULE MCChunker -----------------------------
EXTENDS Chunker

CONSTANT MaxUnits

Line(kind, words) == [kind |-> kind, words |-> words, level |-> 0]
Head2(level) == [kind |-> "heading", words |-> 1, level |-> level]
Blank == Line("blank", 0)
Row == Line("table", 2)

\* What an author writes, with the blank lines that belong to it.
Units ==
    {<<Head2(1)>>, <<Head2(2)>>, <<Head2(3)>>,
     <<Line("text", 1), Blank>>,
     <<Line("text", 2), Line("text", 1), Blank>>,
     <<Row, Row>>,
     <<Row, Row, Row>>,
     <<Line("list", 1), Line("indented", 1)>>,
     <<Line("fence", 1), Line("heading", 1), Blank, Line("fence", 1)>>}

UnitSeqs == UNION {[1 .. n -> Units] : n \in 1 .. MaxUnits}

AllBodies == {FlattenSeq(s) : s \in UnitSeqs}
=============================================================================
