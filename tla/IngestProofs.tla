---------------------------- MODULE IngestProofs ----------------------------
(***************************************************************************)
(* Theorems about Ingest, for any folders and drafts of finitely many      *)
(* documents, any chunkers, embedding models and scores, and any number of *)
(* edits (IngestConstants), and about Chunker, for any documents, word     *)
(* budget and minimum (ChunkerConstants).                                  *)
(***************************************************************************)
EXTENDS Ingest, Chunker, FiniteSetTheorems, SequenceTheorems, CountingLemmas

-----------------------------------------------------------------------------
(* What load_knowledge_base lets through (kb/loader.py)                    *)

Identified(kb) == \A d, e \in kb : d.id = e.id => d = e

\* A folder that loads holds documents, each under an identifier of its own.
LEMMA LoadedIsIdentified ==
  ASSUME NEW dir, \A p \in DOMAIN dir : dir[p] \in Document \cup {Bad}, Loads(dir)
  PROVE  Documents(dir) \in SUBSET Document /\ Identified(Documents(dir))
<1>1. \A p \in DOMAIN dir : dir[p] \in Document
  BY DEF Loads, Malformed
<1>2. \A p, q \in DOMAIN dir : dir[p].id = dir[q].id => p = q
  BY DEF Loads, DuplicateIds
<1>3. QED BY <1>1, <1>2 DEF Documents, Identified

\* Finitely many files hold finitely many documents.
LEMMA LoadedIsFinite ==
  ASSUME NEW dir, IsFiniteSet(DOMAIN dir)
  PROVE  IsFiniteSet(Documents(dir))
<1> DEFINE f == [p \in DOMAIN dir |-> dir[p]]
<1>1. f \in Surjection(DOMAIN dir, Documents(dir))
  BY DEF Surjection, Documents
<1>2. QED BY <1>1, FS_Surjection

\* In a corpus that loads, superseded_by names a later document that says the
\* same of the pair.
LEMMA ReplacementIsLater ==
  ASSUME NEW dir, \A p \in DOMAIN dir : dir[p] \in Document \cup {Bad}, Loads(dir),
         NEW d \in Documents(dir), d.by # None
  PROVE  \E e \in Documents(dir) : e.id = d.by /\ e.supersedes = d.id /\ e.date > d.date
<1> DEFINE kb == Documents(dir)
           e == ById(kb, d.by)
<1>1. d.by \in Known(kb) /\ ~ HalfWired(kb, d)
  BY DEF Loads, Miswired
<1>2. e \in kb /\ e.id = d.by
  BY <1>1 DEF Known, ById
<1>3. e.supersedes = d.id /\ ~ (e.date <= d.date)
  BY <1>1 DEF HalfWired
<1>4. d.date \in Nat /\ e.date \in Nat
  BY <1>2, LoadedIsIdentified DEF Document
<1>5. QED BY <1>2, <1>3, <1>4

\* Everything superseded_by leads to is later: the later documents are closed
\* under it.
LEMMA SuccessorsAreLater ==
  ASSUME NEW dir, \A p \in DOMAIN dir : dir[p] \in Document \cup {Bad}, Loads(dir),
         NEW d \in Documents(dir), NEW e \in Successors(Documents(dir), d)
  PROVE  e.date > d.date
<1> DEFINE kb == Documents(dir)
           later == {x \in kb : x.date > d.date}
<1>1. kb \in SUBSET Document /\ Identified(kb)
  BY LoadedIsIdentified
<1>2. None \notin DocIds /\ \A x \in kb : x.date \in Nat /\ x.id \in DocIds
  BY <1>1, IngestConstants DEF Document
<1>3. \A x \in kb : x.id = d.by => x \in later
  BY <1>1, <1>2, ReplacementIsLater DEF Identified
<1>4. ASSUME NEW x \in later, NEW y \in kb, x.by = y.id PROVE y \in later
  <2>1. x.by # None
    BY <1>2, <1>4
  <2>2. y.date > x.date
    BY <1>1, <1>4, <2>1, ReplacementIsLater DEF Identified
  <2>3. QED BY <1>2, <2>2
<1>5. e \in later
  BY <1>3, <1>4 DEF Successors
<1>6. QED BY <1>5

\* The checks of the loader, each of one document and its replacement, make
\* every chain of supersessions end in a later document that is in force.
LEMMA LoadedIsWired ==
  ASSUME NEW dir, \A p \in DOMAIN dir : dir[p] \in Document \cup {Bad}, Loads(dir)
  PROVE  Wired(Documents(dir))
<1> DEFINE kb == Documents(dir)
<1>1. kb \in SUBSET Document /\ Identified(kb)
  BY LoadedIsIdentified
<1>2. \A x \in kb : x.status \in {"current", "superseded"} /\ x.id \in DocIds
  BY <1>1 DEF Document
<1>3. \A x \in kb : x.status = "superseded" => x.by # None
  BY DEF Loads, Miswired
<1>4. ASSUME NEW d \in kb, d.status = "superseded",
             \A e \in Successors(kb, d) : e.status # "current"
      PROVE  FALSE
  <2> DEFINE loop == Successors(kb, d)
  <2>1. PICK first \in kb : first.id = d.by
    BY <1>3, <1>4, ReplacementIsLater
  <2>2. first \in loop
    BY <2>1 DEF Successors
  <2>3. ASSUME NEW x \in loop
        PROVE  x.by # None /\ \E y \in loop : y.id = x.by
    <3>1. x \in kb
      BY DEF Successors
    <3>2. x.by # None
      BY <1>2, <1>3, <1>4, <3>1
    <3>3. PICK y \in kb : y.id = x.by
      BY <3>1, <3>2, ReplacementIsLater
    <3>4. y \in loop
      BY <3>1, <3>3 DEF Successors
    <3>5. QED BY <3>2, <3>3, <3>4
  <2>4. loop \in SUBSET kb /\ loop # {}
    BY <2>2 DEF Successors
  <2>5. Cyclic(kb)
    BY <2>3, <2>4 DEF Cyclic
  <2>6. QED BY <2>5 DEF Loads
<1>5. \A d \in kb : d.status = "superseded" =>
         \E e \in Successors(kb, d) : e.status = "current" /\ e.date > d.date
  BY <1>4, SuccessorsAreLater
<1>6. ASSUME NEW d \in kb, NEW e \in kb, d.by # None, d.by = e.by PROVE d = e
  <2>1. PICK x \in kb : x.id = d.by /\ x.supersedes = d.id
    BY <1>6, ReplacementIsLater
  <2>2. PICK y \in kb : y.id = e.by /\ y.supersedes = e.id
    BY <1>6, ReplacementIsLater
  <2>3. x = y
    BY <1>1, <1>6, <2>1, <2>2 DEF Identified
  <2>4. QED BY <1>1, <2>1, <2>2, <2>3 DEF Identified
<1>7. QED BY <1>5, <1>6 DEF Wired

-----------------------------------------------------------------------------
(* Ranking (Retriever.retrieve)                                            *)

\* The order of sorted() over a pool: by score, ties by identifier.
Orders(score, pool) ==
  /\ \A x \in pool : ~ Before(score, x, x)
  /\ \A x, y \in pool : x # y => Before(score, x, y) \/ Before(score, y, x)
  /\ \A x, y, z \in pool : Before(score, x, y) /\ Before(score, y, z) => Before(score, x, z)

\* One chunk for each document, and one document for each identifier: the order
\* has no ties left.
LEMMA ChunksAreOrdered ==
  ASSUME NEW kb \in SUBSET Document, Identified(kb), NEW cut,
         NEW score \in Scores, NEW pool \in SUBSET ChunkCorpus(kb, cut)
  PROVE  Orders(score, pool)
<1>1. ASSUME NEW x \in pool
      PROVE  x.doc.id \in Nat /\ score[x.doc.id] \in Int
  <2>1. x.doc \in Document
    BY DEF ChunkCorpus
  <2>2. x.doc.id \in DocIds
    BY <2>1 DEF Document
  <2>3. score \in [DocIds -> Int] /\ DocIds \subseteq Nat
    BY IngestConstants
  <2>4. QED BY <2>2, <2>3
<1>2. \A x, y \in pool : x.doc.id = y.doc.id => x = y
  BY DEF ChunkCorpus, Identified
<1>3. \A x \in pool : ~ Before(score, x, x)
  BY <1>1 DEF Before
<1>4. ASSUME NEW x \in pool, NEW y \in pool, x # y
      PROVE  Before(score, x, y) \/ Before(score, y, x)
  BY <1>1, <1>2, <1>4 DEF Before
<1>5. ASSUME NEW x \in pool, NEW y \in pool, NEW z \in pool,
             Before(score, x, y), Before(score, y, z)
      PROVE  Before(score, x, z)
  <2>1. /\ score[x.doc.id] \in Int /\ score[y.doc.id] \in Int /\ score[z.doc.id] \in Int
        /\ x.doc.id \in Nat /\ y.doc.id \in Nat /\ z.doc.id \in Nat
    BY <1>1
  <2>2. QED BY <1>5, <2>1 DEF Before
<1>6. QED BY <1>3, <1>4, <1>5 DEF Orders

LEMMA RankIsNatural ==
  ASSUME NEW score, NEW pool, IsFiniteSet(pool), NEW x
  PROVE  /\ IsFiniteSet({y \in pool : Before(score, y, x)})
         /\ Rank(score, pool, x) \in Nat \ {0}
<1>1. IsFiniteSet({y \in pool : Before(score, y, x)})
  BY FS_Subset
<1>2. Cardinality({y \in pool : Before(score, y, x)}) \in Nat
  BY <1>1, FS_CardinalityType
<1>3. QED BY <1>1, <1>2 DEF Rank

\* Of fewer candidates a chunk ranks no lower.
LEMMA RankInPart ==
  ASSUME NEW score, NEW pool, IsFiniteSet(pool), NEW part \in SUBSET pool, NEW x
  PROVE  Rank(score, part, x) <= Rank(score, pool, x)
<1> DEFINE A == {y \in part : Before(score, y, x)}
           B == {y \in pool : Before(score, y, x)}
<1>1. A \in SUBSET B /\ IsFiniteSet(B)
  BY FS_Subset
<1>2. Cardinality(A) <= Cardinality(B) /\ Cardinality(A) \in Nat /\ Cardinality(B) \in Nat
  BY <1>1, FS_Subset, FS_CardinalityType
<1> HIDE DEF A, B
<1>3. Rank(score, part, x) = 1 + Cardinality(A) /\ Rank(score, pool, x) = 1 + Cardinality(B)
  BY DEF Rank, A, B
<1>4. QED BY <1>2, <1>3

\* Ranks follow the order.
LEMMA RankFollowsOrder ==
  ASSUME NEW score, NEW pool, IsFiniteSet(pool), Orders(score, pool),
         NEW x \in pool, NEW y \in pool, Before(score, x, y)
  PROVE  Rank(score, pool, x) < Rank(score, pool, y)
<1> DEFINE A == {z \in pool : Before(score, z, x)}
           B == {z \in pool : Before(score, z, y)}
<1>1. A \in SUBSET B /\ x \in B /\ x \notin A
  BY DEF Orders
<1>2. IsFiniteSet(A) /\ IsFiniteSet(B)
  BY FS_Subset
<1>3. Cardinality(A) < Cardinality(B) /\ Cardinality(A) \in Nat /\ Cardinality(B) \in Nat
  BY <1>1, <1>2, FS_Subset, FS_CardinalityType
<1> HIDE DEF A, B
<1>4. Rank(score, pool, x) = 1 + Cardinality(A) /\ Rank(score, pool, y) = 1 + Cardinality(B)
  BY DEF Rank, A, B
<1>5. QED BY <1>3, <1>4

Top(score, pool, n) == {x \in pool : Rank(score, pool, x) <= n}

\* No more than n chunks rank in the first n.
LEMMA TopIsBounded ==
  ASSUME NEW score, NEW pool, IsFiniteSet(pool), Orders(score, pool), NEW n \in Nat
  PROVE  Cardinality(Top(score, pool, n)) <= n
<1> DEFINE top == Top(score, pool, n)
<1>1. IsFiniteSet(top) /\ top \in SUBSET pool
  BY FS_Subset DEF Top
<1>2. SUFFICES ASSUME top # {} PROVE Cardinality(top) <= n
  <2>1. top = {} => Cardinality(top) = 0
    BY FS_EmptySet
  <2>2. QED BY <2>1
<1> DEFINE ranks == {Rank(score, pool, x) : x \in top}
<1>3. ranks \in SUBSET (1 .. n) /\ ranks # {}
  <2>1. \A x \in top : Rank(score, pool, x) \in Nat \ {0} /\ Rank(score, pool, x) <= n
    BY RankIsNatural DEF Top
  <2>2. QED BY <1>2, <2>1
<1>4. \E r \in ranks : \A s \in ranks : s <= r
  BY <1>3, Greatest
<1>5. PICK g \in top : \A x \in top : Rank(score, pool, x) <= Rank(score, pool, g)
  BY <1>4
<1> DEFINE ahead == {y \in pool : Before(score, y, g)}
<1>6. \A x \in top : x # g => x \in ahead
  <2> SUFFICES ASSUME NEW x \in top, x # g, ~ Before(score, x, g) PROVE FALSE
    BY <1>1
  <2>1. Before(score, g, x)
    BY <1>1 DEF Orders
  <2>2. Rank(score, pool, g) < Rank(score, pool, x)
    BY <1>1, <2>1, RankFollowsOrder
  <2>3. Rank(score, pool, g) \in Nat /\ Rank(score, pool, x) \in Nat
    BY RankIsNatural
  <2>4. QED BY <1>5, <2>2, <2>3
<1>7. top \in SUBSET (ahead \cup {g}) /\ g \notin ahead
  BY <1>1, <1>6 DEF Orders
<1>8. IsFiniteSet(ahead) /\ Cardinality(ahead) \in Nat
  BY FS_Subset, FS_CardinalityType
<1>9. IsFiniteSet(ahead \cup {g}) /\ Cardinality(ahead \cup {g}) = Cardinality(ahead) + 1
  BY <1>7, <1>8, FS_AddElement
<1>10. Cardinality(top) <= Cardinality(ahead) + 1
  BY <1>7, <1>9, FS_Subset
<1>11. 1 + Cardinality(ahead) <= n
  BY <1>5 DEF Rank, Top
<1>12. Cardinality(top) \in Nat
  BY <1>1, FS_CardinalityType
<1> HIDE DEF ahead, top
<1>13. QED BY <1>8, <1>10, <1>11, <1>12

\* The first n are n, or everyone.
LEMMA TopIsFull ==
  ASSUME NEW score, NEW pool, IsFiniteSet(pool), Orders(score, pool), NEW n \in Nat,
         Top(score, pool, n) # pool
  PROVE  Cardinality(Top(score, pool, n)) = n
<1> DEFINE top == Top(score, pool, n)
           ranks == {Rank(score, pool, x) : x \in pool \ top}
<1>1. top \in SUBSET pool
  BY DEF Top
<1>2. ranks \in SUBSET Nat /\ ranks # {}
  BY <1>1, RankIsNatural
<1>3. \E r \in ranks : \A s \in ranks : r <= s
  BY <1>2, Least
<1>4. PICK m \in pool \ top :
         \A x \in pool \ top : Rank(score, pool, m) <= Rank(score, pool, x)
  BY <1>3
<1> DEFINE ahead == {y \in pool : Before(score, y, m)}
<1>5. ASSUME NEW y \in pool
      PROVE  y \in top <=> Before(score, y, m)
  <2>1. Rank(score, pool, y) \in Nat /\ Rank(score, pool, m) \in Nat
    BY RankIsNatural
  <2>2. ~ (Rank(score, pool, m) <= n)
    BY <1>4 DEF Top
  <2>3. Before(score, y, m) => y \in top
    BY <1>4, <2>1, RankFollowsOrder
  <2>4. y \in top => Before(score, y, m)
    <3> SUFFICES ASSUME y \in top, ~ Before(score, y, m) PROVE FALSE
      OBVIOUS
    <3>1. y # m
      BY <1>4
    <3>2. Before(score, m, y)
      BY <1>4, <3>1 DEF Orders
    <3>3. Rank(score, pool, m) < Rank(score, pool, y) /\ Rank(score, pool, y) <= n
      BY <1>4, <3>2, RankFollowsOrder DEF Top
    <3>4. QED BY <2>1, <2>2, <3>3
  <2>5. QED BY <2>3, <2>4
<1>6. top = ahead
  BY <1>1, <1>5
<1>7. Cardinality(ahead) \in Nat /\ Rank(score, pool, m) = 1 + Cardinality(ahead)
  BY FS_Subset, FS_CardinalityType DEF Rank
<1>8. ~ (Rank(score, pool, m) <= n)
  BY <1>4 DEF Top
<1>9. Cardinality(top) <= n
  BY TopIsBounded
<1> HIDE DEF ahead, top
<1>10. QED BY <1>6, <1>7, <1>8, <1>9 DEF top

-----------------------------------------------------------------------------
(* Type correctness                                                        *)

LEMMA ChunksOfDocuments ==
  ASSUME NEW kb \in SUBSET Document, NEW cut \in Chunkers
  PROVE  ChunkCorpus(kb, cut) \in SUBSET Chunk
BY DEF ChunkCorpus, Chunk

\* What is retrieved and answered is in its types, whatever is asked and cited.
LEMMA AnswerTypes ==
  ASSUME NEW passages \in SUBSET Chunk, NEW score, NEW mode \in Modes,
         NEW cites \in SUBSET {x.doc.id : x \in passages}
  PROVE  LET hits == Hits(passages, score, mode) IN
         /\ hits \in SUBSET Chunk
         /\ Conflicts(hits) \in SUBSET (DocIds \X (DocIds \cup {None}))
         /\ Grounded(hits, score, cites) \in
              [shown : SUBSET DocIds, cites : SUBSET DocIds, valid : BOOLEAN,
               cited_superseded : SUBSET DocIds]
<1> DEFINE hits == Hits(passages, score, mode)
<1>1. hits \in SUBSET passages
  BY DEF Hits, Candidates
<1>2. \A x \in passages : x.doc.id \in DocIds /\ x.doc.by \in DocIds \cup {None}
  BY DEF Chunk, Document
<1> HIDE DEF hits
<1>3. Conflicts(hits) \in SUBSET (DocIds \X (DocIds \cup {None}))
  BY <1>1, <1>2 DEF Conflicts
<1>4. {x.doc.id : x \in hits} \in SUBSET DocIds /\ cites \in SUBSET DocIds
  BY <1>1, <1>2
<1>5. Grounded(hits, score, cites) \in
        [shown : SUBSET DocIds, cites : SUBSET DocIds, valid : BOOLEAN,
         cited_superseded : SUBSET DocIds]
  <2> DEFINE shown == IF ShouldRefuse(hits, score) THEN {} ELSE {x.doc.id : x \in hits}
             superseded == {x.doc.id : x \in {y \in hits : y.doc.status # "current"}} \cap cites
             valid == cites # {} /\ cites \subseteq {x.doc.id : x \in hits}
  <2>1. shown \in SUBSET DocIds /\ superseded \in SUBSET DocIds /\ valid \in BOOLEAN
    BY <1>4
  <2>2. Grounded(hits, score, cites) =
          [shown |-> shown, cites |-> cites, valid |-> valid, cited_superseded |-> superseded]
    BY DEF Grounded
  <2> HIDE DEF shown, superseded, valid
  <2>3. QED BY <1>4, <2>1, <2>2
<1>6. QED BY <1>1, <1>3, <1>5 DEF hits

LEMMA InitTypeOK == Init => TypeOK
BY IngestConstants DEF Init, TypeOK

\* A folder after one file is written or deleted.
LEMMA EditedFolder ==
  ASSUME NEW dir, IsFiniteSet(DOMAIN dir),
         \A p \in DOMAIN dir : dir[p] \in Document \cup {Bad}
  PROVE  /\ \A draft \in Drafts :
              LET new == [p \in DOMAIN dir \cup {draft[1]} |->
                            IF p = draft[1] THEN draft[2] ELSE dir[p]]
              IN /\ IsFiniteSet(DOMAIN new)
                 /\ \A p \in DOMAIN new : new[p] \in Document \cup {Bad}
         /\ \A p \in DOMAIN dir :
              LET new == [q \in DOMAIN dir \ {p} |-> dir[q]]
              IN /\ IsFiniteSet(DOMAIN new)
                 /\ \A q \in DOMAIN new : new[q] \in Document \cup {Bad}
<1>1. \A x : IsFiniteSet(DOMAIN dir \cup {x})
  BY FS_AddElement
<1>2. \A x : IsFiniteSet(DOMAIN dir \ {x})
  BY FS_Subset
<1>3. \A draft \in Drafts : draft[2] \in Document \cup {Bad}
  BY IngestConstants
<1>4. QED BY <1>1, <1>2, <1>3

LEMMA NextTypeOK == TypeOK /\ [Next]_vars => TypeOK'
<1> SUFFICES ASSUME TypeOK, [Next]_vars PROVE TypeOK'
  OBVIOUS
<1> USE DEF TypeOK
<1>0. Loads(folder) => Documents(folder) \in SUBSET Document
  BY LoadedIsIdentified
<1>1. CASE Edit
  <2>1. IsFiniteSet(DOMAIN folder') /\ \A p \in DOMAIN folder' : folder'[p] \in Document \cup {Bad}
    <3>1. CASE folder' = folder
      BY <3>1
    <3>2. CASE \E draft \in Drafts :
                 folder' = [p \in DOMAIN folder \cup {draft[1]} |->
                               IF p = draft[1] THEN draft[2] ELSE folder[p]]
      BY <3>2, EditedFolder
    <3>3. CASE \E p \in DOMAIN folder : folder' = [q \in DOMAIN folder \ {p} |-> folder[q]]
      BY <3>3, EditedFolder
    <3>4. QED BY <1>1, <3>1, <3>2, <3>3 DEF Edit
  <2>2. chunker' \in Chunkers /\ model' \in EmbeddingModels
    BY <1>1 DEF Edit
  <2>3. file' \in Index \cup {Absent, Torn}
    <3>1. CASE file \in Index
      <4>1. ASSUME NEW cut \in Chunkers
            PROVE  [file EXCEPT !.chunks = ChunkCorpus(file.corpus_sha256, cut)] \in Index
        <5>1. ChunkCorpus(file.corpus_sha256, cut) \in SUBSET Chunk
          BY <3>1, ChunksOfDocuments DEF Index
        <5>2. QED BY <3>1, <5>1 DEF Index
      <4>2. QED BY <1>1, <3>1, <4>1 DEF Edit
    <3>2. CASE file \in {Absent, Torn}
      BY <1>1, <3>2 DEF Edit
    <3>3. QED BY <3>1, <3>2
  <2>4. edits' \in 0 .. MaxEdits
    BY <1>1, IngestConstants DEF Edit
  <2>5. QED BY <1>1, <2>1, <2>2, <2>3, <2>4 DEF Edit
<1>2. CASE StartBuild
  <2>1. builder' \in Process({"embed", "save", "reload"})
    BY <1>0, <1>2 DEF StartBuild, Process
  <2>2. QED BY <1>2, <2>1 DEF StartBuild
<1>3. CASE EndBuild
  BY <1>3 DEF EndBuild
<1>4. CASE BeginSave
  <2>1. builder' \in Process({"embed", "save", "reload"})
    BY <1>4 DEF BeginSave, Process, Off
  <2>2. QED BY <1>4, <2>1 DEF BeginSave
<1>5. CASE FinishSave
  <2>1. builder \in Process({"embed", "save", "reload"})
    BY <1>5 DEF FinishSave, Off
  <2>2. builder' \in Process({"embed", "save", "reload"})
    BY <1>5, <2>1 DEF FinishSave, Process
  <2>3. file' \in Index
    BY <1>5, <2>1, ChunksOfDocuments DEF FinishSave, Process, BuildIndex, Index
  <2>4. QED BY <1>5, <2>2, <2>3 DEF FinishSave
<1>6. CASE Reload
  BY <1>6 DEF Reload
<1>7. CASE ReadCorpus
  <2>1. consumer' \in Process({"corpus"})
    BY <1>0, <1>7 DEF ReadCorpus, Process
  <2>2. QED BY <1>7, <2>1 DEF ReadCorpus
<1>8. CASE OpenIndex
  <2>1. consumer \in Process({"corpus"})
    BY <1>8 DEF OpenIndex, Off, Answering, Process
  <2>2. Accepts(file, consumer.kb, consumer.cut) => file \in Index
    BY DEF Accepts
  <2>3. consumer' \in {Off} \cup [pc : {"ready"}, kb : SUBSET Document, cut : Chunkers,
                                  space : EmbeddingModels, index : Index]
    BY <1>8, <2>1, <2>2 DEF OpenIndex, Process
  <2>4. QED BY <1>8, <2>3 DEF OpenIndex
<1>9. CASE Ask
  <2>1. consumer \in [pc : {"ready"}, kb : SUBSET Document, cut : Chunkers,
                      space : EmbeddingModels, index : Index]
    BY <1>9 DEF Ask, Off, Answering, Process
  <2>2. consumer.index.chunks \in SUBSET Chunk
    BY <2>1 DEF Index
  <2>3. PICK mode \in Modes, score \in Scores,
             cites \in SUBSET {x.doc.id : x \in consumer.index.chunks} :
          consumer' = [pc |-> "answered", kb |-> consumer.kb, cut |-> consumer.cut,
                       space |-> consumer.space, index |-> consumer.index,
                       mode |-> mode, score |-> score,
                       hits |-> Hits(consumer.index.chunks, score, mode),
                       conflicts |-> Conflicts(Hits(consumer.index.chunks, score, mode)),
                       answer |-> Grounded(Hits(consumer.index.chunks, score, mode), score, cites)]
    BY <1>9 DEF Ask
  <2>4. consumer' \in Answering
    BY <2>1, <2>2, <2>3, AnswerTypes DEF Answering
  <2>5. QED BY <1>9, <2>4 DEF Ask
<1>10. CASE Finish
  BY <1>10 DEF Finish
<1>11. CASE UNCHANGED vars
  BY <1>11 DEF vars
<1>12. QED BY <1>1, <1>2, <1>3, <1>4, <1>5, <1>6, <1>7, <1>8, <1>9, <1>10, <1>11 DEF Next

\* Every variable keeps its type, whatever is edited and whoever dies.
THEOREM TypeCorrect == Spec => []TypeOK
BY InitTypeOK, NextTypeOK, PTL DEF Spec

-----------------------------------------------------------------------------
(* The corpora that processes hold                                         *)

\* The inductive invariant: each corpus in use was loaded, and so it is finite,
\* identified and wired.
Sound(kb) == IsFiniteSet(kb) /\ Identified(kb) /\ Wired(kb)

CorporaAreSound ==
  /\ builder # Off => Sound(builder.kb)
  /\ consumer # Off => Sound(consumer.kb)

LEMMA LoadedIsSound == TypeOK /\ Loads(folder) => Sound(Documents(folder))
BY LoadedIsFinite, LoadedIsIdentified, LoadedIsWired DEF TypeOK, Sound

LEMMA CorporaStep == TypeOK /\ CorporaAreSound /\ [Next]_vars => CorporaAreSound'
<1> SUFFICES ASSUME TypeOK, CorporaAreSound, [Next]_vars PROVE CorporaAreSound'
  OBVIOUS
<1> USE DEF CorporaAreSound
<1>0. Loads(folder) => Sound(Documents(folder))
  BY LoadedIsSound
<1>1. CASE Edit
  BY <1>1 DEF Edit
<1>2. CASE StartBuild
  BY <1>0, <1>2 DEF StartBuild
<1>3. CASE EndBuild
  BY <1>3 DEF EndBuild
<1>4. CASE BeginSave
  <2>1. builder \in Process({"embed", "save", "reload"})
    BY <1>4 DEF BeginSave, Off, TypeOK
  <2>2. builder # Off /\ builder'.kb = builder.kb
    BY <1>4, <2>1 DEF BeginSave, Process, Off
  <2>3. QED BY <1>4, <2>2 DEF BeginSave
<1>5. CASE FinishSave
  <2>1. builder \in Process({"embed", "save", "reload"})
    BY <1>5 DEF FinishSave, Off, TypeOK
  <2>2. builder # Off /\ builder'.kb = builder.kb
    BY <1>5, <2>1 DEF FinishSave, Process, Off
  <2>3. QED BY <1>5, <2>2 DEF FinishSave
<1>6. CASE Reload
  BY <1>6 DEF Reload
<1>7. CASE ReadCorpus
  BY <1>0, <1>7 DEF ReadCorpus
<1>8. CASE OpenIndex
  BY <1>8 DEF OpenIndex, Off
<1>9. CASE Ask
  BY <1>9 DEF Ask, Off
<1>10. CASE Finish
  BY <1>10 DEF Finish
<1>11. CASE UNCHANGED vars
  BY <1>11 DEF vars
<1>12. QED BY <1>1, <1>2, <1>3, <1>4, <1>5, <1>6, <1>7, <1>8, <1>9, <1>10, <1>11 DEF Next

LEMMA CorporaInvariant == Spec => []CorporaAreSound
<1>1. Init => CorporaAreSound
  BY DEF Init, CorporaAreSound
<1>2. QED BY <1>1, CorporaStep, TypeCorrect, PTL DEF Spec

\* A corpus in use is wired, for every folder an author can leave.
THEOREM Wiring == Spec => []CorpusIsWired
<1>1. CorporaAreSound => CorpusIsWired
  BY DEF CorporaAreSound, Sound, CorpusIsWired
<1>2. QED BY <1>1, CorporaInvariant, PTL

-----------------------------------------------------------------------------
(* What answers                                                            *)

\* The inductive invariant: an opened index is of the corpus read, and an
\* answer is what retrieval and generation make of it.
Opened ==
  consumer.pc \in {"ready", "answered"} =>
    /\ consumer.index.chunks = ChunkCorpus(consumer.kb, consumer.cut)
    /\ consumer.index.space = consumer.space

Derived ==
  Answered =>
    /\ consumer.hits = Hits(consumer.index.chunks, consumer.score, consumer.mode)
    /\ consumer.answer = Grounded(consumer.hits, consumer.score, consumer.answer.cites)

LEMMA OpenedStep == TypeOK /\ Opened /\ Derived /\ [Next]_vars => Opened' /\ Derived'
<1> SUFFICES ASSUME TypeOK, Opened, Derived, [Next]_vars PROVE Opened' /\ Derived'
  OBVIOUS
<1> USE DEF Opened, Derived, Answered
<1>1. CASE Edit
  BY <1>1 DEF Edit
<1>2. CASE StartBuild
  BY <1>2 DEF StartBuild
<1>3. CASE EndBuild
  BY <1>3 DEF EndBuild
<1>4. CASE BeginSave
  BY <1>4 DEF BeginSave
<1>5. CASE FinishSave
  BY <1>5 DEF FinishSave
<1>6. CASE Reload
  BY <1>6 DEF Reload
<1>7. CASE ReadCorpus
  BY <1>7 DEF ReadCorpus
<1>8. CASE OpenIndex
  BY <1>8 DEF OpenIndex, Accepts, Off
<1>9. CASE Ask
  <2>1. PICK mode \in Modes, score \in Scores,
             cites \in SUBSET {x.doc.id : x \in consumer.index.chunks} :
          consumer' = [pc |-> "answered", kb |-> consumer.kb, cut |-> consumer.cut,
                       space |-> consumer.space, index |-> consumer.index,
                       mode |-> mode, score |-> score,
                       hits |-> Hits(consumer.index.chunks, score, mode),
                       conflicts |-> Conflicts(Hits(consumer.index.chunks, score, mode)),
                       answer |-> Grounded(Hits(consumer.index.chunks, score, mode), score, cites)]
    BY <1>9 DEF Ask
  <2>2. consumer'.answer.cites = cites
    BY <2>1 DEF Grounded
  <2>3. consumer.pc = "ready"
    BY <1>9 DEF Ask
  <2>4. QED BY <2>1, <2>2, <2>3
<1>10. CASE Finish
  BY <1>10 DEF Finish, Off
<1>11. CASE UNCHANGED vars
  BY <1>11 DEF vars
<1>12. QED BY <1>1, <1>2, <1>3, <1>4, <1>5, <1>6, <1>7, <1>8, <1>9, <1>10, <1>11 DEF Next

LEMMA OpenedInvariant == Spec => [](Opened /\ Derived)
<1>1. Init => Opened /\ Derived
  BY DEF Init, Opened, Derived, Answered, Off
<1>2. QED BY <1>1, OpenedStep, TypeCorrect, PTL DEF Spec

\* What answers is the corpus the process read, whatever happened to the file.
THEOREM OverTheCorpus == Spec => []AnswersAreOverTheCorpus
<1>1. Opened => AnswersAreOverTheCorpus
  BY DEF Opened, AnswersAreOverTheCorpus, Answered
<1>2. QED BY <1>1, OpenedInvariant, PTL

\* The facts about an answered process that the last two theorems rest on.
LEMMA AnsweredFacts ==
  ASSUME TypeOK, CorporaAreSound, Opened, Derived, Answered
  PROVE  /\ consumer \in Answering
         /\ Sound(consumer.kb)
         /\ consumer.index.chunks = ChunkCorpus(consumer.kb, consumer.cut)
         /\ consumer.hits = Hits(consumer.index.chunks, consumer.score, consumer.mode)
         /\ consumer.answer = Grounded(consumer.hits, consumer.score, consumer.answer.cites)
<1>1. consumer \in Answering /\ consumer # Off
  BY DEF Answered, TypeOK, Process, Off
<1>2. QED BY <1>1 DEF CorporaAreSound, Opened, Derived, Answered

\* The filter for documents in force costs no place among the hits.
THEOREM FilterKeeps == Spec => []CurrentOnlyKeepsCurrentHits
<1>1. TypeOK /\ CorporaAreSound /\ Opened /\ Derived => CurrentOnlyKeepsCurrentHits
  <2> SUFFICES ASSUME TypeOK, CorporaAreSound, Opened, Derived,
                      Answered, consumer.mode = "current_only"
               PROVE  LET current == {x \in consumer.index.chunks : x.doc.status = "current"} IN
                      /\ consumer.hits \subseteq current
                      /\ Hits(consumer.index.chunks, consumer.score, "all") \cap current
                             \subseteq consumer.hits
                      /\ \/ Cardinality(consumer.hits) = TopK
                         \/ consumer.hits = current
    BY DEF CurrentOnlyKeepsCurrentHits
  <2> DEFINE kb == consumer.kb
             passages == consumer.index.chunks
             score == consumer.score
             current == {x \in passages : x.doc.status = "current"}
  <2>1. /\ kb \in SUBSET Document /\ score \in Scores
        /\ IsFiniteSet(kb) /\ Identified(kb)
        /\ passages = ChunkCorpus(kb, consumer.cut)
        /\ consumer.hits = Hits(passages, score, "current_only")
    BY AnsweredFacts DEF Answering, Sound
  <2>2. IsFiniteSet(passages)
    <3> DEFINE f == [d \in kb |-> [doc |-> d, cut |-> consumer.cut]]
    <3>1. f \in Surjection(kb, passages)
      BY <2>1 DEF Surjection, ChunkCorpus
    <3>2. QED BY <2>1, <3>1, FS_Surjection
  <2>3. current \in SUBSET passages /\ IsFiniteSet(current)
    BY <2>2, FS_Subset
  <2>4. Orders(score, current)
    BY <2>1, <2>3, ChunksAreOrdered
  <2>5. /\ Candidates(passages, "current_only") = current
        /\ Candidates(passages, "all") = passages
    BY DEF Candidates
  <2>6. consumer.hits = Top(score, current, TopK)
    BY <2>1, <2>5 DEF Hits, Top
  <2>7. Hits(passages, score, "all") = Top(score, passages, TopK)
    BY <2>5 DEF Hits, Top
  <2>8. ASSUME NEW x \in Top(score, passages, TopK), x \in current
        PROVE  x \in Top(score, current, TopK)
    <3>1. Rank(score, current, x) <= Rank(score, passages, x)
      BY <2>2, <2>3, RankInPart
    <3>2. Rank(score, current, x) \in Nat /\ Rank(score, passages, x) \in Nat /\ TopK \in Nat
      BY <2>2, <2>3, RankIsNatural, IngestConstants
    <3>3. Rank(score, passages, x) <= TopK
      BY <2>8 DEF Top
    <3>4. Rank(score, current, x) <= TopK
      BY <3>1, <3>2, <3>3
    <3>5. QED BY <2>8, <3>4 DEF Top
  <2>9. Top(score, current, TopK) # current => Cardinality(Top(score, current, TopK)) = TopK
    BY <2>3, <2>4, TopIsFull, IngestConstants
  <2>10. Top(score, current, TopK) \subseteq current
    BY DEF Top
  <2>11. QED BY <2>6, <2>7, <2>8, <2>9, <2>10
<1>2. QED BY <1>1, TypeCorrect, CorporaInvariant, OpenedInvariant, PTL

\* A valid citation is of the process's corpus, at the status it has there.
THEOREM CitationsResolve == Spec => []ValidCitationsResolve
<1>1. TypeOK /\ CorporaAreSound /\ Opened /\ Derived => ValidCitationsResolve
  <2> SUFFICES ASSUME TypeOK, CorporaAreSound, Opened, Derived,
                      Answered, consumer.answer.valid,
                      NEW id \in consumer.answer.cites
               PROVE  \E d \in consumer.kb :
                        /\ d.id = id
                        /\ consumer.mode = "current_only" => d.status = "current"
                        /\ id \in consumer.answer.cited_superseded <=> d.status # "current"
    BY DEF ValidCitationsResolve
  <2> DEFINE hits == consumer.hits
             cites == consumer.answer.cites
  <2>1. /\ Identified(consumer.kb)
        /\ consumer.index.chunks = ChunkCorpus(consumer.kb, consumer.cut)
        /\ hits = Hits(consumer.index.chunks, consumer.score, consumer.mode)
        /\ consumer.answer = Grounded(hits, consumer.score, cites)
    BY AnsweredFacts DEF Sound
  <2>2. \A x \in hits : /\ x.doc \in consumer.kb
                        /\ consumer.mode = "current_only" => x.doc.status = "current"
    BY <2>1 DEF Hits, Candidates, ChunkCorpus
  <2>3. /\ cites \subseteq {x.doc.id : x \in hits}
        /\ consumer.answer.cited_superseded
             = {x.doc.id : x \in {y \in hits : y.doc.status # "current"}} \cap cites
    <3> HIDE DEF hits, cites
    <3>1. Grounded(hits, consumer.score, cites).valid
            = (cites # {} /\ cites \subseteq {x.doc.id : x \in hits})
      BY DEF Grounded
    <3>2. Grounded(hits, consumer.score, cites).cited_superseded
            = {x.doc.id : x \in {y \in hits : y.doc.status # "current"}} \cap cites
      BY DEF Grounded
    <3>3. Grounded(hits, consumer.score, cites).valid
      BY <2>1, Zenon
    <3>4. QED BY <2>1, <3>1, <3>2, <3>3, Zenon
  <2> HIDE DEF hits, cites
  <2>4. PICK x \in hits : x.doc.id = id
    BY <2>3 DEF cites
  <2>5. id \in consumer.answer.cited_superseded <=> x.doc.status # "current"
    <3>1. ASSUME x.doc.status # "current" PROVE id \in consumer.answer.cited_superseded
      BY <2>3, <2>4, <3>1 DEF cites
    <3>2. ASSUME id \in consumer.answer.cited_superseded PROVE x.doc.status # "current"
      <4>1. PICK y \in hits : y.doc.id = id /\ y.doc.status # "current"
        BY <2>3, <3>2
      <4>2. y.doc = x.doc
        BY <2>1, <2>2, <2>4, <4>1 DEF Identified
      <4>3. QED BY <4>1, <4>2
    <3>3. QED BY <3>1, <3>2
  <2>6. QED BY <2>2, <2>4, <2>5
<1>2. QED BY <1>1, TypeCorrect, CorporaInvariant, OpenedInvariant, PTL

-----------------------------------------------------------------------------
(* What split_blocks makes of a document's lines (ingest/chunker.py)       *)

Increasing(lines) == \A l, m \in DOMAIN lines : l < m => lines[l] < lines[m]

Blocks(document) ==
    [kind : Content \cup {"heading"}, lines : Seq(1 .. Len(document)), level : 0 .. 6]

\* A block is a run of lines: one heading, or lines of content.
IsBlock(document, block) ==
    /\ block \in Blocks(document)
    /\ block.lines # <<>> /\ Increasing(block.lines)
    /\ block.kind = "heading" =>
          /\ Len(block.lines) = 1 /\ IsHeading(document, block.lines[1])
          /\ block.level = document[block.lines[1]].level
    /\ block.kind # "heading" =>
          \A i \in ToSet(block.lines) : IsContent(document, i)

AreBlocks(document, bs) ==
    /\ bs \in Seq(Blocks(document))
    /\ \A k \in 1 .. Len(bs) : IsBlock(document, bs[k])
    /\ \A k, m \in 1 .. Len(bs) : k < m =>
          \A i \in ToSet(bs[k].lines), j \in ToSet(bs[m].lines) : i < j

\* After n lines, in blocks or in the buffer: every line that is not blank,
\* in order, and no two that belong together apart.
Gathers(document, n, b) ==
    /\ b = [blocks |-> b.blocks, lines |-> b.lines, kind |-> b.kind, code |-> b.code]
    /\ AreBlocks(document, b.blocks)
    /\ b.lines \in Seq(1 .. n) /\ Increasing(b.lines)
    /\ \A i \in ToSet(b.lines) : IsContent(document, i)
    /\ \A k \in 1 .. Len(b.blocks) : \A i \in ToSet(b.blocks[k].lines) :
          i <= n /\ \A j \in ToSet(b.lines) : i < j
    /\ b.kind \in Content \cup {"none"} /\ (b.kind = "none" <=> b.lines = <<>>)
    /\ \A i \in 1 .. n : document[i].kind # "blank" =>
          \/ i \in ToSet(b.lines)
          \/ \E k \in 1 .. Len(b.blocks) : i \in ToSet(b.blocks[k].lines)
    /\ \A i \in 1 .. n - 1 : OneBlock(document, i) =>
          \/ {i, i + 1} \subseteq ToSet(b.lines)
          \/ \E k \in 1 .. Len(b.blocks) : {i, i + 1} \subseteq ToSet(b.blocks[k].lines)

\* The buffer knows whether it is in a fence, and is still open for a row.
Stands(document, n, b) ==
    /\ b.code \in BOOLEAN /\ (b.code <=> InFence(document, n + 1))
    /\ b.code => b.kind = "code"
    /\ n > 0 /\ ~ InFence(document, n) /\ document[n].kind \in {"table", "list"} =>
          b.kind = document[n].kind /\ n \in ToSet(b.lines)

\* A fence turns the parity.
LEMMA FenceTurns ==
  ASSUME NEW document \in Seq(Lines), NEW n \in 1 .. Len(document)
  PROVE  /\ ~ InFence(document, 1)
         /\ InFence(document, n + 1) <=> (InFence(document, n) <=> document[n].kind # "fence")
<1> DEFINE before == {j \in 1 .. n - 1 : document[j].kind = "fence"}
           upto == {j \in 1 .. n : document[j].kind = "fence"}
<1>1. IsFiniteSet(before) /\ Cardinality(before) \in Nat
  <2>1. IsFiniteSet(1 .. n - 1)
    BY FS_Interval
  <2>2. QED BY <2>1, FS_Subset, FS_CardinalityType
<1>2. Cardinality(upto) = Cardinality(before) + (IF document[n].kind = "fence" THEN 1 ELSE 0)
  <2>1. CASE document[n].kind = "fence"
    <3>1. upto = before \cup {n} /\ n \notin before
      BY <2>1
    <3>2. Cardinality(before \cup {n}) = Cardinality(before) + 1
      BY <1>1, <3>1, FS_AddElement
    <3>3. Cardinality(upto) = Cardinality(before) + 1
      <4> HIDE DEF before, upto
      <4>1. QED BY <3>1, <3>2
    <3>4. QED BY <2>1, <3>3
  <2>2. CASE document[n].kind # "fence"
    <3>1. upto = before
      BY <2>2
    <3>2. Cardinality(upto) = Cardinality(before) + 0
      <4> HIDE DEF before, upto
      <4>1. QED BY <1>1, <3>1
    <3>3. QED BY <2>2, <3>2
  <2>3. QED BY <2>1, <2>2
<1>3. {j \in 1 .. n + 1 - 1 : document[j].kind = "fence"} = upto
  OBVIOUS
<1>4. InFence(document, n) <=> Cardinality(before) % 2 = 1
  BY DEF InFence
<1>5. InFence(document, n + 1) <=> Cardinality(upto) % 2 = 1
  BY <1>3 DEF InFence
<1>6. ~ InFence(document, 1)
  <2>1. {j \in 1 .. 1 - 1 : document[j].kind = "fence"} = {}
    OBVIOUS
  <2>2. Cardinality({}) = 0
    BY FS_EmptySet
  <2>3. QED BY <2>1, <2>2 DEF InFence
<1> DEFINE c == Cardinality(before)
           d == Cardinality(upto)
<1> HIDE DEF before, upto
<1>7. c \in Nat /\ d = c + (IF document[n].kind = "fence" THEN 1 ELSE 0)
  BY <1>1, <1>2
<1> HIDE DEF c, d
<1>8. CASE document[n].kind = "fence"
  <2>1. d = c + 1
    BY <1>7, <1>8
  <2>2. d % 2 = 1 <=> ~ (c % 2 = 1)
    BY <1>7, <2>1
  <2>3. QED BY <1>4, <1>5, <1>6, <1>8, <2>2 DEF c, d
<1>9. CASE document[n].kind # "fence"
  <2>1. d = c
    BY <1>7, <1>9
  <2>2. QED BY <1>4, <1>5, <1>6, <1>9, <2>1 DEF c, d
<1>10. QED BY <1>8, <1>9

\* The recursive definition means what it says: it can be counted up.
LEMMA ParsedStep ==
  ASSUME NEW document \in Seq(Lines)
  PROVE  /\ Parsed(document)[0] = NoBuffer
         /\ \A n \in 1 .. Len(document) :
               Parsed(document)[n] = ParseLine(document, Parsed(document)[n - 1], n)
<1> DEFINE value(f, n) == IF n = 0 THEN NoBuffer ELSE ParseLine(document, f[n - 1], n)
           Good == {m \in 0 .. Len(document) : \E f : f = [n \in 0 .. m |-> value(f, n)]}
           all == Len(document)
<1>0. all \in Nat
  OBVIOUS
<1>1. 0 \in Good
  <2> DEFINE f == [n \in 0 .. 0 |-> NoBuffer]
  <2>1. \A n \in 0 .. 0 : value(f, n) = NoBuffer
    OBVIOUS
  <2>2. f = [n \in 0 .. 0 |-> value(f, n)]
    BY <2>1
  <2>3. \E f2 : f2 = [n \in 0 .. 0 |-> value(f2, n)]
    <3> HIDE DEF f
    <3>1. QED BY <2>2
  <2>4. QED BY <1>0, <2>3
<1>2. ASSUME NEW m \in 1 .. all, m - 1 \in Good
      PROVE  m \in Good
  <2>1. PICK f : f = [n \in 0 .. m - 1 |-> value(f, n)]
    BY <1>2
  <2> DEFINE g == [n \in 0 .. m |-> IF n < m THEN f[n] ELSE ParseLine(document, f[m - 1], m)]
  <2>2. ASSUME NEW n \in 0 .. m
        PROVE  g[n] = value(g, n)
    <3>1. CASE n = m
      <4>1. g[m - 1] = f[m - 1] /\ m # 0
        BY <1>0
      <4>2. g[m] = ParseLine(document, f[m - 1], m)
        BY <1>0
      <4>3. QED BY <3>1, <4>1, <4>2
    <3>2. CASE n # m
      <4>1. n \in 0 .. m - 1
        BY <3>2, <1>0
      <4>2. g[n] = f[n] /\ f[n] = value(f, n)
        BY <2>1, <4>1
      <4>3. n # 0 => g[n - 1] = f[n - 1]
        BY <4>1
      <4>4. QED BY <4>2, <4>3
    <3>3. QED BY <3>1, <3>2
  <2>3. g = [n \in 0 .. m |-> value(g, n)]
    <3> DEFINE h == [n \in 0 .. m |-> value(g, n)]
    <3>1. \A n \in 0 .. m : g[n] = h[n]
      BY <2>2
    <3>2. DOMAIN g = DOMAIN h /\ g = [n \in DOMAIN g |-> g[n]] /\ h = [n \in DOMAIN h |-> h[n]]
      OBVIOUS
    <3> HIDE DEF g, h
    <3>3. g = h
      BY <3>1, <3>2 DEF g
    <3>4. QED BY <3>3 DEF h
  <2>4. \E f2 : f2 = [n \in 0 .. m |-> value(f2, n)]
    <3> HIDE DEF g
    <3>1. QED BY <2>3
  <2>5. QED BY <2>4, <1>0
<1> HIDE DEF Good, all
<1>3. \A m \in 0 .. all : m \in Good
  BY <1>0, <1>1, <1>2, CountUp
<1>4. all \in Good
  BY <1>0, <1>3
<1>5. \E f : f = [n \in 0 .. Len(document) |-> value(f, n)]
  BY <1>4 DEF Good, all
<1> DEFINE f == Parsed(document)
<1>6. f = [n \in 0 .. Len(document) |-> value(f, n)]
  BY <1>5 DEF Parsed
<1>7. \A n \in 0 .. Len(document) : f[n] = value(f, n)
  <2> HIDE DEF f
  <2>1. QED BY <1>6
<1> HIDE DEF f
<1>8. f[0] = NoBuffer /\ \A n \in 1 .. Len(document) : f[n] = ParseLine(document, f[n - 1], n)
  BY <1>0, <1>7 DEF all
<1>9. QED BY <1>8 DEF f

\* What an append makes of a sequence, as a set.
LEMMA AppendLines ==
  ASSUME NEW S, NEW s \in Seq(S), NEW x \in S
  PROVE  /\ Append(s, x) \in Seq(S) /\ Append(s, x) # <<>>
         /\ Len(Append(s, x)) = Len(s) + 1 /\ Append(s, x)[Len(s) + 1] = x
         /\ \A k \in 1 .. Len(s) : Append(s, x)[k] = s[k]
         /\ DOMAIN s = 1 .. Len(s) /\ DOMAIN Append(s, x) = 1 .. Len(s) + 1
         /\ ToSet(Append(s, x)) = ToSet(s) \cup {x}
<1>1. /\ Append(s, x) \in Seq(S) /\ Append(s, x) # <<>>
      /\ Len(Append(s, x)) = Len(s) + 1 /\ Append(s, x)[Len(s) + 1] = x
      /\ \A k \in 1 .. Len(s) : Append(s, x)[k] = s[k]
      /\ Len(s) \in Nat
  OBVIOUS
<1>2. DOMAIN s = 1 .. Len(s) /\ DOMAIN Append(s, x) = 1 .. Len(s) + 1
  BY <1>1
<1>3. ToSet(Append(s, x)) = ToSet(s) \cup {x}
  <2> DEFINE t == Append(s, x)
  <2>1. ToSet(t) = {t[k] : k \in 1 .. Len(s) + 1} /\ ToSet(s) = {s[k] : k \in 1 .. Len(s)}
    BY <1>2 DEF ToSet
  <2>2. \A k \in 1 .. Len(s) : t[k] = s[k]
    BY <1>1
  <2>3. t[Len(s) + 1] = x
    BY <1>1
  <2>4. 1 .. Len(s) + 1 = (1 .. Len(s)) \cup {Len(s) + 1}
    BY <1>1
  <2> HIDE DEF t
  <2>5. ToSet(t) = ToSet(s) \cup {x}
    BY <2>1, <2>2, <2>3, <2>4
  <2>6. QED BY <2>5 DEF t
<1>4. QED BY <1>1, <1>2, <1>3

\* A later block after the others.
LEMMA AppendBlock ==
  ASSUME NEW document \in Seq(Lines), NEW bs, AreBlocks(document, bs),
         NEW block, IsBlock(document, block),
         \A k \in 1 .. Len(bs) : \A i \in ToSet(bs[k].lines), j \in ToSet(block.lines) : i < j
  PROVE  AreBlocks(document, Append(bs, block))
<1> DEFINE t == Append(bs, block)
<1>1. bs \in Seq(Blocks(document)) /\ block \in Blocks(document) /\ Len(bs) \in Nat
  BY DEF AreBlocks, IsBlock
<1>2. /\ t \in Seq(Blocks(document)) /\ Len(t) = Len(bs) + 1 /\ t[Len(bs) + 1] = block
      /\ \A k \in 1 .. Len(bs) : t[k] = bs[k]
  BY <1>1, AppendLines
<1> HIDE DEF t
<1>3. ASSUME NEW k \in 1 .. Len(t)
      PROVE  IsBlock(document, t[k])
  <2>1. CASE k = Len(bs) + 1
    BY <1>2, <2>1
  <2>2. CASE k \in 1 .. Len(bs)
    BY <1>2, <2>2 DEF AreBlocks
  <2>3. QED BY <1>1, <1>2, <2>1, <2>2
<1>4. ASSUME NEW k \in 1 .. Len(t), NEW m \in 1 .. Len(t), k < m,
             NEW i \in ToSet(t[k].lines), NEW j \in ToSet(t[m].lines)
      PROVE  i < j
  <2>1. k \in 1 .. Len(bs) /\ t[k] = bs[k]
    BY <1>1, <1>2, <1>4
  <2>2. CASE m = Len(bs) + 1
    <3>1. t[m] = block
      BY <1>2, <2>2
    <3>2. i \in ToSet(bs[k].lines) /\ j \in ToSet(block.lines)
      BY <1>4, <2>1, <3>1
    <3>3. QED BY <2>1, <3>2
  <2>3. CASE m \in 1 .. Len(bs)
    <3>1. t[m] = bs[m]
      BY <1>2, <2>3
    <3>2. i \in ToSet(bs[k].lines) /\ j \in ToSet(bs[m].lines)
      BY <1>4, <2>1, <3>1
    <3>3. QED BY <1>4, <2>1, <2>3, <3>2 DEF AreBlocks
  <2>4. QED BY <1>1, <1>2, <2>2, <2>3
<1>5. AreBlocks(document, t)
  BY <1>2, <1>3, <1>4 DEF AreBlocks
<1>6. QED BY <1>5 DEF t

\* flush() moves the buffer into a block of its own and loses nothing.
LEMMA FlushGathers ==
  ASSUME NEW document \in Seq(Lines), NEW n \in 0 .. Len(document),
         NEW b, Gathers(document, n, b)
  PROVE  /\ Gathers(document, n, Flush(b))
         /\ Flush(b).lines = <<>> /\ Flush(b).kind = "none" /\ Flush(b).code = b.code
         /\ b.lines = <<>> => Flush(b).blocks = b.blocks
         /\ b.lines # <<>> => Flush(b).blocks = Append(b.blocks, Block(b.kind, b.lines, 0))
<1> DEFINE c == Flush(b)
           block == Block(b.kind, b.lines, 0)
<1>1. b = [blocks |-> b.blocks, lines |-> b.lines, kind |-> b.kind, code |-> b.code]
  BY DEF Gathers
<1>2. c = [blocks |-> IF b.lines = <<>> THEN b.blocks ELSE Append(b.blocks, block),
           lines |-> <<>>, kind |-> "none", code |-> b.code]
  BY DEF Flush
<1>3. /\ c.lines = <<>> /\ c.kind = "none" /\ c.code = b.code
      /\ c = [blocks |-> c.blocks, lines |-> c.lines, kind |-> c.kind, code |-> c.code]
      /\ c.blocks = IF b.lines = <<>> THEN b.blocks ELSE Append(b.blocks, block)
  BY <1>2
<1>4. c.lines \in Seq(1 .. n) /\ Increasing(c.lines) /\ ToSet(c.lines) = {}
  BY <1>3 DEF Increasing, ToSet
<1> HIDE DEF c
<1>5. AreBlocks(document, b.blocks) /\ b.blocks \in Seq(Blocks(document)) /\ Len(b.blocks) \in Nat
  BY DEF Gathers, AreBlocks
<1>6. CASE b.lines = <<>>
  <2>1. c.blocks = b.blocks /\ ToSet(b.lines) = {}
    BY <1>3, <1>6 DEF ToSet
  <2>2. Gathers(document, n, c)
    BY <1>3, <1>4, <1>6, <2>1 DEF Gathers
  <2>3. QED BY <1>3, <1>6, <2>1, <2>2 DEF c
<1>7. CASE b.lines # <<>>
  <2>1. block.kind = b.kind /\ block.lines = b.lines /\ block.level = 0
    BY DEF Block
  <2>2. IsBlock(document, block)
    <3>1. b.kind \in Content /\ "heading" \notin Content
      BY <1>7 DEF Gathers, Content
    <3>2. b.lines \in Seq(1 .. Len(document))
      <4>1. b.lines \in Seq(1 .. n) /\ \A x \in 1 .. n : x \in 1 .. Len(document)
        BY DEF Gathers
      <4>2. QED BY <4>1
    <3>3. block \in Blocks(document)
      BY <3>1, <3>2 DEF Block, Blocks
    <3>4. QED BY <1>7, <2>1, <3>1, <3>3 DEF IsBlock, Gathers
  <2>3. \A k \in 1 .. Len(b.blocks) :
           \A i \in ToSet(b.blocks[k].lines), j \in ToSet(block.lines) : i < j
    BY <2>1 DEF Gathers
  <2>4. c.blocks = Append(b.blocks, block)
    BY <1>3, <1>7
  <2>5. AreBlocks(document, c.blocks)
    BY <1>5, <2>2, <2>3, <2>4, AppendBlock
  <2>6. /\ Len(c.blocks) = Len(b.blocks) + 1 /\ c.blocks[Len(b.blocks) + 1] = block
        /\ \A k \in 1 .. Len(b.blocks) : c.blocks[k] = b.blocks[k]
    <3>1. block \in Blocks(document)
      BY <2>2 DEF IsBlock
    <3> HIDE DEF block
    <3>2. QED BY <1>5, <2>4, <3>1, AppendLines
  <2> HIDE DEF block
  <2>7. \A k \in 1 .. Len(c.blocks) : \A i \in ToSet(c.blocks[k].lines) : i <= n
    <3>1. \A i \in ToSet(b.lines) : i <= n
      BY DEF Gathers, ToSet
    <3>2. SUFFICES ASSUME NEW k \in 1 .. Len(c.blocks), NEW i \in ToSet(c.blocks[k].lines)
                   PROVE  i <= n
      OBVIOUS
    <3>3. CASE k = Len(b.blocks) + 1
      BY <2>1, <2>6, <3>1, <3>2, <3>3
    <3>4. CASE k \in 1 .. Len(b.blocks)
      BY <2>6, <3>2, <3>4 DEF Gathers
    <3>5. QED BY <1>5, <2>6, <3>3, <3>4
  <2>8. \A S : \/ S \subseteq ToSet(b.lines)
               \/ \E k \in 1 .. Len(b.blocks) : S \subseteq ToSet(b.blocks[k].lines)
            => \E k \in 1 .. Len(c.blocks) : S \subseteq ToSet(c.blocks[k].lines)
    <3>1. Len(b.blocks) + 1 \in 1 .. Len(c.blocks)
          /\ ToSet(c.blocks[Len(b.blocks) + 1].lines) = ToSet(b.lines)
      BY <1>5, <2>1, <2>6
    <3>2. \A k \in 1 .. Len(b.blocks) :
             k \in 1 .. Len(c.blocks) /\ ToSet(c.blocks[k].lines) = ToSet(b.blocks[k].lines)
      BY <1>5, <2>6
    <3>3. QED BY <3>1, <3>2
  <2>9. \A i \in 1 .. n : document[i].kind # "blank" =>
           \E k \in 1 .. Len(c.blocks) : i \in ToSet(c.blocks[k].lines)
    <3>1. SUFFICES ASSUME NEW i \in 1 .. n, document[i].kind # "blank"
                   PROVE  \E k \in 1 .. Len(c.blocks) : i \in ToSet(c.blocks[k].lines)
      OBVIOUS
    <3>2. \/ {i} \subseteq ToSet(b.lines)
          \/ \E k \in 1 .. Len(b.blocks) : {i} \subseteq ToSet(b.blocks[k].lines)
      BY <3>1 DEF Gathers
    <3>3. \E k \in 1 .. Len(c.blocks) : {i} \subseteq ToSet(c.blocks[k].lines)
      BY <2>8, <3>2
    <3>4. QED BY <3>3
  <2>10. \A i \in 1 .. n - 1 : OneBlock(document, i) =>
            \E k \in 1 .. Len(c.blocks) : {i, i + 1} \subseteq ToSet(c.blocks[k].lines)
    <3>1. SUFFICES ASSUME NEW i \in 1 .. n - 1, OneBlock(document, i)
                   PROVE  \E k \in 1 .. Len(c.blocks) : {i, i + 1} \subseteq ToSet(c.blocks[k].lines)
      OBVIOUS
    <3>2. \/ {i, i + 1} \subseteq ToSet(b.lines)
          \/ \E k \in 1 .. Len(b.blocks) : {i, i + 1} \subseteq ToSet(b.blocks[k].lines)
      BY <3>1 DEF Gathers
    <3>3. QED BY <2>8, <3>2
  <2>11. Gathers(document, n, c)
    BY <1>3, <1>4, <2>5, <2>7, <2>9, <2>10 DEF Gathers
  <2>12. QED BY <1>3, <1>7, <2>4, <2>11 DEF c, block
<1>8. QED BY <1>6, <1>7

\* A line joins the buffer, with the line before it if they belong together.
LEMMA BufferGathers ==
  ASSUME NEW document \in Seq(Lines), NEW n \in 1 .. Len(document),
         NEW b, Gathers(document, n - 1, b), IsContent(document, n),
         NEW kind \in Content,
         n > 1 /\ OneBlock(document, n - 1) => n - 1 \in ToSet(b.lines)
  PROVE  /\ Gathers(document, n, Buffer(b, kind, n))
         /\ Buffer(b, kind, n).kind = kind /\ Buffer(b, kind, n).code = b.code
         /\ n \in ToSet(Buffer(b, kind, n).lines)
<1> DEFINE c == Buffer(b, kind, n)
<1>1. /\ c = [blocks |-> b.blocks, lines |-> Append(b.lines, n), kind |-> kind, code |-> b.code]
      /\ c.blocks = b.blocks /\ c.lines = Append(b.lines, n) /\ c.kind = kind /\ c.code = b.code
  BY DEF Buffer
<1> HIDE DEF c
<1>2. b.lines \in Seq(1 .. n - 1) /\ b.lines \in Seq(1 .. n)
  <2>1. b.lines \in Seq(1 .. n - 1) /\ \A x \in 1 .. n - 1 : x \in 1 .. n
    BY DEF Gathers
  <2>2. QED BY <2>1
<1>3. /\ c.lines \in Seq(1 .. n) /\ c.lines # <<>>
      /\ Len(c.lines) = Len(b.lines) + 1 /\ c.lines[Len(b.lines) + 1] = n
      /\ \A k \in 1 .. Len(b.lines) : c.lines[k] = b.lines[k]
      /\ DOMAIN b.lines = 1 .. Len(b.lines) /\ DOMAIN c.lines = 1 .. Len(b.lines) + 1
      /\ ToSet(c.lines) = ToSet(b.lines) \cup {n}
  <2> DEFINE S == 1 .. n
             t == b.lines
  <2>1. n \in S /\ t \in Seq(S)
    BY <1>2
  <2> HIDE DEF S, t
  <2>2. /\ Append(t, n) \in Seq(S) /\ Append(t, n) # <<>>
        /\ Len(Append(t, n)) = Len(t) + 1 /\ Append(t, n)[Len(t) + 1] = n
        /\ \A k \in 1 .. Len(t) : Append(t, n)[k] = t[k]
        /\ DOMAIN t = 1 .. Len(t) /\ DOMAIN Append(t, n) = 1 .. Len(t) + 1
        /\ ToSet(Append(t, n)) = ToSet(t) \cup {n}
    BY <2>1, AppendLines
  <2>3. QED BY <1>1, <2>2 DEF S, t
<1>4. \A k \in DOMAIN b.lines : b.lines[k] \in 1 .. n - 1
  BY <1>2
<1>5. Increasing(c.lines)
  <2>1. SUFFICES ASSUME NEW l \in DOMAIN c.lines, NEW m \in DOMAIN c.lines, l < m
                 PROVE  c.lines[l] < c.lines[m]
    BY DEF Increasing
  <2>0. Len(b.lines) \in Nat /\ l \in 1 .. Len(b.lines) + 1 /\ m \in 1 .. Len(b.lines) + 1
    BY <1>2, <1>3
  <2>2. l \in 1 .. Len(b.lines) /\ l \in DOMAIN b.lines /\ c.lines[l] = b.lines[l]
    <3>1. l \in 1 .. Len(b.lines)
      BY <2>0, <2>1
    <3>2. QED BY <1>3, <3>1
  <2>3. CASE m = Len(b.lines) + 1
    BY <1>3, <1>4, <2>2, <2>3
  <2>4. CASE m \in DOMAIN b.lines
    BY <1>3, <2>1, <2>2, <2>4 DEF Gathers, Increasing
  <2>5. QED BY <1>3, <2>0, <2>3, <2>4
<1>6. \A k \in 1 .. Len(c.blocks) : \A i \in ToSet(c.blocks[k].lines) :
         i <= n /\ \A j \in ToSet(c.lines) : i < j
  <2>1. SUFFICES ASSUME NEW k \in 1 .. Len(b.blocks), NEW i \in ToSet(b.blocks[k].lines)
                 PROVE  i <= n /\ \A j \in ToSet(b.lines) \cup {n} : i < j
    BY <1>1, <1>3
  <2>2. i <= n - 1 /\ \A j \in ToSet(b.lines) : i < j
    BY DEF Gathers
  <2>3. i \in Int
    <3>1. b.blocks[k].lines \in Seq(1 .. Len(document))
      BY DEF Gathers, AreBlocks, IsBlock, Blocks
    <3>2. QED BY <3>1 DEF ToSet
  <2>4. n \in Int /\ i <= n - 1
    BY <2>2
  <2>5. i <= n /\ i < n
    BY <2>3, <2>4
  <2>6. QED BY <2>2, <2>5
<1>7. \A i \in 1 .. n : document[i].kind # "blank" =>
         \/ i \in ToSet(c.lines)
         \/ \E k \in 1 .. Len(c.blocks) : i \in ToSet(c.blocks[k].lines)
  <2>1. \A i \in 1 .. n : i = n \/ i \in 1 .. n - 1
    OBVIOUS
  <2>2. QED BY <1>1, <1>3, <2>1 DEF Gathers
<1>8. \A i \in 1 .. n - 1 : OneBlock(document, i) =>
         \/ {i, i + 1} \subseteq ToSet(c.lines)
         \/ \E k \in 1 .. Len(c.blocks) : {i, i + 1} \subseteq ToSet(c.blocks[k].lines)
  <2>1. SUFFICES ASSUME NEW i \in 1 .. n - 1, OneBlock(document, i)
                 PROVE  \/ {i, i + 1} \subseteq ToSet(c.lines)
                        \/ \E k \in 1 .. Len(c.blocks) : {i, i + 1} \subseteq ToSet(c.blocks[k].lines)
    OBVIOUS
  <2>2. CASE i = n - 1
    <3>1. n > 1 /\ i + 1 = n /\ i \in ToSet(b.lines)
      BY <2>1, <2>2
    <3>2. QED BY <1>3, <3>1
  <2>3. CASE i # n - 1
    <3>1. i \in 1 .. n - 1 - 1
      BY <2>3
    <3>2. QED BY <1>1, <1>3, <2>1, <3>1 DEF Gathers
  <2>4. QED BY <2>2, <2>3
<1>9. c.kind \in Content \cup {"none"} /\ (c.kind = "none" <=> c.lines = <<>>)
  BY <1>1, <1>3 DEF Content
<1>10. \A i \in ToSet(c.lines) : IsContent(document, i)
  BY <1>3 DEF Gathers
<1>11. AreBlocks(document, c.blocks)
  BY <1>1 DEF Gathers
<1>12. c = [blocks |-> c.blocks, lines |-> c.lines, kind |-> c.kind, code |-> c.code]
  BY <1>1
<1>13. Gathers(document, n, c)
  BY <1>3, <1>5, <1>6, <1>7, <1>8, <1>9, <1>10, <1>11, <1>12 DEF Gathers
<1>14. QED BY <1>1, <1>3, <1>13 DEF c

\* A heading is a block of its own, after the buffer was flushed.
LEMMA HeadingGathers ==
  ASSUME NEW document \in Seq(Lines), NEW n \in 1 .. Len(document),
         NEW b, Gathers(document, n - 1, b), b.lines = <<>>, IsHeading(document, n)
  PROVE  LET c == [blocks |-> Append(b.blocks, Block("heading", <<n>>, document[n].level)),
                  lines |-> <<>>, kind |-> "none", code |-> FALSE]
         IN Gathers(document, n, c) /\ c.lines = <<>> /\ c.kind = "none" /\ c.code = FALSE
<1> DEFINE block == Block("heading", <<n>>, document[n].level)
           c == [blocks |-> Append(b.blocks, block), lines |-> <<>>, kind |-> "none", code |-> FALSE]
<1>1. /\ c = [blocks |-> c.blocks, lines |-> c.lines, kind |-> c.kind, code |-> c.code]
      /\ c.blocks = Append(b.blocks, block) /\ c.lines = <<>> /\ c.kind = "none" /\ c.code = FALSE
  OBVIOUS
<1> HIDE DEF c
<1>2. block.kind = "heading" /\ block.lines = <<n>> /\ block.level = document[n].level
  BY DEF Block
<1>3. IsBlock(document, block)
  <2>0. document[n] \in Lines
    OBVIOUS
  <2>1. document[n].level \in 0 .. 6
    BY <2>0 DEF Lines
  <2>2. <<n>> \in Seq(1 .. Len(document)) /\ Len(<<n>>) = 1 /\ <<n>>[1] = n /\ <<n>> # <<>>
    OBVIOUS
  <2>3. block \in Blocks(document)
    BY <2>1, <2>2 DEF Block, Blocks
  <2>4. Increasing(<<n>>)
    BY DEF Increasing
  <2>5. QED BY <1>2, <2>2, <2>3, <2>4 DEF IsBlock
<1>4. ToSet(block.lines) = {n}
  BY <1>2 DEF ToSet
<1>5. AreBlocks(document, b.blocks) /\ Len(b.blocks) \in Nat /\ b.blocks \in Seq(Blocks(document))
  BY DEF Gathers, AreBlocks
<1>6. \A k \in 1 .. Len(b.blocks) : \A i \in ToSet(b.blocks[k].lines) : i < n
  <2>1. SUFFICES ASSUME NEW k \in 1 .. Len(b.blocks), NEW i \in ToSet(b.blocks[k].lines)
                 PROVE  i < n
    OBVIOUS
  <2>2. i <= n - 1
    BY DEF Gathers
  <2>3. i \in Int
    <3>1. b.blocks[k].lines \in Seq(1 .. Len(document))
      BY DEF Gathers, AreBlocks, IsBlock, Blocks
    <3>2. QED BY <3>1 DEF ToSet
  <2>4. QED BY <2>2, <2>3
<1>7. AreBlocks(document, c.blocks)
  <2>1. \A k \in 1 .. Len(b.blocks) :
           \A i \in ToSet(b.blocks[k].lines), j \in ToSet(block.lines) : i < j
    BY <1>4, <1>6
  <2> HIDE DEF block
  <2>2. QED BY <1>1, <1>3, <1>5, <2>1, AppendBlock
<1>8. /\ Len(c.blocks) = Len(b.blocks) + 1 /\ c.blocks[Len(b.blocks) + 1] = block
      /\ \A k \in 1 .. Len(b.blocks) : c.blocks[k] = b.blocks[k]
  <2>1. block \in Blocks(document)
    BY <1>3 DEF IsBlock
  <2> HIDE DEF block
  <2>2. QED BY <1>1, <1>5, <2>1, AppendLines
<1> HIDE DEF block
<1>9. ToSet(b.lines) = {} /\ ToSet(c.lines) = {}
  BY <1>1 DEF ToSet
<1>10. \A k \in 1 .. Len(c.blocks) : \A i \in ToSet(c.blocks[k].lines) : i <= n
  <2>1. SUFFICES ASSUME NEW k \in 1 .. Len(c.blocks), NEW i \in ToSet(c.blocks[k].lines)
                 PROVE  i <= n
    OBVIOUS
  <2>2. CASE k = Len(b.blocks) + 1
    <3>1. c.blocks[k] = block
      BY <1>8, <2>2
    <3>2. i = n
      BY <1>4, <2>1, <3>1
    <3>3. QED BY <3>2
  <2>3. CASE k \in 1 .. Len(b.blocks)
    <3>1. i <= n - 1
      BY <1>8, <2>1, <2>3 DEF Gathers
    <3>2. i < n
      BY <1>6, <1>8, <2>1, <2>3
    <3>3. c.blocks[k].lines \in Seq(1 .. Len(document))
      BY <1>7 DEF AreBlocks, IsBlock, Blocks
    <3>4. i \in Int
      BY <3>3 DEF ToSet
    <3>5. QED BY <3>2, <3>4
  <2>4. QED BY <1>5, <1>8, <2>2, <2>3
<1>11. \A S : (\E k \in 1 .. Len(b.blocks) : S \subseteq ToSet(b.blocks[k].lines)) \/ S \subseteq {n}
          => \E k \in 1 .. Len(c.blocks) : S \subseteq ToSet(c.blocks[k].lines)
  <2>1. Len(b.blocks) + 1 \in 1 .. Len(c.blocks)
        /\ ToSet(c.blocks[Len(b.blocks) + 1].lines) = {n}
    BY <1>4, <1>5, <1>8
  <2>2. \A k \in 1 .. Len(b.blocks) :
           k \in 1 .. Len(c.blocks) /\ ToSet(c.blocks[k].lines) = ToSet(b.blocks[k].lines)
    BY <1>5, <1>8
  <2>3. QED BY <2>1, <2>2
<1>12. \A i \in 1 .. n : document[i].kind # "blank" =>
          \E k \in 1 .. Len(c.blocks) : i \in ToSet(c.blocks[k].lines)
  <2>1. SUFFICES ASSUME NEW i \in 1 .. n, document[i].kind # "blank"
                 PROVE  \E k \in 1 .. Len(c.blocks) : i \in ToSet(c.blocks[k].lines)
    OBVIOUS
  <2>2. i = n \/ i \in 1 .. n - 1
    OBVIOUS
  <2>3. \/ {i} \subseteq {n}
        \/ \E k \in 1 .. Len(b.blocks) : {i} \subseteq ToSet(b.blocks[k].lines)
    BY <1>9, <2>1, <2>2 DEF Gathers
  <2>4. \E k \in 1 .. Len(c.blocks) : {i} \subseteq ToSet(c.blocks[k].lines)
    BY <1>11, <2>3
  <2>5. QED BY <2>4
<1>13. \A i \in 1 .. n - 1 : OneBlock(document, i) =>
          \E k \in 1 .. Len(c.blocks) : {i, i + 1} \subseteq ToSet(c.blocks[k].lines)
  <2>1. SUFFICES ASSUME NEW i \in 1 .. n - 1, OneBlock(document, i)
                 PROVE  \E k \in 1 .. Len(c.blocks) : {i, i + 1} \subseteq ToSet(c.blocks[k].lines)
    OBVIOUS
  <2>2. i # n - 1
    <3>1. document[n].kind = "heading"
      BY DEF IsHeading
    <3>2. SUFFICES ASSUME i = n - 1 PROVE FALSE
      OBVIOUS
    <3>3. i + 1 = n
      BY <3>2
    <3>4. QED BY <2>1, <3>1, <3>3 DEF OneBlock
  <2>3. i \in 1 .. n - 1 - 1
    BY <2>2
  <2>4. ~ {i, i + 1} \subseteq ToSet(b.lines)
    BY <1>9
  <2>5. \E k \in 1 .. Len(b.blocks) : {i, i + 1} \subseteq ToSet(b.blocks[k].lines)
    BY <2>1, <2>3, <2>4 DEF Gathers
  <2>6. QED BY <1>11, <2>5
<1>14. c.lines \in Seq(1 .. n) /\ Increasing(c.lines)
  BY <1>1 DEF Increasing
<1>15. Gathers(document, n, c)
  BY <1>1, <1>7, <1>9, <1>10, <1>12, <1>13, <1>14 DEF Gathers
<1>16. QED BY <1>1, <1>15 DEF c, block

\* A line that is neither content nor a heading changes nothing.
LEMMA BlankGathers ==
  ASSUME NEW document \in Seq(Lines), NEW n \in 1 .. Len(document),
         NEW b, Gathers(document, n - 1, b), document[n].kind = "blank"
  PROVE  Gathers(document, n, b)
<1>1. b.lines \in Seq(1 .. n)
  <2>1. b.lines \in Seq(1 .. n - 1) /\ \A x \in 1 .. n - 1 : x \in 1 .. n
    BY DEF Gathers
  <2>2. QED BY <2>1
<1>2. \A k \in 1 .. Len(b.blocks) : \A i \in ToSet(b.blocks[k].lines) :
         i <= n /\ \A j \in ToSet(b.lines) : i < j
  <2>1. SUFFICES ASSUME NEW k \in 1 .. Len(b.blocks), NEW i \in ToSet(b.blocks[k].lines)
                 PROVE  i <= n /\ \A j \in ToSet(b.lines) : i < j
    OBVIOUS
  <2>2. i <= n - 1 /\ \A j \in ToSet(b.lines) : i < j
    BY DEF Gathers
  <2>3. i \in Int
    <3>1. b.blocks[k].lines \in Seq(1 .. Len(document))
      BY DEF Gathers, AreBlocks, IsBlock, Blocks
    <3>2. QED BY <3>1 DEF ToSet
  <2>4. QED BY <2>2, <2>3
<1>3. \A i \in 1 .. n : document[i].kind # "blank" =>
         \/ i \in ToSet(b.lines)
         \/ \E k \in 1 .. Len(b.blocks) : i \in ToSet(b.blocks[k].lines)
  <2>1. \A i \in 1 .. n : i = n \/ i \in 1 .. n - 1
    OBVIOUS
  <2>2. QED BY <2>1 DEF Gathers
<1>4. \A i \in 1 .. n - 1 : OneBlock(document, i) => i \in 1 .. n - 1 - 1
  <2>1. SUFFICES ASSUME NEW i \in 1 .. n - 1, OneBlock(document, i), i = n - 1 PROVE FALSE
    OBVIOUS
  <2>2. i + 1 = n
    BY <2>1
  <2>3. QED BY <2>1, <2>2 DEF OneBlock
<1>5. QED BY <1>1, <1>2, <1>3, <1>4 DEF Gathers

\* Entering or leaving a fence moves no line.
LEMMA FenceGathers ==
  ASSUME NEW document, NEW n, NEW b, Gathers(document, n, b), NEW code
  PROVE  /\ Gathers(document, n, Fenced(b, code))
         /\ Fenced(b, code).code = code /\ Fenced(b, code).kind = b.kind
BY DEF Fenced, Gathers

\* One turn of the loop over the lines.
LEMMA LineParsed ==
  ASSUME NEW document \in Seq(Lines), NEW n \in 1 .. Len(document),
         NEW b, Gathers(document, n - 1, b), Stands(document, n - 1, b)
  PROVE  /\ Gathers(document, n, ParseLine(document, b, n))
         /\ Stands(document, n, ParseLine(document, b, n))
<1> DEFINE line == document[n]
           kind == KindOf(b, line)
           c == ParseLine(document, b, n)
<1>1. line \in Lines /\ n - 1 \in 0 .. Len(document)
  OBVIOUS
<1>2. line.kind \in LineKinds
  BY <1>1 DEF Lines
<1>3. b.code \in BOOLEAN /\ (b.code <=> InFence(document, n))
  BY DEF Stands
<1>4. InFence(document, n + 1) <=> (InFence(document, n) <=> line.kind # "fence")
  BY FenceTurns
\* What belongs with the line before: that line is in the buffer.
<1>5. n > 1 /\ OneBlock(document, n - 1) =>
         /\ ~ InFence(document, n) /\ b.kind \in {"table", "list"} /\ n - 1 \in ToSet(b.lines)
         /\ kind = b.kind /\ line.kind \in {"table", "list", "indented"}
  <2>1. SUFFICES ASSUME n > 1, OneBlock(document, n - 1)
                 PROVE  /\ ~ InFence(document, n) /\ b.kind \in {"table", "list"}
                        /\ n - 1 \in ToSet(b.lines)
                        /\ kind = b.kind /\ line.kind \in {"table", "list", "indented"}
    OBVIOUS
  <2>2. /\ ~ InFence(document, n - 1) /\ n - 1 + 1 = n
        /\ document[n - 1].kind \in {"table", "list"}
        /\ \/ document[n - 1].kind = "table" /\ line.kind = "table"
           \/ document[n - 1].kind = "list" /\ line.kind \in {"list", "indented"}
    BY <2>1 DEF OneBlock
  <2>3. b.kind = document[n - 1].kind /\ n - 1 \in ToSet(b.lines)
    <3>1. n - 1 > 0
      BY <2>1
    <3>2. QED BY <2>2, <3>1 DEF Stands
  <2>4. ~ InFence(document, n)
    <3>1. n - 1 \in 1 .. Len(document)
      BY <2>1
    <3>2. InFence(document, n - 1 + 1)
             <=> (InFence(document, n - 1) <=> document[n - 1].kind # "fence")
      BY <3>1, FenceTurns
    <3>3. QED BY <2>2, <3>2
  <2>5. kind = b.kind
    BY <2>2, <2>3 DEF KindOf
  <2>6. QED BY <2>2, <2>3, <2>4, <2>5
<1>6. kind \in Content /\ (line.kind \in {"table", "list"} => kind = line.kind)
      <=> line.kind \notin {"blank", "heading", "fence"}
  BY <1>2 DEF KindOf, LineKinds, Content
<1>7. CASE line.kind = "fence" /\ b.code
  <2> DEFINE d == Buffer(b, "code", n)
             e == Flush(d)
  <2>1. c = Fenced(e, FALSE)
    BY <1>7 DEF ParseLine
  <2>2. IsContent(document, n)
    BY <1>7 DEF IsContent, IsHeading
  <2>3. Gathers(document, n, d)
    <3>1. "code" \in Content /\ (n > 1 /\ OneBlock(document, n - 1) => n - 1 \in ToSet(b.lines))
      BY <1>5 DEF Content
    <3>2. QED BY <2>2, <3>1, BufferGathers
  <2> HIDE DEF d
  <2>4. Gathers(document, n, e)
    BY <2>3, FlushGathers
  <2> HIDE DEF e
  <2> DEFINE code == FALSE
  <2> HIDE DEF code
  <2>5. Gathers(document, n, c) /\ c.code = FALSE
    <3> HIDE DEF c
    <3>1. c = Fenced(e, code)
      BY <2>1 DEF code
    <3>2. Gathers(document, n, c) /\ c.code = code /\ c.kind = e.kind
      BY <2>4, <3>1, FenceGathers
    <3>3. QED BY <2>4, <3>2 DEF code
  <2> HIDE DEF c
  <2>6. Stands(document, n, c)
    BY <1>3, <1>4, <1>7, <2>5 DEF Stands
  <2>7. QED BY <2>5, <2>6 DEF c
<1>8. CASE line.kind = "fence" /\ ~ b.code
  <2> DEFINE d == Flush(b)
             e == Buffer(d, "code", n)
  <2>1. c = Fenced(e, TRUE)
    BY <1>8 DEF ParseLine
  <2>2. IsContent(document, n)
    BY <1>8 DEF IsContent, IsHeading
  <2>3. Gathers(document, n - 1, d)
    BY <1>1, FlushGathers
  <2> HIDE DEF d
  <2>4. Gathers(document, n, e) /\ e.kind = "code"
    <3>1. "code" \in Content /\ ~ (n > 1 /\ OneBlock(document, n - 1))
      BY <1>5, <1>8 DEF Content
    <3>2. QED BY <2>2, <2>3, <3>1, BufferGathers
  <2> HIDE DEF e
  <2> DEFINE code == TRUE
  <2> HIDE DEF code
  <2>5. Gathers(document, n, c) /\ c.code = TRUE /\ c.kind = "code"
    <3> HIDE DEF c
    <3>1. c = Fenced(e, code)
      BY <2>1 DEF code
    <3>2. Gathers(document, n, c) /\ c.code = code /\ c.kind = e.kind
      <4>1. Gathers(document, n, e)
        BY <2>4
      <4>2. QED BY <3>1, <4>1, FenceGathers
    <3>3. QED BY <2>4, <3>2 DEF code
  <2> HIDE DEF c
  <2>6. Stands(document, n, c)
    BY <1>3, <1>4, <1>8, <2>5 DEF Stands
  <2>7. QED BY <2>5, <2>6 DEF c
<1>9. CASE line.kind = "blank" /\ b.code
  <2>1. c = b
    BY <1>9 DEF ParseLine
  <2>2. Gathers(document, n, b)
    BY <1>9, BlankGathers
  <2>3. Stands(document, n, b)
    BY <1>3, <1>4, <1>9 DEF Stands
  <2>4. QED BY <2>1, <2>2, <2>3
<1>10. CASE line.kind \notin {"blank", "fence"} /\ b.code
  <2>1. c = Buffer(b, "code", n)
    BY <1>10 DEF ParseLine
  <2>2. IsContent(document, n)
    BY <1>3, <1>10 DEF IsContent, IsHeading
  <2>3. "code" \in Content /\ ~ (n > 1 /\ OneBlock(document, n - 1))
    BY <1>3, <1>5, <1>10 DEF Content
  <2> HIDE DEF c
  <2>4. Gathers(document, n, c) /\ c.kind = "code" /\ c.code = b.code
    BY <2>1, <2>2, <2>3, BufferGathers
  <2>5. Stands(document, n, c)
    BY <1>3, <1>4, <1>10, <2>4 DEF Stands
  <2>6. QED BY <2>4, <2>5 DEF c
<1>11. CASE line.kind = "blank" /\ ~ b.code
  <2>1. c = Flush(b)
    BY <1>11 DEF ParseLine
  <2>2. Gathers(document, n, b)
    BY <1>11, BlankGathers
  <2> HIDE DEF c
  <2>3. Gathers(document, n, c) /\ c.code = b.code
    <3>1. n \in 0 .. Len(document)
      OBVIOUS
    <3>2. QED BY <2>1, <2>2, <3>1, FlushGathers
  <2>4. Stands(document, n, c)
    BY <1>3, <1>4, <1>11, <2>3 DEF Stands
  <2>5. QED BY <2>3, <2>4 DEF c
<1>12. CASE line.kind = "heading" /\ ~ b.code
  <2> DEFINE d == Flush(b)
  <2>1. c = [blocks |-> Append(d.blocks, Block("heading", <<n>>, document[n].level)),
             lines |-> <<>>, kind |-> "none", code |-> FALSE]
    BY <1>12 DEF ParseLine
  <2>2. Gathers(document, n - 1, d) /\ d.lines = <<>>
    BY <1>1, FlushGathers
  <2>3. IsHeading(document, n)
    BY <1>3, <1>12 DEF IsHeading
  <2> HIDE DEF d
  <2>4. Gathers(document, n, c) /\ c.code = FALSE
    <3> HIDE DEF c
    <3>1. QED BY <2>1, <2>2, <2>3, HeadingGathers
  <2> HIDE DEF c
  <2>5. Stands(document, n, c)
    BY <1>3, <1>4, <1>12, <2>4 DEF Stands
  <2>6. QED BY <2>4, <2>5 DEF c
<1>13. CASE line.kind \notin {"blank", "heading", "fence"} /\ ~ b.code
  <2> DEFINE d == IF b.kind # kind THEN Flush(b) ELSE b
  <2>1. c = Buffer(d, kind, n)
    BY <1>13 DEF ParseLine
  <2>2. Gathers(document, n - 1, d) /\ d.code = b.code
    BY <1>1, FlushGathers
  <2>3. n > 1 /\ OneBlock(document, n - 1) => n - 1 \in ToSet(d.lines)
    BY <1>5
  <2>4. IsContent(document, n)
    BY <1>13 DEF IsContent, IsHeading
  <2>5. kind \in Content /\ (line.kind \in {"table", "list"} => kind = line.kind)
    BY <1>6, <1>13
  <2> HIDE DEF c, d, kind
  <2>6. /\ Gathers(document, n, c) /\ c.code = d.code /\ c.kind = kind
        /\ n \in ToSet(c.lines)
    BY <2>1, <2>2, <2>3, <2>4, <2>5, BufferGathers
  <2>7. Stands(document, n, c)
    BY <1>3, <1>4, <1>13, <2>2, <2>5, <2>6 DEF Stands
  <2>8. QED BY <2>6, <2>7 DEF c
<1>14. QED BY <1>3, <1>7, <1>8, <1>9, <1>10, <1>11, <1>12, <1>13

\* The blocks of a document: in order, every line that is not blank in one,
\* headings by themselves, and what belongs together in one.
LEMMA BlocksOfDocument ==
  ASSUME NEW document \in Seq(Lines)
  PROVE  LET bs == split_blocks(document) IN
         /\ AreBlocks(document, bs)
         /\ \A i \in 1 .. Len(document) : document[i].kind # "blank" =>
               \E k \in 1 .. Len(bs) : i \in ToSet(bs[k].lines)
         /\ \A i \in 1 .. Len(document) - 1 : OneBlock(document, i) =>
               \E k \in 1 .. Len(bs) : {i, i + 1} \subseteq ToSet(bs[k].lines)
<1> DEFINE P == Parsed(document)
           all == Len(document)
           Good == {n \in 0 .. all : Gathers(document, n, P[n]) /\ Stands(document, n, P[n])}
<1>1. all \in Nat
  OBVIOUS
<1>2. 0 \in Good
  <2>1. P[0] = NoBuffer
    BY ParsedStep
  <2>2. /\ NoBuffer = [blocks |-> NoBuffer.blocks, lines |-> NoBuffer.lines,
                       kind |-> NoBuffer.kind, code |-> NoBuffer.code]
        /\ NoBuffer.blocks = <<>> /\ NoBuffer.lines = <<>>
        /\ NoBuffer.kind = "none" /\ NoBuffer.code = FALSE
    BY DEF NoBuffer
  <2>3. AreBlocks(document, <<>>) /\ Increasing(<<>>) /\ ToSet(<<>>) = {}
    BY DEF AreBlocks, Increasing, ToSet
  <2>4. Gathers(document, 0, NoBuffer)
    BY <2>2, <2>3 DEF Gathers
  <2>5. ~ InFence(document, 0 + 1)
    <3>1. {j \in 1 .. 0 + 1 - 1 : document[j].kind = "fence"} = {}
      OBVIOUS
    <3>2. Cardinality({}) = 0
      BY FS_EmptySet
    <3>3. QED BY <3>1, <3>2 DEF InFence
  <2>6. Stands(document, 0, NoBuffer)
    <3> DEFINE z == 0
               y == z + 1
    <3>1. ~ (z > 0) /\ ~ InFence(document, y)
      BY <2>5
    <3> HIDE DEF z, y
    <3>2. NoBuffer.code \in BOOLEAN /\ (NoBuffer.code <=> InFence(document, y))
      BY <2>2, <3>1
    <3>3. Stands(document, z, NoBuffer)
      BY <2>2, <3>1, <3>2 DEF Stands, y
    <3>4. QED BY <3>3 DEF z
  <2>7. QED BY <1>1, <2>1, <2>4, <2>6
<1>3. ASSUME NEW n \in 1 .. all, n - 1 \in Good
      PROVE  n \in Good
  <2>1. P[n] = ParseLine(document, P[n - 1], n)
    BY ParsedStep
  <2>2. Gathers(document, n - 1, P[n - 1]) /\ Stands(document, n - 1, P[n - 1])
    BY <1>3
  <2> HIDE DEF P
  <2>3. Gathers(document, n, P[n]) /\ Stands(document, n, P[n])
    BY <2>1, <2>2, LineParsed
  <2>4. QED BY <2>3
<1> HIDE DEF Good, all
<1>4. \A n \in 0 .. all : n \in Good
  BY <1>1, <1>2, <1>3, CountUp
<1>5. Gathers(document, Len(document), P[Len(document)]) /\ Len(document) \in 0 .. Len(document)
  BY <1>1, <1>4 DEF Good, all
<1> DEFINE b == Flush(P[Len(document)])
           bs == split_blocks(document)
<1>6. Gathers(document, Len(document), b) /\ b.lines = <<>>
  <2> HIDE DEF P
  <2>1. QED BY <1>5, FlushGathers
<1>7. bs = b.blocks
  BY DEF split_blocks
<1> HIDE DEF b, bs
<1>8. ToSet(b.lines) = {}
  BY <1>6 DEF ToSet
<1>9. /\ AreBlocks(document, bs)
      /\ \A i \in 1 .. Len(document) : document[i].kind # "blank" =>
            \E k \in 1 .. Len(bs) : i \in ToSet(bs[k].lines)
      /\ \A i \in 1 .. Len(document) - 1 : OneBlock(document, i) =>
            \E k \in 1 .. Len(bs) : {i, i + 1} \subseteq ToSet(bs[k].lines)
  BY <1>6, <1>7, <1>8 DEF Gathers
<1>10. QED BY <1>9 DEF bs

-----------------------------------------------------------------------------
(* Words (Block.word_count, Chunk.word_count)                              *)

Parts(document) == [line : 1 .. Len(document), from : Nat]

ChunkOf(document) ==
    [text : Seq(Parts(document)), blocks : Nat, sections : SUBSET (1 .. Len(document))]

\* The own lines of a chunk stand in their order.
InPlace(chunk) ==
    \A l, m \in OwnAt(chunk) : l < m => chunk.text[l].line < chunk.text[m].line

\* Words are counted line by line.
LEMMA WordsAdd ==
  ASSUME NEW document \in Seq(Lines), NEW S \in SUBSET (1 .. Len(document))
  PROVE  /\ IsFiniteSet(S) /\ WordsOf(document, S) \in Nat
         /\ \A T \in SUBSET S : WordsOf(document, T) <= WordsOf(document, S)
         /\ \A T \in SUBSET (1 .. Len(document)) : S \cap T = {} =>
               WordsOf(document, S \cup T) = WordsOf(document, S) + WordsOf(document, T)
<1> DEFINE words == [i \in DOMAIN document |-> document[i].words]
           all == 1 .. Len(document)
<1>1. \A i \in all : words[i] \in Nat
  <2>1. \A i \in all : i \in DOMAIN document /\ document[i] \in Lines
    OBVIOUS
  <2>2. QED BY <2>1 DEF Lines
<1>2. \A T : WordsOf(document, T) = Sum(words, T)
  BY DEF WordsOf, Sum
<1>3. \A T \in SUBSET all : IsFiniteSet(T)
  <2>1. IsFiniteSet(all)
    BY FS_Interval
  <2>2. QED BY <2>1, FS_Subset
<1> HIDE DEF words
<1>4. \A i \in S : words[i] \in Nat
  BY <1>1
<1>5. S \in SUBSET all /\ IsFiniteSet(S)
  BY <1>3
<1> HIDE DEF all
<1>6. ASSUME NEW T \in SUBSET S
      PROVE  Sum(words, T) \in Nat /\ Sum(words, S) \in Nat /\ Sum(words, T) <= Sum(words, S)
  BY <1>4, <1>5, SumOfFewer
<1>7. ASSUME NEW T \in SUBSET all, S \cap T = {}
      PROVE  Sum(words, S \cup T) = Sum(words, S) + Sum(words, T)
  <2>1. IsFiniteSet(T) /\ \A i \in S \cup T : words[i] \in Int
    BY <1>1, <1>3, <1>5
  <2>2. QED BY <1>5, <1>7, <2>1, SumUnion
<1>8. Sum(words, S) \in Nat
  <2>1. S \in SUBSET S
    OBVIOUS
  <2>2. QED BY <1>6, <2>1
<1>9. QED BY <1>2, <1>5, <1>6, <1>7, <1>8 DEF all

\* A chunk has at least the words of its own lines: the rest is carried, if
\* anything is.
LEMMA ChunkWords ==
  ASSUME NEW document \in Seq(Lines), NEW chunk \in ChunkOf(document), InPlace(chunk)
  PROVE  /\ WordCount(document, chunk) \in Nat
         /\ OwnLines(chunk) \in SUBSET (1 .. Len(document))
         /\ WordsOf(document, OwnLines(chunk)) <= WordCount(document, chunk)
         /\ OwnAt(chunk) = DOMAIN chunk.text =>
               WordsOf(document, OwnLines(chunk)) = WordCount(document, chunk)
<1> DEFINE text == chunk.text
           f == [i \in DOMAIN document |-> document[i].words]
           g == [m \in DOMAIN text |-> document[text[m].line].words
                                         + (IF text[m].from = 0 THEN 0 ELSE MarkerWords)]
           e == [m \in DOMAIN text |-> text[m].line]
           h == [m \in DOMAIN text |-> f[e[m]]]
           own == OwnAt(chunk)
           all == DOMAIN text
<1>1. text \in Seq(Parts(document)) /\ all = 1 .. Len(text) /\ Len(text) \in Nat
  BY DEF ChunkOf
<1>2. IsFiniteSet(all) /\ own \in SUBSET all
  BY <1>1, FS_Interval DEF OwnAt
<1>3. IsFiniteSet(own)
  BY <1>2, FS_Subset
<1>4. \A m \in all : /\ text[m].line \in 1 .. Len(document) /\ text[m].from \in Nat
                     /\ text[m].line \in DOMAIN document
                     /\ document[text[m].line].words \in Nat
  <2>1. \A m \in all : text[m] \in Parts(document)
    BY <1>1
  <2>2. \A i \in 1 .. Len(document) : i \in DOMAIN document /\ document[i] \in Lines
    OBVIOUS
  <2>3. QED BY <2>1, <2>2 DEF Parts, Lines
<1>5. \A m \in all : g[m] \in Nat
  BY <1>4, ChunkerConstants
<1>6. \A m \in own : g[m] = f[e[m]] /\ f[e[m]] \in Int /\ e[m] = text[m].line
  BY <1>2, <1>4 DEF OwnAt
<1>7. \A l, m \in own : e[l] = e[m] => l = m
  <2>1. SUFFICES ASSUME NEW l \in own, NEW m \in own, l # m
                 PROVE  e[l] # e[m]
    OBVIOUS
  <2>2. l \in Nat /\ m \in Nat
    BY <1>1, <1>2
  <2>3. l < m \/ m < l
    BY <2>1, <2>2
  <2>4. e[l] < e[m] \/ e[m] < e[l]
    BY <1>6, <2>3 DEF InPlace
  <2>5. e[l] \in Nat /\ e[m] \in Nat
    BY <1>2, <1>4, <1>6
  <2>6. QED BY <2>4, <2>5
<1>8. OwnLines(chunk) = {e[m] : m \in own}
  <2>1. \A m \in OwnAt(chunk) : e[m] = chunk.text[m].line
    BY <1>6
  <2> HIDE DEF e
  <2>2. QED BY <2>1 DEF OwnLines
<1>9. WordCount(document, chunk) = Sum(g, all)
  BY DEF WordCount, SumFunction, Sum
<1>10. WordsOf(document, OwnLines(chunk)) = Sum(f, OwnLines(chunk))
  BY DEF WordsOf, Sum
<1>11. OwnLines(chunk) \in SUBSET (1 .. Len(document))
  BY <1>2, <1>4 DEF OwnLines
<1> HIDE DEF text, f, g, e, own, all
<1>12. Sum(g, own) = Sum(f, {e[m] : m \in own})
  <2>1. \A m \in own : g[m] = f[e[m]] /\ f[e[m]] \in Int
    BY <1>6
  <2>2. QED BY <1>3, <1>7, <2>1, SumRenamed
<1>13. Sum(g, all) \in Nat /\ Sum(g, own) \in Nat /\ Sum(g, own) <= Sum(g, all)
  BY <1>2, <1>5, SumOfFewer
<1>14. WordsOf(document, OwnLines(chunk)) = Sum(g, own) /\ WordCount(document, chunk) = Sum(g, all)
  BY <1>8, <1>9, <1>10, <1>12
<1>15. own = all => WordsOf(document, OwnLines(chunk)) = WordCount(document, chunk)
  BY <1>14
<1>16. QED BY <1>11, <1>13, <1>14, <1>15 DEF own, all, text

-----------------------------------------------------------------------------
(* What is gathered for a chunk, and what emit() makes of it               *)

\* What one sequence after another holds.
LEMMA ConcatLines ==
  ASSUME NEW S, NEW s \in Seq(S), NEW t \in Seq(S)
  PROVE  /\ s \o t \in Seq(S) /\ Len(s) \in Nat /\ Len(t) \in Nat
         /\ Len(s \o t) = Len(s) + Len(t) /\ DOMAIN (s \o t) = 1 .. Len(s) + Len(t)
         /\ DOMAIN s = 1 .. Len(s) /\ DOMAIN t = 1 .. Len(t)
         /\ \A k \in 1 .. Len(s) : (s \o t)[k] = s[k]
         /\ \A k \in 1 .. Len(t) : (s \o t)[Len(s) + k] = t[k]
         /\ \A k \in 1 .. Len(s) + Len(t) :
               k \in 1 .. Len(s) \/ (k - Len(s) \in 1 .. Len(t) /\ (s \o t)[k] = t[k - Len(s)])
         /\ ToSet(s \o t) = ToSet(s) \cup ToSet(t)
<1> DEFINE u == s \o t
           a == Len(s)
           b == Len(t)
<1>1. /\ u \in Seq(S) /\ a \in Nat /\ b \in Nat /\ Len(u) = a + b
      /\ \A k \in 1 .. a + b : u[k] = IF k <= a THEN s[k] ELSE t[k - a]
  OBVIOUS
<1>2. DOMAIN u = 1 .. a + b /\ DOMAIN s = 1 .. a /\ DOMAIN t = 1 .. b
  BY <1>1
<1> HIDE DEF u, a, b
<1>3. \A k \in 1 .. a : u[k] = s[k]
  BY <1>1
<1>4. \A k \in 1 .. b : a + k \in 1 .. a + b /\ u[a + k] = t[k]
  <2>1. SUFFICES ASSUME NEW k \in 1 .. b PROVE a + k \in 1 .. a + b /\ u[a + k] = t[k]
    OBVIOUS
  <2>2. a + k \in 1 .. a + b /\ ~ (a + k <= a) /\ a + k - a = k
    BY <1>1
  <2>3. QED BY <1>1, <2>2
<1>5. \A k \in 1 .. a + b : k \in 1 .. a \/ (k - a \in 1 .. b /\ u[k] = t[k - a])
  <2>1. SUFFICES ASSUME NEW k \in 1 .. a + b, k \notin 1 .. a
                 PROVE  k - a \in 1 .. b /\ u[k] = t[k - a]
    OBVIOUS
  <2>2. k - a \in 1 .. b /\ ~ (k <= a)
    BY <1>1, <2>1
  <2>3. QED BY <1>1, <2>2
<1>6. ToSet(u) = ToSet(s) \cup ToSet(t)
  <2>1. ToSet(u) = {u[k] : k \in 1 .. a + b} /\ ToSet(s) = {s[k] : k \in 1 .. a}
        /\ ToSet(t) = {t[k] : k \in 1 .. b}
    BY <1>2 DEF ToSet
  <2>2. \A k \in 1 .. a : k \in 1 .. a + b
    BY <1>1
  <2>3. QED BY <1>3, <1>4, <1>5, <2>1, <2>2
<1>7. QED BY <1>1, <1>2, <1>3, <1>4, <1>5, <1>6 DEF u, a, b

\* The lines gathered for a chunk, with their words and their last sentence.
Gathering(document, p) ==
    /\ p \in [lines : Seq(1 .. Len(document)), blocks : Nat, words : Nat, sentence : Nat]
    /\ p.blocks = 0 <=> p.lines = <<>>
    /\ p.blocks = 0 => p.words = 0 /\ p.sentence = 0
    /\ p.words = WordsOf(document, ToSet(p.lines))
    /\ p.sentence # 0 => p.sentence \in ToSet(p.lines)
    /\ Increasing(p.lines)
    /\ p.words > MaxWords => p.blocks = 1

Carries(document) == [line : Nat, from : Nat, sections : SUBSET (1 .. Len(document))]

LEMMA NothingGathered ==
  ASSUME NEW document \in Seq(Lines)
  PROVE  /\ Gathering(document, NoBlocks) /\ NoBlocks.blocks = 0 /\ NoBlocks.lines = <<>>
         /\ NoBlocks.words = 0 /\ ToSet(NoBlocks.lines) = {}
<1>1. /\ NoBlocks \in [lines : Seq(1 .. Len(document)), blocks : Nat, words : Nat, sentence : Nat]
      /\ NoBlocks.blocks = 0 /\ NoBlocks.lines = <<>> /\ NoBlocks.words = 0
      /\ NoBlocks.sentence = 0
  BY DEF NoBlocks
<1>2. ToSet(NoBlocks.lines) = {} /\ Increasing(NoBlocks.lines)
  BY <1>1 DEF ToSet, Increasing
<1>3. WordsOf(document, {}) = 0
  <2> DEFINE words == [i \in DOMAIN document |-> document[i].words]
  <2>1. WordsOf(document, {}) = Sum(words, {})
    BY DEF WordsOf, Sum
  <2>2. IsFiniteSet({})
    BY FS_EmptySet
  <2> HIDE DEF words
  <2>3. Sum(words, {}) = 0
    BY <2>2, SumStep
  <2>4. QED BY <2>1, <2>3
<1>4. ~ (NoBlocks.words > MaxWords)
  BY <1>1, ChunkerConstants
<1>5. QED BY <1>1, <1>2, <1>3, <1>4 DEF Gathering

\* A block joins what is gathered.
LEMMA JoinGathers ==
  ASSUME NEW document \in Seq(Lines), NEW p, Gathering(document, p),
         NEW block, IsBlock(document, block),
         \A i \in ToSet(p.lines), j \in ToSet(block.lines) : i < j,
         p.blocks > 0 => p.words + WordsOf(document, ToSet(block.lines)) <= MaxWords
  PROVE  LET q == Join(document, p, block) IN
         /\ Gathering(document, q) /\ q.blocks > 0
         /\ ToSet(q.lines) = ToSet(p.lines) \cup ToSet(block.lines)
         /\ ToSet(block.lines) # {}
         /\ p.blocks = 0 => q.words = WordsOf(document, ToSet(block.lines))
<1> DEFINE q == Join(document, p, block)
           all == 1 .. Len(document)
           P == ToSet(p.lines)
           B == ToSet(block.lines)
<1>1. /\ p.lines \in Seq(all) /\ p.blocks \in Nat /\ p.words \in Nat /\ p.sentence \in Nat
      /\ block.lines \in Seq(all) /\ block.lines # <<>>
  BY DEF Gathering, IsBlock, Blocks
<1>2. /\ q.lines = p.lines \o block.lines /\ q.blocks = p.blocks + 1
      /\ q.words = p.words + WordsOf(document, B)
      /\ q.sentence = IF block.kind = "paragraph" THEN Last(block.lines) ELSE p.sentence
      /\ q = [lines |-> q.lines, blocks |-> q.blocks, words |-> q.words, sentence |-> q.sentence]
  BY DEF Join
<1> DEFINE s == p.lines
           t == block.lines
<1>3. s \in Seq(all) /\ t \in Seq(all)
  BY <1>1
<1>4. /\ s \o t \in Seq(all) /\ Len(s) \in Nat /\ Len(t) \in Nat
      /\ Len(s \o t) = Len(s) + Len(t) /\ DOMAIN (s \o t) = 1 .. Len(s) + Len(t)
      /\ DOMAIN s = 1 .. Len(s) /\ DOMAIN t = 1 .. Len(t)
      /\ \A k \in 1 .. Len(s) : (s \o t)[k] = s[k]
      /\ \A k \in 1 .. Len(s) + Len(t) :
            k \in 1 .. Len(s) \/ (k - Len(s) \in 1 .. Len(t) /\ (s \o t)[k] = t[k - Len(s)])
      /\ ToSet(s \o t) = ToSet(s) \cup ToSet(t)
  <2> HIDE DEF s, t, all
  <2>1. QED BY <1>3, ConcatLines
<1>5. Len(t) > 0 /\ Last(t) \in ToSet(t) /\ ToSet(t) # {} /\ Last(t) \in Nat
  <2>1. Len(t) > 0
    BY <1>1, <1>3
  <2>2. Len(t) \in DOMAIN t
    BY <1>4, <2>1
  <2>3. Last(t) = t[Len(t)] /\ t[Len(t)] \in ToSet(t)
    BY <2>2 DEF Last, ToSet
  <2>4. t[Len(t)] \in all
    BY <1>3, <2>2
  <2>5. QED BY <2>1, <2>3, <2>4
<1>6. P \in SUBSET all /\ B \in SUBSET all
  BY <1>3 DEF ToSet
<1>7. P \cap B = {}
  <2>1. \A i \in P : i \in Nat
    BY <1>6
  <2>2. QED BY <2>1
<1>8. WordsOf(document, P \cup B) = WordsOf(document, P) + WordsOf(document, B)
      /\ WordsOf(document, B) \in Nat
  BY <1>6, <1>7, WordsAdd
<1>9. ToSet(q.lines) = P \cup B
  BY <1>2, <1>4
<1>10. q.words = WordsOf(document, ToSet(q.lines)) /\ q.words \in Nat
  BY <1>1, <1>2, <1>8, <1>9 DEF Gathering
<1>11. q.lines \in Seq(all) /\ q.lines # <<>> /\ q.blocks \in Nat /\ q.blocks > 0
  <2>0. q.lines = s \o t
    BY <1>2
  <2> HIDE DEF q, s, t
  <2>1. Len(q.lines) > 0
    BY <2>0, <1>4, <1>5
  <2>2. q.lines # <<>>
    BY <2>1
  <2>3. q.lines \in Seq(all)
    BY <2>0, <1>4
  <2>4. QED BY <1>1, <1>2, <2>2, <2>3
<1>12. q.sentence \in Nat /\ (q.sentence # 0 => q.sentence \in ToSet(q.lines))
  BY <1>1, <1>2, <1>5, <1>9 DEF Gathering
<1>13. Increasing(q.lines)
  <2>1. SUFFICES ASSUME NEW l \in 1 .. Len(s) + Len(t), NEW m \in 1 .. Len(s) + Len(t), l < m
                 PROVE  (s \o t)[l] < (s \o t)[m]
    BY <1>2, <1>4 DEF Increasing
  <2>2. CASE m \in 1 .. Len(s)
    <3>1. l \in 1 .. Len(s)
      BY <1>4, <2>1, <2>2
    <3>2. s[l] < s[m]
      BY <1>4, <2>1, <2>2, <3>1 DEF Gathering, Increasing
    <3>3. QED BY <1>4, <2>2, <3>1, <3>2
  <2>3. CASE l \notin 1 .. Len(s)
    <3>1. m \notin 1 .. Len(s)
      BY <1>4, <2>1, <2>3
    <3>2. /\ l - Len(s) \in 1 .. Len(t) /\ m - Len(s) \in 1 .. Len(t)
          /\ (s \o t)[l] = t[l - Len(s)] /\ (s \o t)[m] = t[m - Len(s)]
      BY <1>4, <2>1, <2>3, <3>1
    <3>3. l - Len(s) < m - Len(s)
      BY <1>4, <2>1
    <3>4. t[l - Len(s)] < t[m - Len(s)]
      BY <1>4, <3>2, <3>3 DEF IsBlock, Increasing
    <3>5. QED BY <3>2, <3>4
  <2>4. CASE l \in 1 .. Len(s) /\ m \notin 1 .. Len(s)
    <3>1. (s \o t)[l] = s[l] /\ m - Len(s) \in 1 .. Len(t) /\ (s \o t)[m] = t[m - Len(s)]
      BY <1>4, <2>1, <2>4
    <3>2. s[l] \in P /\ t[m - Len(s)] \in B
      BY <1>4, <2>4, <3>1 DEF ToSet
    <3>3. QED BY <3>1, <3>2
  <2>5. QED BY <2>2, <2>3, <2>4
<1>14. q.words > MaxWords => q.blocks = 1
  <2>1. p.blocks > 0 => ~ (q.words > MaxWords)
    BY <1>1, <1>2, <1>8, ChunkerConstants
  <2>2. p.blocks = 0 => q.blocks = 1
    BY <1>2
  <2>3. QED BY <1>1, <2>1, <2>2
<1>15. p.blocks = 0 => q.words = WordsOf(document, B)
  BY <1>2, <1>8 DEF Gathering
<1>16. q \in [lines : Seq(all), blocks : Nat, words : Nat, sentence : Nat]
  BY <1>2, <1>10, <1>11, <1>12
<1> HIDE DEF q
<1>17. Gathering(document, q)
  <2>1. ~ (q.blocks = 0)
    BY <1>11
  <2>2. QED BY <1>10, <1>11, <1>12, <1>13, <1>14, <1>16, <2>1 DEF Gathering
<1>18. QED BY <1>5, <1>9, <1>11, <1>15, <1>17 DEF q

\* The chunk that emit() appends: the lines gathered, in place, after at most
\* one copy; and the sentence it hands on.
Appended(document, before, p, labels, carrying, emitted) ==
    LET new == emitted.chunks[Len(before) + 1] IN
    /\ emitted.chunks \in Seq(ChunkOf(document)) /\ Len(emitted.chunks) = Len(before) + 1
    /\ \A n \in 1 .. Len(before) : emitted.chunks[n] = before[n]
    /\ new \in ChunkOf(document) /\ InPlace(new) /\ OwnLines(new) = ToSet(p.lines)
    /\ new.blocks = p.blocks /\ new.sections = labels
    /\ OwnAt(new) = DOMAIN new.text \/ OpensWithACopy(new)
    /\ \A m \in DOMAIN new.text : new.text[m].from # 0 =>
          /\ carrying.line # 0
          /\ new.text[m].line = carrying.line /\ new.text[m].from = carrying.from
    /\ emitted.carry \in Carries(document)
    /\ emitted.carry.line # 0 => /\ emitted.carry.line \in ToSet(p.lines)
                                 /\ emitted.carry.from = Len(before) + 1

LEMMA EmittedChunk ==
  ASSUME NEW document \in Seq(Lines), NEW p, Gathering(document, p), p.blocks # 0,
         NEW labels \in SUBSET (1 .. Len(document)),
         NEW before \in Seq(ChunkOf(document)),
         NEW carrying \in Carries(document),
         carrying.line # 0 => carrying.from # 0 /\ carrying.line \in 1 .. Len(document)
  PROVE  Appended(document, before, p, labels, carrying, Emitted(before, p, labels, carrying))
<1> DEFINE all == 1 .. Len(document)
           kept == Carried(carrying, labels)
           s == IF kept.line = 0 THEN <<>> ELSE <<[line |-> kept.line, from |-> kept.from]>>
           t == [n \in DOMAIN p.lines |-> [line |-> p.lines[n], from |-> 0]]
           c == [text |-> s \o t, blocks |-> p.blocks, sections |-> labels]
           hand == IF p.sentence = 0 \/ OverlapSentences = 0 THEN NoCarry
                   ELSE [line |-> p.sentence, from |-> Ordinal(before), sections |-> labels]
           e == Emitted(before, p, labels, carrying)
           part == Parts(document)
           chunk == ChunkOf(document)
<1>1. e.chunks = Append(before, c) /\ e.carry = hand
  BY DEF Emitted
<1>2. /\ p.lines \in Seq(all) /\ p.blocks \in Nat /\ p.sentence \in Nat
      /\ DOMAIN p.lines = 1 .. Len(p.lines) /\ Len(p.lines) \in Nat
      /\ \A n \in DOMAIN p.lines : p.lines[n] \in all
  BY DEF Gathering
<1>3. /\ carrying.line \in Nat /\ carrying.from \in Nat
      /\ NoCarry.line = 0 /\ (kept = carrying \/ kept = NoCarry)
  BY DEF Carried, NoCarry, Carries
<1>4. kept.line # 0 =>
         /\ carrying.line # 0 /\ kept.line = carrying.line /\ kept.from = carrying.from
         /\ kept.line \in all /\ kept.from \in Nat \ {0}
  BY <1>3
<1> HIDE DEF kept
<1>5. s \in Seq(part)
  <2>1. CASE kept.line = 0
    BY <2>1
  <2>2. CASE kept.line # 0
    <3>1. [line |-> kept.line, from |-> kept.from] \in part
      BY <1>4, <2>2 DEF Parts
    <3> HIDE DEF part
    <3>2. QED BY <2>2, <3>1
  <2>3. QED BY <2>1, <2>2
<1>6. \A m \in DOMAIN s :
         s[m].from # 0 /\ carrying.line # 0 /\ s[m].line = carrying.line /\ s[m].from = carrying.from
  <2>1. CASE kept.line = 0
    BY <2>1
  <2>2. CASE kept.line # 0
    <3>1. s = <<[line |-> kept.line, from |-> kept.from]>>
      BY <2>2
    <3>2. \A m \in DOMAIN s : s[m] = [line |-> kept.line, from |-> kept.from]
      BY <3>1
    <3>3. QED BY <1>3, <1>4, <2>2, <3>2
  <2>3. QED BY <2>1, <2>2
<1>7. t \in Seq(part) /\ Len(t) = Len(p.lines)
      /\ \A n \in DOMAIN p.lines : t[n].line = p.lines[n] /\ t[n].from = 0
  <2>1. \A n \in 1 .. Len(p.lines) : [line |-> p.lines[n], from |-> 0] \in part
    BY <1>2 DEF Parts
  <2>2. t = [n \in 1 .. Len(p.lines) |-> [line |-> p.lines[n], from |-> 0]]
    BY <1>2
  <2>3. t \in [1 .. Len(p.lines) -> part]
    BY <2>1, <2>2
  <2>4. t \in Seq(part) /\ Len(t) = Len(p.lines)
    <3> DEFINE n == Len(p.lines)
    <3>1. n \in Nat /\ t \in [1 .. n -> part]
      BY <1>2, <2>3
    <3> HIDE DEF t, part, n
    <3>2. DOMAIN t = 1 .. n /\ t \in Seq(part)
      BY <3>1
    <3>3. Len(t) = n
      BY <3>1, <3>2, LenProperties
    <3>4. QED BY <3>2, <3>3 DEF n
  <2>5. \A n \in DOMAIN p.lines : t[n].line = p.lines[n] /\ t[n].from = 0
    OBVIOUS
  <2> HIDE DEF t
  <2>6. QED BY <2>4, <2>5
<1> DEFINE u == s \o t
           a == Len(s)
           b == Len(t)
<1>8. /\ u \in Seq(part) /\ a \in Nat /\ b \in Nat /\ DOMAIN u = 1 .. a + b
      /\ DOMAIN s = 1 .. a /\ DOMAIN t = 1 .. b
      /\ \A k \in 1 .. a : u[k] = s[k]
      /\ \A k \in 1 .. b : u[a + k] = t[k]
      /\ \A k \in 1 .. a + b : k \in 1 .. a \/ (k - a \in 1 .. b /\ u[k] = t[k - a])
  <2> HIDE DEF s, t, part
  <2>1. s \in Seq(part) /\ t \in Seq(part)
    BY <1>5, <1>7
  <2>2. QED BY <2>1, ConcatLines
<1>9. b = Len(p.lines) /\ DOMAIN p.lines = 1 .. b
  BY <1>2, <1>7
<1>10. c.text = u /\ c.blocks = p.blocks /\ c.sections = labels
  OBVIOUS
<1>11. c \in chunk
  <2> HIDE DEF s, t
  <2>1. QED BY <1>2, <1>8 DEF ChunkOf
<1> HIDE DEF c, u, s, t, a, b
\* The own lines are those after the copy.
<1>12. \A k \in DOMAIN u : u[k].from = 0 =>
          k \notin 1 .. a /\ k - a \in 1 .. b /\ u[k].line = p.lines[k - a]
  <2>1. SUFFICES ASSUME NEW k \in 1 .. a + b, u[k].from = 0
                 PROVE  k \notin 1 .. a /\ k - a \in 1 .. b /\ u[k].line = p.lines[k - a]
    BY <1>8
  <2>2. k \notin 1 .. a
    BY <1>6, <1>8, <2>1
  <2>3. k - a \in 1 .. b /\ u[k] = t[k - a]
    BY <1>8, <2>2
  <2>4. QED BY <1>7, <1>9, <2>2, <2>3
<1>13. \A n \in 1 .. b : a + n \in DOMAIN u /\ u[a + n].from = 0 /\ u[a + n].line = p.lines[n]
  <2>1. SUFFICES ASSUME NEW n \in 1 .. b
                 PROVE  a + n \in DOMAIN u /\ u[a + n].from = 0 /\ u[a + n].line = p.lines[n]
    OBVIOUS
  <2>2. a + n \in 1 .. a + b
    BY <1>8
  <2>3. u[a + n] = t[n]
    BY <1>8
  <2>4. QED BY <1>7, <1>8, <1>9, <2>2, <2>3
<1>14. OwnAt(c) = {k \in DOMAIN u : u[k].from = 0}
       /\ OwnLines(c) = {u[k].line : k \in {j \in DOMAIN u : u[j].from = 0}}
  BY <1>10 DEF OwnAt, OwnLines
<1>15. OwnLines(c) = ToSet(p.lines)
  <2>1. ToSet(p.lines) = {p.lines[n] : n \in 1 .. b}
    BY <1>9 DEF ToSet
  <2>2. \A k \in {j \in DOMAIN u : u[j].from = 0} : \E n \in 1 .. b : u[k].line = p.lines[n]
    BY <1>12
  <2>3. \A n \in 1 .. b : \E k \in {j \in DOMAIN u : u[j].from = 0} : u[k].line = p.lines[n]
    BY <1>13
  <2> DEFINE own == {j \in DOMAIN u : u[j].from = 0}
             read == {p.lines[n] : n \in 1 .. b}
  <2>4. OwnLines(c) = {u[k].line : k \in own} /\ ToSet(p.lines) = read
    BY <1>14, <2>1
  <2>5. (\A k \in own : \E n \in 1 .. b : u[k].line = p.lines[n])
        /\ (\A n \in 1 .. b : \E k \in own : u[k].line = p.lines[n])
    BY <2>2, <2>3
  <2> HIDE DEF own
  <2>6. {u[k].line : k \in own} = read
    BY <2>5
  <2>7. QED BY <2>4, <2>6
<1>16. InPlace(c)
  <2>1. SUFFICES ASSUME NEW l \in DOMAIN u, NEW m \in DOMAIN u,
                        u[l].from = 0, u[m].from = 0, l < m
                 PROVE  u[l].line < u[m].line
    BY <1>10, <1>14 DEF InPlace
  <2>2. /\ l - a \in 1 .. b /\ u[l].line = p.lines[l - a]
        /\ m - a \in 1 .. b /\ u[m].line = p.lines[m - a]
    BY <1>12, <2>1
  <2>3. l - a < m - a
    BY <1>8, <2>1
  <2>4. p.lines[l - a] < p.lines[m - a]
    BY <1>9, <2>2, <2>3 DEF Gathering, Increasing
  <2>5. QED BY <2>2, <2>4
<1>17. \A m \in DOMAIN c.text : c.text[m].from # 0 =>
          /\ carrying.line # 0
          /\ c.text[m].line = carrying.line /\ c.text[m].from = carrying.from
  <2>1. SUFFICES ASSUME NEW m \in DOMAIN u, u[m].from # 0
                 PROVE  carrying.line # 0 /\ u[m].line = carrying.line /\ u[m].from = carrying.from
    BY <1>10
  <2>2. m \in 1 .. a
    <3>1. SUFFICES ASSUME m \notin 1 .. a PROVE FALSE
      OBVIOUS
    <3>2. m - a \in 1 .. b /\ u[m] = t[m - a]
      BY <1>8, <2>1, <3>1
    <3>3. QED BY <1>7, <1>9, <2>1, <3>2
  <2>3. QED BY <1>6, <1>8, <2>2
<1>18. hand \in Carries(document)
       /\ (hand.line # 0 => hand.line \in ToSet(p.lines) /\ hand.from = Len(before) + 1)
  <2>0. Len(before) \in Nat
    OBVIOUS
  <2>1. CASE p.sentence = 0 \/ OverlapSentences = 0
    BY <2>1 DEF NoCarry, Carries
  <2>2. CASE ~ (p.sentence = 0 \/ OverlapSentences = 0)
    <3>1. hand = [line |-> p.sentence, from |-> Len(before) + 1, sections |-> labels]
      BY <2>2 DEF Ordinal
    <3>2. p.sentence \in ToSet(p.lines)
      BY <2>2 DEF Gathering
    <3> HIDE DEF hand
    <3>3. QED BY <1>2, <2>0, <3>1, <3>2 DEF Carries
  <2>3. QED BY <2>1, <2>2
<1> HIDE DEF hand, chunk, e
<1>19. before \in Seq(chunk)
  BY DEF chunk
<1>20. OwnAt(c) = DOMAIN c.text \/ OpensWithACopy(c)
  <2>1. OwnAt(c) = {k \in 1 .. a + b : k \notin 1 .. a}
    <3>1. \A k \in 1 .. a + b : u[k].from = 0 <=> k \notin 1 .. a
      <4>1. \A k \in 1 .. a + b : u[k].from = 0 => k \notin 1 .. a
        BY <1>8, <1>12
      <4>2. ASSUME NEW k \in 1 .. a + b, k \notin 1 .. a PROVE u[k].from = 0
        <5>1. k - a \in 1 .. b /\ u[k] = t[k - a]
          BY <1>8, <4>2
        <5>2. t[k - a].from = 0
          BY <1>7, <1>9, <5>1
        <5>3. QED BY <5>1, <5>2
      <4>3. QED BY <4>1, <4>2
    <3>2. QED BY <1>8, <1>14, <3>1
  <2>2. Len(c.text) = a + b /\ DOMAIN c.text = 1 .. a + b
    BY <1>8, <1>10
  <2>3. a = 0 \/ a = 1
    BY DEF a, s
  <2>4. CASE a = 0
    BY <1>8, <2>1, <2>2, <2>4
  <2>5. CASE a = 1
    <3>1. {k \in 1 .. a + b : k \notin 1 .. a} = 2 .. a + b
      BY <1>8, <2>5
    <3>2. QED BY <2>1, <2>2, <3>1 DEF OpensWithACopy
  <2>6. QED BY <2>3, <2>4, <2>5
<1>21. /\ Append(before, c) \in Seq(chunk) /\ Len(Append(before, c)) = Len(before) + 1
       /\ Append(before, c)[Len(before) + 1] = c
       /\ \A n \in 1 .. Len(before) : Append(before, c)[n] = before[n]
  BY <1>11, <1>19, AppendLines
<1>22. /\ e.chunks \in Seq(chunk) /\ Len(e.chunks) = Len(before) + 1
       /\ e.chunks[Len(before) + 1] = c
       /\ \A n \in 1 .. Len(before) : e.chunks[n] = before[n]
  BY <1>1, <1>21
<1> HIDE DEF c
<1>23. Appended(document, before, p, labels, carrying, e)
  BY <1>1, <1>10, <1>11, <1>15, <1>16, <1>17, <1>18, <1>22, <1>20 DEF Appended, chunk
<1>24. QED BY <1>23 DEF e

-----------------------------------------------------------------------------
(* The loop over the blocks (chunk_document)                               *)

\* After k blocks, in chunks or gathered: every block of content, whole and
\* in its place, and nothing else.
Filing(document, bs, k, cs, p) ==
    /\ cs \in Seq(ChunkOf(document)) /\ Gathering(document, p)
    /\ \A n \in 1 .. Len(cs) : InPlace(cs[n])
    /\ \A m \in 1 .. k : bs[m].kind # "heading" =>
          \/ ToSet(bs[m].lines) \subseteq ToSet(p.lines)
          \/ \E n \in 1 .. Len(cs) : ToSet(bs[m].lines) \subseteq OwnLines(cs[n])
    /\ \A i \in ToSet(p.lines) :
          \E m \in 1 .. k : bs[m].kind # "heading" /\ i \in ToSet(bs[m].lines)
    /\ \A n \in 1 .. Len(cs) : \A i \in OwnLines(cs[n]) :
          \E m \in 1 .. k : bs[m].kind # "heading" /\ i \in ToSet(bs[m].lines)
    /\ \A m, n \in 1 .. Len(cs) : m < n =>
          \A i \in OwnLines(cs[m]), j \in OwnLines(cs[n]) : i < j
    /\ \A n \in 1 .. Len(cs) : \A i \in OwnLines(cs[n]), j \in ToSet(p.lines) : i < j

\* Copies are of the chunk they name, and the sentence carried of the last.
CopiesHold(cs) ==
    \A n \in 1 .. Len(cs) : \A m \in DOMAIN cs[n].text : cs[n].text[m].from # 0 =>
        /\ cs[n].text[m].from \in 1 .. n - 1
        /\ cs[n].text[m].line \in OwnLines(cs[cs[n].text[m].from])

Carrying(document, cs, c) ==
    /\ c \in Carries(document)
    /\ c.line # 0 => Len(cs) > 0 /\ c.from = Len(cs) /\ c.line \in OwnLines(cs[Len(cs)])

TrueLabels(document, own, labels) ==
    /\ labels \subseteq UNION {Scope(document, i) : i \in own}
    /\ \A i \in own : Scope(document, i) # {} =>
          \E j \in labels \cap Scope(document, i) : \A k \in Scope(document, i) : k <= j

Labelling(document, cs, p, s) ==
    /\ s \subseteq 1 .. Len(document)
    /\ TrueLabels(document, ToSet(p.lines), s)
    /\ \A n \in 1 .. Len(cs) : TrueLabels(document, OwnLines(cs[n]), cs[n].sections)

Gathered(document, bs, k, cs, p, s, c) ==
    /\ Filing(document, bs, k, cs, p)
    /\ CopiesHold(cs) /\ Carrying(document, cs, c)
    /\ Labelling(document, cs, p, s)

\* emit() with nothing gathered changes nothing.
LEMMA EmittedNothing ==
  ASSUME NEW before, NEW p, p.blocks = 0, NEW labels, NEW carrying
  PROVE  /\ Emitted(before, p, labels, carrying).chunks = before
         /\ Emitted(before, p, labels, carrying).carry = carrying
BY DEF Emitted

\* Whatever is gathered can be emitted.
LEMMA EmitKeeps ==
  ASSUME NEW document \in Seq(Lines), NEW bs, NEW k \in Nat, NEW cs, NEW p, NEW s, NEW c,
         Gathered(document, bs, k, cs, p, s, c)
  PROVE  Gathered(document, bs, k, Emitted(cs, p, s, c).chunks, NoBlocks, {},
                  Emitted(cs, p, s, c).carry)
<1> DEFINE e == Emitted(cs, p, s, c)
           ds == e.chunks
           d == e.carry
           new == ds[Len(cs) + 1]
<1>0. /\ cs \in Seq(ChunkOf(document)) /\ Gathering(document, p) /\ Len(cs) \in Nat
      /\ c \in Carries(document) /\ s \in SUBSET (1 .. Len(document))
  BY DEF Gathered, Filing, Carrying, Labelling
<1>1. /\ Gathering(document, NoBlocks) /\ ToSet(NoBlocks.lines) = {}
      /\ TrueLabels(document, {}, {}) /\ {} \subseteq 1 .. Len(document)
  BY NothingGathered DEF TrueLabels
<1>2. CASE p.blocks = 0
  <2>1. ds = cs /\ d = c
    BY <1>2, EmittedNothing
  <2>2. ToSet(p.lines) = {}
    BY <1>0, <1>2 DEF Gathering, ToSet
  <2> HIDE DEF ds, d
  <2>3. Filing(document, bs, k, ds, NoBlocks)
    BY <1>1, <2>1, <2>2 DEF Gathered, Filing
  <2>4. CopiesHold(ds) /\ Carrying(document, ds, d) /\ Labelling(document, ds, NoBlocks, {})
    BY <1>1, <2>1 DEF Gathered, Labelling
  <2>5. Gathered(document, bs, k, ds, NoBlocks, {}, d)
    BY <2>3, <2>4 DEF Gathered
  <2>6. QED BY <2>5 DEF ds, d
<1>3. CASE p.blocks # 0
  <2>1. c.line # 0 => c.from # 0 /\ c.line \in 1 .. Len(document)
    <3>1. SUFFICES ASSUME c.line # 0 PROVE c.from # 0 /\ c.line \in 1 .. Len(document)
      OBVIOUS
    <3>2. c.from = Len(cs) /\ Len(cs) > 0 /\ c.line \in OwnLines(cs[Len(cs)])
      BY <3>1 DEF Gathered, Carrying
    <3>3. cs[Len(cs)] \in ChunkOf(document) /\ InPlace(cs[Len(cs)])
      BY <1>0, <3>2 DEF Gathered, Filing
    <3>4. OwnLines(cs[Len(cs)]) \in SUBSET (1 .. Len(document))
      BY <3>3, ChunkWords
    <3>5. QED BY <1>0, <3>2, <3>4
  <2>2. /\ ds \in Seq(ChunkOf(document)) /\ Len(ds) = Len(cs) + 1
        /\ \A n \in 1 .. Len(cs) : ds[n] = cs[n]
        /\ new \in ChunkOf(document) /\ InPlace(new) /\ OwnLines(new) = ToSet(p.lines)
        /\ new.blocks = p.blocks /\ new.sections = s
        /\ \A m \in DOMAIN new.text : new.text[m].from # 0 =>
              /\ c.line # 0
              /\ new.text[m].line = c.line /\ new.text[m].from = c.from
        /\ d \in Carries(document)
        /\ d.line # 0 => d.line \in ToSet(p.lines) /\ d.from = Len(cs) + 1
    <3>1. cs \in Seq(ChunkOf(document)) /\ Gathering(document, p)
      BY <1>0
    <3>2. c \in Carries(document) /\ s \in SUBSET (1 .. Len(document)) /\ p.blocks # 0
      BY <1>0, <1>3
    <3>3. Appended(document, cs, p, s, c, Emitted(cs, p, s, c))
      BY <2>1, <3>1, <3>2, EmittedChunk
    <3>4. QED BY <3>3 DEF Appended
  <2> HIDE DEF ds, d
  <2>3. \A n \in 1 .. Len(ds) : n \in 1 .. Len(cs) \/ n = Len(cs) + 1
    BY <1>0, <2>2
  <2>4. \A n \in 1 .. Len(ds) : InPlace(ds[n])
    BY <2>2, <2>3 DEF Gathered, Filing
  <2>5. \A m \in 1 .. k : bs[m].kind # "heading" =>
           \E n \in 1 .. Len(ds) : ToSet(bs[m].lines) \subseteq OwnLines(ds[n])
    <3>1. SUFFICES ASSUME NEW m \in 1 .. k, bs[m].kind # "heading"
                   PROVE  \E n \in 1 .. Len(ds) : ToSet(bs[m].lines) \subseteq OwnLines(ds[n])
      OBVIOUS
    <3>2. Len(cs) + 1 \in 1 .. Len(ds) /\ \A n \in 1 .. Len(cs) : n \in 1 .. Len(ds)
      BY <1>0, <2>2
    <3>3. \/ ToSet(bs[m].lines) \subseteq ToSet(p.lines)
          \/ \E n \in 1 .. Len(cs) : ToSet(bs[m].lines) \subseteq OwnLines(cs[n])
      BY <3>1 DEF Gathered, Filing
    <3>4. OwnLines(ds[Len(cs) + 1]) = ToSet(p.lines) /\ \A n \in 1 .. Len(cs) : ds[n] = cs[n]
      BY <2>2
    <3>5. QED BY <3>2, <3>3, <3>4
  <2>6. \A n \in 1 .. Len(ds) : \A i \in OwnLines(ds[n]) :
           \E m \in 1 .. k : bs[m].kind # "heading" /\ i \in ToSet(bs[m].lines)
    <3>1. \A n \in 1 .. Len(ds) : \A i \in OwnLines(ds[n]) :
             i \in ToSet(p.lines) \/ \E l \in 1 .. Len(cs) : i \in OwnLines(cs[l])
      BY <2>2, <2>3
    <3>2. \A i \in ToSet(p.lines) :
             \E m \in 1 .. k : bs[m].kind # "heading" /\ i \in ToSet(bs[m].lines)
      BY DEF Gathered, Filing
    <3>3. \A n \in 1 .. Len(cs) : \A i \in OwnLines(cs[n]) :
             \E m \in 1 .. k : bs[m].kind # "heading" /\ i \in ToSet(bs[m].lines)
      BY DEF Gathered, Filing
    <3>4. QED BY <3>1, <3>2, <3>3
  <2>7. \A m, n \in 1 .. Len(ds) : m < n =>
           \A i \in OwnLines(ds[m]), j \in OwnLines(ds[n]) : i < j
    <3>1. SUFFICES ASSUME NEW m \in 1 .. Len(ds), NEW n \in 1 .. Len(ds), m < n,
                          NEW i \in OwnLines(ds[m]), NEW j \in OwnLines(ds[n])
                   PROVE  i < j
      OBVIOUS
    <3>2. m \in 1 .. Len(cs) /\ i \in OwnLines(cs[m])
      BY <1>0, <2>2, <3>1
    <3>3. CASE n = Len(cs) + 1
      BY <2>2, <3>1, <3>2, <3>3 DEF Gathered, Filing
    <3>4. CASE n \in 1 .. Len(cs)
      BY <2>2, <3>1, <3>2, <3>4 DEF Gathered, Filing
    <3>5. QED BY <2>3, <3>3, <3>4
  <2>8. Filing(document, bs, k, ds, NoBlocks)
    BY <1>1, <2>2, <2>4, <2>5, <2>6, <2>7 DEF Filing
  <2>9. CopiesHold(ds)
    <3>1. SUFFICES ASSUME NEW n \in 1 .. Len(ds), NEW m \in DOMAIN ds[n].text,
                          ds[n].text[m].from # 0
                   PROVE  /\ ds[n].text[m].from \in 1 .. n - 1
                          /\ ds[n].text[m].line \in OwnLines(ds[ds[n].text[m].from])
      BY DEF CopiesHold
    <3>2. CASE n = Len(cs) + 1
      <4>1. c.line # 0 /\ ds[n].text[m].line = c.line /\ ds[n].text[m].from = c.from
        BY <2>2, <3>1, <3>2
      <4>2. Len(cs) > 0 /\ c.from = Len(cs) /\ c.line \in OwnLines(cs[Len(cs)])
        BY <4>1 DEF Gathered, Carrying
      <4>3. Len(cs) \in 1 .. n - 1 /\ ds[Len(cs)] = cs[Len(cs)]
        BY <1>0, <2>2, <3>2, <4>2
      <4>4. QED BY <4>1, <4>2, <4>3
    <3>3. CASE n \in 1 .. Len(cs)
      <4> DEFINE f == cs[n].text[m].from
                 x == cs[n].text[m].line
      <4>1. ds[n] = cs[n] /\ m \in DOMAIN cs[n].text /\ f # 0
        BY <2>2, <3>1, <3>3
      <4>2. f \in 1 .. n - 1 /\ x \in OwnLines(cs[f])
        BY <3>3, <4>1 DEF Gathered, CopiesHold
      <4>3. f \in 1 .. Len(cs)
        BY <1>0, <3>3, <4>2
      <4>4. ds[f] = cs[f]
        BY <2>2, <4>3
      <4>5. QED BY <4>1, <4>2, <4>4
    <3>4. QED BY <2>3, <3>2, <3>3
  <2>10. Carrying(document, ds, d)
    BY <1>0, <2>2 DEF Carrying
  <2>11. Labelling(document, ds, NoBlocks, {})
    <3>1. TrueLabels(document, OwnLines(new), new.sections)
      BY <2>2 DEF Gathered, Labelling
    <3>2. QED BY <1>1, <2>2, <2>3, <3>1 DEF Gathered, Labelling
  <2>12. Gathered(document, bs, k, ds, NoBlocks, {}, d)
    BY <2>8, <2>9, <2>10, <2>11 DEF Gathered
  <2>13. QED BY <2>12 DEF ds, d
<1>4. QED BY <1>2, <1>3

\* A block of content that leaves room joins what is gathered.
JoinedTo(document, bs, k, cs, p, c, labels, q) ==
    /\ Gathered(document, bs, k + 1, cs, q, labels, c)
    /\ Gathering(document, q) /\ q.blocks > 0
    /\ ToSet(q.lines) = ToSet(p.lines) \cup ToSet(bs[k + 1].lines)
    /\ ToSet(bs[k + 1].lines) # {}
    /\ \A i \in ToSet(p.lines), j \in ToSet(bs[k + 1].lines) : i < j
    /\ p.blocks = 0 => q.words = WordsOf(document, ToSet(bs[k + 1].lines))

LEMMA JoinKeeps ==
  ASSUME NEW document \in Seq(Lines), NEW bs, AreBlocks(document, bs),
         NEW k \in Nat, k < Len(bs), bs[k + 1].kind # "heading",
         NEW cs, NEW p, NEW s, NEW c, Gathered(document, bs, k, cs, p, s, c),
         p.blocks > 0 => p.words + WordsOf(document, ToSet(bs[k + 1].lines)) <= MaxWords,
         NEW labels, labels \subseteq 1 .. Len(document),
         TrueLabels(document, ToSet(p.lines) \cup ToSet(bs[k + 1].lines), labels)
  PROVE  JoinedTo(document, bs, k, cs, p, c, labels, Join(document, p, bs[k + 1]))
<1> DEFINE block == bs[k + 1]
           q == Join(document, p, block)
<1>1. IsBlock(document, block) /\ k + 1 \in 1 .. Len(bs) /\ Len(bs) \in Nat
  BY DEF AreBlocks
\* Whatever was read comes before the block.
<1>2. \A m \in 1 .. k : \A i \in ToSet(bs[m].lines), j \in ToSet(block.lines) : i < j
  <2>1. \A m \in 1 .. k : m \in 1 .. Len(bs) /\ m < k + 1
    BY <1>1
  <2>2. QED BY <1>1, <2>1 DEF AreBlocks
<1>3. Filing(document, bs, k, cs, p) /\ Gathering(document, p)
  BY DEF Gathered, Filing
<1>4. \A i \in ToSet(p.lines), j \in ToSet(block.lines) : i < j
  <2>1. \A i \in ToSet(p.lines) : \E m \in 1 .. k : i \in ToSet(bs[m].lines)
    BY <1>3 DEF Filing
  <2>2. QED BY <1>2, <2>1
<1>5. \A n \in 1 .. Len(cs) : \A i \in OwnLines(cs[n]), j \in ToSet(block.lines) : i < j
  <2>1. \A n \in 1 .. Len(cs) : \A i \in OwnLines(cs[n]) : \E m \in 1 .. k : i \in ToSet(bs[m].lines)
    BY <1>3 DEF Filing
  <2>2. QED BY <1>2, <2>1
<1> HIDE DEF block
<1>6. /\ Gathering(document, q) /\ q.blocks > 0
      /\ ToSet(q.lines) = ToSet(p.lines) \cup ToSet(block.lines) /\ ToSet(block.lines) # {}
      /\ p.blocks = 0 => q.words = WordsOf(document, ToSet(block.lines))
  <2>1. p.blocks > 0 => p.words + WordsOf(document, ToSet(block.lines)) <= MaxWords
    BY DEF block
  <2>2. QED BY <1>1, <1>3, <1>4, <2>1, JoinGathers
<1> HIDE DEF q
<1>7. \A m \in 1 .. k + 1 : m \in 1 .. k \/ (m = k + 1 /\ bs[m] = block)
  BY DEF block
<1>8. \A m \in 1 .. k : m \in 1 .. k + 1
  OBVIOUS
<1>9. k + 1 \in 1 .. k + 1 /\ bs[k + 1] = block /\ block.kind # "heading"
  BY DEF block
<1>10. Filing(document, bs, k + 1, cs, q)
  <2>1. \A m \in 1 .. k + 1 : bs[m].kind # "heading" =>
           \/ ToSet(bs[m].lines) \subseteq ToSet(q.lines)
           \/ \E n \in 1 .. Len(cs) : ToSet(bs[m].lines) \subseteq OwnLines(cs[n])
    BY <1>3, <1>6, <1>7 DEF Filing
  <2>2. \A i \in ToSet(q.lines) :
           \E m \in 1 .. k + 1 : bs[m].kind # "heading" /\ i \in ToSet(bs[m].lines)
    BY <1>3, <1>6, <1>8, <1>9 DEF Filing
  <2>3. \A n \in 1 .. Len(cs) : \A i \in OwnLines(cs[n]) :
           \E m \in 1 .. k + 1 : bs[m].kind # "heading" /\ i \in ToSet(bs[m].lines)
    BY <1>3, <1>8 DEF Filing
  <2>4. \A n \in 1 .. Len(cs) : \A i \in OwnLines(cs[n]), j \in ToSet(q.lines) : i < j
    BY <1>3, <1>5, <1>6 DEF Filing
  <2>5. QED BY <1>3, <1>6, <2>1, <2>2, <2>3, <2>4 DEF Filing
<1>11. Labelling(document, cs, q, labels)
  <2>1. TrueLabels(document, ToSet(q.lines), labels)
    BY <1>6 DEF block
  <2>2. QED BY <2>1 DEF Gathered, Labelling
<1>12. Gathered(document, bs, k + 1, cs, q, labels, c)
  BY <1>10, <1>11 DEF Gathered
<1>13. JoinedTo(document, bs, k, cs, p, c, labels, q)
  BY <1>4, <1>6, <1>12 DEF JoinedTo, block
<1>14. QED BY <1>13 DEF q, block

\* A heading adds nothing to what is gathered.
LEMMA HeadingKeeps ==
  ASSUME NEW document, NEW bs, NEW k \in Nat, bs[k + 1].kind = "heading",
         NEW cs, NEW p, NEW s, NEW c, Gathered(document, bs, k, cs, p, s, c)
  PROVE  Gathered(document, bs, k + 1, cs, p, s, c)
<1>1. \A m \in 1 .. k + 1 : m \in 1 .. k \/ m = k + 1
  OBVIOUS
<1>2. \A m \in 1 .. k : m \in 1 .. k + 1
  OBVIOUS
<1>3. Filing(document, bs, k, cs, p)
  BY DEF Gathered
<1>4. \A m \in 1 .. k + 1 : bs[m].kind # "heading" =>
         \/ ToSet(bs[m].lines) \subseteq ToSet(p.lines)
         \/ \E n \in 1 .. Len(cs) : ToSet(bs[m].lines) \subseteq OwnLines(cs[n])
  BY <1>1, <1>3 DEF Filing
<1>5. \A i \in ToSet(p.lines) :
         \E m \in 1 .. k + 1 : bs[m].kind # "heading" /\ i \in ToSet(bs[m].lines)
  BY <1>2, <1>3 DEF Filing
<1>6. \A n \in 1 .. Len(cs) : \A i \in OwnLines(cs[n]) :
         \E m \in 1 .. k + 1 : bs[m].kind # "heading" /\ i \in ToSet(bs[m].lines)
  BY <1>2, <1>3 DEF Filing
<1>7. Filing(document, bs, k + 1, cs, p)
  BY <1>3, <1>4, <1>5, <1>6 DEF Filing
<1>8. QED BY <1>7 DEF Gathered

-----------------------------------------------------------------------------
(* The headings in scope                                                   *)

HeadingsRead(bs, k) == {bs[m].lines[1] : m \in {n \in 1 .. k : bs[n].kind = "heading"}}

\* Every later heading among the given ones is deeper.
Unended(document, read, h) ==
    \A g \in read : g > h => document[g].level > document[h].level

\* The stack holds, each at its level, the headings no later one has ended.
Stacked(document, bs, k, levels) ==
    /\ DOMAIN levels \subseteq 0 .. 6
    /\ \A l \in DOMAIN levels :
          /\ levels[l] \in HeadingsRead(bs, k) /\ document[levels[l]].level = l
          /\ Unended(document, HeadingsRead(bs, k), levels[l])
    /\ \A h \in HeadingsRead(bs, k) : Unended(document, HeadingsRead(bs, k), h) =>
          document[h].level \in DOMAIN levels /\ levels[document[h].level] = h

\* The headings read before a block are headings of the document above it.
LEMMA HeadingsAreRead ==
  ASSUME NEW document \in Seq(Lines), NEW bs, AreBlocks(document, bs),
         NEW k \in Nat, k < Len(bs)
  PROVE  /\ HeadingsRead(bs, k) \subseteq 1 .. Len(document)
         /\ \A h \in HeadingsRead(bs, k) :
               /\ IsHeading(document, h)
               /\ \A j \in ToSet(bs[k + 1].lines) : h < j
<1>1. Len(bs) \in Nat /\ \A m \in 1 .. k + 1 : m \in 1 .. Len(bs)
  BY DEF AreBlocks
<1>2. \A m \in 1 .. k : m < k + 1 /\ m \in 1 .. k + 1
  OBVIOUS
<1>3. ASSUME NEW m \in 1 .. k, bs[m].kind = "heading"
      PROVE  /\ bs[m].lines[1] \in 1 .. Len(document) /\ IsHeading(document, bs[m].lines[1])
             /\ \A j \in ToSet(bs[k + 1].lines) : bs[m].lines[1] < j
  <2>1. IsBlock(document, bs[m]) /\ bs[m].lines \in Seq(1 .. Len(document))
    BY <1>1, <1>2 DEF AreBlocks, IsBlock, Blocks
  <2>2. Len(bs[m].lines) = 1 /\ IsHeading(document, bs[m].lines[1])
    BY <1>3, <2>1 DEF IsBlock
  <2>3. bs[m].lines[1] \in 1 .. Len(document) /\ bs[m].lines[1] \in ToSet(bs[m].lines)
    BY <2>1, <2>2 DEF ToSet
  <2>4. k + 1 \in 1 .. Len(bs) /\ m \in 1 .. Len(bs) /\ m < k + 1
    BY <1>1, <1>2
  <2>5. \A i \in ToSet(bs[m].lines), j \in ToSet(bs[k + 1].lines) : i < j
    BY <2>4 DEF AreBlocks
  <2>6. QED BY <2>2, <2>3, <2>5
<1>4. QED BY <1>3 DEF HeadingsRead

\* A heading ends those at its level and below, and stands itself.
LEMMA StackUnder ==
  ASSUME NEW document \in Seq(Lines), NEW bs, AreBlocks(document, bs),
         NEW k \in Nat, k < Len(bs), bs[k + 1].kind = "heading",
         NEW levels, Stacked(document, bs, k, levels)
  PROVE  Stacked(document, bs, k + 1, Under(levels, bs[k + 1]))
<1> DEFINE block == bs[k + 1]
           h == block.lines[1]
           read == HeadingsRead(bs, k)
           now == HeadingsRead(bs, k + 1)
           next == Under(levels, block)
           lev(x) == document[x].level
<1>1. IsBlock(document, block) /\ block.kind = "heading"
  BY DEF AreBlocks
<1>2. /\ block.lines \in Seq(1 .. Len(document)) /\ Len(block.lines) = 1
      /\ block.level = lev(h) /\ block.level \in 0 .. 6
  BY <1>1 DEF IsBlock, Blocks
<1>3. Head(block.lines) = h /\ h \in ToSet(block.lines) /\ h \in 1 .. Len(document)
  BY <1>2 DEF ToSet
<1>4. \A g \in read : g < h /\ g \in 1 .. Len(document) /\ lev(g) \in 0 .. 6
  <2>1. \A g \in read : g < h /\ g \in 1 .. Len(document)
    BY <1>3, HeadingsAreRead
  <2>2. \A g \in 1 .. Len(document) : lev(g) \in 0 .. 6
    <3>1. \A g \in 1 .. Len(document) : document[g] \in Lines
      OBVIOUS
    <3>2. QED BY <3>1 DEF Lines
  <2>3. QED BY <2>1, <2>2
<1>5. now = read \cup {h}
  <2>1. \A m : m \in 1 .. k + 1 <=> m \in 1 .. k \/ m = k + 1
    OBVIOUS
  <2>2. QED BY <1>1, <2>1 DEF HeadingsRead
<1>6. /\ DOMAIN next = {l \in DOMAIN levels : l < block.level} \cup {block.level}
      /\ next[block.level] = h
      /\ \A l \in DOMAIN levels : l < block.level => next[l] = levels[l]
  <2>1. next = [l \in {m \in DOMAIN levels : m < block.level} \cup {block.level} |->
                   IF l = block.level THEN h ELSE levels[l]]
    BY <1>3 DEF Under
  <2>2. \A l \in DOMAIN levels : l < block.level => l # block.level
    BY <1>2 DEF Stacked
  <2> HIDE DEF next, h, block
  <2>3. QED BY <2>1, <2>2
<1>7. /\ DOMAIN levels \subseteq 0 .. 6
      /\ \A l \in DOMAIN levels : levels[l] \in read /\ lev(levels[l]) = l
                                  /\ Unended(document, read, levels[l])
      /\ \A g \in read : Unended(document, read, g) =>
            lev(g) \in DOMAIN levels /\ levels[lev(g)] = g
  BY DEF Stacked
<1>8. h \in Int /\ \A g \in read : g \in Int /\ g # h /\ ~ (g > h) /\ h > g
  BY <1>3, <1>4
<1>9. Unended(document, now, h)
  BY <1>5, <1>8 DEF Unended
<1>10. \A g \in read : Unended(document, now, g) <=> Unended(document, read, g) /\ lev(g) < block.level
  <2>1. \A g \in read : lev(h) > lev(g) <=> lev(g) < block.level
    BY <1>2, <1>4
  <2>2. QED BY <1>5, <1>8, <2>1 DEF Unended
<1> HIDE DEF next, now, read, h, block
<1>11. DOMAIN next \subseteq 0 .. 6
  BY <1>2, <1>6, <1>7
<1>12. ASSUME NEW l \in DOMAIN next
       PROVE  next[l] \in now /\ lev(next[l]) = l /\ Unended(document, now, next[l])
  <2>1. CASE l = block.level
    BY <1>2, <1>5, <1>6, <1>9, <2>1
  <2>2. CASE l \in DOMAIN levels /\ l < block.level
    BY <1>5, <1>6, <1>7, <1>10, <2>2
  <2>3. QED BY <1>6, <2>1, <2>2
<1>13. ASSUME NEW g \in now, Unended(document, now, g)
       PROVE  lev(g) \in DOMAIN next /\ next[lev(g)] = g
  <2>1. CASE g = h
    BY <1>2, <1>6, <2>1
  <2>2. CASE g \in read
    BY <1>6, <1>7, <1>10, <1>13, <2>2
  <2>3. QED BY <1>5, <2>1, <2>2
<1>14. Stacked(document, bs, k + 1, next)
  BY <1>11, <1>12, <1>13 DEF Stacked, now
<1>15. QED BY <1>14 DEF next, block

\* A block of content leaves the stack as it is.
LEMMA StackOver ==
  ASSUME NEW document, NEW bs, NEW k \in Nat, bs[k + 1].kind # "heading",
         NEW levels, Stacked(document, bs, k, levels)
  PROVE  Stacked(document, bs, k + 1, levels)
<1>1. \A m : m \in 1 .. k + 1 <=> m \in 1 .. k \/ m = k + 1
  OBVIOUS
<1>2. HeadingsRead(bs, k + 1) = HeadingsRead(bs, k)
  BY <1>1 DEF HeadingsRead
<1>3. QED BY <1>2 DEF Stacked

\* For a line of the block that comes next, the stack holds its headings.
LEMMA ScopeOfStack ==
  ASSUME NEW document \in Seq(Lines), NEW bs, AreBlocks(document, bs),
         \A i \in 1 .. Len(document) : document[i].kind # "blank" =>
            \E m \in 1 .. Len(bs) : i \in ToSet(bs[m].lines),
         NEW k \in Nat, k < Len(bs), bs[k + 1].kind # "heading",
         NEW levels, Stacked(document, bs, k, levels),
         NEW i \in ToSet(bs[k + 1].lines)
  PROVE  /\ InScope(levels) = Scope(document, i) /\ Scope(document, i) \subseteq 1 .. Len(document)
         /\ Innermost(levels) \subseteq Scope(document, i)
         /\ Scope(document, i) # {} =>
               \E j \in Innermost(levels) \cap Scope(document, i) :
                  \A g \in Scope(document, i) : g <= j
<1> DEFINE read == HeadingsRead(bs, k)
           lev(x) == document[x].level
<1>1. /\ Len(bs) \in Nat /\ k + 1 \in 1 .. Len(bs)
      /\ i \in 1 .. Len(document)
  <2>1. Len(bs) \in Nat /\ k + 1 \in 1 .. Len(bs)
    BY DEF AreBlocks
  <2>2. bs[k + 1].lines \in Seq(1 .. Len(document))
    BY <2>1 DEF AreBlocks, IsBlock, Blocks
  <2>3. QED BY <2>1, <2>2 DEF ToSet
<1>2. ASSUME NEW j \in 1 .. i - 1, IsHeading(document, j)
      PROVE  j \in read
  <2>1. j \in 1 .. Len(document) /\ document[j].kind # "blank" /\ ~ IsContent(document, j)
    BY <1>1, <1>2 DEF IsHeading, IsContent
  <2>2. PICK m \in 1 .. Len(bs) : j \in ToSet(bs[m].lines)
    BY <2>1
  <2>3. IsBlock(document, bs[m]) /\ bs[m].lines \in Seq(1 .. Len(document))
    BY DEF AreBlocks, IsBlock, Blocks
  <2>4. bs[m].kind = "heading"
    BY <2>1, <2>2, <2>3 DEF IsBlock
  <2>5. Len(bs[m].lines) = 1 /\ bs[m].lines[1] = j
    BY <2>2, <2>3, <2>4 DEF IsBlock, ToSet
  <2>6. ~ (k + 1 < m)
    <3>1. SUFFICES ASSUME k + 1 < m PROVE FALSE
      OBVIOUS
    <3>2. i < j
      BY <1>1, <2>2, <3>1 DEF AreBlocks
    <3>3. QED BY <1>1, <3>2
  <2>7. m # k + 1
    BY <2>4
  <2>8. m \in 1 .. k
    BY <1>1, <2>6, <2>7
  <2>9. QED BY <2>4, <2>5, <2>8 DEF HeadingsRead
<1>3. \A h \in read : h \in 1 .. i - 1 /\ IsHeading(document, h)
  <2>1. \A h \in read : h \in 1 .. Len(document) /\ IsHeading(document, h) /\ h < i
    BY HeadingsAreRead
  <2>2. QED BY <1>1, <2>1
<1>4. /\ DOMAIN levels \subseteq 0 .. 6
      /\ \A l \in DOMAIN levels : levels[l] \in read /\ lev(levels[l]) = l
                                  /\ Unended(document, read, levels[l])
      /\ \A g \in read : Unended(document, read, g) =>
            lev(g) \in DOMAIN levels /\ levels[lev(g)] = g
  BY DEF Stacked
<1> HIDE DEF read
<1>5. \A x : x \in Scope(document, i) <=> x \in read /\ lev(x) > 1 /\ Unended(document, read, x)
  <2>1. ASSUME NEW x \in read
        PROVE  Unended(document, read, x)
               <=> \A g \in x + 1 .. i - 1 : IsHeading(document, g) => lev(g) > lev(x)
    <3>1. x \in 1 .. i - 1 /\ i \in Nat
      BY <1>1, <1>3
    <3>2. \A g \in read : g > x => g \in x + 1 .. i - 1 /\ IsHeading(document, g)
      BY <1>3, <3>1
    <3>3. \A g \in x + 1 .. i - 1 : g \in 1 .. i - 1 /\ g > x
      BY <3>1
    <3>4. \A g \in x + 1 .. i - 1 : IsHeading(document, g) => g \in read /\ g > x
      BY <1>2, <3>3
    <3>5. QED BY <3>2, <3>4 DEF Unended
  <2>2. \A x : x \in Scope(document, i) <=>
           /\ x \in 1 .. i - 1 /\ IsHeading(document, x) /\ lev(x) > 1
           /\ \A g \in x + 1 .. i - 1 : IsHeading(document, g) => lev(g) > lev(x)
    BY DEF Scope
  <2>3. QED BY <1>2, <1>3, <2>1, <2>2
<1>6. InScope(levels) = Scope(document, i)
  <2>1. ASSUME NEW x \in InScope(levels)
        PROVE  x \in Scope(document, i)
    <3>1. PICK l \in DOMAIN levels : l > 1 /\ x = levels[l]
      BY DEF InScope
    <3>2. QED BY <1>4, <1>5, <3>1
  <2>2. ASSUME NEW x \in Scope(document, i)
        PROVE  x \in InScope(levels)
    <3>1. lev(x) \in DOMAIN levels /\ levels[lev(x)] = x /\ lev(x) > 1
      BY <1>4, <1>5
    <3>2. QED BY <3>1 DEF InScope
  <2>3. QED BY <2>1, <2>2
<1>7. Scope(document, i) \subseteq 1 .. Len(document)
  BY <1>1, <1>3, <1>5
<1>8. Innermost(levels) \subseteq Scope(document, i)
  BY <1>6 DEF Innermost, InScope
<1>9. ASSUME Scope(document, i) # {}
      PROVE  \E j \in Innermost(levels) \cap Scope(document, i) :
                \A g \in Scope(document, i) : g <= j
  <2> DEFINE S == {l \in DOMAIN levels : l > 1}
             six == 6
  <2>1. S \in SUBSET (1 .. six) /\ six \in Nat
    BY <1>4
  <2>2. S # {}
    BY <1>6, <1>9 DEF InScope
  <2> HIDE DEF S, six
  <2>3. PICK l \in S : \A m \in S : m <= l
    BY <2>1, <2>2, Greatest
  <2>4. l \in DOMAIN levels /\ l > 1 /\ \A m \in DOMAIN levels : m <= l
    BY <1>4, <2>3 DEF S
  <2>5. levels[l] \in Innermost(levels)
    BY <2>4 DEF Innermost
  <2>6. levels[l] \in Scope(document, i)
    BY <1>8, <2>5
  <2>7. ASSUME NEW g \in Scope(document, i)
        PROVE  g <= levels[l]
    <3>1. g \in read /\ lev(g) \in DOMAIN levels /\ g \in Int /\ levels[l] \in Int
      BY <1>4, <1>5, <1>7, <2>6
    <3>2. lev(g) <= l /\ l \in Int /\ lev(g) \in Int
      BY <1>4, <2>4, <3>1
    <3>3. ~ (g > levels[l])
      <4>1. g > levels[l] => lev(g) > l
        BY <1>4, <2>4, <3>1 DEF Unended
      <4>2. QED BY <3>2, <4>1
    <3>4. QED BY <3>1, <3>3
  <2>8. QED BY <2>5, <2>6, <2>7
<1>10. QED BY <1>6, <1>7, <1>8, <1>9

\* The sections that a chunk has after a block joins it are those of its lines.
LEMMA LabelledIsTrue ==
  ASSUME NEW document, NEW own, NEW lines, lines # {}, NEW labels, NEW levels,
         TrueLabels(document, own, labels), labels \subseteq 1 .. Len(document),
         \A i \in lines :
            /\ InScope(levels) = Scope(document, i) /\ Scope(document, i) \subseteq 1 .. Len(document)
            /\ Innermost(levels) \subseteq Scope(document, i)
            /\ Scope(document, i) # {} =>
                  \E j \in Innermost(levels) \cap Scope(document, i) :
                     \A g \in Scope(document, i) : g <= j
  PROVE  /\ TrueLabels(document, own \cup lines, Labelled(labels, levels))
         /\ Labelled(labels, levels) \subseteq 1 .. Len(document)
<1> DEFINE now == Labelled(labels, levels)
           all == own \cup lines
           covers(s, i) == \E j \in s \cap Scope(document, i) : \A g \in Scope(document, i) : g <= j
<1>1. \A i \in own : Scope(document, i) # {} => covers(labels, i)
  BY DEF TrueLabels
<1>2. \A i \in lines : Scope(document, i) # {} => covers(Innermost(levels), i)
  OBVIOUS
<1>3. \A i \in lines : Innermost(levels) \subseteq InScope(levels)
                       /\ InScope(levels) = Scope(document, i)
  OBVIOUS
<1>4. CASE labels = {}
  <2>1. now = InScope(levels)
    BY <1>4 DEF Labelled
  <2>2. PICK i \in lines : now = Scope(document, i)
    BY <1>3, <2>1
  <2>3. now \subseteq UNION {Scope(document, j) : j \in all}
    BY <2>2
  <2>4. \A j \in own : Scope(document, j) = {}
    BY <1>1, <1>4
  <2>5. \A j \in lines : Scope(document, j) # {} => covers(now, j)
    BY <1>2, <1>3, <2>1
  <2>6. now \subseteq 1 .. Len(document)
    BY <2>2
  <2> HIDE DEF now
  <2>7. QED BY <2>3, <2>4, <2>5, <2>6 DEF TrueLabels, now
<1>5. CASE labels # {}
  <2>1. now = labels \cup Innermost(levels)
    BY <1>5 DEF Labelled
  <2>2. labels \subseteq UNION {Scope(document, j) : j \in own}
    BY DEF TrueLabels
  <2>3. PICK i \in lines : Innermost(levels) \subseteq Scope(document, i)
    OBVIOUS
  <2>4. now \subseteq UNION {Scope(document, j) : j \in all}
    BY <2>1, <2>2, <2>3
  <2>5. \A j \in all : Scope(document, j) # {} => covers(now, j)
    BY <1>1, <1>2, <2>1
  <2>6. now \subseteq 1 .. Len(document)
    BY <2>1, <2>3
  <2> HIDE DEF now
  <2>7. QED BY <2>4, <2>5, <2>6 DEF TrueLabels, now
<1>6. QED BY <1>4, <1>5

-----------------------------------------------------------------------------
(* The sizes of the chunks                                                 *)

Words(document, chunk) == WordsOf(document, OwnLines(chunk))

\* A block opens these lines, and with it the words would exceed the budget.
NoRoom(document, bs, words, lines) ==
    \E k \in 1 .. Len(bs) :
        /\ \E i \in ToSet(bs[k].lines) \cap lines : \A j \in lines : i <= j
        /\ words + WordsOf(document, ToSet(bs[k].lines)) > MaxWords

\* What is over the budget.
Budgeted(document, chunk) ==
    /\ Words(document, chunk) > MaxWords => chunk.blocks = 1
    /\ Words(document, chunk) <= MaxWords /\ WordCount(document, chunk) > MaxWords =>
          OpensWithACopy(chunk)

Sized(document, bs, cs) ==
    /\ \A n \in 1 .. Len(cs) : Budgeted(document, cs[n])
    /\ \A n \in 1 .. Len(cs) - 1 : Words(document, cs[n]) < MinWords =>
          NoRoom(document, bs, Words(document, cs[n]), OwnLines(cs[n + 1]))

\* A last chunk that is too short left no room for what is gathered after it.
Follows(document, bs, words, p) ==
    words < MinWords =>
        /\ p.blocks = 0 => words > MaxWords
        /\ p.blocks # 0 => NoRoom(document, bs, words, ToSet(p.lines))

LastFollows(document, bs, cs, p) ==
    Len(cs) > 0 => Follows(document, bs, Words(document, cs[Len(cs)]), p)

\* What opens the lines of a block is the block.
LEMMA BlockOpens ==
  ASSUME NEW document \in Seq(Lines), NEW bs, AreBlocks(document, bs),
         NEW k \in 1 .. Len(bs), NEW words \in Nat,
         words + WordsOf(document, ToSet(bs[k].lines)) > MaxWords
  PROVE  NoRoom(document, bs, words, ToSet(bs[k].lines))
<1> DEFINE B == ToSet(bs[k].lines)
<1>1. bs[k].lines \in Seq(1 .. Len(document)) /\ bs[k].lines # <<>>
  BY DEF AreBlocks, IsBlock, Blocks
<1>2. B \in SUBSET Nat /\ B # {}
  <2>1. Len(bs[k].lines) > 0
    BY <1>1
  <2>2. 1 \in DOMAIN bs[k].lines
    BY <1>1, <2>1
  <2>3. bs[k].lines[1] \in B
    BY <2>2 DEF ToSet
  <2>4. B \in SUBSET (1 .. Len(document))
    BY <1>1 DEF ToSet
  <2>5. QED BY <2>3, <2>4
<1> HIDE DEF B
<1>3. PICK i \in B : \A j \in B : i <= j
  BY <1>2, Least
<1>4. QED BY <1>3 DEF NoRoom, B

\* The words of a block can be counted.
LEMMA BlockWords ==
  ASSUME NEW document \in Seq(Lines), NEW bs, AreBlocks(document, bs), NEW k \in 1 .. Len(bs)
  PROVE  /\ ToSet(bs[k].lines) \in SUBSET (1 .. Len(document))
         /\ WordsOf(document, ToSet(bs[k].lines)) \in Nat
<1>1. bs[k].lines \in Seq(1 .. Len(document))
  BY DEF AreBlocks, IsBlock, Blocks
<1>2. ToSet(bs[k].lines) \in SUBSET (1 .. Len(document))
  BY <1>1 DEF ToSet
<1>3. QED BY <1>2, WordsAdd

\* A block that joins what is gathered does not change what opens it.
LEMMA JoinFollows ==
  ASSUME NEW document \in Seq(Lines), NEW bs, AreBlocks(document, bs),
         NEW k \in 1 .. Len(bs), NEW words \in Nat, NEW p, NEW q, Gathering(document, p),
         q.blocks > 0, q.blocks \in Nat,
         ToSet(q.lines) = ToSet(p.lines) \cup ToSet(bs[k].lines),
         \A i \in ToSet(p.lines), j \in ToSet(bs[k].lines) : i < j,
         Follows(document, bs, words, p)
  PROVE  Follows(document, bs, words, q)
<1> DEFINE P == ToSet(p.lines)
           B == ToSet(bs[k].lines)
<1>1. SUFFICES ASSUME words < MinWords
               PROVE  NoRoom(document, bs, words, P \cup B)
  BY DEF Follows
<1>2. CASE p.blocks = 0
  <2>1. words > MaxWords /\ P = {}
    BY <1>1, <1>2 DEF Follows, Gathering, ToSet
  <2>2. words + WordsOf(document, B) > MaxWords
    <3>1. WordsOf(document, B) \in Nat
      BY BlockWords
    <3> HIDE DEF B
    <3>2. QED BY <2>1, <3>1, ChunkerConstants
  <2>3. NoRoom(document, bs, words, B)
    BY <2>2, BlockOpens
  <2>4. P \cup B = B
    BY <2>1
  <2>5. QED BY <2>3, <2>4
<1>3. CASE p.blocks # 0
  <2>1. NoRoom(document, bs, words, P)
    BY <1>1, <1>3 DEF Follows
  <2>2. PICK m \in 1 .. Len(bs) :
           /\ \E i \in ToSet(bs[m].lines) \cap P : \A j \in P : i <= j
           /\ words + WordsOf(document, ToSet(bs[m].lines)) > MaxWords
    BY <2>1 DEF NoRoom
  <2>3. PICK i \in ToSet(bs[m].lines) \cap P : \A j \in P : i <= j
    BY <2>2
  <2>4. P \in SUBSET Nat /\ B \in SUBSET Nat
    <3>1. B \in SUBSET (1 .. Len(document))
      BY BlockWords
    <3>2. p.lines \in Seq(1 .. Len(document))
      BY DEF Gathering
    <3>3. P \in SUBSET (1 .. Len(document))
      BY <3>2 DEF ToSet
    <3>4. QED BY <3>1, <3>3
  <2>5. \A j \in B : i < j /\ i \in Nat /\ j \in Nat
    BY <2>3, <2>4
  <2>6. \A j \in P \cup B : i <= j
    BY <2>3, <2>5
  <2>7. QED BY <2>2, <2>3, <2>6 DEF NoRoom
<1>4. QED BY <1>2, <1>3

\* A chunk added after the others, with what it leaves behind it.
LEMMA AddSized ==
  ASSUME NEW document, NEW bs, NEW cs, NEW ds, Sized(document, bs, cs), Len(cs) \in Nat,
         Len(ds) = Len(cs) + 1, \A n \in 1 .. Len(cs) : ds[n] = cs[n],
         Budgeted(document, ds[Len(cs) + 1]),
         Len(cs) > 0 /\ Words(document, cs[Len(cs)]) < MinWords =>
            NoRoom(document, bs, Words(document, cs[Len(cs)]), OwnLines(ds[Len(cs) + 1]))
  PROVE  Sized(document, bs, ds)
<1>1. \A n \in 1 .. Len(ds) : n \in 1 .. Len(cs) \/ n = Len(cs) + 1
  OBVIOUS
<1>2. \A n \in 1 .. Len(ds) : Budgeted(document, ds[n])
  BY <1>1 DEF Sized
<1>3. ASSUME NEW n \in 1 .. Len(ds) - 1, Words(document, ds[n]) < MinWords
      PROVE  NoRoom(document, bs, Words(document, ds[n]), OwnLines(ds[n + 1]))
  <2>1. n \in 1 .. Len(cs) /\ ds[n] = cs[n]
    OBVIOUS
  <2>2. CASE n = Len(cs)
    BY <1>3, <2>1, <2>2
  <2>3. CASE n # Len(cs)
    <3>1. n \in 1 .. Len(cs) - 1 /\ n + 1 \in 1 .. Len(cs)
      BY <2>1, <2>3
    <3>2. ds[n + 1] = cs[n + 1]
      BY <3>1
    <3>3. NoRoom(document, bs, Words(document, cs[n]), OwnLines(cs[n + 1]))
      BY <1>3, <2>1, <3>1 DEF Sized
    <3>4. QED BY <2>1, <3>2, <3>3
  <2>4. QED BY <2>2, <2>3
<1>4. QED BY <1>2, <1>3 DEF Sized

\* emit() keeps the sizes: the last chunk is then what was gathered.
LEMMA EmitSizes ==
  ASSUME NEW document \in Seq(Lines), NEW bs, NEW k \in Nat, NEW cs, NEW p, NEW s, NEW c,
         Gathered(document, bs, k, cs, p, s, c),
         Sized(document, bs, cs), LastFollows(document, bs, cs, p)
  PROVE  LET ds == Emitted(cs, p, s, c).chunks IN
         /\ Sized(document, bs, ds)
         /\ p.blocks = 0 => ds = cs
         /\ p.blocks # 0 => /\ Len(ds) > 0 /\ Len(ds) = Len(cs) + 1
                            /\ OwnLines(ds[Len(ds)]) = ToSet(p.lines)
                            /\ Words(document, ds[Len(ds)]) = p.words
<1> DEFINE e == Emitted(cs, p, s, c)
           ds == e.chunks
<1>1. CASE p.blocks = 0
  <2>1. ds = cs
    BY <1>1, EmittedNothing
  <2>2. QED BY <1>1, <2>1
<1>2. CASE p.blocks # 0
  <2>1. /\ cs \in Seq(ChunkOf(document)) /\ Gathering(document, p) /\ Len(cs) \in Nat
        /\ c \in Carries(document) /\ s \in SUBSET (1 .. Len(document))
    BY DEF Gathered, Filing, Carrying, Labelling
  <2>2. c.line # 0 => c.from # 0 /\ c.line \in 1 .. Len(document)
    <3>1. SUFFICES ASSUME c.line # 0 PROVE c.from # 0 /\ c.line \in 1 .. Len(document)
      OBVIOUS
    <3>2. c.from = Len(cs) /\ Len(cs) > 0 /\ c.line \in OwnLines(cs[Len(cs)])
      BY <3>1 DEF Gathered, Carrying
    <3>3. cs[Len(cs)] \in ChunkOf(document) /\ InPlace(cs[Len(cs)])
      BY <2>1, <3>2 DEF Gathered, Filing
    <3>4. OwnLines(cs[Len(cs)]) \in SUBSET (1 .. Len(document))
      BY <3>3, ChunkWords
    <3>5. QED BY <2>1, <3>2, <3>4
  <2>3. Appended(document, cs, p, s, c, Emitted(cs, p, s, c))
    BY <1>2, <2>1, <2>2, EmittedChunk
  <2>4. /\ Len(ds) = Len(cs) + 1 /\ \A n \in 1 .. Len(cs) : ds[n] = cs[n]
        /\ OwnLines(ds[Len(cs) + 1]) = ToSet(p.lines) /\ ds[Len(cs) + 1].blocks = p.blocks
    BY <2>3 DEF Appended
  <2> HIDE DEF ds
  <2>5. Words(document, ds[Len(cs) + 1]) = p.words
    BY <2>1, <2>4 DEF Words, Gathering
  <2>6. Budgeted(document, ds[Len(cs) + 1])
    <3>1. p.words > MaxWords => p.blocks = 1
      BY <2>1 DEF Gathering
    <3>2. /\ ds[Len(cs) + 1] \in ChunkOf(document) /\ InPlace(ds[Len(cs) + 1])
          /\ \/ OwnAt(ds[Len(cs) + 1]) = DOMAIN ds[Len(cs) + 1].text
             \/ OpensWithACopy(ds[Len(cs) + 1])
      BY <2>3 DEF Appended, ds
    <3>3. OwnAt(ds[Len(cs) + 1]) = DOMAIN ds[Len(cs) + 1].text =>
             Words(document, ds[Len(cs) + 1]) = WordCount(document, ds[Len(cs) + 1])
          /\ WordCount(document, ds[Len(cs) + 1]) \in Nat
      BY <3>2, ChunkWords DEF Words
    <3>4. OwnAt(ds[Len(cs) + 1]) = DOMAIN ds[Len(cs) + 1].text =>
             ~ (Words(document, ds[Len(cs) + 1]) <= MaxWords
                  /\ WordCount(document, ds[Len(cs) + 1]) > MaxWords)
      <4> DEFINE w == WordCount(document, ds[Len(cs) + 1])
      <4>1. ASSUME w \in Nat PROVE ~ (w <= MaxWords /\ w > MaxWords)
        <5> HIDE DEF w
        <5>1. QED BY <4>1, ChunkerConstants
      <4>2. QED BY <3>3, <4>1
    <3>5. QED BY <2>4, <2>5, <3>1, <3>2, <3>4 DEF Budgeted
  <2>7. Len(cs) > 0 /\ Words(document, cs[Len(cs)]) < MinWords =>
           NoRoom(document, bs, Words(document, cs[Len(cs)]), ToSet(p.lines))
    BY <1>2 DEF LastFollows, Follows
  <2>8. Sized(document, bs, ds)
    BY <2>1, <2>4, <2>5, <2>6, <2>7, AddSized
  <2>9. QED BY <1>2, <2>1, <2>4, <2>5, <2>8 DEF ds
<1>3. QED BY <1>1, <1>2

-----------------------------------------------------------------------------
(* The merge of a short tail                                               *)

\* Two chunks as one: the lines of both, in their places.
LEMMA MergedChunk ==
  ASSUME NEW document \in Seq(Lines), NEW previous \in ChunkOf(document),
         NEW tail \in ChunkOf(document), InPlace(previous), InPlace(tail),
         \A i \in OwnLines(previous), j \in OwnLines(tail) : i < j
  PROVE  /\ Merged(previous, tail) \in ChunkOf(document) /\ InPlace(Merged(previous, tail))
         /\ OwnLines(Merged(previous, tail)) = OwnLines(previous) \cup OwnLines(tail)
         /\ Merged(previous, tail).sections = previous.sections \cup tail.sections
         /\ \A m \in DOMAIN Merged(previous, tail).text :
               \/ \E l \in DOMAIN previous.text : Merged(previous, tail).text[m] = previous.text[l]
               \/ \E l \in DOMAIN tail.text : Merged(previous, tail).text[m] = tail.text[l]
<1> DEFINE c == Merged(previous, tail)
           s == previous.text
           t == tail.text
           u == s \o t
           part == Parts(document)
           a == Len(s)
           b == Len(t)
<1>1. /\ c.text = u /\ c.blocks = previous.blocks + tail.blocks
      /\ c.sections = previous.sections \cup tail.sections
      /\ c = [text |-> c.text, blocks |-> c.blocks, sections |-> c.sections]
  BY DEF Merged
<1>2. /\ s \in Seq(part) /\ t \in Seq(part)
      /\ previous.blocks \in Nat /\ tail.blocks \in Nat
      /\ previous.sections \subseteq 1 .. Len(document) /\ tail.sections \subseteq 1 .. Len(document)
  BY DEF ChunkOf
<1> HIDE DEF s, t, part, c
<1>3. /\ u \in Seq(part) /\ a \in Nat /\ b \in Nat
      /\ DOMAIN u = 1 .. a + b /\ DOMAIN s = 1 .. a /\ DOMAIN t = 1 .. b
      /\ \A k \in 1 .. a : u[k] = s[k]
      /\ \A k \in 1 .. b : u[a + k] = t[k]
      /\ \A k \in 1 .. a + b : k \in 1 .. a \/ (k - a \in 1 .. b /\ u[k] = t[k - a])
  BY <1>2, ConcatLines
<1> HIDE DEF u, a, b
<1>4. c \in ChunkOf(document)
  <2>1. c.blocks \in Nat /\ c.sections \in SUBSET (1 .. Len(document)) /\ c.text \in Seq(part)
    BY <1>1, <1>2, <1>3
  <2>2. QED BY <1>1, <2>1 DEF ChunkOf, part
<1>5. /\ OwnAt(previous) = {m \in 1 .. a : s[m].from = 0}
      /\ OwnAt(tail) = {m \in 1 .. b : t[m].from = 0}
      /\ OwnAt(c) = {m \in 1 .. a + b : u[m].from = 0}
  BY <1>1, <1>3 DEF OwnAt, s, t
<1>6. /\ OwnLines(previous) = {s[m].line : m \in OwnAt(previous)}
      /\ OwnLines(tail) = {t[m].line : m \in OwnAt(tail)}
      /\ OwnLines(c) = {u[m].line : m \in OwnAt(c)}
  BY <1>1 DEF OwnLines, s, t
<1>7. \A m \in 1 .. a : m \in 1 .. a + b
  BY <1>3
<1>8. \A m \in 1 .. b : a + m \in 1 .. a + b
  BY <1>3
<1>9. \A m \in OwnAt(c) : \/ m \in OwnAt(previous) /\ u[m] = s[m]
                          \/ m \notin 1 .. a /\ m - a \in OwnAt(tail) /\ u[m] = t[m - a]
  BY <1>3, <1>5
<1>10. OwnLines(c) = OwnLines(previous) \cup OwnLines(tail)
  <2>1. \A m \in OwnAt(previous) : m \in OwnAt(c) /\ u[m] = s[m]
    BY <1>3, <1>5, <1>7
  <2>2. \A m \in OwnAt(tail) : a + m \in OwnAt(c) /\ u[a + m] = t[m]
    BY <1>3, <1>5, <1>8
  <2>3. OwnLines(c) \subseteq OwnLines(previous) \cup OwnLines(tail)
    BY <1>6, <1>9
  <2>4. OwnLines(previous) \subseteq OwnLines(c)
    BY <1>6, <2>1
  <2>5. OwnLines(tail) \subseteq OwnLines(c)
    BY <1>6, <2>2
  <2>6. QED BY <2>3, <2>4, <2>5
<1>11. ASSUME NEW l \in OwnAt(c), NEW m \in OwnAt(c), l < m
       PROVE  u[l].line < u[m].line
  <2>0. l \in 1 .. a + b /\ m \in 1 .. a + b
    BY <1>5
  <2>1. CASE m \in OwnAt(previous) /\ u[m] = s[m]
    <3>1. l \in 1 .. a
      BY <1>3, <1>5, <1>11, <2>0, <2>1
    <3>2. l \in OwnAt(previous) /\ u[l] = s[l]
      BY <1>9, <3>1
    <3>3. s[l].line < s[m].line
      BY <1>11, <2>1, <3>2 DEF InPlace, s
    <3>4. QED BY <2>1, <3>2, <3>3
  <2>2. CASE m \notin 1 .. a /\ m - a \in OwnAt(tail) /\ u[m] = t[m - a]
    <3>1. CASE l \in OwnAt(previous) /\ u[l] = s[l]
      BY <1>6, <2>2, <3>1
    <3>2. CASE l - a \in OwnAt(tail) /\ u[l] = t[l - a]
      <4>1. l - a < m - a
        BY <1>3, <1>11, <2>0
      <4>2. t[l - a].line < t[m - a].line
        BY <2>2, <3>2, <4>1 DEF InPlace, t
      <4>3. QED BY <2>2, <3>2, <4>2
    <3>3. QED BY <1>9, <3>1, <3>2
  <2>3. QED BY <1>9, <2>1, <2>2
<1>12. InPlace(c)
  BY <1>1, <1>11 DEF InPlace
<1>13. \A m \in DOMAIN c.text : \/ \E l \in DOMAIN s : c.text[m] = s[l]
                                \/ \E l \in DOMAIN t : c.text[m] = t[l]
  BY <1>1, <1>3
<1>14. QED BY <1>1, <1>4, <1>10, <1>12, <1>13 DEF c, s, t

\* The words of two texts, one after the other.
LEMMA MergedWords ==
  ASSUME NEW document \in Seq(Lines), NEW previous \in ChunkOf(document),
         NEW tail \in ChunkOf(document)
  PROVE  WordCount(document, Merged(previous, tail))
           = WordCount(document, previous) + WordCount(document, tail)
<1> DEFINE s == previous.text
           t == tail.text
           u == s \o t
           a == Len(s)
           b == Len(t)
           value(part) == document[part.line].words + (IF part.from = 0 THEN 0 ELSE MarkerWords)
           g == [m \in DOMAIN u |-> value(u[m])]
           p == [m \in DOMAIN s |-> value(s[m])]
           q == [m \in DOMAIN t |-> value(t[m])]
           e == [m \in DOMAIN t |-> a + m]
           shifted == {e[m] : m \in DOMAIN t}
<1>1. s \in Seq(Parts(document)) /\ t \in Seq(Parts(document))
  BY DEF ChunkOf
<1>2. \A part \in Parts(document) : value(part) \in Nat
  <2>1. SUFFICES ASSUME NEW part \in Parts(document) PROVE value(part) \in Nat
    OBVIOUS
  <2>2. part.line \in DOMAIN document /\ document[part.line] \in Lines
    BY DEF Parts
  <2>3. document[part.line].words \in Nat
    BY <2>2 DEF Lines
  <2>4. QED BY <2>3, ChunkerConstants
<1>3. /\ WordCount(document, previous) = Sum(p, DOMAIN s)
      /\ WordCount(document, tail) = Sum(q, DOMAIN t)
      /\ WordCount(document, Merged(previous, tail)) = Sum(g, DOMAIN u)
  BY DEF WordCount, SumFunction, Sum, Merged
<1> HIDE DEF value
<1>4. /\ u \in Seq(Parts(document)) /\ a \in Nat /\ b \in Nat
      /\ DOMAIN u = 1 .. a + b /\ DOMAIN s = 1 .. a /\ DOMAIN t = 1 .. b
      /\ \A k \in 1 .. a : u[k] = s[k]
      /\ \A k \in 1 .. b : u[a + k] = t[k]
      /\ \A k \in 1 .. a + b : k \in 1 .. a \/ (k - a \in 1 .. b /\ u[k] = t[k - a])
  <2> HIDE DEF s, t
  <2>1. QED BY <1>1, ConcatLines
<1>5. /\ \A m \in 1 .. a : s[m] \in Parts(document)
      /\ \A m \in 1 .. b : t[m] \in Parts(document)
      /\ \A m \in 1 .. a + b : u[m] \in Parts(document)
  <2> HIDE DEF s, t, u
  <2>1. QED BY <1>1, <1>4
<1> HIDE DEF s, t, u, a, b
<1>6. /\ \A m \in 1 .. a + b : g[m] \in Int
      /\ \A m \in 1 .. a : m \in 1 .. a + b /\ g[m] = p[m] /\ p[m] \in Int
      /\ \A m \in 1 .. b : e[m] = a + m /\ a + m \in 1 .. a + b /\ q[m] = g[a + m]
  <2>1. \A m \in 1 .. a : m \in 1 .. a + b
    BY <1>4
  <2>2. \A m \in 1 .. b : a + m \in 1 .. a + b
    BY <1>4
  <2>3. /\ \A m \in 1 .. a + b : g[m] = value(u[m])
        /\ \A m \in 1 .. a : p[m] = value(s[m])
        /\ \A m \in 1 .. b : q[m] = value(t[m]) /\ e[m] = a + m
    BY <1>4
  <2> HIDE DEF g, p, q, e
  <2>4. QED BY <1>2, <1>4, <1>5, <2>1, <2>2, <2>3
<1> HIDE DEF g, p, q, e, shifted
<1>7. \A l, m \in 1 .. b : e[l] = e[m] => l = m
  <2>1. SUFFICES ASSUME NEW l \in 1 .. b, NEW m \in 1 .. b, e[l] = e[m] PROVE l = m
    OBVIOUS
  <2>2. a + l = a + m
    BY <1>6, <2>1
  <2>3. QED BY <1>4, <2>2
<1>8. IsFiniteSet(1 .. a) /\ IsFiniteSet(1 .. b) /\ IsFiniteSet(1 .. a + b)
  BY <1>4, FS_Interval
<1>9. shifted = {e[m] : m \in 1 .. b}
  BY <1>4 DEF shifted
<1>10. 1 .. a + b = (1 .. a) \cup shifted /\ (1 .. a) \cap shifted = {}
       /\ shifted \in SUBSET (1 .. a + b)
  <2>1. ASSUME NEW k \in 1 .. a + b PROVE k \in 1 .. a \/ k \in shifted
    <3>1. CASE k \in 1 .. a
      BY <3>1
    <3>2. CASE k \notin 1 .. a
      <4>1. k - a \in 1 .. b /\ a + (k - a) = k
        BY <1>4, <3>2
      <4>2. e[k - a] = k
        BY <1>6, <4>1
      <4>3. QED BY <1>9, <4>1, <4>2
    <3>3. QED BY <3>1, <3>2
  <2>2. ASSUME NEW k \in shifted PROVE k \in 1 .. a + b /\ k \notin 1 .. a
    <3>1. PICK m \in 1 .. b : k = e[m]
      BY <1>9, <2>2
    <3>2. k = a + m
      BY <1>6, <3>1
    <3>3. QED BY <1>4, <1>6, <3>1, <3>2
  <2>3. \A k \in 1 .. a : k \in 1 .. a + b
    BY <1>6
  <2>4. QED BY <2>1, <2>2, <2>3
<1>11. IsFiniteSet(shifted)
  BY <1>8, <1>10, FS_Subset
<1>12. Sum(g, 1 .. a + b) = Sum(g, 1 .. a) + Sum(g, shifted)
  <2>1. \A k \in (1 .. a) \cup shifted : g[k] \in Int
    BY <1>6, <1>10
  <2>2. Sum(g, (1 .. a) \cup shifted) = Sum(g, 1 .. a) + Sum(g, shifted)
    BY <1>8, <1>10, <1>11, <2>1, SumUnion
  <2>3. QED BY <1>10, <2>2
<1>13. Sum(g, 1 .. a) = Sum(p, 1 .. a)
  <2>1. \A m \in 1 .. a : p[m] \in Int /\ g[m] = p[m]
    BY <1>6
  <2>2. Sum(p, 1 .. a) = Sum(g, 1 .. a)
    BY <1>8, <2>1, SumCongruence
  <2>3. QED BY <2>2
<1>14. Sum(q, 1 .. b) = Sum(g, {e[m] : m \in 1 .. b})
  <2> DEFINE those == 1 .. b
  <2>1. IsFiniteSet(those) /\ \A l, m \in those : e[l] = e[m] => l = m
    BY <1>7, <1>8
  <2>2. \A m \in those : q[m] = g[e[m]] /\ g[e[m]] \in Int
    BY <1>6
  <2>3. Sum(q, those) = Sum(g, {e[m] : m \in those})
    <3> HIDE DEF those
    <3>1. QED BY <2>1, <2>2, SumRenamed
  <2>4. QED BY <2>3
<1>15. QED BY <1>3, <1>4, <1>9, <1>12, <1>13, <1>14

\* A chunk that a tail goes into was not short: it had room for the tail.
LEMMA TailHasRoom ==
  ASSUME NEW document \in Seq(Lines), NEW bs, AreBlocks(document, bs),
         NEW cs, Filing(document, bs, Len(bs), cs, NoBlocks), Sized(document, bs, cs),
         Len(cs) > 1,
         WordCount(document, cs[Len(cs) - 1]) + WordCount(document, cs[Len(cs)]) <= MaxWords
  PROVE  ~ (Words(document, cs[Len(cs) - 1]) < MinWords)
<1> DEFINE N == Len(cs)
           previous == cs[N - 1]
           tail == cs[N]
<1>1. /\ N \in Nat /\ N - 1 \in 1 .. N /\ N \in 1 .. N /\ N - 1 < N
      /\ previous \in ChunkOf(document) /\ InPlace(previous)
      /\ tail \in ChunkOf(document) /\ InPlace(tail)
  <2>1. cs \in Seq(ChunkOf(document)) /\ \A n \in 1 .. N : InPlace(cs[n])
    BY DEF Filing
  <2>2. N \in Nat /\ N - 1 \in 1 .. N /\ N \in 1 .. N /\ N - 1 < N
    BY <2>1
  <2>3. QED BY <2>1, <2>2
<1>2. SUFFICES ASSUME Words(document, previous) < MinWords PROVE FALSE
  OBVIOUS
<1>3. NoRoom(document, bs, Words(document, previous), OwnLines(tail))
  <2>1. N - 1 \in 1 .. Len(cs) - 1 /\ N - 1 + 1 = N
    BY <1>1
  <2>2. QED BY <1>2, <2>1 DEF Sized
<1>4. PICK k \in 1 .. Len(bs) :
         /\ \E i \in ToSet(bs[k].lines) \cap OwnLines(tail) : \A j \in OwnLines(tail) : i <= j
         /\ Words(document, previous) + WordsOf(document, ToSet(bs[k].lines)) > MaxWords
  BY <1>3 DEF NoRoom
<1>5. PICK i \in ToSet(bs[k].lines) : i \in OwnLines(tail)
  BY <1>4
<1>6. \A m \in 1 .. Len(bs) : ToSet(bs[m].lines) \in SUBSET Nat
  <2>1. \A m \in 1 .. Len(bs) : ToSet(bs[m].lines) \in SUBSET (1 .. Len(document))
    BY BlockWords
  <2>2. (1 .. Len(document)) \subseteq Nat
    OBVIOUS
  <2>3. QED BY <2>1, <2>2
<1>7. Len(bs) \in Nat
  BY DEF AreBlocks
\* The block that opens the tail is one of content, whole in the tail.
<1>8. bs[k].kind # "heading"
  <2>1. PICK m \in 1 .. Len(bs) : bs[m].kind # "heading" /\ i \in ToSet(bs[m].lines)
    BY <1>1, <1>5 DEF Filing
  <2>2. ~ (m < k) /\ ~ (k < m)
    <3>1. ~ (i < i)
      BY <1>6
    <3>2. QED BY <1>5, <2>1, <3>1 DEF AreBlocks
  <2>3. m = k
    BY <1>7, <2>2
  <2>4. QED BY <2>1, <2>3
<1>9. PICK n \in 1 .. N : ToSet(bs[k].lines) \subseteq OwnLines(cs[n])
  <2>1. ToSet(NoBlocks.lines) = {}
    BY NothingGathered
  <2>2. \/ ToSet(bs[k].lines) \subseteq {}
        \/ \E n \in 1 .. N : ToSet(bs[k].lines) \subseteq OwnLines(cs[n])
    BY <1>8, <2>1 DEF Filing
  <2>3. QED BY <1>5, <2>2
<1>10. n = N
  <2>1. ~ (n < N)
    <3>1. i \in Nat /\ ~ (i < i)
      <4>1. i \in Nat
        BY <1>5, <1>6
      <4>2. QED BY <4>1
    <3>2. i \in OwnLines(cs[n]) /\ i \in OwnLines(cs[N])
      BY <1>5, <1>9
    <3>3. QED BY <1>1, <3>1, <3>2 DEF Filing
  <2>2. QED BY <1>1, <2>1
<1>11. /\ OwnLines(tail) \in SUBSET (1 .. Len(document))
       /\ WordCount(document, tail) \in Nat /\ WordCount(document, previous) \in Nat
       /\ WordsOf(document, OwnLines(tail)) <= WordCount(document, tail)
       /\ WordsOf(document, OwnLines(previous)) <= WordCount(document, previous)
       /\ OwnLines(previous) \in SUBSET (1 .. Len(document))
  <2> HIDE DEF previous, tail
  <2>1. QED BY <1>1, ChunkWords
<1>12. /\ WordsOf(document, ToSet(bs[k].lines)) <= WordsOf(document, OwnLines(tail))
       /\ WordsOf(document, ToSet(bs[k].lines)) \in Nat
       /\ WordsOf(document, OwnLines(tail)) \in Nat /\ WordsOf(document, OwnLines(previous)) \in Nat
  <2>1. ToSet(bs[k].lines) \in SUBSET OwnLines(tail)
    BY <1>9, <1>10
  <2> HIDE DEF tail, previous
  <2>2. WordsOf(document, ToSet(bs[k].lines)) \in Nat
    BY BlockWords
  <2>3. QED BY <1>11, <2>1, <2>2, WordsAdd
<1> DEFINE w == WordsOf(document, ToSet(bs[k].lines))
           x == WordsOf(document, OwnLines(previous))
           y == WordCount(document, tail)
           z == WordCount(document, previous)
<1>13. w <= y /\ x <= z /\ x + w > MaxWords /\ z + y <= MaxWords
       /\ w \in Nat /\ x \in Nat /\ y \in Nat /\ z \in Nat
  <2>1. w \in Nat /\ x \in Nat /\ y \in Nat /\ z \in Nat /\ x <= z
    BY <1>11, <1>12
  <2>2. w <= y
    <3> DEFINE v == WordsOf(document, OwnLines(tail))
    <3>1. w <= v /\ v <= y /\ v \in Nat
      BY <1>11, <1>12
    <3> HIDE DEF v, w, x, y, z
    <3>2. QED BY <2>1, <3>1
  <2>3. x + w > MaxWords /\ z + y <= MaxWords
    BY <1>4 DEF Words
  <2>4. QED BY <2>1, <2>2, <2>3
<1> HIDE DEF w, x, y, z
<1>14. QED BY <1>13, ChunkerConstants

\* What the chunks of a document are in the end.
Complete(document, bs, cs) ==
    /\ cs \in Seq(ChunkOf(document))
    /\ \A n \in 1 .. Len(cs) : InPlace(cs[n])
    /\ \A m \in 1 .. Len(bs) : bs[m].kind # "heading" =>
          \E n \in 1 .. Len(cs) : ToSet(bs[m].lines) \subseteq OwnLines(cs[n])
    /\ \A n \in 1 .. Len(cs) : \A i \in OwnLines(cs[n]) :
          \E m \in 1 .. Len(bs) : bs[m].kind # "heading" /\ i \in ToSet(bs[m].lines)
    /\ \A m, n \in 1 .. Len(cs) : m < n =>
          \A i \in OwnLines(cs[m]), j \in OwnLines(cs[n]) : i < j
    /\ \A n \in 1 .. Len(cs) : \A m \in DOMAIN cs[n].text : cs[n].text[m].from # 0 =>
          /\ cs[n].text[m].from \in 1 .. n
          /\ cs[n].text[m].line \in OwnLines(cs[cs[n].text[m].from])
    /\ \A n \in 1 .. Len(cs) : TrueLabels(document, OwnLines(cs[n]), cs[n].sections)
    /\ Sized(document, bs, cs)
    /\ Len(cs) > 1 /\ WordCount(document, cs[Len(cs)]) < MinWords =>
          WordCount(document, cs[Len(cs) - 1]) + WordCount(document, cs[Len(cs)]) > MaxWords

\* The last two of a sequence replaced by one.
LEMMA LastTwoAsOne ==
  ASSUME NEW S, NEW s \in Seq(S), Len(s) > 1, NEW x \in S
  PROVE  LET t == Append(SubSeq(s, 1, Len(s) - 2), x) IN
         /\ t \in Seq(S) /\ Len(t) = Len(s) - 1 /\ t[Len(s) - 1] = x
         /\ \A n \in 1 .. Len(s) - 2 : t[n] = s[n]
         /\ Len(s) \in Nat
<1> DEFINE r == SubSeq(s, 1, Len(s) - 2)
<1>1. Len(s) \in Nat /\ Len(s) - 2 \in Nat
  OBVIOUS
<1>2. r \in Seq(S) /\ Len(r) = Len(s) - 2 /\ \A n \in 1 .. Len(s) - 2 : r[n] = s[n]
  <2> DEFINE one == 1
             last == Len(s) - 2
  <2>1. one = 1 /\ one \in Int /\ last \in Int /\ \A n \in one .. last : s[n] \in S
    BY <1>1
  <2>2. last - one + 1 = last /\ last \in Nat
    BY <1>1
  <2> HIDE DEF one, last
  <2>3. one <= last \/ last = 0
    BY <2>1, <2>2
  <2>4. /\ SubSeq(s, one, last) \in Seq(S)
        /\ Len(SubSeq(s, one, last)) = IF one <= last THEN last - one + 1 ELSE 0
        /\ \A n \in 1 .. last - one + 1 : SubSeq(s, one, last)[n] = s[one + n - 1]
    BY <2>1, SubSeqProperties
  <2>5. \A n \in 1 .. last : one + n - 1 = n
    BY <2>1, <2>2
  <2>6. /\ SubSeq(s, one, last) \in Seq(S) /\ Len(SubSeq(s, one, last)) = last
        /\ \A n \in 1 .. last : SubSeq(s, one, last)[n] = s[n]
    BY <2>2, <2>3, <2>4, <2>5
  <2>7. QED BY <2>6 DEF one, last
<1> HIDE DEF r
<1>3. /\ Append(r, x) \in Seq(S) /\ Len(Append(r, x)) = Len(r) + 1
      /\ Append(r, x)[Len(r) + 1] = x /\ \A n \in 1 .. Len(r) : Append(r, x)[n] = r[n]
  BY <1>2, AppendLines
<1>4. Len(r) + 1 = Len(s) - 1
  BY <1>1, <1>2
<1>5. QED BY <1>1, <1>2, <1>3, <1>4 DEF r

\* The merge of the tail completes the chunks.
LEMMA AbsorbedCompletes ==
  ASSUME NEW document \in Seq(Lines), NEW bs, AreBlocks(document, bs),
         NEW cs, Filing(document, bs, Len(bs), cs, NoBlocks), CopiesHold(cs),
         \A n \in 1 .. Len(cs) : TrueLabels(document, OwnLines(cs[n]), cs[n].sections),
         Sized(document, bs, cs)
  PROVE  Complete(document, bs, Absorbed(document, cs))
<1> DEFINE N == Len(cs)
           previous == cs[N - 1]
           tail == cs[N]
           x == WordCount(document, previous)
           y == WordCount(document, tail)
           fits == N > 1 /\ y < MinWords /\ x + y <= MaxWords
           M == Merged(previous, tail)
           ds == Absorbed(document, cs)
<1>1. /\ cs \in Seq(ChunkOf(document)) /\ N \in Nat
      /\ \A n \in 1 .. N : InPlace(cs[n]) /\ cs[n] \in ChunkOf(document)
  BY DEF Filing
<1>2. /\ \A m \in 1 .. Len(bs) : bs[m].kind # "heading" =>
            \E n \in 1 .. N : ToSet(bs[m].lines) \subseteq OwnLines(cs[n])
      /\ \A n \in 1 .. N : \A i \in OwnLines(cs[n]) :
            \E m \in 1 .. Len(bs) : bs[m].kind # "heading" /\ i \in ToSet(bs[m].lines)
      /\ \A m, n \in 1 .. N : m < n => \A i \in OwnLines(cs[m]), j \in OwnLines(cs[n]) : i < j
  <2>1. ToSet(NoBlocks.lines) = {}
    BY NothingGathered
  <2>2. \A m \in 1 .. Len(bs) : bs[m].kind # "heading" =>
           \/ ToSet(bs[m].lines) \subseteq {}
           \/ \E n \in 1 .. N : ToSet(bs[m].lines) \subseteq OwnLines(cs[n])
    BY <2>1 DEF Filing
  <2>3. \A m \in 1 .. Len(bs) : ~ (ToSet(bs[m].lines) \subseteq {})
    <3>1. SUFFICES ASSUME NEW m \in 1 .. Len(bs) PROVE ToSet(bs[m].lines) # {}
      OBVIOUS
    <3>2. bs[m].lines # <<>> /\ bs[m].lines \in Seq(1 .. Len(document))
      BY DEF AreBlocks, IsBlock, Blocks
    <3>3. Len(bs[m].lines) > 0
      BY <3>2
    <3>4. 1 \in DOMAIN bs[m].lines
      BY <3>2, <3>3
    <3>5. QED BY <3>4 DEF ToSet
  <2>4. QED BY <2>2, <2>3 DEF Filing
<1>3. ASSUME ~ fits
      PROVE  Complete(document, bs, ds)
  <2>1. ds = cs
    BY <1>3 DEF Absorbed, Last
  <2>2. \A n \in 1 .. N : \A m \in DOMAIN cs[n].text : cs[n].text[m].from # 0 =>
           cs[n].text[m].from \in 1 .. n /\ cs[n].text[m].line \in OwnLines(cs[cs[n].text[m].from])
    <3>1. \A n \in 1 .. N : \A f \in 1 .. n - 1 : f \in 1 .. n
      OBVIOUS
    <3>2. QED BY <3>1 DEF CopiesHold
  <2>3. N > 1 /\ y < MinWords => x + y > MaxWords
    <3>1. SUFFICES ASSUME N > 1, y < MinWords PROVE x + y > MaxWords
      OBVIOUS
    <3>2. N \in 1 .. N /\ N - 1 \in 1 .. N
      BY <1>1, <3>1
    <3>3. x \in Nat /\ y \in Nat
      <4>1. previous \in ChunkOf(document) /\ InPlace(previous)
            /\ tail \in ChunkOf(document) /\ InPlace(tail)
        BY <1>1, <3>2
      <4> HIDE DEF previous, tail
      <4>2. QED BY <4>1, ChunkWords
    <3> HIDE DEF x, y
    <3>4. ~ (x + y <= MaxWords)
      BY <1>3, <3>1
    <3>5. QED BY <3>3, <3>4, ChunkerConstants
  <2> HIDE DEF ds
  <2>4. Complete(document, bs, cs)
    BY <1>1, <1>2, <2>2, <2>3 DEF Complete
  <2>5. QED BY <2>1, <2>4
<1>4. ASSUME fits
      PROVE  Complete(document, bs, ds)
  <2>1. /\ N > 1 /\ x + y <= MaxWords /\ N - 1 \in 1 .. N /\ N \in 1 .. N /\ N - 1 < N
        /\ previous \in ChunkOf(document) /\ InPlace(previous)
        /\ tail \in ChunkOf(document) /\ InPlace(tail)
        /\ \A i \in OwnLines(previous), j \in OwnLines(tail) : i < j
    <3>1. N > 1 /\ x + y <= MaxWords /\ N - 1 \in 1 .. N /\ N \in 1 .. N /\ N - 1 < N
      BY <1>1, <1>4
    <3> HIDE DEF x, y
    <3>2. QED BY <1>1, <1>2, <3>1
  <2>2. ds = Append(SubSeq(cs, 1, N - 2), M)
    BY <1>4 DEF Absorbed, Last
  <2>3. /\ M \in ChunkOf(document) /\ InPlace(M)
        /\ OwnLines(M) = OwnLines(previous) \cup OwnLines(tail)
        /\ M.sections = previous.sections \cup tail.sections
        /\ \A m \in DOMAIN M.text : \/ \E l \in DOMAIN previous.text : M.text[m] = previous.text[l]
                                    \/ \E l \in DOMAIN tail.text : M.text[m] = tail.text[l]
    <3> HIDE DEF previous, tail
    <3>1. QED BY <2>1, MergedChunk
  <2>4. ~ (Words(document, previous) < MinWords)
    BY <2>1, TailHasRoom
  <2> HIDE DEF M, ds
  <2>5. /\ ds \in Seq(ChunkOf(document)) /\ Len(ds) = N - 1 /\ ds[N - 1] = M
        /\ \A n \in 1 .. N - 2 : ds[n] = cs[n]
    BY <1>1, <2>1, <2>2, <2>3, LastTwoAsOne
  <2>6. /\ \A n \in 1 .. N - 1 : n \in 1 .. N - 2 \/ n = N - 1
        /\ \A n \in 1 .. N - 2 : n \in 1 .. N /\ n \in 1 .. N - 1 /\ n < N - 1
        /\ N - 1 \in 1 .. N - 1
        /\ \A n \in 1 .. N : n \in 1 .. N - 2 \/ n = N - 1 \/ n = N
    BY <1>1, <2>1
  <2>7. \A n \in 1 .. Len(ds) : InPlace(ds[n])
    BY <1>1, <2>3, <2>5, <2>6
  <2>8. \A n \in 1 .. N : \E l \in 1 .. Len(ds) : OwnLines(cs[n]) \subseteq OwnLines(ds[l])
    BY <2>3, <2>5, <2>6
  <2>9. \A m \in 1 .. Len(bs) : bs[m].kind # "heading" =>
           \E n \in 1 .. Len(ds) : ToSet(bs[m].lines) \subseteq OwnLines(ds[n])
    <3>1. SUFFICES ASSUME NEW m \in 1 .. Len(bs), bs[m].kind # "heading"
                   PROVE  \E n \in 1 .. Len(ds) : ToSet(bs[m].lines) \subseteq OwnLines(ds[n])
      OBVIOUS
    <3>2. PICK n \in 1 .. N : ToSet(bs[m].lines) \subseteq OwnLines(cs[n])
      BY <1>2, <3>1
    <3>3. PICK l \in 1 .. Len(ds) : OwnLines(cs[n]) \subseteq OwnLines(ds[l])
      BY <2>8
    <3>4. QED BY <3>2, <3>3
  <2>10. \A n \in 1 .. Len(ds) : \A i \in OwnLines(ds[n]) :
            \E l \in 1 .. N : i \in OwnLines(cs[l]) /\ (l = n \/ (n = N - 1 /\ l = N))
    BY <2>1, <2>3, <2>5, <2>6
  <2>11. \A n \in 1 .. Len(ds) : \A i \in OwnLines(ds[n]) :
            \E m \in 1 .. Len(bs) : bs[m].kind # "heading" /\ i \in ToSet(bs[m].lines)
    BY <1>2, <2>10
  <2>12. \A m, n \in 1 .. Len(ds) : m < n =>
            \A i \in OwnLines(ds[m]), j \in OwnLines(ds[n]) : i < j
    <3>1. SUFFICES ASSUME NEW m \in 1 .. Len(ds), NEW n \in 1 .. Len(ds), m < n,
                          NEW i \in OwnLines(ds[m]), NEW j \in OwnLines(ds[n])
                   PROVE  i < j
      OBVIOUS
    <3>2. m \in 1 .. N /\ m # N - 1 /\ i \in OwnLines(cs[m])
      BY <1>1, <2>5, <2>6, <3>1
    <3>3. PICK l \in 1 .. N : j \in OwnLines(cs[l]) /\ (l = n \/ (n = N - 1 /\ l = N))
      BY <2>10
    <3>4. m < l
      BY <1>1, <2>5, <3>1, <3>3
    <3>5. QED BY <1>2, <3>2, <3>3, <3>4
  <2>13. ASSUME NEW n \in 1 .. Len(ds), NEW m \in DOMAIN ds[n].text, ds[n].text[m].from # 0
         PROVE  /\ ds[n].text[m].from \in 1 .. n
                /\ ds[n].text[m].line \in OwnLines(ds[ds[n].text[m].from])
    <3> DEFINE f == ds[n].text[m].from
               i == ds[n].text[m].line
    <3>1. \E l \in 1 .. N : /\ l = n \/ (n = N - 1 /\ l = N)
                            /\ \E q \in DOMAIN cs[l].text : ds[n].text[m] = cs[l].text[q]
      <4>1. CASE n \in 1 .. N - 2
        BY <2>5, <2>6, <2>13, <4>1
      <4>2. CASE n = N - 1
        BY <2>1, <2>3, <2>5, <2>13, <4>2
      <4>3. QED BY <2>5, <2>6, <4>1, <4>2
    <3>2. PICK l \in 1 .. N : /\ l = n \/ (n = N - 1 /\ l = N)
                              /\ \E q \in DOMAIN cs[l].text : ds[n].text[m] = cs[l].text[q]
      BY <3>1
    <3>3. f \in 1 .. l - 1 /\ i \in OwnLines(cs[f])
      BY <2>13, <3>2 DEF CopiesHold
    <3>4. f \in 1 .. n /\ f \in 1 .. N - 1
      BY <1>1, <2>5, <3>2, <3>3
    <3>5. OwnLines(cs[f]) \subseteq OwnLines(ds[f])
      <4>1. CASE f \in 1 .. N - 2
        BY <2>5, <4>1
      <4>2. CASE f = N - 1
        BY <2>3, <2>5, <4>2
      <4>3. QED BY <2>6, <3>4, <4>1, <4>2
    <3> HIDE DEF f, i
    <3>6. f \in 1 .. n /\ i \in OwnLines(ds[f])
      BY <3>3, <3>4, <3>5
    <3>7. QED BY <3>6 DEF f, i
  <2>14. \A n \in 1 .. Len(ds) : TrueLabels(document, OwnLines(ds[n]), ds[n].sections)
    <3>1. TrueLabels(document, OwnLines(M), M.sections)
      <4>1. TrueLabels(document, OwnLines(previous), previous.sections)
            /\ TrueLabels(document, OwnLines(tail), tail.sections)
        BY <2>1
      <4> HIDE DEF previous, tail
      <4>2. QED BY <2>3, <4>1 DEF TrueLabels
    <3>2. QED BY <2>5, <2>6, <3>1
  <2>15. /\ OwnLines(M) \in SUBSET (1 .. Len(document))
         /\ WordCount(document, M) \in Nat
         /\ Words(document, M) <= WordCount(document, M)
         /\ Words(document, M) = Words(document, previous) + Words(document, tail)
         /\ Words(document, previous) \in Nat /\ Words(document, tail) \in Nat
         /\ Words(document, previous) <= x /\ Words(document, tail) <= y
         /\ x \in Nat /\ y \in Nat /\ WordCount(document, M) = x + y
    <3>1. /\ x \in Nat /\ y \in Nat
          /\ Words(document, previous) <= x /\ Words(document, tail) <= y
          /\ OwnLines(previous) \in SUBSET (1 .. Len(document))
          /\ OwnLines(tail) \in SUBSET (1 .. Len(document))
      <4> HIDE DEF previous, tail
      <4>1. QED BY <2>1, ChunkWords DEF Words
    <3>2. /\ OwnLines(M) \in SUBSET (1 .. Len(document)) /\ WordCount(document, M) \in Nat
          /\ Words(document, M) <= WordCount(document, M)
      BY <2>3, ChunkWords DEF Words
    <3>3. OwnLines(previous) \cap OwnLines(tail) = {}
      <4>1. \A i \in OwnLines(previous) : i \in Nat /\ ~ (i < i)
        <5>1. \A i \in OwnLines(previous) : i \in 1 .. Len(document)
          BY <3>1
        <5>2. QED BY <5>1
      <4>2. QED BY <2>1, <4>1
    <3>4. /\ Words(document, previous) \in Nat /\ Words(document, tail) \in Nat
          /\ WordsOf(document, OwnLines(previous) \cup OwnLines(tail))
             = Words(document, previous) + Words(document, tail)
      <4> HIDE DEF previous, tail
      <4>1. QED BY <3>1, <3>3, WordsAdd DEF Words
    <3>5. Words(document, M) = WordsOf(document, OwnLines(previous) \cup OwnLines(tail))
      BY <2>3 DEF Words
    <3>6. WordCount(document, M) = x + y
      <4> HIDE DEF previous, tail
      <4>1. QED BY <2>1, MergedWords DEF M
    <3>7. QED BY <3>1, <3>2, <3>4, <3>5, <3>6
  <2>16. /\ ~ (Words(document, M) > MaxWords) /\ ~ (WordCount(document, M) < MinWords)
         /\ ~ (WordCount(document, M) > MaxWords)
    <3> DEFINE o == Words(document, M)
               c == WordCount(document, M)
               v == Words(document, previous)
               w == Words(document, tail)
    <3>1. /\ c \in Nat /\ c = x + y /\ o <= c /\ o = v + w /\ v \in Nat /\ w \in Nat /\ v <= x /\ w <= y
          /\ x \in Nat /\ y \in Nat /\ x + y <= MaxWords /\ ~ (v < MinWords)
      BY <2>1, <2>4, <2>15
    <3> HIDE DEF o, c, v, w, x, y
    <3>2. ~ (o > MaxWords) /\ ~ (c < MinWords) /\ ~ (c > MaxWords)
      BY <3>1, ChunkerConstants
    <3>3. QED BY <3>2 DEF o, c
  <2>17. Sized(document, bs, ds)
    <3>1. ASSUME NEW n \in 1 .. Len(ds) PROVE Budgeted(document, ds[n])
      <4>1. \A m \in 1 .. N : Budgeted(document, cs[m])
        BY DEF Sized
      <4>2. Budgeted(document, M)
        BY <2>16 DEF Budgeted
      <4>3. CASE n = N - 1
        BY <2>5, <4>2, <4>3
      <4>4. CASE n # N - 1
        BY <2>5, <2>6, <4>1, <4>4
      <4>5. QED BY <4>3, <4>4
    <3>2. ASSUME NEW n \in 1 .. Len(ds) - 1, Words(document, ds[n]) < MinWords
          PROVE  NoRoom(document, bs, Words(document, ds[n]), OwnLines(ds[n + 1]))
      <4>1. n \in 1 .. N - 2 /\ ds[n] = cs[n] /\ n \in 1 .. Len(cs) - 1
        BY <1>1, <2>5
      <4>2. NoRoom(document, bs, Words(document, cs[n]), OwnLines(cs[n + 1]))
        BY <3>2, <4>1 DEF Sized
      <4>3. CASE n + 1 \in 1 .. N - 2
        BY <2>5, <4>1, <4>2, <4>3
      <4>4. CASE n + 1 = N - 1
        <5>1. NoRoom(document, bs, Words(document, cs[n]), OwnLines(previous))
          BY <4>2, <4>4
        <5>2. PICK k \in 1 .. Len(bs) :
                 /\ \E i \in ToSet(bs[k].lines) \cap OwnLines(previous) :
                       \A j \in OwnLines(previous) : i <= j
                 /\ Words(document, cs[n]) + WordsOf(document, ToSet(bs[k].lines)) > MaxWords
          BY <5>1 DEF NoRoom
        <5>3. PICK i \in ToSet(bs[k].lines) \cap OwnLines(previous) :
                 \A j \in OwnLines(previous) : i <= j
          BY <5>2
        <5>4. \A j \in OwnLines(M) : i <= j
          <6>1. \A j \in OwnLines(M) : i \in Nat /\ j \in Nat
            <7>1. \A j \in OwnLines(M) : j \in 1 .. Len(document)
              BY <2>15
            <7>2. i \in OwnLines(M)
              BY <2>3, <5>3
            <7>3. QED BY <7>1, <7>2
          <6>2. \A j \in OwnLines(tail) : i < j
            BY <2>1, <5>3
          <6>3. \A j \in OwnLines(M) : j \in OwnLines(previous) \/ j \in OwnLines(tail)
            BY <2>3
          <6>4. QED BY <5>3, <6>1, <6>2, <6>3
        <5>5. NoRoom(document, bs, Words(document, cs[n]), OwnLines(M))
          BY <2>3, <5>2, <5>3, <5>4 DEF NoRoom
        <5>6. QED BY <2>5, <4>1, <4>4, <5>5
      <4>5. QED BY <1>1, <4>1, <4>3, <4>4
    <3>3. QED BY <3>1, <3>2 DEF Sized
  <2>18. ~ (WordCount(document, ds[Len(ds)]) < MinWords)
    BY <2>5, <2>16
  <2>19. QED BY <2>5, <2>7, <2>9, <2>11, <2>12, <2>13, <2>14, <2>17, <2>18 DEF Complete
<1>5. QED BY <1>3, <1>4

-----------------------------------------------------------------------------
(* The invariant                                                           *)

Reading ==
    /\ body \in Bodies /\ blocks = split_blocks(body)
    /\ at \in 0 .. Len(blocks) /\ pc \in {"blocks", "done"}

Held(document, bs, k, levels, cs, p, s, c) ==
    /\ Gathered(document, bs, k, cs, p, s, c)
    /\ Stacked(document, bs, k, levels)
    /\ Sized(document, bs, cs) /\ LastFollows(document, bs, cs, p)

ChunkerInv ==
    /\ Reading
    /\ pc = "blocks" => Held(body, blocks, at, stack, chunks, pending, sections, carry)
    /\ pc = "done" => Complete(body, blocks, chunks)

\* What holds of the blocks of a document in every state.
LEMMA BlocksRead ==
  ASSUME Reading
  PROVE  /\ body \in Seq(Lines) /\ AreBlocks(body, blocks) /\ Len(blocks) \in Nat
         /\ \A i \in 1 .. Len(body) : body[i].kind # "blank" =>
               \E m \in 1 .. Len(blocks) : i \in ToSet(blocks[m].lines)
         /\ \A i \in 1 .. Len(body) - 1 : OneBlock(body, i) =>
               \E m \in 1 .. Len(blocks) : {i, i + 1} \subseteq ToSet(blocks[m].lines)
<1>1. body \in Seq(Lines)
  BY ChunkerConstants DEF Reading
<1>2. /\ AreBlocks(body, split_blocks(body))
      /\ \A i \in 1 .. Len(body) : body[i].kind # "blank" =>
            \E m \in 1 .. Len(split_blocks(body)) : i \in ToSet(split_blocks(body)[m].lines)
      /\ \A i \in 1 .. Len(body) - 1 : OneBlock(body, i) =>
            \E m \in 1 .. Len(split_blocks(body)) : {i, i + 1} \subseteq ToSet(split_blocks(body)[m].lines)
  BY <1>1, BlocksOfDocument
<1>3. split_blocks(body) = blocks
  BY DEF Reading
<1>4. /\ AreBlocks(body, blocks)
      /\ \A i \in 1 .. Len(body) : body[i].kind # "blank" =>
            \E m \in 1 .. Len(blocks) : i \in ToSet(blocks[m].lines)
      /\ \A i \in 1 .. Len(body) - 1 : OneBlock(body, i) =>
            \E m \in 1 .. Len(blocks) : {i, i + 1} \subseteq ToSet(blocks[m].lines)
  BY <1>2, <1>3
<1>5. Len(blocks) \in Nat
  BY <1>4 DEF AreBlocks
<1>6. QED BY <1>1, <1>4, <1>5

LEMMA LastWords ==
  ASSUME NEW document \in Seq(Lines), NEW bs, NEW k, NEW cs, NEW p,
         Filing(document, bs, k, cs, p)
  PROVE  Len(cs) \in Nat /\ (Len(cs) > 0 => Words(document, cs[Len(cs)]) \in Nat)
<1>1. cs \in Seq(ChunkOf(document)) /\ Len(cs) \in Nat
  BY DEF Filing
<1>2. SUFFICES ASSUME Len(cs) > 0 PROVE Words(document, cs[Len(cs)]) \in Nat
  BY <1>1
<1>3. cs[Len(cs)] \in ChunkOf(document) /\ InPlace(cs[Len(cs)])
  BY <1>1, <1>2 DEF Filing
<1>4. OwnLines(cs[Len(cs)]) \in SUBSET (1 .. Len(document))
  BY <1>3, ChunkWords
<1>5. QED BY <1>4, WordsAdd DEF Words

\* emit(), with what it does to the sizes.
LEMMA EmitHolds ==
  ASSUME NEW document \in Seq(Lines), NEW bs, NEW k \in Nat, NEW levels,
         NEW cs, NEW p, NEW s, NEW c, Held(document, bs, k, levels, cs, p, s, c)
  PROVE  LET ds == Emitted(cs, p, s, c).chunks
             d == Emitted(cs, p, s, c).carry
         IN /\ Gathered(document, bs, k, ds, NoBlocks, {}, d)
            /\ Sized(document, bs, ds)
            /\ Len(ds) > 0 => Words(document, ds[Len(ds)]) \in Nat
            /\ p.blocks = 0 => ds = cs
            /\ p.blocks # 0 => Len(ds) > 0 /\ Words(document, ds[Len(ds)]) = p.words
<1> DEFINE ds == Emitted(cs, p, s, c).chunks
           d == Emitted(cs, p, s, c).carry
<1>1. Gathered(document, bs, k, cs, p, s, c) /\ Sized(document, bs, cs)
      /\ LastFollows(document, bs, cs, p)
  BY DEF Held
<1>2. Gathered(document, bs, k, ds, NoBlocks, {}, d)
  BY <1>1, EmitKeeps
<1>3. /\ Sized(document, bs, ds)
      /\ p.blocks = 0 => ds = cs
      /\ p.blocks # 0 => Len(ds) > 0 /\ Words(document, ds[Len(ds)]) = p.words
  BY <1>1, EmitSizes
<1> HIDE DEF ds, d
<1>4. Filing(document, bs, k, ds, NoBlocks)
  BY <1>2 DEF Gathered
<1>5. Len(ds) > 0 => Words(document, ds[Len(ds)]) \in Nat
  BY <1>4, LastWords
<1>6. QED BY <1>2, <1>3, <1>5 DEF ds, d

\* A block alone after an emit().
LEMMA BlockAlone ==
  ASSUME NEW document \in Seq(Lines), NEW bs, AreBlocks(document, bs),
         \A i \in 1 .. Len(document) : document[i].kind # "blank" =>
            \E m \in 1 .. Len(bs) : i \in ToSet(bs[m].lines),
         NEW k \in Nat, k < Len(bs), bs[k + 1].kind # "heading",
         NEW levels, Stacked(document, bs, k, levels),
         NEW ds, NEW d, Gathered(document, bs, k, ds, NoBlocks, {}, d)
  PROVE  LET q == Join(document, NoBlocks, bs[k + 1]) IN
         /\ Gathered(document, bs, k + 1, ds, q, Labelled({}, levels), d)
         /\ q.blocks > 0 /\ q.blocks # 0 /\ ToSet(q.lines) = ToSet(bs[k + 1].lines)
         /\ q.words = WordsOf(document, ToSet(bs[k + 1].lines))
<1> DEFINE B == ToSet(bs[k + 1].lines)
           q == Join(document, NoBlocks, bs[k + 1])
           labels == Labelled({}, levels)
<1>1. k + 1 \in 1 .. Len(bs) /\ bs[k + 1].lines \in Seq(1 .. Len(document))
      /\ bs[k + 1].lines # <<>>
  <2>1. k + 1 \in 1 .. Len(bs)
    BY DEF AreBlocks
  <2>2. IsBlock(document, bs[k + 1])
    BY <2>1 DEF AreBlocks
  <2>3. QED BY <2>1, <2>2 DEF IsBlock, Blocks
<1>2. B # {}
  <2>1. Len(bs[k + 1].lines) > 0
    BY <1>1
  <2>2. 1 \in DOMAIN bs[k + 1].lines
    BY <1>1, <2>1
  <2>3. bs[k + 1].lines[1] \in B
    BY <2>2 DEF ToSet
  <2>4. QED BY <2>3
<1>3. NoBlocks.blocks = 0 /\ ToSet(NoBlocks.lines) = {} /\ ~ (NoBlocks.blocks > 0)
  BY NothingGathered
<1>4. \A i \in B :
         /\ InScope(levels) = Scope(document, i) /\ Scope(document, i) \subseteq 1 .. Len(document)
         /\ Innermost(levels) \subseteq Scope(document, i)
         /\ Scope(document, i) # {} =>
               \E j \in Innermost(levels) \cap Scope(document, i) :
                  \A g \in Scope(document, i) : g <= j
  BY ScopeOfStack
<1>5. TrueLabels(document, {}, {}) /\ {} \subseteq 1 .. Len(document)
  BY DEF TrueLabels
<1> HIDE DEF B
<1> DEFINE none == {}
<1>6. TrueLabels(document, none \cup B, Labelled(none, levels))
      /\ Labelled(none, levels) \subseteq 1 .. Len(document)
  <2> HIDE DEF none
  <2>1. TrueLabels(document, none, none) /\ none \subseteq 1 .. Len(document)
    BY <1>5 DEF none
  <2>2. QED BY <1>2, <1>4, <2>1, LabelledIsTrue
<1>7. labels \subseteq 1 .. Len(document)
      /\ TrueLabels(document, ToSet(NoBlocks.lines) \cup ToSet(bs[k + 1].lines), labels)
  <2>1. ToSet(NoBlocks.lines) \cup ToSet(bs[k + 1].lines) = none \cup B
    BY <1>3 DEF B
  <2>2. QED BY <1>6, <2>1
<1> HIDE DEF labels
<1>8. /\ Gathered(document, bs, k + 1, ds, q, labels, d)
      /\ q.blocks > 0
      /\ ToSet(q.lines) = ToSet(NoBlocks.lines) \cup ToSet(bs[k + 1].lines)
      /\ q.words = WordsOf(document, ToSet(bs[k + 1].lines))
  <2> DEFINE p == NoBlocks
  <2>1. p.blocks > 0 => p.words + WordsOf(document, ToSet(bs[k + 1].lines)) <= MaxWords
    BY <1>3
  <2>2. Gathered(document, bs, k, ds, p, none, d)
    OBVIOUS
  <2>3. TrueLabels(document, ToSet(p.lines) \cup ToSet(bs[k + 1].lines), labels)
    BY <1>7
  <2>4. q = Join(document, p, bs[k + 1])
    OBVIOUS
  <2> HIDE DEF p, none, q
  <2>5. JoinedTo(document, bs, k, ds, p, d, labels, Join(document, p, bs[k + 1]))
    BY <1>7, <2>1, <2>2, <2>3, JoinKeeps
  <2>6. JoinedTo(document, bs, k, ds, p, d, labels, q)
    BY <2>4, <2>5
  <2>7. QED BY <1>3, <2>6 DEF p, JoinedTo
<1> HIDE DEF q
<1>9. QED BY <1>3, <1>8 DEF q, labels

\* The invariant holds initially.
LEMMA ChunkerStarts ==
  ASSUME ChunkerInit
  PROVE  ChunkerInv
<1>1. Reading /\ pc = "blocks" /\ at = 0
  <2>1. body \in Seq(Lines)
    BY ChunkerConstants DEF ChunkerInit
  <2>2. AreBlocks(body, split_blocks(body))
    BY <2>1, BlocksOfDocument
  <2>3. Len(blocks) \in Nat
    BY <2>2 DEF ChunkerInit, AreBlocks
  <2>4. QED BY <2>3 DEF ChunkerInit, Reading
<1>2. /\ chunks = <<>> /\ pending = NoBlocks /\ sections = {} /\ carry = NoCarry
      /\ stack = [l \in {} |-> 0] /\ body \in Seq(Lines)
  BY ChunkerConstants DEF ChunkerInit
<1>3. /\ Gathering(body, NoBlocks) /\ NoBlocks.blocks = 0 /\ ToSet(NoBlocks.lines) = {}
  BY <1>2, NothingGathered
<1> DEFINE z == 0
<1>4. Filing(body, blocks, z, <<>>, NoBlocks)
  <2>1. \A m \in 1 .. z : FALSE
    OBVIOUS
  <2>2. Len(<<>>) = z /\ <<>> \in Seq(ChunkOf(body))
    OBVIOUS
  <2> HIDE DEF z
  <2>3. QED BY <1>3, <2>1, <2>2 DEF Filing
<1>5. CopiesHold(<<>>) /\ Carrying(body, <<>>, NoCarry)
  <2>1. NoCarry \in Carries(body) /\ NoCarry.line = 0
    BY DEF NoCarry, Carries
  <2>2. QED BY <2>1 DEF CopiesHold, Carrying
<1>6. Labelling(body, <<>>, NoBlocks, {})
  BY <1>3 DEF Labelling, TrueLabels
<1>7. Gathered(body, blocks, z, <<>>, NoBlocks, {}, NoCarry)
  <2> HIDE DEF z
  <2>1. QED BY <1>4, <1>5, <1>6 DEF Gathered
<1>8. Stacked(body, blocks, z, [l \in {} |-> 0])
  <2>1. HeadingsRead(blocks, z) = {} /\ DOMAIN [l \in {} |-> 0] = {}
    BY DEF HeadingsRead
  <2> HIDE DEF z
  <2>2. QED BY <2>1 DEF Stacked
<1>9. Sized(body, blocks, <<>>) /\ LastFollows(body, blocks, <<>>, NoBlocks)
  BY DEF Sized, LastFollows
<1>10. Held(body, blocks, at, stack, chunks, pending, sections, carry)
  <2>1. at = z
    BY <1>1
  <2> HIDE DEF z
  <2>2. QED BY <1>2, <1>7, <1>8, <1>9, <2>1 DEF Held
<1>11. QED BY <1>1, <1>10 DEF ChunkerInv

\* Reading goes on, block by block.
LEMMA ReadOn ==
  ASSUME Reading, NEW kinds, ReadBlock(kinds)
  PROVE  /\ Reading' /\ pc = "blocks" /\ pc' = "blocks"
         /\ body' = body /\ blocks' = blocks /\ at' = at + 1
         /\ at \in Nat /\ at < Len(blocks) /\ blocks[at + 1].kind \in kinds
<1>1. /\ pc = "blocks" /\ pc' = "blocks" /\ body' = body /\ blocks' = blocks /\ at' = at + 1
      /\ at < Len(blocks) /\ blocks[at + 1].kind \in kinds
  BY DEF ReadBlock
<1>2. Len(blocks) \in Nat
  BY BlocksRead
<1>3. at \in Nat /\ at + 1 \in 0 .. Len(blocks)
  BY <1>1, <1>2 DEF Reading
<1>4. QED BY <1>1, <1>3 DEF Reading

\* A heading ends a chunk that is long enough.
LEMMA HeadingHolds ==
  ASSUME ChunkerInv, Heading
  PROVE  ChunkerInv'
<1> DEFINE e == Emitted(chunks, pending, sections, carry)
           ds == e.chunks
           d == e.carry
<1>1. /\ Reading' /\ pc = "blocks" /\ pc' = "blocks"
      /\ body' = body /\ blocks' = blocks /\ at' = at + 1
      /\ at \in Nat /\ at < Len(blocks) /\ blocks[at + 1].kind = "heading"
  BY ReadOn DEF ChunkerInv, Heading
<1>2. body \in Seq(Lines) /\ AreBlocks(body, blocks)
  BY BlocksRead DEF ChunkerInv
<1>3. Held(body, blocks, at, stack, chunks, pending, sections, carry)
  BY <1>1 DEF ChunkerInv
<1>4. Stacked(body, blocks, at + 1, stack')
  <2>1. stack' = Under(stack, blocks[at + 1])
    BY DEF Heading
  <2>2. Stacked(body, blocks, at, stack)
    BY <1>3 DEF Held
  <2>3. Stacked(body, blocks, at + 1, Under(stack, blocks[at + 1]))
    BY <1>1, <1>2, <2>2, StackUnder
  <2>4. QED BY <2>1, <2>3
<1>5. CASE ClosesChunk(blocks[at + 1])
  <2>1. /\ chunks' = ds /\ carry' = d /\ pending' = NoBlocks /\ sections' = {}
        /\ ~ (pending.words < MinWords)
    <3>1. chunks' = ds /\ carry' = d /\ pending' = NoBlocks /\ sections' = {}
      BY <1>5 DEF Heading, Emit
    <3>2. pending.words >= MinWords /\ pending.words \in Nat
      <4>1. pending.words >= MinWords
        BY <1>5 DEF ClosesChunk
      <4>2. Gathering(body, pending)
        BY <1>3 DEF Held, Gathered, Filing
      <4>3. QED BY <4>1, <4>2 DEF Gathering
    <3>3. QED BY <3>1, <3>2, ChunkerConstants
  <2>2. /\ Gathered(body, blocks, at, ds, NoBlocks, {}, d)
        /\ Sized(body, blocks, ds)
        /\ pending.blocks = 0 => ds = chunks
        /\ pending.blocks # 0 => Len(ds) > 0 /\ Words(body, ds[Len(ds)]) = pending.words
    BY <1>1, <1>2, <1>3, EmitHolds
  <2> HIDE DEF ds, d
  <2>3. Gathered(body, blocks, at + 1, ds, NoBlocks, {}, d)
    BY <1>1, <2>2, HeadingKeeps
  <2>4. LastFollows(body, blocks, ds, NoBlocks)
    <3>1. NoBlocks.blocks = 0
      BY DEF NoBlocks
    <3>2. CASE pending.blocks # 0
      BY <2>1, <2>2, <3>2 DEF LastFollows, Follows
    <3>3. CASE pending.blocks = 0
      <4>1. LastFollows(body, blocks, chunks, pending) /\ ds = chunks
        BY <1>3, <2>2, <3>3 DEF Held
      <4>2. QED BY <3>1, <3>3, <4>1 DEF LastFollows, Follows
    <3>4. QED BY <3>2, <3>3
  <2>5. Held(body, blocks, at + 1, stack', ds, NoBlocks, {}, d)
    BY <1>4, <2>2, <2>3, <2>4 DEF Held
  <2>6. Held(body', blocks', at', stack', chunks', pending', sections', carry')
    BY <1>1, <2>1, <2>5
  <2>7. QED BY <1>1, <2>6 DEF ChunkerInv
<1>6. CASE ~ ClosesChunk(blocks[at + 1])
  <2>1. chunks' = chunks /\ carry' = carry /\ pending' = pending /\ sections' = sections
    BY <1>6 DEF Heading
  <2>2. Gathered(body, blocks, at + 1, chunks, pending, sections, carry)
    BY <1>1, <1>3, HeadingKeeps DEF Held
  <2>3. Held(body, blocks, at + 1, stack', chunks, pending, sections, carry)
    BY <1>3, <1>4, <2>2 DEF Held
  <2>4. Held(body', blocks', at', stack', chunks', pending', sections', carry')
    BY <1>1, <2>1, <2>3
  <2>5. QED BY <1>1, <2>4 DEF ChunkerInv
<1>7. QED BY <1>5, <1>6

\* A block of content joins what is gathered, or follows it.
LEMMA AddBlockHolds ==
  ASSUME ChunkerInv, AddBlock
  PROVE  ChunkerInv'
<1> DEFINE block == blocks[at + 1]
           B == ToSet(block.lines)
           q == Join(body, pending, block)
           r == Join(body, NoBlocks, block)
           e == Emitted(chunks, pending, sections, carry)
           ds == e.chunks
           d == e.carry
<1>1. /\ Reading' /\ pc = "blocks" /\ pc' = "blocks"
      /\ body' = body /\ blocks' = blocks /\ at' = at + 1
      /\ at \in Nat /\ at < Len(blocks) /\ block.kind # "heading" /\ stack' = stack
  <2>1. "heading" \notin Content
    BY DEF Content
  <2>2. QED BY <2>1, ReadOn DEF ChunkerInv, AddBlock
<1>2. /\ body \in Seq(Lines) /\ AreBlocks(body, blocks) /\ Len(blocks) \in Nat
      /\ \A i \in 1 .. Len(body) : body[i].kind # "blank" =>
            \E m \in 1 .. Len(blocks) : i \in ToSet(blocks[m].lines)
  BY BlocksRead DEF ChunkerInv
<1>3. /\ Held(body, blocks, at, stack, chunks, pending, sections, carry)
      /\ Gathered(body, blocks, at, chunks, pending, sections, carry)
      /\ Stacked(body, blocks, at, stack) /\ Sized(body, blocks, chunks)
      /\ LastFollows(body, blocks, chunks, pending)
  BY <1>1 DEF ChunkerInv, Held
<1>4. at + 1 \in 1 .. Len(blocks)
  BY <1>1, <1>2
<1>5. Stacked(body, blocks, at + 1, stack)
  BY <1>1, <1>3, StackOver
<1>6. WordsOf(body, B) \in Nat
  BY <1>2, <1>4, BlockWords
<1>7. /\ Gathering(body, pending) /\ pending.words \in Nat /\ pending.blocks \in Nat
      /\ Filing(body, blocks, at, chunks, pending)
  BY <1>3 DEF Gathered, Filing, Gathering
<1>8. CASE Overflows(block)
  <2>1. /\ chunks' = ds /\ carry' = d /\ pending' = r /\ sections' = Labelled({}, stack)
        /\ pending.blocks # 0 /\ pending.words + WordsOf(body, B) > MaxWords
    <3>1. chunks' = ds /\ carry' = d /\ pending' = r /\ sections' = Labelled({}, stack)
      BY <1>8 DEF AddBlock, Emit
    <3>2. pending.blocks > 0 /\ pending.words + WordsOf(body, B) > MaxWords
      BY <1>8 DEF Overflows
    <3>3. QED BY <3>1, <3>2
  <2>2. /\ Gathered(body, blocks, at, ds, NoBlocks, {}, d)
        /\ Sized(body, blocks, ds)
        /\ pending.blocks # 0 => Len(ds) > 0 /\ Words(body, ds[Len(ds)]) = pending.words
    BY <1>1, <1>2, <1>3, EmitHolds
  <2> HIDE DEF ds, d
  <2>3. /\ Gathered(body, blocks, at + 1, ds, r, Labelled({}, stack), d)
        /\ r.blocks # 0 /\ ToSet(r.lines) = B
    BY <1>1, <1>2, <1>3, <2>2, BlockAlone
  <2> HIDE DEF r
  <2>4. LastFollows(body, blocks, ds, r)
    <3>1. NoRoom(body, blocks, pending.words, B)
      BY <1>2, <1>4, <1>7, <2>1, BlockOpens
    <3>2. QED BY <2>1, <2>2, <2>3, <3>1 DEF LastFollows, Follows
  <2>5. Held(body, blocks, at + 1, stack, ds, r, Labelled({}, stack), d)
    BY <1>5, <2>2, <2>3, <2>4 DEF Held
  <2>6. Held(body', blocks', at', stack', chunks', pending', sections', carry')
    BY <1>1, <2>1, <2>5
  <2>7. QED BY <1>1, <2>6 DEF ChunkerInv
<1>9. CASE ~ Overflows(block)
  <2> DEFINE labels == Labelled(sections, stack)
  <2>1. chunks' = chunks /\ carry' = carry /\ pending' = q /\ sections' = labels
    BY <1>9 DEF AddBlock
  <2>2. pending.blocks > 0 => pending.words + WordsOf(body, ToSet(blocks[at + 1].lines)) <= MaxWords
    <3> DEFINE w == WordsOf(body, ToSet(blocks[at + 1].lines))
    <3>1. pending.blocks > 0 => ~ (pending.words + w > MaxWords)
      BY <1>9 DEF Overflows
    <3>2. w \in Nat
      BY <1>6
    <3> HIDE DEF w
    <3>3. pending.blocks > 0 => pending.words + w <= MaxWords
      BY <1>7, <3>1, <3>2, ChunkerConstants
    <3>4. QED BY <3>3 DEF w
  <2>3. B # {}
    <3>1. block.lines \in Seq(1 .. Len(body)) /\ block.lines # <<>>
      BY <1>2, <1>4 DEF AreBlocks, IsBlock, Blocks
    <3>2. Len(block.lines) > 0
      BY <3>1
    <3>3. 1 \in DOMAIN block.lines
      BY <3>1, <3>2
    <3>4. block.lines[1] \in B
      BY <3>3 DEF ToSet
    <3>5. QED BY <3>4
  <2>4. TrueLabels(body, ToSet(pending.lines), sections) /\ sections \subseteq 1 .. Len(body)
    BY <1>3 DEF Gathered, Labelling
  <2>5. \A i \in B :
           /\ InScope(stack) = Scope(body, i) /\ Scope(body, i) \subseteq 1 .. Len(body)
           /\ Innermost(stack) \subseteq Scope(body, i)
           /\ Scope(body, i) # {} =>
                 \E j \in Innermost(stack) \cap Scope(body, i) : \A g \in Scope(body, i) : g <= j
    BY <1>1, <1>2, <1>3, ScopeOfStack
  <2>6. TrueLabels(body, ToSet(pending.lines) \cup B, labels) /\ labels \subseteq 1 .. Len(body)
    <3> HIDE DEF B
    <3>1. QED BY <2>3, <2>4, <2>5, LabelledIsTrue
  <2> HIDE DEF labels
  <2>7. JoinedTo(body, blocks, at, chunks, pending, carry, labels, q)
    <3>1. TrueLabels(body, ToSet(pending.lines) \cup ToSet(blocks[at + 1].lines), labels)
      BY <2>6
    <3>2. blocks[at + 1].kind # "heading"
      BY <1>1
    <3>3. QED BY <1>1, <1>2, <1>3, <2>2, <2>6, <3>1, <3>2, JoinKeeps
  <2> HIDE DEF q
  <2>8. /\ Gathered(body, blocks, at + 1, chunks, q, labels, carry)
        /\ Gathering(body, q) /\ q.blocks > 0 /\ ToSet(q.lines) = ToSet(pending.lines) \cup B
        /\ \A i \in ToSet(pending.lines), j \in B : i < j
    BY <2>7 DEF JoinedTo
  <2>9. LastFollows(body, blocks, chunks, q)
    <3>1. SUFFICES ASSUME Len(chunks) > 0
                   PROVE  Follows(body, blocks, Words(body, chunks[Len(chunks)]), q)
      BY DEF LastFollows
    <3>2. Words(body, chunks[Len(chunks)]) \in Nat
      BY <1>2, <1>7, <3>1, LastWords
    <3>3. Follows(body, blocks, Words(body, chunks[Len(chunks)]), pending)
      BY <1>3, <3>1 DEF LastFollows
    <3>4. q.blocks \in Nat
      BY <2>8 DEF Gathering
    <3> DEFINE w == Words(body, chunks[Len(chunks)])
    <3> HIDE DEF w
    <3>5. w \in Nat /\ Follows(body, blocks, w, pending)
      BY <3>2, <3>3 DEF w
    <3>6. Follows(body, blocks, w, q)
      BY <1>2, <1>4, <1>7, <2>8, <3>4, <3>5, JoinFollows
    <3>7. QED BY <3>6 DEF w
  <2>10. Held(body, blocks, at + 1, stack, chunks, q, labels, carry)
    BY <1>3, <1>5, <2>8, <2>9 DEF Held
  <2>11. Held(body', blocks', at', stack', chunks', pending', sections', carry')
    BY <1>1, <2>1, <2>10
  <2>12. QED BY <1>1, <2>11 DEF ChunkerInv
<1>10. QED BY <1>8, <1>9

\* A table or list over the budget is a chunk of its own.
LEMMA AddOversizedHolds ==
  ASSUME ChunkerInv, AddOversized
  PROVE  ChunkerInv'
<1> DEFINE block == blocks[at + 1]
           B == ToSet(block.lines)
           r == Join(body, NoBlocks, block)
           labels == Labelled({}, stack)
           ds == Emitted(chunks, pending, sections, carry).chunks
           d == Emitted(chunks, pending, sections, carry).carry
           fs == Emitted(ds, r, labels, d).chunks
           f == Emitted(ds, r, labels, d).carry
<1>1. /\ Reading' /\ pc = "blocks" /\ pc' = "blocks"
      /\ body' = body /\ blocks' = blocks /\ at' = at + 1
      /\ at \in Nat /\ at < Len(blocks) /\ block.kind # "heading" /\ stack' = stack
  <2>1. "heading" \notin Content
    BY DEF Content
  <2>2. QED BY <2>1, ReadOn DEF ChunkerInv, AddOversized
<1>2. /\ body \in Seq(Lines) /\ AreBlocks(body, blocks) /\ Len(blocks) \in Nat
      /\ \A i \in 1 .. Len(body) : body[i].kind # "blank" =>
            \E m \in 1 .. Len(blocks) : i \in ToSet(blocks[m].lines)
  BY BlocksRead DEF ChunkerInv
<1>3. Held(body, blocks, at, stack, chunks, pending, sections, carry)
      /\ Stacked(body, blocks, at, stack)
  BY <1>1 DEF ChunkerInv, Held
<1>4. at + 1 \in 1 .. Len(blocks) /\ at + 1 \in Nat
  BY <1>1, <1>2
<1>5. Stacked(body, blocks, at + 1, stack)
  BY <1>1, <1>3, StackOver
<1>6. /\ chunks' = fs /\ carry' = f /\ pending' = NoBlocks /\ sections' = {}
      /\ WordsOf(body, B) > MaxWords
  BY DEF AddOversized, Oversized
<1>7. WordsOf(body, B) \in Nat
  BY <1>2, <1>4, BlockWords
<1>8. /\ Gathered(body, blocks, at, ds, NoBlocks, {}, d)
      /\ Sized(body, blocks, ds)
      /\ Len(ds) > 0 => Words(body, ds[Len(ds)]) \in Nat
  BY <1>1, <1>2, <1>3, EmitHolds
<1> HIDE DEF ds, d
<1>9. /\ Gathered(body, blocks, at + 1, ds, r, labels, d)
      /\ r.blocks # 0 /\ ToSet(r.lines) = B /\ r.words = WordsOf(body, B)
  BY <1>1, <1>2, <1>3, <1>8, BlockAlone
<1> HIDE DEF r, labels
<1>10. LastFollows(body, blocks, ds, r)
  <2>1. SUFFICES ASSUME Len(ds) > 0
                 PROVE  NoRoom(body, blocks, Words(body, ds[Len(ds)]), B)
    BY <1>9 DEF LastFollows, Follows
  <2> DEFINE w == Words(body, ds[Len(ds)])
             x == WordsOf(body, B)
  <2>2. w \in Nat /\ x \in Nat /\ x > MaxWords
    BY <1>6, <1>7, <1>8, <2>1
  <2> HIDE DEF w, x
  <2>3. w + x > MaxWords
    BY <2>2, ChunkerConstants
  <2>4. w + WordsOf(body, ToSet(blocks[at + 1].lines)) > MaxWords
    BY <2>3 DEF x
  <2>5. NoRoom(body, blocks, w, ToSet(blocks[at + 1].lines))
    BY <1>2, <1>4, <2>2, <2>4, BlockOpens
  <2>6. QED BY <2>5 DEF w
<1>11. Held(body, blocks, at + 1, stack, ds, r, labels, d)
  BY <1>5, <1>8, <1>9, <1>10 DEF Held
<1>12. /\ Gathered(body, blocks, at + 1, fs, NoBlocks, {}, f)
       /\ Sized(body, blocks, fs)
       /\ r.blocks # 0 => Len(fs) > 0 /\ Words(body, fs[Len(fs)]) = r.words
  BY <1>2, <1>4, <1>11, EmitHolds
<1> HIDE DEF fs, f
<1>13. LastFollows(body, blocks, fs, NoBlocks)
  <2>1. NoBlocks.blocks = 0
    BY DEF NoBlocks
  <2>2. Words(body, fs[Len(fs)]) > MaxWords
    BY <1>6, <1>9, <1>12
  <2>3. QED BY <2>1, <2>2 DEF LastFollows, Follows
<1>14. Held(body, blocks, at + 1, stack, fs, NoBlocks, {}, f)
  BY <1>5, <1>12, <1>13 DEF Held
<1>15. Held(body', blocks', at', stack', chunks', pending', sections', carry')
  BY <1>1, <1>6, <1>14
<1>16. QED BY <1>1, <1>15 DEF ChunkerInv

\* The last emit and the merge complete the chunks.
LEMMA CloseHolds ==
  ASSUME ChunkerInv, Close
  PROVE  ChunkerInv'
<1> DEFINE ds == Emitted(chunks, pending, sections, carry).chunks
           d == Emitted(chunks, pending, sections, carry).carry
<1>1. /\ pc = "blocks" /\ pc' = "done" /\ body' = body /\ blocks' = blocks /\ at' = at
      /\ at = Len(blocks) /\ chunks' = Absorbed(body, ds)
  BY DEF Close
<1>2. body \in Seq(Lines) /\ AreBlocks(body, blocks) /\ Len(blocks) \in Nat
  BY BlocksRead DEF ChunkerInv
<1>3. Held(body, blocks, at, stack, chunks, pending, sections, carry) /\ at \in Nat
  BY <1>1, <1>2 DEF ChunkerInv
<1>4. Gathered(body, blocks, at, ds, NoBlocks, {}, d) /\ Sized(body, blocks, ds)
  BY <1>2, <1>3, EmitHolds
<1> HIDE DEF ds, d
<1>5. /\ Filing(body, blocks, Len(blocks), ds, NoBlocks) /\ CopiesHold(ds)
      /\ \A n \in 1 .. Len(ds) : TrueLabels(body, OwnLines(ds[n]), ds[n].sections)
  BY <1>1, <1>4 DEF Gathered, Labelling
<1>6. Complete(body, blocks, Absorbed(body, ds))
  BY <1>2, <1>4, <1>5, AbsorbedCompletes
<1>7. Complete(body', blocks', chunks')
  BY <1>1, <1>6
<1>8. Reading' /\ pc' # "blocks"
  BY <1>1 DEF ChunkerInv, Reading
<1>9. QED BY <1>7, <1>8 DEF ChunkerInv

\* ChunkerInv is inductive.
LEMMA ChunkerStays ==
  ASSUME ChunkerInv, [ChunkerNext]_chunker_vars
  PROVE  ChunkerInv'
<1>1. CASE Heading
  BY <1>1, HeadingHolds
<1>2. CASE AddBlock
  BY <1>2, AddBlockHolds
<1>3. CASE AddOversized
  BY <1>3, AddOversizedHolds
<1>4. CASE Close
  BY <1>4, CloseHolds
<1>5. CASE UNCHANGED chunker_vars
  BY <1>5 DEF chunker_vars, ChunkerInv, Reading
<1>6. QED BY <1>1, <1>2, <1>3, <1>4, <1>5 DEF ChunkerNext

\* Complete chunks are what they must be.
LEMMA CompleteChunks ==
  ASSUME ChunkerInv
  PROVE  NothingLostOrSplit /\ SizeIsJustified /\ SectionsAreTrue /\ CopiesResolve
<1>1. SUFFICES ASSUME pc = "done"
               PROVE  NothingLostOrSplit /\ SizeIsJustified /\ SectionsAreTrue /\ CopiesResolve
  BY DEF NothingLostOrSplit, SizeIsJustified, SectionsAreTrue, CopiesResolve, Done
<1>2. /\ body \in Seq(Lines) /\ AreBlocks(body, blocks) /\ Len(blocks) \in Nat
      /\ \A i \in 1 .. Len(body) : body[i].kind # "blank" =>
            \E m \in 1 .. Len(blocks) : i \in ToSet(blocks[m].lines)
      /\ \A i \in 1 .. Len(body) - 1 : OneBlock(body, i) =>
            \E m \in 1 .. Len(blocks) : {i, i + 1} \subseteq ToSet(blocks[m].lines)
  BY BlocksRead DEF ChunkerInv
<1>3. Complete(body, blocks, chunks)
  BY <1>1 DEF ChunkerInv
<1>4. /\ chunks \in Seq(ChunkOf(body)) /\ DOMAIN chunks = 1 .. Len(chunks) /\ Len(chunks) \in Nat
      /\ DOMAIN body = 1 .. Len(body) /\ DOMAIN blocks = 1 .. Len(blocks)
  <2>1. chunks \in Seq(ChunkOf(body)) /\ blocks \in Seq(Blocks(body))
    BY <1>2, <1>3 DEF Complete, AreBlocks
  <2>2. QED BY <1>2, <2>1
\* A heading's block holds its line alone.
<1>5. ASSUME NEW m \in 1 .. Len(blocks), NEW i \in ToSet(blocks[m].lines)
      PROVE  /\ i \in 1 .. Len(body)
             /\ blocks[m].kind # "heading" => IsContent(body, i)
             /\ blocks[m].kind = "heading" =>
                   ~ IsContent(body, i) /\ \A j \in ToSet(blocks[m].lines) : j = i
  <2>1. IsBlock(body, blocks[m]) /\ blocks[m].lines \in Seq(1 .. Len(body))
    BY <1>2 DEF AreBlocks, IsBlock, Blocks
  <2>2. i \in 1 .. Len(body)
    BY <2>1 DEF ToSet
  <2>3. blocks[m].kind # "heading" => IsContent(body, i)
    BY <2>1 DEF IsBlock
  <2>4. ASSUME blocks[m].kind = "heading"
        PROVE  ~ IsContent(body, i) /\ \A j \in ToSet(blocks[m].lines) : j = i
    <3>1. Len(blocks[m].lines) = 1 /\ IsHeading(body, blocks[m].lines[1])
      BY <2>1, <2>4 DEF IsBlock
    <3>2. \A j \in ToSet(blocks[m].lines) : j = blocks[m].lines[1]
      BY <2>1, <3>1 DEF ToSet
    <3>3. QED BY <3>1, <3>2 DEF IsContent
  <2>5. QED BY <2>2, <2>3, <2>4
<1>6. NothingLostOrSplit
  <2>1. ASSUME NEW i \in DOMAIN body, IsContent(body, i)
        PROVE  \E n \in DOMAIN chunks : i \in OwnLines(chunks[n])
    <3>1. body[i].kind # "blank"
      BY <2>1 DEF IsContent
    <3>2. PICK m \in 1 .. Len(blocks) : i \in ToSet(blocks[m].lines)
      BY <1>2, <1>4, <3>1
    <3>3. blocks[m].kind # "heading"
      BY <1>5, <2>1, <3>2
    <3>4. PICK n \in 1 .. Len(chunks) : ToSet(blocks[m].lines) \subseteq OwnLines(chunks[n])
      BY <1>3, <3>3 DEF Complete
    <3>5. QED BY <1>4, <3>2, <3>4
  <2>2. ASSUME NEW n \in DOMAIN chunks, NEW i \in OwnLines(chunks[n])
        PROVE  i \in DOMAIN body /\ IsContent(body, i)
    <3>1. PICK m \in 1 .. Len(blocks) : blocks[m].kind # "heading" /\ i \in ToSet(blocks[m].lines)
      BY <1>3, <1>4 DEF Complete
    <3>2. QED BY <1>4, <1>5, <3>1
  <2>3. UNION {OwnLines(chunks[n]) : n \in DOMAIN chunks} = {i \in DOMAIN body : IsContent(body, i)}
    BY <2>1, <2>2
  <2>4. \A n \in DOMAIN chunks : \A l, m \in OwnAt(chunks[n]) :
           l < m => chunks[n].text[l].line < chunks[n].text[m].line
    BY <1>3, <1>4 DEF Complete, InPlace
  <2>5. \A m, n \in DOMAIN chunks : m < n =>
           \A i \in OwnLines(chunks[m]), j \in OwnLines(chunks[n]) : i < j
    BY <1>3, <1>4 DEF Complete
  <2>6. ASSUME NEW i \in 1 .. Len(body) - 1, OneBlock(body, i)
        PROVE  \E n \in DOMAIN chunks : {i, i + 1} \subseteq OwnLines(chunks[n])
    <3>1. PICK m \in 1 .. Len(blocks) : {i, i + 1} \subseteq ToSet(blocks[m].lines)
      BY <1>2, <2>6
    <3>2. blocks[m].kind # "heading"
      <4>1. i # i + 1
        OBVIOUS
      <4>2. QED BY <1>5, <3>1, <4>1
    <3>3. PICK n \in 1 .. Len(chunks) : ToSet(blocks[m].lines) \subseteq OwnLines(chunks[n])
      BY <1>3, <3>2 DEF Complete
    <3>4. QED BY <1>4, <3>1, <3>3
  <2>7. QED BY <2>3, <2>4, <2>5, <2>6 DEF NothingLostOrSplit
<1>7. SizeIsJustified
  <2>1. \A n \in 1 .. Len(chunks) :
           /\ WordsOf(body, OwnLines(chunks[n])) > MaxWords => chunks[n].blocks = 1
           /\ WordsOf(body, OwnLines(chunks[n])) <= MaxWords
                /\ WordCount(body, chunks[n]) > MaxWords => OpensWithACopy(chunks[n])
    BY <1>3 DEF Complete, Sized, Budgeted, Words
  <2>2. \A n \in 1 .. Len(chunks) - 1 : WordsOf(body, OwnLines(chunks[n])) < MinWords =>
           NoRoom(body, blocks, WordsOf(body, OwnLines(chunks[n])), OwnLines(chunks[n + 1]))
    BY <1>3 DEF Complete, Sized, Words
  <2>3. ASSUME NEW n \in 1 .. Len(chunks), n < Len(chunks),
               WordsOf(body, OwnLines(chunks[n])) < MinWords
        PROVE  \E k \in DOMAIN blocks :
                  /\ \E i \in ToSet(blocks[k].lines) \cap OwnLines(chunks[n + 1]) :
                        \A j \in OwnLines(chunks[n + 1]) : i <= j
                  /\ WordsOf(body, OwnLines(chunks[n])) + WordsOf(body, ToSet(blocks[k].lines))
                     > MaxWords
    <3>1. n \in 1 .. Len(chunks) - 1
      BY <1>4, <2>3
    <3>2. NoRoom(body, blocks, WordsOf(body, OwnLines(chunks[n])), OwnLines(chunks[n + 1]))
      BY <2>2, <2>3, <3>1
    <3>3. QED BY <1>4, <3>2 DEF NoRoom
  <2>4. \A n \in 1 .. Len(chunks) :
           n = Len(chunks) /\ n > 1 /\ WordCount(body, chunks[n]) < MinWords =>
              WordCount(body, chunks[n - 1]) + WordCount(body, chunks[n]) > MaxWords
    BY <1>3 DEF Complete
  <2>5. QED BY <1>4, <2>1, <2>3, <2>4 DEF SizeIsJustified
<1>8. SectionsAreTrue
  BY <1>3, <1>4 DEF Complete, TrueLabels, SectionsAreTrue
<1>9. CopiesResolve
  <2>1. ASSUME NEW n \in 1 .. Len(chunks), NEW m \in DOMAIN chunks[n].text,
               chunks[n].text[m].from # 0
        PROVE  /\ chunks[n].text[m].from <= n
               /\ chunks[n].text[m].line \in OwnLines(chunks[chunks[n].text[m].from])
    <3>1. /\ chunks[n].text[m].from \in 1 .. n
          /\ chunks[n].text[m].line \in OwnLines(chunks[chunks[n].text[m].from])
      BY <1>3, <2>1 DEF Complete
    <3>2. QED BY <3>1
  <2>2. QED BY <1>4, <2>1 DEF CopiesResolve
<1>10. QED BY <1>6, <1>7, <1>8, <1>9

\* Every step of a run of chunk_document keeps the invariant.
LEMMA ChunkerHolds ==
  ChunkerSpec => []ChunkerInv
<1>1. ChunkerInit => ChunkerInv
  BY ChunkerStarts
<1>2. ChunkerInv /\ [ChunkerNext]_chunker_vars => ChunkerInv'
  BY ChunkerStays
<1>3. QED BY <1>1, <1>2, PTL DEF ChunkerSpec

\* Every line of a document is in its chunks once and in its place, and what
\* belongs together in one of them.
THEOREM NothingLost == ChunkerSpec => []NothingLostOrSplit
<1>1. ChunkerInv => NothingLostOrSplit
  BY CompleteChunks
<1>2. QED BY <1>1, ChunkerHolds, PTL

\* A chunk whose own words exceed the budget is a single block, any other
\* exceeds it by one copied sentence at most, and one under the minimum could
\* not have been longer.
THEOREM SizesJustified == ChunkerSpec => []SizeIsJustified
<1>1. ChunkerInv => SizeIsJustified
  BY CompleteChunks
<1>2. QED BY <1>1, ChunkerHolds, PTL

\* A chunk is labelled with the sections its own lines stand under.
THEOREM LabelsTrue == ChunkerSpec => []SectionsAreTrue
<1>1. ChunkerInv => SectionsAreTrue
  BY CompleteChunks
<1>2. QED BY <1>1, ChunkerHolds, PTL

\* A copied sentence is one of the chunk it is said to continue.
THEOREM CopiesAreThere == ChunkerSpec => []CopiesResolve
<1>1. ChunkerInv => CopiesResolve
  BY CompleteChunks
<1>2. QED BY <1>1, ChunkerHolds, PTL

=============================================================================
