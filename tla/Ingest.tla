------------------------------- MODULE Ingest -------------------------------
(***************************************************************************)
(* scripts/build_index.py beside a process that answers from the index     *)
(* file (query, ask, run_arms, evaluate_retrieval): the author edits the   *)
(* folder and the configuration, the builder reads the corpus, embeds it   *)
(* and writes the file in place, and may die at any point; the consumer    *)
(* reads the corpus, then opens the file, then retrieves and answers.      *)
(* Fingerprints are the values they are taken of (SHA-256 is injective).   *)
(***************************************************************************)
EXTENDS Retrieval

CONSTANTS Folders,          \* the directories of documents to begin with
          Drafts,           \* the <<path, document>> an author may write
          Chunkers,         \* chunking configurations and chunker versions
          EmbeddingModels,
          Scores, Absent, Torn,
          MaxEdits          \* edits of the folder, the configuration or the file

Chunk == [doc : Document, cut : Chunkers]

Index == [chunks : SUBSET Chunk, space : EmbeddingModels,
          corpus_sha256 : SUBSET Document, chunk_set_sha256 : SUBSET Chunk]

ASSUME IngestConstants ==
    /\ DocIds \subseteq Nat /\ None \notin DocIds /\ Bad \notin Document
    /\ Absent \notin Index /\ Torn \notin Index
    /\ \A f \in Folders :
          /\ IsFiniteSet(DOMAIN f)
          /\ \A p \in DOMAIN f : f[p] \in Document \cup {Bad}
    /\ \A draft \in Drafts : draft[2] \in Document \cup {Bad}
    /\ Scores \subseteq [DocIds -> Int]
    /\ TopK \in Nat /\ MinSimilarity \in Int
    /\ MaxEdits \in Nat

VARIABLES folder, chunker, model, file, builder, consumer, edits

vars == <<folder, chunker, model, file, builder, consumer, edits>>

Off == [pc |-> "off"]

ChunkCorpus(kb, cut) == {[doc |-> d, cut |-> cut] : d \in kb}

BuildIndex(kb, cut, space) ==
    [chunks |-> ChunkCorpus(kb, cut), space |-> space,
     corpus_sha256 |-> kb, chunk_set_sha256 |-> ChunkCorpus(kb, cut)]

\* The declared hash is believed, and not compared with the chunks stored.
AcceptsDeclared(f, kb, cut) ==
    /\ f \notin {Absent, Torn}
    /\ f.corpus_sha256 = kb
    /\ f.chunk_set_sha256 = ChunkCorpus(kb, cut)

\* The file is compared with itself, and not with the corpus.
AcceptsAnyCorpus(f, kb, cut) ==
    /\ f \notin {Absent, Torn}
    /\ f.chunk_set_sha256 = f.chunks

\* Index.load with a corpus: not a whole file of the schema, not the chunks
\* it declares, not of this corpus, not cut this way.
Accepts(f, kb, cut) ==
    /\ f \notin {Absent, Torn}
    /\ f.chunks # {}
    /\ f.chunk_set_sha256 = f.chunks
    /\ f.corpus_sha256 = kb
    /\ f.chunk_set_sha256 = ChunkCorpus(kb, cut)

Init ==
    /\ folder \in Folders
    /\ chunker \in Chunkers /\ model \in EmbeddingModels
    /\ file = Absent
    /\ builder = Off /\ consumer = Off
    /\ edits = 0

---------------------------------------------------------------------------
\* The author and the configuration.
Edit ==
    /\ edits < MaxEdits
    /\ edits' = edits + 1
    /\ \/ \E draft \in Drafts :
            /\ folder' = [p \in DOMAIN folder \cup {draft[1]} |->
                            IF p = draft[1] THEN draft[2] ELSE folder[p]]
            /\ UNCHANGED <<chunker, model, file>>
       \/ \E p \in DOMAIN folder :
            /\ folder' = [q \in DOMAIN folder \ {p} |-> folder[q]]
            /\ UNCHANGED <<chunker, model, file>>
       \/ chunker' \in Chunkers \ {chunker} /\ UNCHANGED <<folder, model, file>>
       \/ model' \in EmbeddingModels \ {model} /\ UNCHANGED <<folder, chunker, file>>
       \/ \* the stored chunks are edited under their declared hash
          /\ file \notin {Absent, Torn}
          /\ \E cut \in Chunkers :
                file' = [file EXCEPT !.chunks = ChunkCorpus(file.corpus_sha256, cut)]
          /\ UNCHANGED <<folder, chunker, model>>
    /\ UNCHANGED <<builder, consumer>>

---------------------------------------------------------------------------
\* build_index.main.  A folder that does not load ends it with no effect.
StartBuild ==
    /\ builder = Off
    /\ Loads(folder)
    /\ builder' = [pc |-> "embed", kb |-> Documents(folder), cut |-> chunker, space |-> model]
    /\ UNCHANGED <<folder, chunker, model, file, consumer, edits>>

\* Embedding failed (LLMError), or the process is killed here or later: what
\* it has written stays as it is.
EndBuild ==
    /\ builder # Off
    /\ builder' = Off
    /\ UNCHANGED <<folder, chunker, model, file, consumer, edits>>

\* Index.save opens the file for writing and has not written all of it.
BeginSave ==
    /\ builder.pc = "embed"
    /\ file' = Torn
    /\ builder' = [builder EXCEPT !.pc = "save"]
    /\ UNCHANGED <<folder, chunker, model, consumer, edits>>

FinishSave ==
    /\ builder.pc = "save"
    /\ file' = BuildIndex(builder.kb, builder.cut, builder.space)
    /\ builder' = [builder EXCEPT !.pc = "reload"]
    /\ UNCHANGED <<folder, chunker, model, consumer, edits>>

\* The reload proves the round trip, or raises IndexError_: either way the
\* process ends.
Reload ==
    /\ builder.pc = "reload"
    /\ builder' = Off
    /\ UNCHANGED <<folder, chunker, model, file, consumer, edits>>

---------------------------------------------------------------------------
\* A consumer: configuration and corpus first.
ReadCorpus ==
    /\ consumer = Off
    /\ Loads(folder)
    /\ consumer' = [pc |-> "corpus", kb |-> Documents(folder), cut |-> chunker, space |-> model]
    /\ UNCHANGED <<folder, chunker, model, file, builder, edits>>

\* Index.load, and the check of Retriever.__init__ that the vectors are of the
\* client's embedding model.
OpenIndex ==
    /\ consumer.pc = "corpus"
    /\ IF Accepts(file, consumer.kb, consumer.cut) /\ file.space = consumer.space
       THEN consumer' = [pc |-> "ready", kb |-> consumer.kb, cut |-> consumer.cut,
                         space |-> consumer.space, index |-> file]
       ELSE consumer' = Off
    /\ UNCHANGED <<folder, chunker, model, file, builder, edits>>

\* Retriever.retrieve and Generator.answer.
Ask ==
    /\ consumer.pc = "ready"
    /\ \E mode \in Modes, score \in Scores :
       \E cites \in SUBSET {x.doc.id : x \in consumer.index.chunks} :
         LET hits == Hits(consumer.index.chunks, score, mode) IN
         consumer' = [pc |-> "answered", kb |-> consumer.kb, cut |-> consumer.cut,
                      space |-> consumer.space, index |-> consumer.index,
                      mode |-> mode, score |-> score, hits |-> hits,
                      conflicts |-> Conflicts(hits),
                      answer |-> Grounded(hits, score, cites)]
    /\ UNCHANGED <<folder, chunker, model, file, builder, edits>>

Finish ==
    /\ consumer.pc = "answered"
    /\ consumer' = Off
    /\ UNCHANGED <<folder, chunker, model, file, builder, edits>>

Next ==
    \/ Edit
    \/ StartBuild \/ EndBuild \/ BeginSave \/ FinishSave \/ Reload
    \/ ReadCorpus \/ OpenIndex \/ Ask \/ Finish

Spec == Init /\ [][Next]_vars

---------------------------------------------------------------------------
Answered == consumer.pc = "answered"

\* A process that has read a corpus, at one of these steps of its own.
Process(steps) ==
    [pc : steps, kb : SUBSET Document, cut : Chunkers, space : EmbeddingModels]

Answering ==
    [pc : {"answered"}, kb : SUBSET Document, cut : Chunkers, space : EmbeddingModels,
     index : Index, mode : Modes, score : Scores, hits : SUBSET Chunk,
     conflicts : SUBSET (DocIds \X (DocIds \cup {None})),
     answer : [shown : SUBSET DocIds, cites : SUBSET DocIds, valid : BOOLEAN,
               cited_superseded : SUBSET DocIds]]

TypeOK ==
    /\ IsFiniteSet(DOMAIN folder)
    /\ \A p \in DOMAIN folder : folder[p] \in Document \cup {Bad}
    /\ chunker \in Chunkers /\ model \in EmbeddingModels
    /\ file \in Index \cup {Absent, Torn}
    /\ builder \in {Off} \cup Process({"embed", "save", "reload"})
    /\ consumer \in {Off} \cup Process({"corpus"}) \cup Answering
          \cup [pc : {"ready"}, kb : SUBSET Document, cut : Chunkers,
                space : EmbeddingModels, index : Index]
    /\ edits \in 0 .. MaxEdits

\* Whatever an author leaves in the folder, a corpus that a process holds is
\* wired: a superseded document leads to a later one in force, and no
\* document stands in for two (kb/loader.py, _validate_supersession).
CorpusIsWired ==
    /\ consumer # Off => Wired(consumer.kb)
    /\ builder # Off => Wired(builder.kb)

\* What answers is the corpus the process read, cut by its own chunker and
\* compared within one space, whichever build, crash or edit came between the
\* reading of the corpus and the opening of the file (Index.load).
AnswersAreOverTheCorpus ==
    Answered =>
        /\ consumer.index.chunks = ChunkCorpus(consumer.kb, consumer.cut)
        /\ consumer.index.space = consumer.space

\* The status filter costs no place: every current passage that the unfiltered
\* arm would have shown is among those of the filtered arm, which is full
\* unless the corpus has no more (Retriever.retrieve).
CurrentOnlyKeepsCurrentHits ==
    Answered /\ consumer.mode = "current_only" =>
        LET current == {x \in consumer.index.chunks : x.doc.status = "current"} IN
        /\ consumer.hits \subseteq current
        /\ Hits(consumer.index.chunks, consumer.score, "all") \cap current
               \subseteq consumer.hits
        /\ \/ Cardinality(consumer.hits) = TopK
           \/ consumer.hits = current

\* An answer counted as validly cited names documents of the process's corpus,
\* and with the filter on, of that corpus's documents in force: the index's
\* word for "current" is never staler than the corpus (Generator.answer).
ValidCitationsResolve ==
    Answered /\ consumer.answer.valid =>
        \A id \in consumer.answer.cites :
            \E d \in consumer.kb :
                /\ d.id = id
                /\ consumer.mode = "current_only" => d.status = "current"
                /\ id \in consumer.answer.cited_superseded <=> d.status # "current"

=============================================================================
