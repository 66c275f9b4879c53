------------------------------ MODULE MCIngest ------------------------------
EXTENDS Ingest, TLC

Doc(id, status, date, by, supersedes) ==
    [id |-> id, status |-> status, withdrawn |-> status = "superseded", date |-> date,
     by |-> by, supersedes |-> supersedes, refs |-> {}]

\* One path for each identifier, with the ways to wire it well and badly.
PoolOf ==
    [first |->
        {Doc(1, "current", 1, None, None), Doc(1, "superseded", 1, 2, None),
         Doc(1, "superseded", 1, None, None), Doc(1, "superseded", 1, 3, None),
         Doc(1, "current", 1, 2, None), Doc(1, "superseded", 3, 2, 3),
         [Doc(1, "current", 1, None, None) EXCEPT !.refs = {1, 3}]},
     second |->
        {Doc(2, "current", 2, None, None), Doc(2, "current", 2, None, 1),
         Doc(2, "superseded", 2, 3, 1), Doc(2, "superseded", 2, 1, 1),
         Doc(2, "superseded", 2, 3, None), Doc(2, "current", 1, None, 1)},
     third |->
        {Doc(3, "current", 3, None, None), Doc(3, "current", 3, None, 2),
         Doc(3, "current", 3, None, 1), Doc(3, "superseded", 3, 1, 2),
         Doc(1, "current", 3, None, None),
         [Doc(3, "current", 3, None, None) EXCEPT !.withdrawn = TRUE], Bad}]

AllFolders ==
    UNION {{f \in [present -> UNION {PoolOf[p] : p \in DOMAIN PoolOf}] :
              \A p \in present : f[p] \in PoolOf[p]} :
              present \in SUBSET DOMAIN PoolOf}

\* An author brings in a second version, in two edits, and rewords a document.
AllDrafts ==
    {<<"first", Doc(1, "superseded", 1, 2, None)>>, <<"second", Doc(2, "current", 2, None, 1)>>,
     <<"third", Doc(3, "current", 3, None, None)>>}

Symmetry == Permutations(Chunkers) \cup Permutations(EmbeddingModels)

AllScores == [1 .. 3 -> 0 .. 1]
=============================================================================
