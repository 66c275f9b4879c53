----------------------------- MODULE MCGoldData -----------------------------
(* Two families over four documents, one a supersession if it is anything, *)
(* the other of any type, either of them reported; the documents share "a",*)
(* whose two disputed passages may fall in one chunk, or across two.       *)
EXTENDS GoldData, TLC

Chunk(d, n) == [doc |-> d, ordinal |-> n]

Chunked(one, two) ==
    (Chunk("a", 1) :> one) @@ (Chunk("a", 2) :> two)
    @@ (Chunk("b", 1) :> {"old"}) @@ (Chunk("c", 1) :> {"loose", "7"})

Apart == Chunked({"new", "14"}, {"strict", "7"})

ChunkSets ==
    {Apart,
     Chunked({"new", "14", "strict", "7"}, {}),     \* in one chunk
     Chunked({"strict", "7"}, {"new", "14"}),       \* the other way round
     Chunked({"14"}, {"strict", "7"})}              \* "new" lies across the two

Written == [a |-> {"new", "14", "strict", "7"}, b |-> {"old"}, c |-> {"loose", "7"}]
Bodies == {Written, [Written EXCEPT !.a = @ \cup {"parking"}]}

Wired == [a |-> "current", b |-> "superseded", c |-> "current"]
Statuses ==
    {Wired,
     [a |-> "current", b |-> "current", c |-> "current"],
     [a |-> "current", b |-> "superseded", c |-> "superseded"]}

Corpus(status, by, body, chunks) ==
    [status |-> status, by |-> [a |-> None, b |-> by, c |-> "a"], body |-> body, chunks |-> chunks]

MCCorpora ==
    {Corpus(Wired, x, t, k) : x \in {"a", "c"}, t \in Bodies, k \in {Apart}}
    \cup {Corpus(s, "a", Written, k) : s \in Statuses, k \in ChunkSets}

Fact(values, anchors) == [values |-> values, anchors |-> anchors]

Family(id, split, type, documents, fact) ==
    [id |-> id, split |-> split, type |-> type, documents |-> documents, facts |-> {fact},
     authoritative |-> IF type = "version_supersession" THEN "a" ELSE None,
     stricter |-> IF type = "stricter_looser" THEN "a" ELSE None,
     action |-> CASE type = "stricter_looser" -> "satisfies both"
                  [] type = "mutually_exclusive" -> "none, because" [] OTHER -> None,
     reconciliation |-> type = "compatible", reconciled |-> {}]

Returns(split, type) ==
    Family("RET", split, type, {"a", "b"},
           Fact([a |-> 14, b |-> 30], [a |-> "new", b |-> "old"]))
Inspection(split, type) ==
    Family("INS", split, type, {"a", "c"},
           Fact([a |-> 7, c |-> 10], [a |-> "strict", c |-> "loose"]))

Splits == {"reported", "tuning"}
Gaps == {[topic |-> "parking", probes |-> {"parking"}]}

MCRegistries ==
    {[families |-> fs, fully_absent |-> Gaps, partially_present |-> {}] :
        fs \in {{Returns(s, t), Inspection(u, v)} :
                   s, u \in Splits, t \in {"version_supersession", "mutually_exclusive"},
                   v \in {"stricter_looser", "compatible"}}
              \cup {{Inspection("reported", "compatible")}}
              \cup {{Returns("reported", "version_supersession"),
                     [Inspection("tuning", "stricter_looser") EXCEPT !.stricter = "b"]}}}

MCConflicts ==
    [RET |-> [questions |-> 2, cite |-> {Chunk("a", 1)}, avoid |-> {"b"}, required |-> {{"14"}, {}}],
     INS |-> [questions |-> 2, cite |-> {Chunk("a", 2), Chunk("c", 1)}, avoid |-> {}, required |-> {{"7"}}]]

MCTopics ==
    {[id |-> <<"parking", 1>>, category |-> "unanswerable", group |-> "parking", family |-> None,
      topic |-> "parking", split |-> "dev", behaviour |-> "abstain", parent |-> None,
      expected |-> {}, documents |-> {}, avoid |-> {}, required |-> {}]}

MCHandEdits(q) ==
    {[q EXCEPT !.split = IF @ = "dev" THEN "test" ELSE "dev"],
     [q EXCEPT !.parent = <<"INS", 1>>],
     [q EXCEPT !.expected = {Chunk("a", 1)}]}
=============================================================================
