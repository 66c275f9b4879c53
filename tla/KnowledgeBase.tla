--------------------------- MODULE KnowledgeBase ---------------------------
(***************************************************************************)
(* kb/loader.py: what a directory of documents must satisfy to be loaded.  *)
(* A folder maps the paths present to a document, or to Bad for a file     *)
(* load_document raises on (no front matter, a field or the body missing,  *)
(* an identifier, a status or a date that does not parse).  Identifiers    *)
(* and dates are numbers, for their order; a document's text is the        *)
(* identity of its record, and refs are the identifiers its body mentions. *)
(***************************************************************************)
EXTENDS Integers, FiniteSets

CONSTANTS None, Bad,
          DocIds            \* what an identifier may be

\* A document that parses, whether or not its fields agree with any other.
Document ==
    [id : DocIds, status : {"current", "superseded"}, withdrawn : BOOLEAN, date : Nat,
     by : DocIds \cup {None}, supersedes : DocIds \cup {None}, refs : SUBSET DocIds]

Malformed(d) ==
    \/ d = Bad
    \/ d.status = "current" /\ d.withdrawn

Documents(folder) == {folder[p] : p \in DOMAIN folder}

Known(kb) == {d.id : d \in kb}

ById(kb, id) == CHOOSE d \in kb : d.id = id

DuplicateIds(folder) ==
    \E p, q \in DOMAIN folder : p # q /\ folder[p].id = folder[q].id

\* The body may mention the document itself.
DanglingReference(kb) == \E d \in kb : ~ (d.refs \subseteq Known(kb))

\* The date alone is looked at, and not the replacement's own word.
HalfWiredOneWay(kb, d) == ById(kb, d.by).date <= d.date

HalfWired(kb, d) ==
    LET replacement == ById(kb, d.by) IN
    \/ replacement.supersedes # d.id
    \/ replacement.date <= d.date

Miswired(kb) ==
    \E d \in kb :
        \/ d.by # None /\ d.by \notin Known(kb)
        \/ d.status = "superseded" /\ d.by = None
        \/ d.by # None /\ d.by \in Known(kb) /\ HalfWired(kb, d)

\* A walk along superseded_by never ends: some documents lead only to one
\* another.
Cyclic(kb) ==
    \E loop \in SUBSET kb :
        /\ loop # {}
        /\ \A d \in loop : d.by # None /\ \E e \in loop : e.id = d.by

\* load_knowledge_base returns, the checks in their order.
Loads(folder) ==
    /\ DOMAIN folder # {}
    /\ \A p \in DOMAIN folder : ~ Malformed(folder[p])
    /\ ~ DuplicateIds(folder)
    /\ ~ Miswired(Documents(folder))
    /\ ~ Cyclic(Documents(folder))
    /\ ~ DanglingReference(Documents(folder))

Current(kb) == {d \in kb : d.status = "current"}

(***************************************************************************)
(* What the rest of the system takes from a loaded corpus.                 *)
(***************************************************************************)

\* Everything superseded_by leads to from d.
Successors(kb, d) ==
    {e \in kb : \A closed \in SUBSET kb :
        (/\ \A x \in kb : x.id = d.by => x \in closed
         /\ \A x \in closed, y \in kb : x.by = y.id => y \in closed)
        => e \in closed}

\* Every superseded document leads to a later one that is in force, and no
\* document replaces two.
Wired(kb) ==
    /\ \A d \in kb : d.status = "superseded" =>
        \E e \in Successors(kb, d) : e.status = "current" /\ e.date > d.date
    /\ \A d, e \in kb : d.by # None /\ d.by = e.by => d = e
=============================================================================
