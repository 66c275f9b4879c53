------------------------- MODULE BlindScoringProofs -------------------------
(***************************************************************************)
(* Theorems about BlindScoring, for every set of sheets, every number of   *)
(* items, and any bounds on lines and crashes.                             *)
(***************************************************************************)
EXTENDS BlindScoring, CountingLemmas, SequenceTheorems, TLAPS

USE ScoringConstants DEF ScoringConstants

Line == [records : Seq(Judgement), fragment : BOOLEAN]

-----------------------------------------------------------------------------
(* First and last elements, and what editing a log does to its records      *)

LEMMA FirstOfExists ==
  ASSUME NEW S \in SUBSET Items, S # {}
  PROVE  FirstOf(S) \in S
<1>1. S \in SUBSET Nat
  BY DEF Items
<1>2. \E i \in S : \A j \in S : i <= j
  BY <1>1, Least
<1>3. QED BY <1>2 DEF FirstOf

\* The records of a log, line by line.
RecordsOf(lines) == UNION {Range(lines[n].records) : n \in DOMAIN lines}

\* Later records of an item have later revisions.
LogOrdered(lines) ==
  \A n, m \in DOMAIN lines :
    \A k \in DOMAIN lines[n].records, l \in DOMAIN lines[m].records :
      /\ n < m \/ (n = m /\ k <= l)
      /\ lines[n].records[k].item = lines[m].records[l].item
      => lines[n].records[k].revision <= lines[m].records[l].revision

\* A judgement appended to a log is one more record, and the log stays in order
\* if the judgement is the latest of its item.
LEMMA AppendedRecords ==
  ASSUME TypeOK, NEW p \in Passes, NEW rec \in Judgement
  PROVE  LET L == Appended(p, rec)
         IN /\ L \in Seq(Line) /\ L # <<>>
            /\ RecordsOf(L) = RecordsOf(log[p]) \cup {rec}
            /\ /\ LogOrdered(log[p])
               /\ \A r \in RecordsOf(log[p]) :
                    r.item = rec.item => r.revision <= rec.revision
               => LogOrdered(L)
<1> DEFINE L == Appended(p, rec)
<1>a. log[p] \in Seq(Line)
  BY DEF TypeOK, Line
<1>b. \A n \in DOMAIN log[p] : log[p][n] \in Line /\ log[p][n].records \in Seq(Judgement)
  <2>1. \A n \in DOMAIN log[p] : log[p][n] \in Line
    BY <1>a
  <2>2. QED BY <2>1 DEF Line
<1>1. CASE ended[p]
  <2> DEFINE new == [records |-> <<rec>>, fragment |-> FALSE]
  <2>1. L = Append(log[p], new)
    BY <1>1 DEF Appended
  <2>2. new \in Line /\ new.records = <<rec>>
    BY DEF Line
  <2>3. L \in Seq(Line) /\ L # <<>> /\ DOMAIN L = 1..(Len(log[p]) + 1)
    BY <1>a, <2>1, <2>2
  <2>4. /\ \A n \in DOMAIN log[p] : n \in DOMAIN L /\ L[n] = log[p][n]
        /\ Len(log[p]) + 1 \in DOMAIN L /\ L[Len(log[p]) + 1].records = <<rec>>
        /\ \A n \in DOMAIN L : n \in DOMAIN log[p] \/ n = Len(log[p]) + 1
    BY <1>a, <2>1, <2>2, <2>3
  <2>5. RecordsOf(L) = RecordsOf(log[p]) \cup {rec}
    <3>1. Range(<<rec>>) = {rec}
      BY DEF Range
    <3>2. QED BY <2>4, <3>1 DEF RecordsOf
  <2>6. ASSUME LogOrdered(log[p]),
               \A r \in RecordsOf(log[p]) : r.item = rec.item => r.revision <= rec.revision
        PROVE  LogOrdered(L)
    <3> SUFFICES ASSUME NEW n \in DOMAIN L, NEW m \in DOMAIN L,
                        NEW k \in DOMAIN L[n].records, NEW l \in DOMAIN L[m].records,
                        n < m \/ (n = m /\ k <= l),
                        L[n].records[k].item = L[m].records[l].item
                 PROVE  L[n].records[k].revision <= L[m].records[l].revision
      BY DEF LogOrdered
    <3>1. CASE m \in DOMAIN log[p]
      <4>1. n \in DOMAIN log[p]
        BY <1>a, <2>3, <3>1
      <4>2. QED BY <2>4, <2>6, <3>1, <4>1 DEF LogOrdered
    <3>2. CASE m = Len(log[p]) + 1
      <4>1. L[m].records[l] = rec
        BY <2>4, <3>2
      <4>2. CASE n = m
        <5>1. L[n].records[k] = rec
          BY <2>4, <3>2, <4>2
        <5>2. QED BY <4>1, <5>1 DEF Judgement
      <4>3. CASE n \in DOMAIN log[p]
        <5>1. L[n].records[k] \in RecordsOf(log[p])
          BY <2>4, <4>3 DEF RecordsOf, Range
        <5>2. QED BY <2>6, <4>1, <5>1
      <4>4. QED BY <2>4, <3>2, <4>2, <4>3
    <3>3. QED BY <2>4, <3>1, <3>2
  <2>7. QED BY <2>3, <2>5, <2>6
<1>2. CASE ~ended[p]
  <2> DEFINE last == Len(log[p])
             old == log[p][last].records
             new == Append(old, rec)
  <2>1. L = [log[p] EXCEPT ![last].records = new]
    BY <1>2 DEF Appended
  <2>2. last \in Nat /\ last \in DOMAIN log[p] /\ old \in Seq(Judgement)
    <3>1. log[p] # <<>>
      BY <1>2 DEF TypeOK
    <3>2. last \in DOMAIN log[p]
      BY <1>a, <3>1
    <3>3. QED BY <1>a, <1>b, <3>2
  <2>3. /\ new \in Seq(Judgement) /\ DOMAIN new = 1..(Len(old) + 1)
        /\ \A k \in DOMAIN old : new[k] = old[k]
        /\ new[Len(old) + 1] = rec
    BY <2>2
  <2>4. /\ DOMAIN L = DOMAIN log[p] /\ L[last].records = new
        /\ \A n \in DOMAIN L : n # last => L[n] = log[p][n]
    BY <1>b, <2>1, <2>2 DEF Line
  <2>5. L \in Seq(Line) /\ L # <<>>
    <3>1. [log[p][last] EXCEPT !.records = new] \in Line
      BY <1>b, <2>2, <2>3 DEF Line
    <3>2. L = [log[p] EXCEPT ![last] = [log[p][last] EXCEPT !.records = new]]
      BY <2>1
    <3>3. QED BY <1>a, <2>2, <3>1, <3>2
  <2>6. RecordsOf(L) = RecordsOf(log[p]) \cup {rec}
    <3>1. Range(new) = Range(old) \cup {rec}
      <4>1. DOMAIN old = 1..Len(old) /\ Len(old) \in Nat
        BY <2>2
      <4> HIDE DEF new, old
      <4>2. 1..(Len(old) + 1) = 1..Len(old) \cup {Len(old) + 1}
        BY <4>1
      <4>3. DOMAIN new = DOMAIN old \cup {Len(old) + 1}
        BY <2>3, <4>1, <4>2
      <4>4. /\ \A n \in DOMAIN old : new[n] = old[n]
            /\ new[Len(old) + 1] = rec
        BY <2>3, <4>1
      <4>5. QED BY <4>3, <4>4 DEF Range
    <3>2. \A n \in DOMAIN L :
            Range(L[n].records) = IF n = last THEN Range(old) \cup {rec}
                                  ELSE Range(log[p][n].records)
      BY <2>4, <3>1
    <3>3. QED BY <2>2, <2>4, <3>2 DEF RecordsOf
  <2>7. ASSUME LogOrdered(log[p]),
               \A r \in RecordsOf(log[p]) : r.item = rec.item => r.revision <= rec.revision
        PROVE  LogOrdered(L)
    <3> SUFFICES ASSUME NEW n \in DOMAIN L, NEW m \in DOMAIN L,
                        NEW k \in DOMAIN L[n].records, NEW l \in DOMAIN L[m].records,
                        n < m \/ (n = m /\ k <= l),
                        L[n].records[k].item = L[m].records[l].item
                 PROVE  L[n].records[k].revision <= L[m].records[l].revision
      BY DEF LogOrdered
    <3>1. \A j \in DOMAIN L : \A i \in DOMAIN L[j].records :
            \/ /\ i \in DOMAIN log[p][j].records
               /\ L[j].records[i] = log[p][j].records[i]
            \/ j = last /\ i = Len(old) + 1 /\ L[j].records[i] = rec
      <4> SUFFICES ASSUME NEW j \in DOMAIN L, NEW i \in DOMAIN L[j].records
                   PROVE  \/ /\ i \in DOMAIN log[p][j].records
                             /\ L[j].records[i] = log[p][j].records[i]
                          \/ j = last /\ i = Len(old) + 1 /\ L[j].records[i] = rec
        OBVIOUS
      <4>1. CASE j # last
        BY <2>4, <4>1
      <4>2. CASE j = last
        <5>1. i \in 1..(Len(old) + 1) /\ L[j].records = new
          BY <2>3, <2>4, <4>2
        <5>2. i \in DOMAIN old \/ i = Len(old) + 1
          BY <2>2, <5>1
        <5>3. QED BY <2>3, <4>2, <5>1, <5>2
      <4>3. QED BY <4>1, <4>2
    <3>2. CASE m = last /\ l = Len(old) + 1
      <4>1. L[m].records[l] = rec
        BY <2>3, <2>4, <3>2
      <4>2. CASE L[n].records[k] = rec
        BY <4>1, <4>2 DEF Judgement
      <4>3. CASE /\ k \in DOMAIN log[p][n].records
                 /\ L[n].records[k] = log[p][n].records[k]
        <5>1. L[n].records[k] \in RecordsOf(log[p])
          BY <2>4, <4>3 DEF RecordsOf, Range
        <5>2. QED BY <2>7, <4>1, <5>1
      <4>4. QED BY <3>1, <4>2, <4>3
    <3>3. CASE ~ (m = last /\ l = Len(old) + 1)
      <4>1. /\ l \in DOMAIN log[p][m].records
            /\ L[m].records[l] = log[p][m].records[l]
        BY <3>1, <3>3
      <4>2. ~ (n = last /\ k = Len(old) + 1)
        <5> SUFFICES ASSUME n = last, k = Len(old) + 1 PROVE FALSE
          OBVIOUS
        <5>1. m = last
          BY <1>a, <2>2, <2>4
        <5>2. l \in 1..Len(old)
          BY <2>2, <4>1, <5>1
        <5>3. QED BY <2>2, <5>1, <5>2
      <4>3. /\ k \in DOMAIN log[p][n].records
            /\ L[n].records[k] = log[p][n].records[k]
        BY <3>1, <4>2
      <4>4. QED BY <2>4, <2>7, <4>1, <4>3 DEF LogOrdered
    <3>4. QED BY <3>2, <3>3
  <2>8. QED BY <2>5, <2>6, <2>7
<1>3. QED BY <1>1, <1>2

\* A fragment is no record.
LEMMA FragmentedRecords ==
  ASSUME TypeOK, NEW p \in Passes
  PROVE  LET L == Fragmented(p)
         IN /\ L \in Seq(Line) /\ L # <<>>
            /\ RecordsOf(L) = RecordsOf(log[p])
            /\ LogOrdered(log[p]) => LogOrdered(L)
<1> DEFINE L == Fragmented(p)
<1>a. log[p] \in Seq(Line)
  BY DEF TypeOK, Line
<1>b. \A n \in DOMAIN log[p] : log[p][n] \in Line
  BY <1>a
<1>1. CASE ended[p]
  <2> DEFINE new == [records |-> <<>>, fragment |-> TRUE]
  <2>1. L = Append(log[p], new)
    BY <1>1 DEF Fragmented
  <2>2. new \in Line /\ DOMAIN new.records = {}
    BY DEF Line
  <2>3. /\ L \in Seq(Line) /\ L # <<>>
        /\ \A n \in DOMAIN log[p] : n \in DOMAIN L /\ L[n] = log[p][n]
        /\ \A n \in DOMAIN L : n \in DOMAIN log[p] \/ DOMAIN L[n].records = {}
    BY <1>a, <2>1, <2>2
  <2>4. RecordsOf(L) = RecordsOf(log[p])
    BY <2>3 DEF RecordsOf, Range
  <2>5. LogOrdered(log[p]) => LogOrdered(L)
    BY <2>3 DEF LogOrdered
  <2>6. QED BY <2>3, <2>4, <2>5
<1>2. CASE ~ended[p]
  <2> DEFINE last == Len(log[p])
             new == [log[p][last] EXCEPT !.fragment = TRUE]
  <2>1. L = [log[p] EXCEPT ![last] = new]
    BY <1>2 DEF Fragmented
  <2>2. last \in DOMAIN log[p]
    <3>1. log[p] # <<>>
      BY <1>2 DEF TypeOK
    <3>2. QED BY <1>a, <3>1
  <2>3. new \in Line /\ new.records = log[p][last].records
    BY <1>b, <2>2 DEF Line
  <2>4. /\ L \in Seq(Line) /\ L # <<>> /\ DOMAIN L = DOMAIN log[p]
        /\ \A n \in DOMAIN L : L[n].records = log[p][n].records
    BY <1>a, <2>1, <2>2, <2>3
  <2>5. QED BY <2>4 DEF RecordsOf, LogOrdered
<1>3. QED BY <1>1, <1>2

\* A line deleted takes its own records with it, and the others keep their order.
LEMMA DeletedRecords ==
  ASSUME TypeOK, NEW p \in Passes, NEW n \in DOMAIN log[p]
  PROVE  LET L == SubSeq(log[p], 1, n - 1) \o SubSeq(log[p], n + 1, Len(log[p]))
         IN /\ L \in Seq(Line)
            /\ Len(L) = Len(log[p]) - 1
            /\ RecordsOf(L) \subseteq RecordsOf(log[p])
            /\ RecordsOf(log[p]) \subseteq RecordsOf(L) \cup Range(log[p][n].records)
            /\ LogOrdered(log[p]) => LogOrdered(L)
<1> DEFINE L == SubSeq(log[p], 1, n - 1) \o SubSeq(log[p], n + 1, Len(log[p]))
           Was(m) == IF m < n THEN m ELSE m + 1
<1>a. log[p] \in Seq(Line) /\ Len(log[p]) \in Nat /\ DOMAIN log[p] = 1..Len(log[p])
  <2>1. log[p] \in Seq(Line)
    BY DEF TypeOK, Line
  <2>2. QED BY <2>1
<1>1. /\ L \in Seq(Line) /\ Len(L) = Len(log[p]) - 1
      /\ \A m \in 1..Len(L) : L[m] = log[p][Was(m)]
  <2> DEFINE front == SubSeq(log[p], 1, n - 1)
             back == SubSeq(log[p], n + 1, Len(log[p]))
  <2>1. /\ front \in Seq(Line) /\ Len(front) = n - 1
        /\ \A m \in 1..(n - 1) : front[m] = log[p][m]
    BY <1>a
  <2>2. /\ back \in Seq(Line) /\ Len(back) = Len(log[p]) - n
        /\ \A m \in 1..(Len(log[p]) - n) : back[m] = log[p][n + m]
    BY <1>a
  <2> HIDE DEF front, back
  <2>3. L = front \o back
    BY DEF front, back
  <2> HIDE DEF L
  <2>4. n \in 1..Len(log[p])
    BY <1>a
  <2>5. L \in Seq(Line) /\ Len(L) = Len(log[p]) - 1
    <3>1. L \in Seq(Line) /\ Len(L) = Len(front) + Len(back)
      BY <2>1, <2>2, <2>3, ConcatProperties
    <3>2. QED BY <1>a, <2>1, <2>2, <2>4, <3>1
  <2>6. \A m \in 1..Len(L) : L[m] = IF m <= n - 1 THEN front[m] ELSE back[m - (n - 1)]
    <3>1. \A m \in 1..(Len(front) + Len(back)) :
            L[m] = IF m <= Len(front) THEN front[m] ELSE back[m - Len(front)]
      BY <2>1, <2>2, <2>3, ConcatProperties
    <3>2. Len(L) = Len(front) + Len(back)
      BY <1>a, <2>1, <2>2, <2>4, <2>5
    <3>3. QED BY <2>1, <3>1, <3>2
  <2>7. ASSUME NEW m \in 1..Len(L) PROVE L[m] = log[p][Was(m)]
    <3>1. CASE m < n
      BY <1>a, <2>1, <2>4, <2>6, <3>1
    <3>2. CASE m >= n
      <4>1. m - (n - 1) \in 1..(Len(log[p]) - n) /\ n + (m - (n - 1)) = m + 1
        BY <1>a, <2>4, <2>5, <3>2
      <4>2. back[m - (n - 1)] = log[p][m + 1]
        BY <2>2, <4>1
      <4>3. L[m] = back[m - (n - 1)]
        BY <1>a, <2>4, <2>6, <3>2
      <4>4. Was(m) = m + 1
        BY <1>a, <2>4, <3>2
      <4>5. QED BY <4>2, <4>3, <4>4
    <3>3. QED BY <1>a, <2>4, <3>1, <3>2
  <2>8. QED BY <2>5, <2>7
<1> HIDE DEF L
<1>2. /\ \A m \in DOMAIN L : Was(m) \in DOMAIN log[p] /\ L[m] = log[p][Was(m)]
      /\ \A j \in DOMAIN log[p] : j # n => \E m \in DOMAIN L : j = Was(m)
      /\ \A m, j \in DOMAIN L : m < j => Was(m) < Was(j)
  <2>1. DOMAIN L = 1..(Len(log[p]) - 1)
    BY <1>1
  <2>2. \A j \in DOMAIN log[p] : j # n => \E m \in DOMAIN L : j = Was(m)
    <3> SUFFICES ASSUME NEW j \in DOMAIN log[p], j # n PROVE \E m \in DOMAIN L : j = Was(m)
      OBVIOUS
    <3>1. CASE j < n
      <4>1. j \in DOMAIN L /\ j = Was(j)
        BY <1>a, <2>1, <3>1
      <4>2. QED BY <4>1
    <3>2. CASE j > n
      <4>1. j - 1 \in DOMAIN L /\ j = Was(j - 1)
        BY <1>a, <2>1, <3>2
      <4>2. QED BY <4>1
    <3>3. QED BY <1>a, <3>1, <3>2
  <2>3. \A m \in DOMAIN L : Was(m) \in DOMAIN log[p] /\ L[m] = log[p][Was(m)]
    BY <1>1, <1>a, <2>1
  <2>4. \A m, j \in DOMAIN L : m < j => Was(m) < Was(j)
    BY <1>a, <2>1
  <2>5. QED BY <2>2, <2>3, <2>4
<1> HIDE DEF Was
<1>3. RecordsOf(L) \subseteq RecordsOf(log[p])
  BY <1>2 DEF RecordsOf
<1>4. RecordsOf(log[p]) \subseteq RecordsOf(L) \cup Range(log[p][n].records)
  <2> SUFFICES ASSUME NEW j \in DOMAIN log[p], NEW r \in Range(log[p][j].records), j # n
               PROVE  r \in RecordsOf(L)
    BY DEF RecordsOf
  <2>1. PICK m \in DOMAIN L : j = Was(m)
    BY <1>2
  <2>2. r \in Range(L[m].records)
    BY <1>2, <2>1
  <2>3. QED BY <2>2 DEF RecordsOf
<1>5. LogOrdered(log[p]) => LogOrdered(L)
  <2> SUFFICES ASSUME LogOrdered(log[p]),
                      NEW i \in DOMAIN L, NEW j \in DOMAIN L,
                      NEW k \in DOMAIN L[i].records, NEW l \in DOMAIN L[j].records,
                      i < j \/ (i = j /\ k <= l),
                      L[i].records[k].item = L[j].records[l].item
               PROVE  L[i].records[k].revision <= L[j].records[l].revision
    BY DEF LogOrdered
  <2>1. Was(i) < Was(j) \/ (Was(i) = Was(j) /\ k <= l)
    BY <1>2
  <2>2. /\ Was(i) \in DOMAIN log[p] /\ L[i] = log[p][Was(i)]
        /\ Was(j) \in DOMAIN log[p] /\ L[j] = log[p][Was(j)]
    BY <1>2
  <2>3. QED BY <2>1, <2>2 DEF LogOrdered
<1>6. QED BY <1>1, <1>3, <1>4, <1>5 DEF L

-----------------------------------------------------------------------------
(* The inductive invariant                                                 *)

\* Nothing is judged before a session is opened, and what is open is open in it.
Bound ==
  \A p \in Passes :
    /\ session = NoSheet => log[p] = <<>> /\ pc[p] # "open"
    /\ pc[p] = "open" => items[p] = session

\* An open pass remembers the latest revision of every item in its log.
Remembered(p) ==
  \A rec \in Records(p) :
    rec.item \in DOMAIN judgements[p] /\ judgements[p][rec.item] >= rec.revision

\* Everything confirmed is in the log, if not deleted by hand.
Kept ==
  \A p \in Passes :
    /\ recorded[p] \ deleted[p] \subseteq Records(p)
    /\ LogOrdered(log[p])
    /\ pc[p] = "open" => Remembered(p)

LEMMA TypeParts ==
  ASSUME TypeOK, NEW p \in Passes
  PROVE  /\ log[p] \in Seq(Line) /\ Len(log[p]) \in Nat
         /\ DOMAIN log[p] = 1..Len(log[p])
         /\ \A n \in DOMAIN log[p] : log[p][n] \in Line
         /\ Records(p) \subseteq Judgement
         /\ Records(p) = RecordsOf(log[p])
         /\ DOMAIN judgements[p] \subseteq Items
         /\ judgements[p] \in [DOMAIN judgements[p] -> Nat]
<1>1. log[p] \in Seq(Line)
  BY DEF TypeOK, Line
<1>2. \A n \in DOMAIN log[p] : log[p][n] \in Line
  BY <1>1
<1>3. \A n \in DOMAIN log[p] : Range(log[p][n].records) \subseteq Judgement
  <2> TAKE n \in DOMAIN log[p]
  <2>1. log[p][n].records \in Seq(Judgement)
    BY <1>2 DEF Line
  <2>2. QED BY <2>1 DEF Range
<1>4. PICK S \in SUBSET Items : judgements[p] \in [S -> Nat]
  BY DEF TypeOK
<1>5. DOMAIN judgements[p] = S
  BY <1>4
<1>6. QED BY <1>1, <1>2, <1>3, <1>4, <1>5 DEF Records, RecordsOf

\* What a load replays of a log in order is the latest revision of every item.
LEMMA ReplayIsLatest ==
  ASSUME TypeOK, NEW p \in Passes, Readable(p)
  PROVE  /\ Judged(p) \in SUBSET Items
         /\ Replayed(p) \in [Judged(p) -> Nat]
         /\ \A rec \in Records(p) : rec.item \in Judged(p)
         /\ LogOrdered(log[p]) =>
              \A rec \in Records(p) : Replayed(p)[rec.item] >= rec.revision
<1>1. \A n \in DOMAIN log[p] :
        /\ DOMAIN log[p][n].records = {1}
        /\ log[p][n].records[1] \in Judgement
        /\ log[p][n].records[1].item \in Items
        /\ log[p][n].records[1].revision \in Nat
  <2> TAKE n \in DOMAIN log[p]
  <2>1. log[p][n].records \in Seq(Judgement) /\ Len(log[p][n].records) = 1
    BY TypeParts DEF Line, Readable, WellFormed
  <2>2. DOMAIN log[p][n].records = {1} /\ log[p][n].records[1] \in Judgement
    BY <2>1
  <2>3. QED BY <2>2 DEF Judgement
<1>2. ASSUME NEW i \in Judged(p)
      PROVE  /\ LastLine(p, i) \in DOMAIN log[p]
             /\ log[p][LastLine(p, i)].records[1].item = i
             /\ \A m \in (LastLine(p, i) + 1)..Len(log[p]) : log[p][m].records[1].item # i
  <2> DEFINE S == {n \in DOMAIN log[p] : log[p][n].records[1].item = i}
  <2>1. S # {} /\ S \in SUBSET (1..Len(log[p]))
    BY TypeParts DEF Judged
  <2>2. \E n \in S : \A m \in S : m <= n
    BY <2>1, TypeParts, Greatest
  <2>3. PICK n \in S : \A m \in S : m <= n
    BY <2>2
  <2>4. \A m \in (n + 1)..Len(log[p]) : log[p][m].records[1].item # i
    <3> SUFFICES ASSUME NEW m \in (n + 1)..Len(log[p]), log[p][m].records[1].item = i
                 PROVE  FALSE
      OBVIOUS
    <3>1. n \in Nat /\ m \in 1..Len(log[p]) /\ m > n
      BY TypeParts
    <3>2. m \in S
      BY <3>1, TypeParts
    <3>3. QED BY <2>3, <3>1, <3>2
  <2>5. QED BY <2>3, <2>4 DEF LastLine
<1>3. Judged(p) \in SUBSET Items
  BY <1>1 DEF Judged
<1>4. Replayed(p) \in [Judged(p) -> Nat]
  BY <1>1, <1>2 DEF Replayed
<1>5. ASSUME NEW rec \in Records(p)
      PROVE  /\ rec.item \in Judged(p)
             /\ LogOrdered(log[p]) => Replayed(p)[rec.item] >= rec.revision
  <2>1. PICK n \in DOMAIN log[p] : rec = log[p][n].records[1]
    BY <1>1 DEF Records, Range
  <2>2. rec.item \in Judged(p)
    BY <2>1 DEF Judged
  <2> DEFINE m == LastLine(p, rec.item)
  <2>3. m \in DOMAIN log[p] /\ n <= m
    <3>1. m \in DOMAIN log[p] /\ ~ (n \in (m + 1)..Len(log[p]))
      BY <1>2, <2>1, <2>2
    <3> HIDE DEF m
    <3>2. QED BY <3>1, TypeParts
  <2>4. ASSUME LogOrdered(log[p]) PROVE log[p][m].records[1].revision >= rec.revision
    <3>1. log[p][m].records[1].item = rec.item
      BY <1>2, <2>2
    <3> HIDE DEF m
    <3>2. 1 \in DOMAIN log[p][n].records /\ 1 \in DOMAIN log[p][m].records
      BY <1>1, <2>3
    <3>3. n < m \/ (n = m /\ 1 <= 1)
      BY <2>3, TypeParts
    <3>4. log[p][n].records[1].revision <= log[p][m].records[1].revision
      BY <2>1, <2>3, <2>4, <3>1, <3>2, <3>3 DEF LogOrdered
    <3>5. QED BY <1>1, <2>1, <2>3, <3>4
  <2>5. QED BY <2>2, <2>4 DEF Replayed
<1>6. QED BY <1>3, <1>4, <1>5

-----------------------------------------------------------------------------
(* Type correctness                                                        *)

\* What Record and Crash append is a judgement, later than those remembered.
LEMMA DecisionType ==
  ASSUME TypeOK, NEW p \in Passes
  PROVE  /\ Decision(p) \in Judgement
         /\ Decision(p).item = position[p] /\ Decision(p).of = items[p]
         /\ position[p] \in DOMAIN judgements[p] =>
              Decision(p).revision = judgements[p][position[p]] + 1
<1>1. position[p] \in Items /\ items[p] \in Sheets \cup {NoSheet}
  BY DEF TypeOK
<1>2. position[p] \in DOMAIN judgements[p] => judgements[p][position[p]] \in Nat
  BY TypeParts
<1>3. QED BY <1>1, <1>2 DEF Decision, Judgement

\* What an open pass remembers after a judgement.
Remembering(p) ==
  LET rec == Decision(p)
  IN [i \in DOMAIN judgements[p] \cup {rec.item} |->
        IF i = rec.item THEN rec.revision ELSE judgements[p][i]]

LEMMA RememberingType ==
  ASSUME TypeOK, NEW p \in Passes
  PROVE  /\ DOMAIN Remembering(p) = DOMAIN judgements[p] \cup {position[p]}
         /\ DOMAIN Remembering(p) \in SUBSET Items
         /\ Remembering(p) \in [DOMAIN Remembering(p) -> Nat]
         /\ \A i \in DOMAIN Remembering(p) : Remembering(p)[i] \in Nat
         /\ Remembering(p)[position[p]] = Decision(p).revision
         /\ \A i \in DOMAIN judgements[p] :
              Remembering(p)[i] >= judgements[p][i]
<1>1. /\ Decision(p).revision \in Nat
      /\ position[p] \in Items
      /\ DOMAIN judgements[p] \subseteq Items
      /\ \A i \in DOMAIN judgements[p] : judgements[p][i] \in Nat
  BY DecisionType, TypeParts DEF Judgement, TypeOK
<1>2. QED BY <1>1, DecisionType DEF Remembering

LEMMA InitTypeOK == Init => TypeOK
<1> SUFFICES ASSUME Init PROVE TypeOK
  OBVIOUS
<1>1. 1 \in Items
  BY DEF Items
<1>2. /\ judgements = [p \in Passes |-> judgements[p]]
      /\ \A p \in Passes : \E S \in SUBSET Items : judgements[p] \in [S -> Nat]
  <2>1. \A p \in Passes : judgements[p] \in [{} -> Nat] /\ {} \in SUBSET Items
    BY DEF Init
  <2>2. QED BY <2>1 DEF Init
<1>3. log \in [Passes -> Seq([records : Seq(Judgement), fragment : BOOLEAN])]
  BY DEF Init
<1>4. QED BY <1>1, <1>2, <1>3 DEF Init, TypeOK

LEMMA NextTypeOK == TypeOK /\ [Next]_vars => TypeOK'
<1> SUFFICES ASSUME TypeOK, [Next]_vars PROVE TypeOK'
  OBVIOUS
<1>1. ASSUME NEW s \in Sheets, NEW force \in BOOLEAN, Build(s, force) PROVE TypeOK'
  BY <1>1 DEF Build, TypeOK
<1>2. ASSUME NEW p \in Passes, Open(p) PROVE TypeOK'
  <2>1. Judged(p) \in SUBSET Items /\ Replayed(p) \in [Judged(p) -> Nat]
    BY <1>2, ReplayIsLatest DEF Open
  <2>2. position'[p] \in Items
    <3>1. 1 \in Items
      BY DEF Items
    <3>2. Judged(p) # Items => FirstOf(Items \ Judged(p)) \in Items
      BY <2>1, FirstOfExists
    <3>3. QED BY <1>2, <3>1, <3>2 DEF Open, TypeOK
  <2>3. position' \in [Passes -> Items]
    BY <1>2, <2>2 DEF Open, TypeOK
  <2>4. /\ judgements' = [q \in Passes |-> judgements'[q]]
        /\ \A q \in Passes : \E S \in SUBSET Items : judgements'[q] \in [S -> Nat]
    BY <1>2, <2>1 DEF Open, TypeOK
  <2>5. sheet \in Sheets
    BY <1>2 DEF Open, SessionAccepts, TypeOK
  <2>6. QED BY <1>2, <2>3, <2>4, <2>5 DEF Open, TypeOK
<1>3. ASSUME NEW p \in Passes, Record(p) PROVE TypeOK'
  <2> DEFINE following == Unjudged(Remembering(p), position[p])
  <2>1. following \in SUBSET Items
    BY DEF Unjudged
  <2>2. following # {} => FirstOf(following) \in Items
    BY <2>1, FirstOfExists
  <2>3. /\ judgements' = [judgements EXCEPT ![p] = Remembering(p)]
        /\ log' = [log EXCEPT ![p] = Appended(p, Decision(p))]
        /\ recorded' = [recorded EXCEPT ![p] = @ \cup {Decision(p)}]
        /\ \/ following # {} /\ position' = [position EXCEPT ![p] = FirstOf(following)] /\ pc' = pc
           \/ pc' = [pc EXCEPT ![p] = "finished"] /\ position' = position
        /\ ended' = [ended EXCEPT ![p] = TRUE]
        /\ UNCHANGED <<sheet, session, items, revealed, deleted, crashes>>
    BY <1>3, DecisionType DEF Record, Remembering
  <2> HIDE DEF following
  <2>4. Appended(p, Decision(p)) \in Seq(Line)
    BY DecisionType, AppendedRecords
  <2>5. /\ judgements' = [q \in Passes |-> judgements'[q]]
        /\ \A q \in Passes : \E S \in SUBSET Items : judgements'[q] \in [S -> Nat]
    BY <2>3, RememberingType DEF TypeOK
  <2>6. recorded' \in [Passes -> SUBSET Judgement]
    <3>1. Decision(p) \in Judgement /\ recorded \in [Passes -> SUBSET Judgement]
      BY DecisionType DEF TypeOK
    <3>2. recorded' = [recorded EXCEPT ![p] = recorded[p] \cup {Decision(p)}]
      BY <2>3
    <3>3. QED BY <3>1, <3>2
  <2>7. log' \in [Passes -> Seq(Line)]
    BY <2>3, <2>4 DEF TypeOK, Line
  <2>8. \A q \in Passes : ended'[q] \/ log'[q] # <<>>
    BY <2>3 DEF TypeOK
  <2>9. position' \in [Passes -> Items] /\ pc' \in [Passes -> {"closed", "open", "finished"}]
    BY <2>2, <2>3 DEF TypeOK
  <2>10. QED BY <2>3, <2>5, <2>6, <2>7, <2>8, <2>9 DEF TypeOK, Line
<1>4. ASSUME NEW p \in Passes, NEW i \in Items, Move(p, i) PROVE TypeOK'
  BY <1>4 DEF Move, TypeOK
<1>5. ASSUME NEW p \in Passes, Quit(p) PROVE TypeOK'
  BY <1>5 DEF Quit, TypeOK
<1>6. ASSUME NEW p \in Passes, Crash(p) PROVE TypeOK'
  <2>1. /\ Fragmented(p) \in Seq(Line) /\ Fragmented(p) # <<>>
        /\ Appended(p, Decision(p)) \in Seq(Line) /\ Appended(p, Decision(p)) # <<>>
    BY DecisionType, AppendedRecords, FragmentedRecords
  <2>2. /\ log' \in [Passes -> Seq(Line)]
        /\ ended' \in [Passes -> BOOLEAN]
        /\ \A q \in Passes : ended'[q] \/ log'[q] # <<>>
    <3>1. CASE UNCHANGED <<log, ended>>
      BY <3>1 DEF TypeOK, Line
    <3>2. CASE /\ log' = [log EXCEPT ![p] = Fragmented(p)]
               /\ ended' = [ended EXCEPT ![p] = FALSE]
      BY <2>1, <3>2 DEF TypeOK, Line
    <3>3. CASE /\ log' = [log EXCEPT ![p] = Appended(p, Decision(p))]
               /\ ended' \in {[ended EXCEPT ![p] = FALSE], [ended EXCEPT ![p] = TRUE]}
      BY <2>1, <3>3 DEF TypeOK, Line
    <3>4. QED BY <1>6, <3>1, <3>2, <3>3 DEF Crash
  <2>3. /\ crashes' = crashes + 1
        /\ pc' = [pc EXCEPT ![p] = "closed"]
        /\ UNCHANGED <<sheet, session, items, judgements, position, revealed,
                       recorded, deleted>>
    BY <1>6 DEF Crash
  <2>4. /\ judgements' = [q \in Passes |-> judgements'[q]]
        /\ \A q \in Passes : \E S \in SUBSET Items : judgements'[q] \in [S -> Nat]
    BY <2>3 DEF TypeOK
  <2>5. /\ crashes' \in Nat
        /\ pc' \in [Passes -> {"closed", "open", "finished"}]
    BY <2>3 DEF TypeOK
  <2>6. QED BY <2>2, <2>3, <2>4, <2>5 DEF TypeOK, Line
<1>7. ASSUME NEW p \in Passes, Repair(p) PROVE TypeOK'
  <2>1. PICK n \in DOMAIN log[p] :
          /\ log' = [log EXCEPT ![p] =
               SubSeq(@, 1, n - 1) \o SubSeq(@, n + 1, Len(@))]
          /\ ended' \in {[ended EXCEPT ![p] = n = Len(log[p]) \/ @],
                         [ended EXCEPT ![p] = TRUE]}
          /\ deleted' = [deleted EXCEPT ![p] = @ \cup Range(log[p][n].records)]
          /\ UNCHANGED <<sheet, session, pc, items, judgements, position, revealed,
                         recorded, crashes>>
    BY <1>7 DEF Repair
  <2> DEFINE L == SubSeq(log[p], 1, n - 1) \o SubSeq(log[p], n + 1, Len(log[p]))
  <2>2. L \in Seq(Line) /\ Len(L) = Len(log[p]) - 1
    BY DeletedRecords
  <2>3. log' = [log EXCEPT ![p] = L]
    BY <2>1
  <2> HIDE DEF L
  <2>4. Range(log[p][n].records) \subseteq Judgement
    BY TypeParts DEF Records
  <2>5. deleted' \in [Passes -> SUBSET Judgement]
    BY <2>1, <2>4 DEF TypeOK
  <2>6. log' \in [Passes -> Seq(Line)]
    BY <2>2, <2>3 DEF TypeOK, Line
  <2>7. ended' \in [Passes -> BOOLEAN]
    BY <2>1 DEF TypeOK
  <2>8. \A q \in Passes : ended'[q] \/ log'[q] # <<>>
    <3>1. ended'[p] \/ log'[p] # <<>>
      <4>1. n = Len(log[p]) => ended'[p]
        BY <2>1 DEF TypeOK
      <4>2. n # Len(log[p]) => Len(log'[p]) # 0
        BY <2>2, <2>3, TypeParts DEF TypeOK
      <4>3. QED BY <4>1, <4>2
    <3>2. QED BY <2>1, <2>3, <3>1 DEF TypeOK
  <2>9. QED BY <2>1, <2>5, <2>6, <2>7, <2>8 DEF TypeOK, Line
<1>8. CASE Unseal
  BY <1>8 DEF Unseal, TypeOK
<1>9. CASE UNCHANGED vars
  BY <1>9 DEF vars, TypeOK
<1>10. QED BY <1>1, <1>2, <1>3, <1>4, <1>5, <1>6, <1>7, <1>8, <1>9 DEF Next

\* THEOREM: files and passes are well typed, whatever the commands, crashes and
\* repairs; a torn log is never empty (score_answers.py).
THEOREM TypeCorrect == Spec => []TypeOK
<1>1. QED BY InitTypeOK, NextTypeOK, PTL DEF Spec

-----------------------------------------------------------------------------
(* A finished pass is complete                                             *)

LEMMA NextFinished ==
  TypeOK /\ FinishedMeansComplete /\ [Next]_vars => FinishedMeansComplete'
<1> SUFFICES ASSUME TypeOK, FinishedMeansComplete, [Next]_vars,
                    NEW p \in Passes, pc'[p] = "finished"
             PROVE  Items \subseteq DOMAIN judgements'[p]
  BY DEF FinishedMeansComplete
<1>1. CASE pc[p] = "finished" /\ judgements'[p] = judgements[p]
  BY <1>1 DEF FinishedMeansComplete
<1>2. CASE Record(p)
  <2>1. /\ Unjudged(Remembering(p), position[p]) = {}
        /\ judgements' = [judgements EXCEPT ![p] = Remembering(p)]
    BY <1>2, DecisionType DEF Record, Remembering, TypeOK
  <2>2. Items \ DOMAIN Remembering(p) = {}
    BY <2>1 DEF Unjudged
  <2>3. QED BY <2>1, <2>2 DEF TypeOK
<1>3. CASE ~ Record(p)
  <2>1. ASSUME NEW q \in Passes, q # p \/ ~ Record(q),
               \/ Open(q) \/ Record(q) \/ (\E i \in Items : Move(q, i))
               \/ Quit(q) \/ Crash(q) \/ Repair(q)
        PROVE  pc[p] = "finished" /\ judgements'[p] = judgements[p]
    BY <1>3, <2>1 DEF Open, Record, Move, Quit, Crash, Repair, TypeOK
  <2>2. CASE Unseal \/ (\E s \in Sheets, force \in BOOLEAN : Build(s, force)) \/ UNCHANGED vars
    BY <1>1, <2>2 DEF Unseal, Build, vars
  <2>3. QED BY <1>1, <1>3, <2>1, <2>2 DEF Next
<1>4. QED BY <1>2, <1>3

\* THEOREM: a pass that says every item has a judgement is right, in whatever
\* order the scorer went (score_answers.py:272).
THEOREM FinishedIsComplete == Spec => []FinishedMeansComplete
<1>1. Init => FinishedMeansComplete
  BY DEF Init, FinishedMeansComplete
<1>2. QED BY <1>1, TypeCorrect, NextFinished, PTL DEF Spec

-----------------------------------------------------------------------------
(* Judgements are of the session's sheet                                   *)

LEMMA NextBound ==
  TypeOK /\ Bound /\ JudgementsAreOfTheSessionSheet /\ [Next]_vars
  => Bound' /\ JudgementsAreOfTheSessionSheet'
<1> SUFFICES ASSUME TypeOK, Bound, JudgementsAreOfTheSessionSheet, [Next]_vars,
                    NEW p \in Passes
             PROVE  /\ session' = NoSheet => log'[p] = <<>> /\ pc'[p] # "open"
                    /\ pc'[p] = "open" => items'[p] = session'
                    /\ \A rec \in RecordsOf(log'[p]) : rec.of = session'
  BY DEF Bound, JudgementsAreOfTheSessionSheet, Records, RecordsOf
<1> DEFINE Goal == /\ session' = NoSheet => log'[p] = <<>> /\ pc'[p] # "open"
                   /\ pc'[p] = "open" => items'[p] = session'
                   /\ \A rec \in RecordsOf(log'[p]) : rec.of = session'
<1>a. /\ session = NoSheet => log[p] = <<>> /\ pc[p] # "open"
      /\ pc[p] = "open" => items[p] = session
      /\ \A rec \in RecordsOf(log[p]) : rec.of = session
  BY DEF Bound, JudgementsAreOfTheSessionSheet, Records, RecordsOf
<1>b. ASSUME UNCHANGED <<session, log>>, pc'[p] # "open" \/ (pc'[p] = pc[p] /\ items'[p] = items[p])
      PROVE  Goal
  BY <1>a, <1>b
<1>1. ASSUME NEW s \in Sheets, NEW force \in BOOLEAN, Build(s, force) PROVE Goal
  BY <1>1, <1>b DEF Build
<1>2. ASSUME NEW q \in Passes, Open(q) PROVE Goal
  <2>1. session' # NoSheet /\ log' = log /\ (session' = session \/ session = NoSheet)
    BY <1>2 DEF Open, SessionAccepts, TypeOK
  <2>2. session = NoSheet => RecordsOf(log[p]) = {}
    BY <1>a DEF RecordsOf
  <2>3. pc'[p] = "open" => items'[p] = session'
    <3>1. CASE q = p
      BY <1>2, <3>1 DEF Open, TypeOK
    <3>2. CASE q # p
      <4>1. pc'[p] = pc[p] /\ items'[p] = items[p]
        BY <1>2, <3>2 DEF Open, TypeOK
      <4>2. QED BY <1>a, <2>1, <4>1
    <3>3. QED BY <3>1, <3>2
  <2>4. QED BY <1>a, <2>1, <2>2, <2>3
<1>c. ASSUME NEW q \in Passes, pc[q] = "open", session' = session,
             items' = items, q # p => log'[p] = log[p] /\ pc'[p] = pc[p],
             RecordsOf(log'[q]) \subseteq RecordsOf(log[q]) \cup {Decision(q)}
      PROVE  Goal
  <2>1. CASE q = p
    <3>1. session # NoSheet /\ Decision(p).of = session
      BY <1>a, <1>c, <2>1, DecisionType
    <3>2. QED BY <1>a, <1>c, <2>1, <3>1
  <2>2. CASE q # p
    BY <1>a, <1>c, <2>2
  <2>3. QED BY <2>1, <2>2
<1>3. ASSUME NEW q \in Passes, Record(q) PROVE Goal
  <2>1. /\ pc[q] = "open" /\ log' = [log EXCEPT ![q] = Appended(q, Decision(q))]
        /\ q # p => pc'[p] = pc[p]
        /\ session' = session /\ items' = items
    BY <1>3 DEF Record, TypeOK
  <2>2. RecordsOf(Appended(q, Decision(q))) = RecordsOf(log[q]) \cup {Decision(q)}
    BY DecisionType, AppendedRecords
  <2>3. RecordsOf(log'[q]) \subseteq RecordsOf(log[q]) \cup {Decision(q)}
    BY <2>1, <2>2 DEF TypeOK
  <2>4. q # p => log'[p] = log[p] /\ pc'[p] = pc[p]
    BY <2>1 DEF TypeOK
  <2>5. QED BY <1>c, <2>1, <2>3, <2>4
<1>4. ASSUME NEW q \in Passes, NEW i \in Items, Move(q, i) PROVE Goal
  BY <1>4, <1>b DEF Move
<1>5. ASSUME NEW q \in Passes, Quit(q) PROVE Goal
  BY <1>5, <1>b DEF Quit, TypeOK
<1>6. ASSUME NEW q \in Passes, Crash(q) PROVE Goal
  <2>1. /\ RecordsOf(Appended(q, Decision(q))) = RecordsOf(log[q]) \cup {Decision(q)}
        /\ RecordsOf(Fragmented(q)) = RecordsOf(log[q])
    BY DecisionType, AppendedRecords, FragmentedRecords
  <2>2. \/ log' = log
        \/ log' = [log EXCEPT ![q] = Fragmented(q)]
        \/ log' = [log EXCEPT ![q] = Appended(q, Decision(q))]
    BY <1>6 DEF Crash
  <2>3. RecordsOf(log'[q]) \subseteq RecordsOf(log[q]) \cup {Decision(q)}
    BY <2>1, <2>2 DEF TypeOK
  <2>4. pc[q] = "open" /\ (q # p => pc'[p] = pc[p]) /\ session' = session /\ items' = items
    BY <1>6 DEF Crash, TypeOK
  <2>5. q # p => log'[p] = log[p] /\ pc'[p] = pc[p]
    BY <2>2, <2>4 DEF TypeOK
  <2>6. QED BY <1>c, <2>3, <2>4, <2>5
<1>7. ASSUME NEW q \in Passes, Repair(q) PROVE Goal
  <2>1. PICK n \in DOMAIN log[q] :
          /\ log' = [log EXCEPT ![q] =
               SubSeq(@, 1, n - 1) \o SubSeq(@, n + 1, Len(@))]
          /\ UNCHANGED <<session, pc, items>>
    BY <1>7 DEF Repair
  <2> DEFINE L == SubSeq(log[q], 1, n - 1) \o SubSeq(log[q], n + 1, Len(log[q]))
  <2>2. RecordsOf(L) \subseteq RecordsOf(log[q])
    BY DeletedRecords
  <2>3. log' = [log EXCEPT ![q] = L]
    BY <2>1
  <2> HIDE DEF L
  <2>4. RecordsOf(log'[p]) \subseteq RecordsOf(log[p])
    BY <2>2, <2>3 DEF TypeOK
  <2>5. log[q] # <<>>
    BY <2>1
  <2>6. session # NoSheet
    BY <2>5 DEF Bound
  <2>7. QED BY <1>a, <2>1, <2>4, <2>6
<1>8. CASE Unseal
  BY <1>8, <1>b DEF Unseal
<1>9. CASE UNCHANGED vars
  BY <1>9, <1>b DEF vars
<1>10. QED BY <1>1, <1>2, <1>3, <1>4, <1>5, <1>6, <1>7, <1>8, <1>9 DEF Next

\* THEOREM: whatever is rebuilt, forced or repaired while passes are open, both
\* logs only hold judgements of the sheet the session was opened against
\* (manual_scoring.py:381).
THEOREM OneSheet == Spec => []JudgementsAreOfTheSessionSheet
<1>1. Init => Bound /\ JudgementsAreOfTheSessionSheet
  BY DEF Init, Bound, JudgementsAreOfTheSessionSheet, Records
<1>2. QED BY <1>1, TypeCorrect, NextBound, PTL DEF Spec

-----------------------------------------------------------------------------
(* No confirmed judgement is lost silently                                 *)

LEMMA NextKept == TypeOK /\ Kept /\ [Next]_vars => Kept'
<1> DEFINE KeptOf(p, lines, done, told, gone, open) ==
             /\ told \ gone \subseteq RecordsOf(lines)
             /\ LogOrdered(lines)
             /\ open => \A rec \in RecordsOf(lines) :
                          rec.item \in DOMAIN done /\ done[rec.item] >= rec.revision
<1> SUFFICES ASSUME TypeOK, Kept, [Next]_vars, NEW p \in Passes
             PROVE  KeptOf(p, log'[p], judgements'[p], recorded'[p], deleted'[p],
                           pc'[p] = "open")
  BY DEF Kept, Remembered, Records, RecordsOf
<1> DEFINE Goal == KeptOf(p, log'[p], judgements'[p], recorded'[p], deleted'[p],
                          pc'[p] = "open")
<1>a. /\ recorded[p] \ deleted[p] \subseteq RecordsOf(log[p])
      /\ LogOrdered(log[p])
      /\ pc[p] = "open" => \A rec \in RecordsOf(log[p]) :
           rec.item \in DOMAIN judgements[p] /\ judgements[p][rec.item] >= rec.revision
  BY DEF Kept, Remembered, Records, RecordsOf
<1>b. ASSUME log'[p] = log[p], recorded'[p] = recorded[p], deleted'[p] = deleted[p],
             pc'[p] # "open" \/ (pc'[p] = pc[p] /\ judgements'[p] = judgements[p])
      PROVE  Goal
  BY <1>a, <1>b
<1>1. ASSUME NEW s \in Sheets, NEW force \in BOOLEAN, Build(s, force) PROVE Goal
  BY <1>1, <1>b DEF Build
<1>2. ASSUME NEW q \in Passes, Open(q) PROVE Goal
  <2>1. CASE q = p
    <3>1. /\ Readable(p) /\ judgements'[p] = Replayed(p)
          /\ UNCHANGED <<log, recorded, deleted>>
      BY <1>2, <2>1 DEF Open, TypeOK
    <3>2. /\ DOMAIN Replayed(p) = Judged(p)
          /\ \A rec \in RecordsOf(log[p]) :
               rec.item \in Judged(p) /\ Replayed(p)[rec.item] >= rec.revision
      BY <1>a, <3>1, ReplayIsLatest, TypeParts
    <3>3. QED BY <1>a, <3>1, <3>2
  <2>2. CASE q # p
    BY <1>2, <1>b, <2>2 DEF Open, TypeOK
  <2>3. QED BY <2>1, <2>2
<1>c. ASSUME pc[p] = "open"
      PROVE  \A rec \in RecordsOf(log[p]) :
               rec.item = Decision(p).item => rec.revision <= Decision(p).revision
  <2> SUFFICES ASSUME NEW rec \in RecordsOf(log[p]), rec.item = position[p]
               PROVE  rec.revision <= Decision(p).revision
    BY DecisionType
  <2>1. rec.revision \in Nat
    BY TypeParts DEF Judgement
  <2>2. position[p] \in DOMAIN judgements[p] /\ judgements[p][position[p]] >= rec.revision
    BY <1>a, <1>c
  <2>3. judgements[p][position[p]] \in Nat
    BY <2>2, TypeParts
  <2>4. QED BY <2>1, <2>2, <2>3, DecisionType
<1>3. ASSUME NEW q \in Passes, Record(q) PROVE Goal
  <2>1. CASE q = p
    <3>1. /\ pc[p] = "open"
          /\ log'[p] = Appended(p, Decision(p))
          /\ judgements'[p] = Remembering(p)
          /\ recorded'[p] = recorded[p] \cup {Decision(p)}
          /\ deleted'[p] = deleted[p]
      BY <1>3, <2>1, DecisionType DEF Record, Remembering, TypeOK
    <3>2. /\ RecordsOf(log'[p]) = RecordsOf(log[p]) \cup {Decision(p)}
          /\ LogOrdered(log'[p])
      BY <1>a, <1>c, <3>1, DecisionType, AppendedRecords
    <3>3. ASSUME NEW rec \in RecordsOf(log[p])
          PROVE  rec.item \in DOMAIN Remembering(p) /\ Remembering(p)[rec.item] >= rec.revision
      <4>1. rec.item \in DOMAIN judgements[p] /\ judgements[p][rec.item] >= rec.revision
        BY <1>a, <3>1
      <4>2. rec.revision \in Nat /\ judgements[p][rec.item] \in Nat
        BY <4>1, TypeParts DEF Judgement
      <4>3. /\ rec.item \in DOMAIN Remembering(p)
            /\ Remembering(p)[rec.item] >= judgements[p][rec.item]
        BY <4>1, RememberingType
      <4>4. Remembering(p)[rec.item] \in Nat
        BY <4>3, RememberingType
      <4>5. QED BY <4>1, <4>2, <4>3, <4>4
    <3>4. LET rec == Decision(p)
          IN rec.item \in DOMAIN Remembering(p) /\ Remembering(p)[rec.item] >= rec.revision
      <4>1. Decision(p).revision \in Nat
        BY DecisionType DEF Judgement
      <4>2. /\ position[p] \in DOMAIN Remembering(p)
            /\ Remembering(p)[position[p]] = Decision(p).revision
        BY RememberingType
      <4>3. QED BY <4>1, <4>2, DecisionType
    <3>5. QED BY <1>a, <3>1, <3>2, <3>3, <3>4
  <2>2. CASE q # p
    BY <1>3, <1>b, <2>2 DEF Record, TypeOK
  <2>3. QED BY <2>1, <2>2
<1>4. ASSUME NEW q \in Passes, NEW i \in Items, Move(q, i) PROVE Goal
  BY <1>4, <1>b DEF Move
<1>5. ASSUME NEW q \in Passes, Quit(q) PROVE Goal
  BY <1>5, <1>b DEF Quit, TypeOK
<1>6. ASSUME NEW q \in Passes, Crash(q) PROVE Goal
  <2>1. CASE q = p
    <3>1. /\ pc[p] = "open" /\ pc'[p] = "closed"
          /\ UNCHANGED <<recorded, deleted>>
          /\ \/ log'[p] = log[p]
             \/ log'[p] = Fragmented(p)
             \/ log'[p] = Appended(p, Decision(p))
      BY <1>6, <2>1 DEF Crash, TypeOK
    <3>2. /\ RecordsOf(log[p]) \subseteq RecordsOf(log'[p])
          /\ LogOrdered(log'[p])
      BY <1>a, <1>c, <3>1, DecisionType, AppendedRecords, FragmentedRecords
    <3>3. QED BY <1>a, <3>1, <3>2
  <2>2. CASE q # p
    BY <1>6, <1>b, <2>2 DEF Crash, TypeOK
  <2>3. QED BY <2>1, <2>2
<1>7. ASSUME NEW q \in Passes, Repair(q) PROVE Goal
  <2>1. CASE q = p
    <3>1. PICK n \in DOMAIN log[p] :
            /\ log' = [log EXCEPT ![p] =
                 SubSeq(@, 1, n - 1) \o SubSeq(@, n + 1, Len(@))]
            /\ deleted' = [deleted EXCEPT ![p] = @ \cup Range(log[p][n].records)]
            /\ pc[p] # "open" /\ UNCHANGED <<pc, recorded>>
      BY <1>7, <2>1 DEF Repair
    <3> DEFINE L == SubSeq(log[p], 1, n - 1) \o SubSeq(log[p], n + 1, Len(log[p]))
    <3>2. /\ RecordsOf(log[p]) \subseteq RecordsOf(L) \cup Range(log[p][n].records)
          /\ LogOrdered(L)
      BY <1>a, DeletedRecords
    <3>3. log'[p] = L /\ deleted'[p] = deleted[p] \cup Range(log[p][n].records)
      BY <3>1 DEF TypeOK
    <3> HIDE DEF L
    <3>4. QED BY <1>a, <3>1, <3>2, <3>3
  <2>2. CASE q # p
    BY <1>7, <1>b, <2>2 DEF Repair, TypeOK
  <2>3. QED BY <2>1, <2>2
<1>8. CASE Unseal
  BY <1>8, <1>b DEF Unseal
<1>9. CASE UNCHANGED vars
  BY <1>9, <1>b DEF vars
<1>10. QED BY <1>1, <1>2, <1>3, <1>4, <1>5, <1>6, <1>7, <1>8, <1>9 DEF Next

\* THEOREM: whatever crashes tear and repairs delete, a log that can be read back
\* replays every judgement the scorer saw confirmed, or a later one of the item,
\* except those on lines deleted by hand (manual_scoring.py:321).
THEOREM ConfirmedReplay == Spec => []ConfirmedJudgementsReplay
<1>1. Init => Kept
  BY DEF Init, Kept, Records, LogOrdered
<1>2. TypeOK /\ Kept => ConfirmedJudgementsReplay
  <2> SUFFICES ASSUME TypeOK, Kept, NEW p \in Passes, Readable(p),
                      NEW rec \in recorded[p] \ deleted[p]
               PROVE  /\ rec.item \in DOMAIN Replayed(p)
                      /\ Replayed(p)[rec.item] >= rec.revision
    BY DEF ConfirmedJudgementsReplay
  <2>1. rec \in Records(p) /\ LogOrdered(log[p])
    BY DEF Kept
  <2>2. QED BY <2>1, ReplayIsLatest
<1>3. QED BY <1>1, <1>2, TypeCorrect, NextKept, PTL DEF Spec

=============================================================================
