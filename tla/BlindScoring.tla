---------------------------- MODULE BlindScoring ----------------------------
(***************************************************************************)
(* Blinded manual scoring: scripts/score_answers.py over                   *)
(* evaluation/manual_scoring.py.  `build` writes a shuffled sheet and a    *)
(* sealed key; `score` and `abstention` are two passes over the sheet,     *)
(* each appending its judgements to a log of its own and resuming from it; *)
(* session.json binds both logs to the sheet; `unseal` prints the key once *)
(* both passes cover the sheet.                                            *)
(*                                                                         *)
(* The two passes may be open at the same time, each in one terminal.  A   *)
(* pass may die at any point of an append, and a log that cannot be read   *)
(* back is repaired by hand the way its error message says.  `build`       *)
(* writes sheet and key in one step, and opening a session (read the       *)
(* sheet, hash it, load the log) is one step.  The abstention pass shows   *)
(* the items in an order of its own: its item i is the i-th of that order. *)
(* Every sheet has Size items.  The values of a judgement and the commands *)
(* that only report are left out.                                          *)
(***************************************************************************)
EXTENDS Naturals, Sequences, FiniteSets, Functions

CONSTANTS
  Sheets,      \* what review_sheet.jsonl may hold (runs and seed differ)
  NoSheet,     \* the file does not exist
  Size,        \* the number of items of a sheet
  MaxLines,    \* bound on the lines of a log
  MaxCrashes   \* bound on the passes that die

ASSUME ScoringConstants ==
  /\ NoSheet \notin Sheets
  /\ Size \in Nat \ {0}
  /\ MaxLines \in Nat /\ MaxCrashes \in Nat

VARIABLES
  sheet,      \* review_sheet.jsonl, and its key beside it
  session,    \* session.json: the sheet whose hash it holds
  log,        \* log[p]: the lines of the pass's log
  ended,      \* ended[p]: the log ends with a newline, or is empty
  pc,         \* pc[p]: "closed", "open", or "finished" (every item judged)
  items,      \* items[p]: the sheet the open pass shows
  judgements, \* judgements[p]: item -> revision, as the open pass remembers
  position,   \* position[p]: the item on screen
  revealed,   \* the sheets whose mapping `unseal` has printed
  recorded,   \* recorded[p]: the judgements the reviewer saw confirmed
  deleted,    \* deleted[p]: the judgements on lines deleted by hand
  crashes

vars == <<sheet, session, log, ended, pc, items, judgements, position,
          revealed, recorded, deleted, crashes>>

Passes == {"score", "abstention"}
Items == 1..Size

\* A judgement is [item, revision, of]: `of` is the sheet the item was shown
\* from, which the log does not record.

(***************************************************************************)
(* The logs                                                                *)
(***************************************************************************)

\* One record per line, or the line is not JSON.
WellFormed(line) == Len(line.records) = 1 /\ ~line.fragment

\* load_judgements and load_abstention replay every line or raise.
Readable(p) == \A n \in DOMAIN log[p] : WellFormed(log[p][n])

Judged(p) == {log[p][n].records[1].item : n \in DOMAIN log[p]}

\* Mutant of LastLine: the first judgement of an item is kept.
FirstLine(p, i) ==
  CHOOSE n \in DOMAIN log[p] :
    /\ log[p][n].records[1].item = i
    /\ \A m \in 1..(n - 1) : log[p][m].records[1].item # i

\* Last write wins.
LastLine(p, i) ==
  CHOOSE n \in DOMAIN log[p] :
    /\ log[p][n].records[1].item = i
    /\ \A m \in (n + 1)..Len(log[p]) : log[p][m].records[1].item # i

Replayed(p) ==
  [i \in Judged(p) |-> log[p][LastLine(p, i)].records[1].revision]

\* A record joins the line that was left without its newline.
Appended(p, rec) ==
  IF ended[p]
  THEN Append(log[p], [records |-> <<rec>>, fragment |-> FALSE])
  ELSE [log[p] EXCEPT ![Len(log[p])].records = Append(@, rec)]

Fragmented(p) ==
  IF ended[p]
  THEN Append(log[p], [records |-> <<>>, fragment |-> TRUE])
  ELSE [log[p] EXCEPT ![Len(log[p])].fragment = TRUE]

(***************************************************************************)
(* The sheet                                                               *)
(***************************************************************************)

Init ==
  /\ sheet = NoSheet
  /\ session = NoSheet
  /\ log = [p \in Passes |-> <<>>]
  /\ ended = [p \in Passes |-> TRUE]
  /\ pc = [p \in Passes |-> "closed"]
  /\ items = [p \in Passes |-> NoSheet]
  /\ judgements = [p \in Passes |-> [i \in {} |-> 0]]
  /\ position = [p \in Passes |-> 1]
  /\ revealed = {}
  /\ recorded = [p \in Passes |-> {}]
  /\ deleted = [p \in Passes |-> {}]
  /\ crashes = 0

\* command_build: refused over an existing judgement log, unless forced.  The
\* audit of the sheet comes after it is written and undoes nothing.
Build(s, force) ==
  /\ log["score"] # <<>> => force
  /\ sheet' = s
  /\ UNCHANGED <<session, log, ended, pc, items, judgements, position,
                 revealed, recorded, deleted, crashes>>

\* Mutant of SessionAccepts: the hash is recorded and never compared.
SessionAcceptsAny == sheet # NoSheet

\* open_session: the sheet is the one the session was opened with, if any.
SessionAccepts == sheet # NoSheet /\ session \in {NoSheet, sheet}

(***************************************************************************)
(* A pass                                                                  *)
(***************************************************************************)

\* Mutant of Unjudged: an item skipped earlier is not come back to.
UnjudgedAhead(done, after) == {i \in Items \ DOMAIN done : i > after}

\* next_unscored: the items after this one come first, then from the start.
Unjudged(done, after) ==
  LET rest == Items \ DOMAIN done
      ahead == {i \in rest : i > after}
  IN IF ahead # {} THEN ahead ELSE rest

FirstOf(S) == CHOOSE i \in S : \A j \in S : i <= j

\* command_score and command_abstention up to their loop.  A complete score
\* pass opens at its first item; a complete abstention pass does not open.
Open(p) ==
  /\ pc[p] # "open"
  /\ SessionAccepts
  /\ Readable(p)
  /\ p = "score" \/ Judged(p) # Items
  /\ session' = sheet
  /\ pc' = [pc EXCEPT ![p] = "open"]
  /\ items' = [items EXCEPT ![p] = sheet]
  /\ judgements' = [judgements EXCEPT ![p] = Replayed(p)]
  /\ position' = [position EXCEPT ![p] =
       IF Judged(p) = Items THEN 1 ELSE FirstOf(Items \ Judged(p))]
  /\ UNCHANGED <<sheet, log, ended, revealed, recorded, deleted, crashes>>

\* The judgement of the item on screen.
Decision(p) ==
  LET i == position[p]
      done == judgements[p]
  IN [item |-> i, of |-> items[p],
      revision |-> IF i \in DOMAIN done THEN done[i] + 1 ELSE 0]

\* The judgement is appended, synced and confirmed; then the next item without
\* one is shown, and when there is none the pass is over.
Record(p) ==
  LET rec == Decision(p)
      done == [i \in DOMAIN judgements[p] \cup {rec.item} |->
                 IF i = rec.item THEN rec.revision ELSE judgements[p][i]]
      following == Unjudged(done, rec.item)
  IN /\ pc[p] = "open"
     /\ Len(log[p]) < MaxLines
     /\ log' = [log EXCEPT ![p] = Appended(p, rec)]
     /\ ended' = [ended EXCEPT ![p] = TRUE]
     /\ judgements' = [judgements EXCEPT ![p] = done]
     /\ recorded' = [recorded EXCEPT ![p] = @ \cup {rec}]
     /\ IF following # {}
        THEN /\ position' = [position EXCEPT ![p] = FirstOf(following)]
             /\ UNCHANGED pc
        ELSE /\ pc' = [pc EXCEPT ![p] = "finished"]
             /\ UNCHANGED position
     /\ UNCHANGED <<sheet, session, items, revealed, deleted, crashes>>

\* Skip, back and go to an item.
Move(p, i) ==
  /\ pc[p] = "open"
  /\ position' = [position EXCEPT ![p] = i]
  /\ UNCHANGED <<sheet, session, log, ended, pc, items, judgements, revealed,
                 recorded, deleted, crashes>>

Quit(p) ==
  /\ pc[p] = "open"
  /\ pc' = [pc EXCEPT ![p] = "closed"]
  /\ UNCHANGED <<sheet, session, log, ended, items, judgements, position,
                 revealed, recorded, deleted, crashes>>

\* The pass dies while it appends: some prefix of the line is on disk, be it
\* empty, part of the record, all but the newline, or the whole line.
Crash(p) ==
  /\ pc[p] = "open"
  /\ crashes < MaxCrashes /\ Len(log[p]) < MaxLines
  /\ crashes' = crashes + 1
  /\ pc' = [pc EXCEPT ![p] = "closed"]
  /\ \/ UNCHANGED <<log, ended>>
     \/ /\ log' = [log EXCEPT ![p] = Fragmented(p)]
        /\ ended' = [ended EXCEPT ![p] = FALSE]
     \/ /\ log' = [log EXCEPT ![p] = Appended(p, Decision(p))]
        /\ ended' \in {[ended EXCEPT ![p] = FALSE], [ended EXCEPT ![p] = TRUE]}
  /\ UNCHANGED <<sheet, session, items, judgements, position, revealed,
                 recorded, deleted>>

\* The error of a load names the first line it cannot read, which "can be deleted
\* by hand"; the editor may leave a newline at the end of the file.
Repair(p) ==
  \E n \in DOMAIN log[p] :
    /\ pc[p] # "open"
    /\ ~WellFormed(log[p][n])
    /\ \A m \in 1..(n - 1) : WellFormed(log[p][m])
    /\ log' = [log EXCEPT ![p] =
         SubSeq(@, 1, n - 1) \o SubSeq(@, n + 1, Len(@))]
    /\ ended' \in {[ended EXCEPT ![p] = n = Len(log[p]) \/ @],
                   [ended EXCEPT ![p] = TRUE]}
    /\ deleted' = [deleted EXCEPT ![p] = @ \cup Range(log[p][n].records)]
    /\ UNCHANGED <<sheet, session, pc, items, judgements, position, revealed,
                   recorded, crashes>>

(***************************************************************************)
(* The key                                                                 *)
(***************************************************************************)

\* Every item number of the sheet carries a judgement of both passes.
Covered == \A p \in Passes : Readable(p) /\ Items \subseteq Judged(p)

\* command_unseal, with --i-have-finished-scoring.
Unseal ==
  /\ sheet # NoSheet
  /\ Covered
  /\ revealed' = revealed \cup {sheet}
  /\ UNCHANGED <<sheet, session, log, ended, pc, items, judgements, position,
                 recorded, deleted, crashes>>

Next ==
  \/ \E s \in Sheets, force \in BOOLEAN : Build(s, force)
  \/ \E p \in Passes :
       \/ Open(p)
       \/ Record(p)
       \/ \E i \in Items : Move(p, i)
       \/ Quit(p)
       \/ Crash(p)
       \/ Repair(p)
  \/ Unseal

Spec == Init /\ [][Next]_vars

(***************************************************************************)
(* Properties                                                              *)
(***************************************************************************)
Judgement ==
  [item : Items, revision : Nat, of : Sheets \cup {NoSheet}]

\* What the files and the passes hold; a log that does not end with a newline
\* is not empty.
TypeOK ==
  /\ {sheet, session} \subseteq Sheets \cup {NoSheet}
  /\ log \in [Passes -> Seq([records : Seq(Judgement), fragment : BOOLEAN])]
  /\ ended \in [Passes -> BOOLEAN]
  /\ \A p \in Passes : ended[p] \/ log[p] # <<>>
  /\ pc \in [Passes -> {"closed", "open", "finished"}]
  /\ items \in [Passes -> Sheets \cup {NoSheet}]
  /\ judgements = [p \in Passes |-> judgements[p]]
  /\ \A p \in Passes : \E S \in SUBSET Items : judgements[p] \in [S -> Nat]
  /\ position \in [Passes -> Items]
  /\ revealed \subseteq Sheets
  /\ {recorded, deleted} \subseteq [Passes -> SUBSET Judgement]
  /\ crashes \in Nat

Records(p) == UNION {Range(log[p][n].records) : n \in DOMAIN log[p]}

\* A judgement log is bound to the sheet it was started against
\* (manual_scoring.py:381): whatever is rebuilt, forced or repaired, and while
\* passes are open, both logs only hold judgements of the session's sheet.
JudgementsAreOfTheSessionSheet ==
  \A p \in Passes : \A rec \in Records(p) : rec.of = session

\* A judgement the reviewer saw confirmed is never lost silently: the log either
\* replays it, or a later one of the same item, or it cannot be read at all.  Only
\* a line deleted by hand takes judgements with it.
ConfirmedJudgementsReplay ==
  \A p \in Passes : Readable(p) =>
    \A rec \in recorded[p] \ deleted[p] :
      /\ rec.item \in DOMAIN Replayed(p)
      /\ Replayed(p)[rec.item] >= rec.revision

\* "Every item has a judgement" is only said when it is so, however the reviewer
\* skipped about and wherever earlier passes stopped (score_answers.py:272).
FinishedMeansComplete ==
  \A p \in Passes : pc[p] = "finished" => Items \subseteq DOMAIN judgements[p]

=============================================================================
