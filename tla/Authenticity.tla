---------------------------- MODULE Authenticity ----------------------------
(***************************************************************************)
(* evaluation/authenticity.py: a run directory is read, and its content is *)
(* compared with the digests recorded for the frozen runs.  A digest is    *)
(* the content itself (SHA-256 of the canonical JSON is taken to be        *)
(* injective).  Each of the three files of a directory is a JSON value, or *)
(* Absent, or Torn (not JSON), or Garbled (bytes that are not UTF-8, which *)
(* json never sees).                                                       *)
(***************************************************************************)
EXTENDS Naturals, FiniteSets

CONSTANTS Absent, Torn, Garbled

\* read_run_content refuses a directory without records or manifest.
Missing(dir) == Absent \in {dir.answers, dir.manifest}

\* The files in the order in which they are read.
Files(dir) == <<dir.answers, dir.manifest, dir.summary>>

Unread(dir) == {i \in 1..3 : Files(dir)[i] \in {Torn, Garbled}}

FirstUnread(dir) == CHOOSE i \in Unread(dir) : \A j \in Unread(dir) : i <= j

\* UnicodeDecodeError is neither a JSONDecodeError nor an AuthenticityError:
\* it leaves read_run_content and read_summary, and the callers' handlers.
Raises(dir) ==
  /\ ~Missing(dir)
  /\ Unread(dir) # {}
  /\ Files(dir)[FirstUnread(dir)] = Garbled

\* A plausible bug: only the answers are compared.
AuthenticByAnswers(name, dir, table) ==
  /\ name \in DOMAIN table
  /\ dir.answers = table[name].answers

\* authenticate: the name is frozen, and the three contents are the recorded
\* ones; a summary is compared where one was recorded.
Authentic(name, dir, table) ==
  /\ name \in DOMAIN table
  /\ dir.answers = table[name].answers
  /\ dir.manifest = table[name].manifest
  /\ table[name].summary # Absent => dir.summary = table[name].summary

\* authenticated_run: what its callers may read.
Admitted(name, dir, table) ==
  /\ ~Missing(dir)
  /\ Unread(dir) = {}
  /\ Authentic(name, dir, table)
=============================================================================
