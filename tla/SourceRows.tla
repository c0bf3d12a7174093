----------------------------- MODULE SourceRows -----------------------------
(***************************************************************************)
(* The rows of table `sources`, with what the other tables keep of a       *)
(* source: its source_verifications rows, and, in `evidence` of the        *)
(* modules that extend this one, its statement_sources rows.               *)
(***************************************************************************)
EXTENDS Naturals, Sequences, FiniteSets

CONSTANTS
  Sources,    \* documents: one row per (tenant_id, url)
  Facts,      \* facts that the documents may assert
  Grounded,   \* Grounded[s]: the facts whose excerpt really is in s
  Blank       \* documents whose stripped text is the empty string

ASSUME SourcesFinite == IsFiniteSet(Sources)
ASSUME GroundedType  == Grounded \in [Sources -> SUBSET Facts]
ASSUME BlankType     == Blank \subseteq Sources /\ \A s \in Blank : Grounded[s] = {}

Statuses == {"collected", "archived", "extracted", "verified", "link-rot",
             "content-changed"}

\* What a check of a source can find (verifySource).
Outcomes == {"live", "link-rot", "content-changed"}

\* A row of source_verifications; `at` is its verified_at, by default now(),
\* which in PostgreSQL is the begin of the transaction.
Verification == [outcome : Outcomes, at : Nat \ {0}]

\* "absent" stands for "no row yet"; `log` for the source_verifications rows
\* of the source; last_verified_at = 0 for NULL.  The order of the log is
\* that of the commits, which the table does not keep: it is there to say that
\* no row of it goes away, what is said of the time of a check uses `at`.
Row == [status           : Statuses \cup {"absent"},
        raw_text         : {"null", "blank", "text"},
        archive_url      : {"null", "empty", "url"},
        fetched_at       : Nat,
        last_verified_at : Nat,
        log              : Seq(Verification)]

NoRow == [status |-> "absent", raw_text |-> "null", archive_url |-> "null",
          fetched_at |-> 0, last_verified_at |-> 0, log |-> <<>>]

\* The row that Collect inserts in a transaction begun at `now`.
Collected(now) == [NoRow EXCEPT !.status = "collected", !.fetched_at = now]

\* The text that Archive derives from the stored page.
stripHTML(s) == IF s \in Blank THEN "blank" ELSE "text"

\* Mutant of mapSourceStatus: any live source that went through Archive counts
\* as extracted.
StatusPromoted(verificationStatus, currentStatus) ==
  IF verificationStatus = "live" THEN "extracted" ELSE verificationStatus

mapSourceStatus(verificationStatus, currentStatus) ==
  CASE verificationStatus = "live" ->
         IF currentStatus = "extracted" THEN "extracted" ELSE "verified"
    [] verificationStatus = "content-changed" -> "content-changed"
    [] OTHER -> "link-rot"

\* The outcome that a status records.
VerdictOf(status) ==
  CASE status = "verified" -> "live"
    [] status = "link-rot" -> "link-rot"
    [] OTHER -> "content-changed"

-----------------------------------------------------------------------------
(* How a row is updated.                                                   *)

\* By ArchiveOnce, with the answer of submitWayback.
WithText(s, row, archiveURL) ==
  [row EXCEPT !.raw_text    = stripHTML(s),
              !.archive_url = archiveURL,
              !.status      = "archived"]

Logged(log, outcome, now) == Append(log, [outcome |-> outcome, at |-> now])

\* Mutants of WithCheck: a live source leaves no log row; only a live source
\* counts as checked.
CheckUnlogged(row, outcome, seen, now) ==
  [row EXCEPT !.log              = IF outcome = "live" THEN @ ELSE Logged(@, outcome, now),
              !.status           = mapSourceStatus(outcome, seen),
              !.last_verified_at = now]

CheckUndated(row, outcome, seen, now) ==
  [row EXCEPT !.log              = Logged(@, outcome, now),
              !.status           = mapSourceStatus(outcome, seen),
              !.last_verified_at = IF outcome = "live" THEN now ELSE @]

\* By VerifyOnce in a transaction begun at `now`, together with the log row;
\* `seen` is the status that the batch query read.
WithCheck(row, outcome, seen, now) ==
  [row EXCEPT !.log              = Logged(@, outcome, now),
              !.status           = mapSourceStatus(outcome, seen),
              !.last_verified_at = now]

\* By ExtractOnce.
WithFacts(row) == [row EXCEPT !.status = "extracted"]

-----------------------------------------------------------------------------
(* What a reader may see happen to a row, from `old` to `new`.             *)

\* A new document enters with nothing but its page.
Captured(old, new) == old.status = "absent" /\ new = Collected(new.fetched_at)

\* Text and snapshot are kept together with the status that announces them,
\* and nothing else of the row changes.
Archived(s, old, new) ==
  /\ old.status # "absent"
  /\ new.archive_url # "null"
  /\ new = WithText(s, old, new.archive_url)

\* A check of a captured source logs exactly one outcome under its date, and
\* writes the date and the status that go with it; the source counts as
\* extracted only if it is linked to some fact.  Nothing is said of earlier
\* checks: a check may be dated before the one that it replaces.
Checked(linked, old, new) ==
  /\ old.status \notin {"absent", "collected"}
  /\ new.last_verified_at > 0
  /\ \E outcome \in Outcomes, seen \in Statuses :
       /\ seen = "extracted" => linked
       /\ new = WithCheck(old, outcome, seen, new.last_verified_at)
=============================================================================
