---------------------------- MODULE HistoryPaging ----------------------------
(***************************************************************************)
(* One stream of a backfill run: HistoryBackfill's windows, its pager, the *)
(* verdict on a window's last page and the halving of what cannot be       *)
(* believed, with the ledger rows it reports.                              *)
(*                                                                         *)
(* The historian is the other side of the wire, modelled from what the     *)
(* gateway says of it: both ends of a read are included, a page is bounded *)
(* by what was asked, by the server's own cap and by a silent ceiling, and *)
(* a continuation point is offered only when the server's cap was what cut *)
(* the page. A row is <<instant, ordinal>>: several may share an instant.  *)
(***************************************************************************)
EXTENDS Integers, Sequences, FiniteSets, FiniteSetsExt, SequencesExt

CONSTANTS
  Span,             \* the run covers instants 0..Span
  MaxPerInstant,    \* bound: rows with one timestamp
  MaxRows,          \* bound: rows of the whole history
  PageSizes,        \* page sizes the signal policy may give the stream
  ServerCaps,       \* caps the server may have
  Ceiling,          \* SilentTruncationCeiling
  BackfillWindow, MinimumBackfillWindow

ASSUME PagingAssumption ==
  /\ Span \in Nat \ {0} /\ MaxPerInstant \in Nat \ {0} /\ MaxRows \in Nat
  /\ PageSizes \subseteq Nat \ {0}
  /\ \A c \in ServerCaps : c \in Nat /\ c > MaxPerInstant
  /\ Ceiling \in Nat /\ Ceiling > MaxPerInstant
  /\ BackfillWindow \in Nat \ {0} /\ MinimumBackfillWindow \in Nat \ {0}

Instants == 0 .. Span
Window == [from : Instants, to : Instants]
NoPoint == -1

VARIABLES
  history,    \* the rows the plant kept
  pageSize, serverCap,
  work,       \* windows still to be read, the next one first
  step,       \* "next", "paging", "release", "done" or "failed"
  point,      \* continuationPoint: the instant the next page starts at, or NoPoint
  open,       \* the points the server holds for this window, by the number of their page
  pages, rows,\* of the window being read
  handed,     \* rows given to the writer at least once
  ledger,     \* the report's windows
  cancelled,  \* the shutdown token
  undecoded   \* ghost: the page with a point whose decoding threw, or 0

server == <<history, pageSize, serverCap>>
read == <<point, pages, rows>>
vars == <<server, work, step, read, open, handed, ledger, cancelled, undecoded>>

AllRows == Instants \X (1 .. MaxPerInstant)

Lesser(a, b) == IF a < b THEN a ELSE b

\* for (start = from; start < to; start += BackfillWindow), each window clipped at "to".
RunWindows ==
  [i \in 1 .. ((Span + BackfillWindow - 1) \div BackfillWindow) |->
     [from |-> (i - 1) * BackfillWindow, to |-> Lesser(i * BackfillWindow, Span)]]

\* Histories whose rows at an instant are numbered from one.
Histories == {h \in SUBSET AllRows : /\ Cardinality(h) <= MaxRows
                                     /\ \A r \in h : r[2] > 1 => <<r[1], r[2] - 1>> \in h}

Init ==
  /\ history \in Histories /\ pageSize \in PageSizes /\ serverCap \in ServerCaps
  /\ work = RunWindows /\ step = "next"
  /\ point = NoPoint /\ open = {} /\ pages = 0 /\ rows = 0
  /\ handed = {} /\ ledger = <<>> /\ cancelled = FALSE /\ undecoded = 0

------------------------------------------------------------------------------
\* The historian (external).

Before(r, q) == r[1] < q[1] \/ (r[1] = q[1] /\ r[2] < q[2])

Oldest(n, S) == {r \in S : Cardinality({q \in S : Before(q, r)}) < n}

Between(a, b) == {r \in history : a <= r[1] /\ r[1] <= b}

\* The query is limited by the client's page size, and silently by the ceiling.
Asked(a, b) == Oldest(Lesser(pageSize, Ceiling), Between(a, b))

Given(a, b) == Oldest(serverCap, Asked(a, b))

\* The point is a timestamp: of the last row given, or of the first one withheld.
Points(a, b) ==
  LET withheld == Asked(a, b) \ Given(a, b) IN
  IF withheld = {} THEN {NoPoint}
  ELSE {Max({r[1] : r \in Given(a, b)}), Min({r[1] : r \in withheld})}

------------------------------------------------------------------------------
\* The pager: ReadPagesAsync.

StartWindow ==
  /\ step = "next" /\ work # <<>>
  /\ step' = "paging"
  /\ point' = NoPoint /\ pages' = 0 /\ rows' = 0
  /\ UNCHANGED <<server, work, open, handed, ledger, cancelled, undecoded>>

From == IF point = NoPoint THEN Head(work).from ELSE point

\* Mutant of ClassifyPage: strictly more rows than asked for.
ClassifyOverfull(n, hasContinuation) ==
  IF ~hasContinuation /\ n > pageSize THEN "Truncated" ELSE "Complete"

ClassifyPage(n, hasContinuation) ==
  IF ~hasContinuation /\ n >= pageSize THEN "Truncated" ELSE "Complete"

\* Mutant of Subdivide: the second half would start past the middle.
SubdivideApart(w) ==
  LET middle == w.from + ((w.to - w.from) \div 2) IN
  <<[from |-> w.from, to |-> middle], [from |-> middle + 1, to |-> w.to]>>

\* Mutant of Subdivide: a retry at the same width.
SubdivideRetries(w) == <<w>>

\* The halves of a window share the instant in the middle.
Subdivide(w) ==
  LET middle == w.from + ((w.to - w.from) \div 2) IN
  <<[from |-> w.from, to |-> middle], [from |-> middle, to |-> w.to]>>

\* Halving would cross the floor.
AtFloor(w) == w.to - w.from <= MinimumBackfillWindow

\* ReadWindowAsync on the window's last page: report it, halve it, or fail at the floor. The
\* rows of a truncated attempt stay handed over and are left out of the ledger.
Settle(n, m, verdict) ==
  LET w == Head(work) IN
  IF verdict = "Complete"
    THEN /\ ledger' = Append(ledger, [from |-> w.from, to |-> w.to, rows |-> n, pages |-> m])
         /\ work' = Tail(work) /\ step' = "next"
    ELSE /\ UNCHANGED ledger
         /\ IF AtFloor(w)
              THEN step' = "failed" /\ UNCHANGED work
              ELSE step' = "next" /\ work' = Subdivide(w) \o Tail(work)

\* CheckCeiling: as many rows as a silent cut would leave.
AtCeiling(n) == n >= Ceiling

\* The server has used up the point it was asked with, and holds that of the page it returns.
HeldWith(p) == (open \ {pages}) \cup (IF p = NoPoint THEN {} ELSE {pages + 1})

\* A page arrives and is decoded.
ReadPage ==
  /\ step = "paging" /\ ~cancelled
  /\ LET page == Given(From, Head(work).to)
         n == Cardinality(page)
     IN /\ ~AtCeiling(n)
        /\ handed' = handed \cup page
        /\ \E p \in Points(From, Head(work).to) :
             /\ point' = p
             /\ open' = HeldWith(p)
             /\ rows' = rows + n /\ pages' = pages + 1
             /\ IF p = NoPoint
                  THEN Settle(rows', pages', ClassifyPage(n, FALSE))
                  ELSE UNCHANGED <<step, work, ledger>>
  /\ UNCHANGED <<server, cancelled, undecoded>>

\* The read itself throws: a bad status, the session gone, the token cancelled in flight.
ReadThrows ==
  /\ step = "paging"
  /\ step' = "release"
  /\ UNCHANGED <<server, work, read, open, handed, ledger, cancelled, undecoded>>

\* The page was fetched and its decoding threw, the queue refused a row of it or CheckCeiling
\* did: part of it is handed over, and its own point was never looked at.
DecodeThrows ==
  /\ step = "paging" /\ ~cancelled
  /\ LET page == Given(From, Head(work).to)
     IN /\ page # {}
        /\ \E k \in 0 .. Cardinality(page) :
             /\ k = Cardinality(page) => AtCeiling(k)
             /\ handed' = handed \cup Oldest(k, page)
        /\ \E p \in Points(From, Head(work).to) :
             /\ open' = HeldWith(p)
             /\ undecoded' = IF p = NoPoint THEN 0 ELSE pages + 1
  /\ step' = "release"
  /\ UNCHANGED <<server, work, read, ledger, cancelled>>

\* Between two pages the loop looks at the token, and leaves as a failure.
LeaveCancelled ==
  /\ step = "paging" /\ cancelled /\ pages > 0
  /\ step' = "release"
  /\ UNCHANGED <<server, work, read, open, handed, ledger, cancelled, undecoded>>

\* Mutant of Owed: only a read that failed would release its point, not a cancelled one.
OwedUnlessCancelled == point # NoPoint /\ ~cancelled

\* A point the client still knows of is owed back to the server.
Owed == point # NoPoint

\* The point is released and the failure rethrown. A point already used up means nothing to
\* the server; a release that fails because the session is gone takes its points with it.
Release ==
  /\ step = "release"
  /\ open' = IF Owed THEN open \ {pages} ELSE open
  /\ point' = NoPoint
  /\ step' = "failed"
  /\ UNCHANGED <<server, work, pages, rows, handed, ledger, cancelled, undecoded>>

\* Every window is read, and the report is complete.
Finish ==
  /\ step = "next" /\ work = <<>>
  /\ step' = "done"
  /\ UNCHANGED <<server, work, read, open, handed, ledger, cancelled, undecoded>>

Cancel ==
  /\ ~cancelled /\ step \notin {"done", "failed"}
  /\ cancelled' = TRUE
  /\ UNCHANGED <<server, work, step, read, open, handed, ledger, undecoded>>

Next ==
  \/ StartWindow \/ ReadPage \/ ReadThrows \/ DecodeThrows \/ LeaveCancelled
  \/ Release \/ Finish \/ Cancel

Spec == Init /\ [][Next]_vars

\* The run is one loop: whatever it can do next, it does, and a call that is made returns
\* or throws.
FairSpec == Spec /\ WF_vars(StartWindow \/ ReadPage \/ ReadThrows \/ Release \/ Finish)

------------------------------------------------------------------------------
\* A run that reports success has handed the writer every row of the history, whatever the
\* page size, the server's cap and the bunching of rows ("rows would be lost silently",
\* HistoryBackfill.ClassifyPage, Subdivide and CheckCeiling together).
DoneIsComplete == step = "done" => handed = history

\* The windows of the ledger are the run's span cut into pieces: each starts where the one
\* before it ended, none is left out, none is read twice (ReadWindowAsync's recursion).
LedgerTilesTheRun ==
  LET reached(i) == IF i = 0 THEN 0 ELSE ledger[i].to IN
  /\ \A i \in DOMAIN ledger : ledger[i].from = reached(i - 1)
  /\ work # <<>> => Head(work).from = reached(Len(ledger))
  /\ step = "done" => reached(Len(ledger)) = Span

\* A run that ended leaves the server one continuation point at most: the one of a page whose
\* decoding threw, which continuationPoint never held (HistoryBackfill.cs:470-473, against
\* "Released on every exit path, cancellation included" at :506). Every other point is used up
\* or released, whichever page the run failed, was cancelled or gave up on.
OnlyUndecodedPointsLeak == step \in {"done", "failed"} => open = {undecoded} \ {0}

\* Paging advances and halving stops: every run ends, on a stream that is always full too.
RunEnds == <>(step \in {"done", "failed"})
==============================================================================
