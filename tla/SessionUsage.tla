---------------------------- MODULE SessionUsage -----------------------------
(***************************************************************************)
(* Token usage read from the session logs DSH keeps appending to           *)
(* (electron/main/managed/session-usage-reader.ts) and shown by the usage  *)
(* page (useTokenUsage.ts, UsagePanel.vue).  The reader folds only what    *)
(* was appended since its cached entry, over a file that grows between its *)
(* stat and its read, whose last frame may be half written.                *)
(*                                                                         *)
(* A frame holds one event and is two units long, so that an odd offset is *)
(* inside a frame.  The four token buckets are one count; an event's       *)
(* identity, prompt and turn counts are left out.                          *)
(***************************************************************************)
EXTENDS Naturals, Sequences, SequencesExt, FiniteSets, FiniteSetsExt

CONSTANTS
  Sessions,    \* the session directories
  Steps,       \* the turn-and-step identities of a session, positive numbers
  Counts,      \* the token counts a report may carry, positive numbers
  Days, Models, \* positive numbers
  MaxEvents,   \* how many events are logged and files replaced in all
  MaxVersion   \* the format versions of a log's file

VARIABLES
  log,    \* the session logs: events, a half-written frame, and how many events
          \* each older file of the session was left with
  cache,  \* the cache document
  read,   \* the read in progress, per session
  page    \* whether the page is loading, and the figures it shows

vars == <<log, cache, read, page>>

Unknown == 0   \* the model of a report that no header precedes
Undated == 0   \* the day of a report without a valid time
Groups == Days \X (Models \cup {Unknown})
NoGroup == <<Undated, Unknown>>
zeroBuckets == [g \in Groups |-> 0]

Report == [type : {"report"}, step : Steps, n : Counts, day : Days \cup {Undated}]
Retry == [type : {"retry"}, step : Steps]
Header == [type : {"header"}, model : Models]
Event == Report \cup Retry \cup Header

\* The slot a repeated report replaces; step 0 is no slot
NoReport == [step |-> 0, n |-> 0, group |-> NoGroup]
LastReport == [step : Steps \cup {0}, n : Counts \cup {0},
               group : Groups \cup {NoGroup}]
Folded == [total : Nat, daily : [Groups -> Nat], current : Models \cup {Unknown},
           last : LastReport]

NoEntry == [version |-> 0, size |-> 0, consumed |-> 0,
            fold |-> [total |-> 0, daily |-> zeroBuckets, current |-> Unknown,
                      last |-> NoReport]]
Entry == [version : 0..MaxVersion, size : Nat, consumed : Nat, fold : Folded]

TypeOK ==
  /\ log \in [Sessions -> [events : Seq(Event), torn : BOOLEAN, older : Seq(Nat)]]
  /\ cache \in [Sessions -> Entry]
  /\ read \in [Sessions -> [phase : {"idle", "stat", "read", "done", "unreadable"},
                            size : Nat, version : 0..MaxVersion, next : Entry]]
  /\ page \in [loading : BOOLEAN, total : Nat, daily : [Groups -> Nat],
               unreadable : Nat]

Idle == [phase |-> "idle", size |-> 0, version |-> 0, next |-> NoEntry]
Init ==
  /\ log = [s \in Sessions |-> [events |-> <<>>, torn |-> FALSE, older |-> <<>>]]
  /\ cache = [s \in Sessions |-> NoEntry]
  /\ read = [s \in Sessions |-> Idle]
  /\ page = [loading |-> FALSE, total |-> 0, daily |-> zeroBuckets, unreadable |-> 0]

----------------------------------------------------------------------------
\* DSH appends a frame, in two writes when it is unlucky, and may move a
\* session to a file of a newer version, leaving the older one as it is

Logged == MapThenSumSet(LAMBDA s : Len(log[s].events) + Len(log[s].older), Sessions)
\* Steps are named in the order in which a log first mentions them.
Named(s, step) ==
  \A t \in Steps : t < step =>
    \E e \in Range(log[s].events) : e.type # "header" /\ e.step = t
BeginFrame(s) ==
  /\ ~log[s].torn /\ Logged < MaxEvents
  /\ log' = [log EXCEPT ![s].torn = TRUE]
  /\ UNCHANGED <<cache, read, page>>
EndFrame(s) ==
  /\ log[s].torn /\ Logged < MaxEvents
  /\ \E e \in Event :
       /\ e.type # "header" => Named(s, e.step)
       /\ log' = [log EXCEPT ![s].torn = FALSE, ![s].events = Append(@, e)]
  /\ UNCHANGED <<cache, read, page>>
Migrate(s) ==
  /\ ~log[s].torn /\ Len(log[s].older) + 1 < MaxVersion /\ Logged < MaxEvents
  /\ log' = [log EXCEPT ![s].older = Append(@, Len(log[s].events))]
  /\ UNCHANGED <<cache, read, page>>

----------------------------------------------------------------------------
\* The fold

\* A report without a valid time counts towards the totals and no day.
usageDailyGroup(e, current) == IF e.day = Undated THEN NoGroup ELSE <<e.day, current>>
addDailyBuckets(daily, group, n) ==
  IF group = NoGroup THEN daily ELSE [daily EXCEPT ![group] = @ + n]
takeDailyBuckets(daily, group, n) ==
  IF group = NoGroup THEN daily ELSE [daily EXCEPT ![group] = @ - n]

\* A report for the step that reported last replaces it; the same figures
\* again change nothing, the day they were booked on included
usageReport(f, e) ==
  LET same == f.last.step = e.step
      group == usageDailyGroup(e, f.current)
  IN IF same /\ f.last.n = e.n THEN f
     ELSE [f EXCEPT
            !.total = (IF same THEN @ - f.last.n ELSE @) + e.n,
            !.daily = addDailyBuckets(
                        IF same THEN takeDailyBuckets(@, f.last.group, f.last.n)
                        ELSE @, group, e.n),
            !.last = [step |-> e.step, n |-> e.n, group |-> group]]

foldEvent(f, e) ==
  CASE e.type = "header" -> [f EXCEPT !.current = e.model]
    [] e.type = "retry" -> IF f.last.step = e.step THEN [f EXCEPT !.last = NoReport] ELSE f
    [] e.type = "report" -> usageReport(f, e)
foldSessionLog(events, seed) == FoldLeft(foldEvent, seed, events)

\* What a resumed fold starts from: totals, daily figures, the model in force
\* and the slot a later report may still replace
seedOfWithoutLast(entry) == [entry.fold EXCEPT !.last = NoReport]
seedOf(entry) == entry.fold

----------------------------------------------------------------------------
\* The reader

\* selectSessionLogName: the newest version is the file; an entry belongs to a
\* path, so one of an older file does not apply
selectSessionLogName(s) == Len(log[s].older) + 1

\* The file a read has selected, which may be an older one by now
older(s) == read[s].version < selectSessionLogName(s)
events(s) == IF older(s) THEN SubSeq(log[s].events, 1, log[s].older[read[s].version])
             ELSE log[s].events
torn(s) == log[s].torn /\ ~older(s)
size(s) == 2 * Len(events(s)) + (IF torn(s) THEN 1 ELSE 0)

cached(s) == cache[s].version # 0 /\ cache[s].version = read[s].version

\* refresh: one read at a time from the page
refresh ==
  /\ ~page.loading
  /\ page' = [page EXCEPT !.loading = TRUE]
  /\ read' = [s \in Sessions |-> [Idle EXCEPT !.phase = "stat",
                                              !.version = selectSessionLogName(s)]]
  /\ UNCHANGED <<log, cache>>

\* The stat: an entry of this very size is taken as it is
Stat(s) ==
  /\ read[s].phase = "stat"
  /\ LET r == [read[s] EXCEPT !.size = size(s)]
     IN read' = [read EXCEPT ![s] =
                   IF cached(s) /\ cache[s].size = r.size
                     THEN [r EXCEPT !.phase = "done", !.next = cache[s]]
                     ELSE [r EXCEPT !.phase = "read"]]
  /\ UNCHANGED <<log, cache, page>>

\* An older file is gone when it is looked at or read.
Gone(s) ==
  /\ read[s].phase \in {"stat", "read"} /\ older(s)
  /\ read' = [read EXCEPT ![s].phase = "unreadable"]
  /\ UNCHANGED <<log, cache, page>>

\* Where the fold resumes: after the bytes the entry consumed, which may be
\* more than the size its stat saw
resumable(s) == cached(s) /\ read[s].size > cache[s].size
resumeOffsetOfSize(s) == IF resumable(s) THEN cache[s].size ELSE 0
resumeOffset(s) == IF resumable(s) THEN cache[s].consumed ELSE 0

\* decompressSessionLog: whole frames from the offset on.  Inside a frame
\* nothing can be decoded; a half-written last frame is an error or is
\* swallowed without yielding its event, as the decoder has it.
decompressSessionLog(s) ==
  IF resumeOffset(s) % 2 = 1 THEN {}
  ELSE {[events |-> SubSeq(events(s), resumeOffset(s) \div 2 + 1, Len(events(s))),
         consumed |-> size(s)]}
entryOf(s, text) ==
  [version |-> read[s].version, size |-> read[s].size, consumed |-> text.consumed,
   fold |-> foldSessionLog(text.events,
              IF resumable(s) THEN seedOf(cache[s]) ELSE NoEntry.fold)]
Fold(s) ==
  /\ read[s].phase = "read"
  /\ \/ \E text \in decompressSessionLog(s) :
          read' = [read EXCEPT ![s].phase = "done", ![s].next = entryOf(s, text)]
     \/ /\ decompressSessionLog(s) = {} \/ torn(s)
        /\ read' = [read EXCEPT ![s].phase = "unreadable"]
  /\ UNCHANGED <<log, cache, page>>

\* Every file is settled: the figures are summed and the cache is replaced by
\* the entries of the files that could be read
readable == {s \in Sessions : read[s].phase = "done"}
totals == MapThenSumSet(LAMBDA s : read[s].next.fold.total, readable)
dailyByModel ==
  [g \in Groups |-> MapThenSumSet(LAMBDA s : read[s].next.fold.daily[g], readable)]
Answer ==
  /\ page.loading
  /\ \A s \in Sessions : read[s].phase \in {"done", "unreadable"}
  /\ cache' = [s \in Sessions |-> IF s \in readable THEN read[s].next ELSE NoEntry]
  /\ page' = [loading |-> FALSE, total |-> totals, daily |-> dailyByModel,
              unreadable |-> Cardinality(Sessions \ readable)]
  /\ read' = [s \in Sessions |-> Idle]
  /\ UNCHANGED log

\* A cache document that was torn by a crash or is not admitted is no cache
CacheLost ==
  /\ ~page.loading /\ \E s \in Sessions : cache[s] # NoEntry
  /\ cache' = [s \in Sessions |-> NoEntry]
  /\ UNCHANGED <<log, read, page>>

----------------------------------------------------------------------------
\* The statistics tab: the rows of a range of days, one bar per day and one
\* per model

dailyRows(from, to) == {g \in Groups : page.daily[g] > 0 /\ from <= g[1] /\ g[1] <= to}
dailyTotals(from, to) ==
  [d \in Days |-> MapThenSumSet(LAMBDA g : page.daily[g],
                                {g \in dailyRows(from, to) : g[1] = d})]
modelSeries(from, to) ==
  [m \in Models \cup {Unknown} |->
     MapThenSumSet(LAMBDA g : page.daily[g], {g \in dailyRows(from, to) : g[2] = m})]

Next ==
  \/ \E s \in Sessions :
       BeginFrame(s) \/ EndFrame(s) \/ Migrate(s) \/ Stat(s) \/ Gone(s) \/ Fold(s)
  \/ refresh \/ Answer \/ CacheLost

Spec == Init /\ [][Next]_vars

----------------------------------------------------------------------------
\* What a log amounts to, said of the log itself: a report stands unless the
\* next report is of the same step with no retry of that step between them
Superseded(es, i) ==
  \E j \in (i + 1)..Len(es) :
    /\ es[j].type = "report" /\ es[j].step = es[i].step
    /\ \A k \in (i + 1)..(j - 1) :
         /\ es[k].type # "report"
         /\ es[k].type = "retry" => es[k].step # es[i].step
Standing(es) ==
  {i \in 1..Len(es) : es[i].type = "report" /\ ~Superseded(es, i)}
Billed(es) == MapThenSumSet(LAMBDA i : es[i].n, Standing(es))

\* Where a report's figures were first said: it repeats them, report by report
\* and with no retry of the step between.  They are booked on that day, under
\* the model of the last header before it.
Booked(es, i) ==
  Min({j \in 1..i :
         /\ es[j].type = "report"
         /\ \A k \in j..i :
              /\ es[k].type = "report" => es[k].step = es[i].step /\ es[k].n = es[i].n
              /\ es[k].type = "retry" => es[k].step # es[i].step})
ModelAt(es, j) ==
  LET headers == {k \in 1..(j - 1) : es[k].type = "header"}
  IN IF headers = {} THEN Unknown ELSE es[Max(headers)].model
BilledOn(es, g) ==
  MapThenSumSet(LAMBDA i : es[i].n,
                {i \in Standing(es) : LET j == Booked(es, i)
                                      IN g = <<es[j].day, ModelAt(es, j)>>})

\* However a log was read - whole, or in pieces between which DSH was writing,
\* with the cache lost, or the file replaced or gone on the way - what an entry
\* holds is what the frames it covers amount to, in total and for each day and
\* model, a report revised across two reads counted once; and it covers all the
\* stat saw.  The rows of the page amount to no more than its total, from which
\* they differ by the reports without a valid time, and to the same by day and
\* by model
EntryIsWhole(s, entry) ==
  LET covered == SubSeq(log[s].events, 1, entry.consumed \div 2)
  IN /\ entry.fold.total = Billed(covered)
     /\ \A g \in Groups : entry.fold.daily[g] = BilledOn(covered, g)
     /\ entry.consumed >= entry.size
UsageIsWhole ==
  /\ \A s \in Sessions : /\ EntryIsWhole(s, cache[s])
                         /\ EntryIsWhole(s, read[s].next)
  /\ MapThenSumSet(LAMBDA d : dailyTotals(0, MaxEvents + 9)[d], Days) <= page.total
  /\ \A from, to \in Days :
       MapThenSumSet(LAMBDA d : dailyTotals(from, to)[d], Days)
         = MapThenSumSet(LAMBDA m : modelSeries(from, to)[m], Models \cup {Unknown})
=============================================================================
