----------------------------- MODULE PriceSync -----------------------------
(***************************************************************************)
(* Price ingestion (services/prices/): sync-daily-prices of one symbol,    *)
(* the multi-symbol back-fill committed year by year, and                  *)
(* sync-benchmark-prices, whose provider answers day by day (NIFTY 50) or  *)
(* by ranges of up to a year (NIFTY 50 TRI).  For each request: fetch,     *)
(* write the file to the archive, record it, parse it, store the rows      *)
(* wanted of it that are not there yet.                                    *)
(***************************************************************************)
EXTENDS Archive, TLC

CONSTANTS LastDay,  \* days are 1..LastDay
          Weekend,  \* the Saturdays and Sundays among them
          Span,     \* days after the first one of a range request (365)
          Parsed,   \* content of a response -> the rows of it, or NONE if it is not a price file
          Offered,  \* kind -> first day asked for -> contents the source may answer with
          Known,    \* the companies that may be known at first, a set of sets
          Commands  \* what may be run: the transactions of each command, in order

Day == 1..LastDay
Content == DOMAIN Parsed
Kind == {"EQUITY_BHAVCOPY", "INDEX_BHAVCOPY", "INDEX_TOTAL_RETURN"}

ASSUME PriceSyncAssumption ==
    /\ LastDay \in Nat /\ Weekend \subseteq Day /\ Span \in Nat
    /\ Offered \in [Kind -> [Day -> SUBSET Content]]
    /\ NONE \notin Content
    /\ \A c \in Content : Parsed[c] # NONE =>
          /\ Parsed[c] \in Seq(Range(Parsed[c]))
          /\ \A r \in Range(Parsed[c]) : r = [name |-> r.name, date |-> r.date, close |-> r.close]
    /\ \A cmd \in Commands : /\ cmd \in Seq(Range(cmd))
                             /\ \A c \in Range(cmd) : c.first \in Day /\ c.last \in Day

ArchiveFile(day, kind, c) == <<"file", day, kind, c>>
Price(n, day) == <<"price", n, day>>

Init == \E C \in Known : InitArchive(C)

-----------------------------------------------------------------------------

_weekdays_between(first, last) == {d \in first..last : d \notin Weekend}

IsRange(c) == c.kind = "INDEX_TOTAL_RETURN"

\* The days still to ask for, from the one the loop is at.
Left(c, next) == {d \in next..c.last : IsRange(c) \/ d \notin Weekend}

\* The next request: one weekday, or as many days as one answer may cover.
NextAsked(c, next) ==
    LET d == Min(Left(c, next))
    IN  [start |-> d, end |-> IF IsRange(c) THEN Min({d + Span, c.last}) ELSE d]

Sync ==
    [pc |-> "ensure", want |-> NONE, chunks |-> <<>>, next |-> 0, companies |-> {},
     path |-> NONE, document |-> NONE, rows |-> {},
     got |-> {}, no_data |-> {}, errors |-> {}, blocked |-> FALSE]

\* The next transaction of a command, or the end of it.
Open(chunks) ==
    IF chunks = <<>> THEN Idle
    ELSE LET c == Head(chunks)
         IN  [Sync EXCEPT !.chunks = chunks, !.next = c.first,
                 !.companies = IF c.kind = "EQUITY_BHAVCOPY" THEN c.wanted ELSE {}]

Begin(s) ==
    /\ \E c \in Commands : Start(s, Open(c))
    /\ UNCHANGED files

Chunk(s) == Head(sess[s].chunks)
Request(s) == NextAsked(Chunk(s), sess[s].next)
DaysOf(r) == r.start..r.end
Requested(c) == _weekdays_between(c.first, c.last)

EnsureCompanies(s) == EnsureCompany(s, [sess[s] EXCEPT !.pc = "fetch"])

-----------------------------------------------------------------------------
(* fetch_raw, fetch_range: how the source answers a request.               *)

NextRequest(s) ==
    [sess[s] EXCEPT !.pc = "fetch", !.next = Request(s).end + 1,
                     !.path = NONE, !.document = NONE]

\* Mutant: an outage ends the sync like a block, without being called one.
GiveUp(s) == [sess[s] EXCEPT !.next = Chunk(s).last + 1]

\* SourceTransientError: network error, 429, 5xx.
Skip(s) == [NextRequest(s) EXCEPT !.errors = @ \cup DaysOf(Request(s))]

\* SourceAccessError: 401, 403.  The sync does not go on.
Blocked(s) ==
    [sess[s] EXCEPT !.next = Chunk(s).last + 1, !.blocked = TRUE,
                    !.errors = @ \cup DaysOf(Request(s))]

\* 404, or any status the provider does not know: taken for a holiday.  A range
\* sync works out the days without data at its end.
NoData(s) ==
    IF IsRange(Chunk(s)) THEN NextRequest(s)
    ELSE [NextRequest(s) EXCEPT !.no_data = @ \cup {Request(s).start}]

Fetch(s) ==
    /\ At(s, "fetch") /\ Left(Chunk(s), sess[s].next) # {}
    /\ \/ Local(s, Blocked(s)) \/ Local(s, Skip(s)) \/ Local(s, NoData(s))
       \/ \E c \in Content \cap Offered[Chunk(s).kind][Request(s).start] :
             Local(s, [sess[s] EXCEPT !.pc = "write", !.path = c,
                                      !.got = @ \cup {<<Request(s), c>>}])
    /\ UNCHANGED files

\* get_or_create of the archive row: the same bytes of the same day are one.
RecordFile(s) ==
    LET key == ArchiveFile(Request(s).start, Chunk(s).kind, sess[s].path)
        recorded == [sess[s] EXCEPT !.pc = "parse", !.document = key]
    IN  /\ At(s, "document")
        /\ GetOrCreate(s, key, TRUE, recorded, recorded)
        /\ UNCHANGED files

\* The rows a sync keeps.  Only a range sync looks at their dates.
Keeps(c, row) == row.name \in c.wanted /\ (IsRange(c) => row.date \in Requested(c))

\* Their places in the file at hand.
Wanted(s) == {i \in DOMAIN Parsed[sess[s].path] : Keeps(Chunk(s), Parsed[sess[s].path][i])}

\* The parsers raise on what is not a price file, and nobody catches it.
Parse(s) ==
    /\ At(s, "parse")
    /\ IF Parsed[sess[s].path] = NONE THEN Rollback(s)
       ELSE Local(s, [sess[s] EXCEPT !.pc = "store", !.rows = Wanted(s)])
    /\ UNCHANGED files

\* The row at hand is done with, be it stored or found stored.
RowDone(s) == [sess[s] EXCEPT !.rows = @ \ {Min(@)}]

\* create_if_not_exists of each row, in the order of the file.
StoreRow(s) ==
    LET row == Parsed[sess[s].path][Min(sess[s].rows)]
    IN  /\ At(s, "store") /\ sess[s].rows # {}
        /\ GetOrCreate(s, Price(row.name, row.date),
                       [close |-> row.close, document |-> sess[s].document],
                       RowDone(s), RowDone(s))
        /\ UNCHANGED files

NextFile(s) ==
    /\ At(s, "store") /\ sess[s].rows = {}
    /\ Local(s, NextRequest(s))
    /\ UNCHANGED files

-----------------------------------------------------------------------------

\* The days of the rows a range sync has seen, stored by it or before.
Available(s) ==
    {row.date : row \in {x \in UNION {Range(Parsed[g[2]]) : g \in sess[s].got} :
                            Keeps(Chunk(s), x)}}

\* The end of the loop.  A range sync calls every day it saw no row of a day
\* without data, those of a failed request among them.
EndOfRange(s) ==
    /\ At(s, "fetch") /\ Left(Chunk(s), sess[s].next) = {}
    /\ Local(s, IF IsRange(Chunk(s))
                THEN [sess[s] EXCEPT !.pc = "done", !.no_data = Requested(Chunk(s)) \ Available(s)]
                ELSE [sess[s] EXCEPT !.pc = "done"])
    /\ UNCHANGED files

\* The back-fill leaves its loop over the years at a source that blocks it.
Rest(s) ==
    LET chunks == sess[s].chunks
        Other(i) == ~sess[s].blocked \/ i > Len(chunks) \/ chunks[i].kind # Chunk(s).kind
    IN  SubSeq(chunks, Min({i \in 2..(Len(chunks) + 1) : Other(i)}), Len(chunks))

\* The commit.
Finish(s) ==
    /\ At(s, "done")
    /\ Commit(s, Open(Rest(s)))
    /\ UNCHANGED files

-----------------------------------------------------------------------------

Proceed(s) ==
    \/ EnsureCompanies(s) \/ Fetch(s) \/ WriteArchive(s) \/ RecordFile(s) \/ Parse(s)
    \/ StoreRow(s) \/ NextFile(s) \/ EndOfRange(s) \/ Finish(s)
    \/ DeadlockVictim(s) /\ UNCHANGED files

Next == \E s \in Sessions : Begin(s) \/ Proceed(s) \/ (Crash(s) /\ UNCHANGED files)

Spec == Init /\ [][Next]_archivevars

\* A running command goes on; a lock that is released goes to who waits for it.
FairSpec == Spec /\ \A s \in Sessions : SF_archivevars(Proceed(s))

-----------------------------------------------------------------------------
(* Properties.                                                             *)

TypeOK ==
    /\ DOMAIN files \subseteq Content /\ Range(files) \subseteq {"torn", "whole"}
    /\ DraftsDisjoint
    /\ \A k \in DOMAIN db : k[1] \in {"company", "file", "price"}
    /\ \A s \in Sessions : ~At(s, "idle") =>
          /\ sess[s].no_data \cup sess[s].errors \subseteq Day
          /\ sess[s].path \in Content \cup {NONE}

\* A stored close can be traced to its source: it cites a recorded file whose
\* bytes were written to the archive, and that file has this very row.
PricesTraceable ==
    \A k \in Of(db, "price") :
        /\ db[k].document \in Of(db, "file")
        /\ Written(db[k].document[4])
        /\ [name |-> k[2], date |-> k[3], close |-> db[k].close]
              \in Range(Parsed[db[k].document[4]])

\* Overlapping syncs, republished files and crashes never change or lose a
\* committed row, nor damage a file that was written to its end.
FirstPriceStandsStep ==
    /\ \A k \in DOMAIN db : k \in DOMAIN db' /\ db'[k] = db[k]
    /\ \A c \in DOMAIN files : files[c] = "whole" => files'[c] = "whole"
FirstPriceStands == [][FirstPriceStandsStep]_archivevars

\* A sync that commits has stored, or found stored, every row it wanted of
\* every file it got, and tells of each weekday it was asked for whether it
\* had an answer, had none or failed, up to the request it was blocked at.  An
\* answer to a range tells of the days it has rows of.
SyncIsAccountedForStep ==
    \A s \in Sessions : (At(s, "done") /\ Finish(s)) =>
        /\ \A g \in sess[s].got : \A row \in Range(Parsed[g[2]]) :
              Keeps(Chunk(s), row) => Price(row.name, row.date) \in DOMAIN db'
        /\ \A d \in Requested(Chunk(s)) :
              \/ d \in sess[s].no_data \cup sess[s].errors
              \/ IF IsRange(Chunk(s)) THEN d \in Available(s)
                 ELSE \E g \in sess[s].got : d \in DaysOf(g[1])
              \/ sess[s].blocked /\ \E e \in sess[s].errors : e < d
SyncIsAccountedFor == [][SyncIsAccountedForStep]_archivevars

\* Every started sync ends, in whatever order two of them create the companies
\* they share, and the files one of them is the first to record.
SyncsEnd == \A s \in Sessions : ~At(s, "idle") ~> At(s, "idle")

=============================================================================
