---------------------------- MODULE PortfolioSync ----------------------------
(***************************************************************************)
(* sync-portfolio (services/portfolio_sync.py): the holdings a broker      *)
(* lists become a snapshot, after each has been matched to a company by    *)
(* InstrumentResolver, which records what it matched in instrument_master. *)
(***************************************************************************)
EXTENDS Transactions, TLC

CONSTANTS Listings \* what the broker may list: sequences of holdings; NONE if unreadable

\* Any holding that may be listed.
Held == UNION {Range(listing) : listing \in Listings \ {NONE}}

ASSUME PortfolioSyncAssumption ==
    /\ IsFiniteSet(Sessions)
    /\ \A listing \in Listings \ {NONE} : listing \in Seq(Range(listing))

Instrument(symbol, exchange) == <<"instrument", symbol, exchange>>
IngestionRun(n) == <<"run", n>>
Snapshot(n) == <<"snapshot", n>>

\* stop_after_attempt(3), on BrokerUnavailableError only.
Attempts == 3

\* blank, which no action reads: what the sync has read as not known, the companies
\* it did not find and the instruments without a company.
SyncCommand ==
    [pc |-> "run", want |-> NONE, kind |-> "sync", run |-> NONE, attempts |-> 0,
     listed |-> <<>>, todo |-> <<>>, holdings |-> <<>>, failed |-> {},
     company |-> NONE, link |-> FALSE, known |-> NONE,
     blank |-> {}]

BeginPortfolioSync(s) == Start(s, SyncCommand)

InsertRun(s) ==
    /\ At(s, "run")
    /\ LET run == IngestionRun(Fresh("run"))
       IN  InsertRow(s, run, [status |-> "running", ingested |-> 0, failed |-> 0],
                     [sess[s] EXCEPT !.pc = "fetch", !.run = run])

\* get_holdings.  What is raised in the end is written into the run, re-raised,
\* and rolled back by the command with the run.  A response of no known form
\* holds nothing.
FetchHoldings(s) ==
    /\ At(s, "fetch")
    /\ \/ Rollback(s)
       \/ /\ sess[s].attempts + 1 < Attempts
          /\ Local(s, [sess[s] EXCEPT !.attempts = @ + 1])
       \/ \E listing \in Listings :
             LET holdings == IF listing = NONE THEN <<>> ELSE listing
             IN  Local(s, [sess[s] EXCEPT !.pc = "resolve", !.listed = holdings,
                              !.todo = holdings])

-----------------------------------------------------------------------------
(* InstrumentResolver.resolve, for the next holding.                       *)

Holding(s) == Head(sess[s].todo)
Number(s) == Len(sess[s].listed) - Len(sess[s].todo) + 1

WithIsin(s, tag, isin) ==
    IF isin = NONE THEN {} ELSE {k \in Of(View(s), tag) : View(s)[k].isin = isin}

Resolved(s, company) ==
    LET h == Holding(s)
    IN  [sess[s] EXCEPT !.pc = "resolve", !.todo = Tail(@), !.company = NONE, !.link = FALSE,
            !.holdings = Append(@, [symbol |-> h.symbol, isin |-> h.isin, company |-> company,
                                    value |-> h.quantity * h.price])]

\* To upsert the instrument, with its company or, found by ISIN, without.
ToInstrument(s, company, link) ==
    [sess[s] EXCEPT !.pc = "instrument", !.company = company, !.link = link]

\* A holding without a symbol, or whose ISIN two instruments have, is skipped.
Resolve(s) ==
    LET h == Holding(s)
        instruments == WithIsin(s, "instrument", h.isin)
    IN  /\ At(s, "resolve") /\ sess[s].todo # <<>>
        /\ Local(s,
             IF h.symbol = NONE \/ Cardinality(instruments) > 1
             THEN [sess[s] EXCEPT !.todo = Tail(@), !.failed = @ \cup {Number(s)}]
             ELSE IF instruments # {}
             THEN ToInstrument(s, View(s)[CHOOSE k \in instruments : TRUE].company, FALSE)
             ELSE [sess[s] EXCEPT !.pc = "known"])

FindInstrument(s) ==
    LET known == Instrument(Holding(s).symbol, Holding(s).exchange)
    IN  /\ At(s, "known")
        /\ Local(s, IF Sees(s, known) THEN Resolved(s, View(s)[known].company)
                    ELSE [sess[s] EXCEPT !.pc = "isin"])

FindByIsin(s) ==
    LET companies == WithIsin(s, "company", Holding(s).isin)
    IN  /\ At(s, "isin")
        /\ Local(s, IF companies # {} THEN ToInstrument(s, CHOOSE k \in companies : TRUE, TRUE)
                    ELSE [sess[s] EXCEPT !.pc = "symbol"])

FindBySymbol(s) ==
    LET company == Company(Holding(s).symbol)
    IN  /\ At(s, "symbol")
        /\ Local(s, IF Sees(s, company) THEN ToInstrument(s, company, TRUE)
                    ELSE [sess[s] EXCEPT !.pc = "stub", !.blank = @ \cup {company}])

\* Of a column that an UPDATE assigns, if the value differs from the one loaded,
\* what the row has afterwards.
Assigned(old, value, current) == IF value \in {NONE, old} THEN current ELSE value

\* The ISIN of a company is unique: another company has it, or is drafted with it.
Taken(rows, key, isin) ==
    isin # NONE /\ \E k \in Of(rows, "company") : k # key /\ rows[k].isin = isin

\* CompanyRepository.upsert looks for the symbol again, and gives a company that it
\* finds now the ISIN of the holding.  A flush the database refuses fails the sync.
CreateStub(s) ==
    LET key == Company(Holding(s).symbol)
        isin == Holding(s).isin
        after == ToInstrument(s, key, TRUE)
    IN  /\ At(s, "stub")
        /\ \/ /\ sess[s].want = NONE
              /\ Local(s, [sess[s] EXCEPT !.want = key,
                              !.known = IF Sees(s, key) THEN View(s)[key] ELSE NONE])
           \/ /\ sess[s].want # NONE
              /\ \A t \in Sessions \ {s} : ~Taken(draft[t], key, isin)
              /\ IF Taken(View(s), key, isin) THEN Rollback(s)
                 ELSE \/ sess[s].known = NONE /\ FlushNew(s, [isin |-> isin], after)
                      \/ /\ sess[s].known # NONE
                         /\ FlushUpdate(s,
                               [isin |-> Assigned(sess[s].known.isin, isin, View(s)[key].isin)],
                               after)

\* Mutant: the company of an instrument is overwritten.
Relinked(old, link, current) == Assigned(old, link, current)

\* The company of an instrument is set once.
Linked(old, link, current) == IF old = NONE THEN Assigned(old, link, current) ELSE current

\* InstrumentRepository.upsert: always a write, last_seen at least.
UpsertInstrument(s) ==
    LET h == Holding(s)
        key == Instrument(h.symbol, h.exchange)
        link == IF sess[s].link THEN sess[s].company ELSE NONE
        known == sess[s].known
        now == View(s)[key]
        after == Resolved(s, sess[s].company)
    IN  /\ At(s, "instrument")
        /\ \/ /\ sess[s].want = NONE
              /\ Local(s, [sess[s] EXCEPT !.want = key,
                    !.known = IF Sees(s, key) THEN now ELSE NONE,
                    !.blank = IF Sees(s, key) /\ now.company = NONE THEN @ \cup {key} ELSE @])
           \/ known = NONE /\ FlushNew(s, [isin |-> h.isin, company |-> link], after)
           \/ /\ known # NONE
              /\ FlushUpdate(s, [isin |-> Assigned(known.isin, h.isin, now.isin),
                                 company |-> Linked(known.company, link, now.company)], after)

-----------------------------------------------------------------------------

TotalOf(holdings) == FoldLeft(LAMBDA sum, h : sum + h.value, 0, holdings)

\* Mutant: a run that skipped holdings says it did not.
AlwaysSuccess(failed) == "success"

StatusOf(failed) == IF failed = {} THEN "success" ELSE "partial"

\* _persist, and the end of the run.  A snapshot has no foreign key to its run: what
\* they share, here run, is the instant the run started at (source_timestamp).
Persist(s) ==
    LET holdings == sess[s].holdings
    IN  /\ At(s, "resolve") /\ sess[s].todo = <<>>
        /\ Insert(s,
             [k \in {sess[s].run, Snapshot(Fresh("snapshot"))} |->
                 IF k = sess[s].run
                 THEN [status |-> StatusOf(sess[s].failed), ingested |-> Len(holdings),
                       failed |-> Cardinality(sess[s].failed)]
                 ELSE [run |-> sess[s].run, holdings |-> holdings,
                       total |-> TotalOf(holdings)]],
             [sess[s] EXCEPT !.pc = "commit"])

FinishSync(s) == At(s, "commit") /\ sess[s].kind = "sync" /\ Commit(s, Idle)

PortfolioSyncProceed(s) ==
    \/ InsertRun(s) \/ FetchHoldings(s) \/ Resolve(s) \/ FindInstrument(s) \/ FindByIsin(s)
    \/ FindBySymbol(s) \/ CreateStub(s) \/ UpsertInstrument(s) \/ Persist(s) \/ FinishSync(s)

-----------------------------------------------------------------------------
(* Properties.                                                             *)

\* Every run that is stored has ended and has its one snapshot, of as many holdings as
\* it says; it was a success if it skipped none.
Reported(rows) ==
    /\ \A p \in Of(rows, "snapshot") : rows[p].run \in Of(rows, "run")
    /\ \A r \in Of(rows, "run") :
          \E p \in Of(rows, "snapshot") :
              /\ \A q \in Of(rows, "snapshot") : rows[q].run = r => q = p
              /\ rows[p].run = r /\ rows[r].status # "running"
              /\ Len(rows[p].holdings) = rows[r].ingested
              /\ rows[r].status = "success" <=> rows[r].failed = 0

\* Of each of the first n holdings listed, those skipped apart, what became of it.
Normalized(r, n) ==
    \A i \in (1..n) \ r.failed :
        \E j \in DOMAIN r.holdings :
            /\ r.holdings[j].symbol = r.listed[i].symbol
            /\ r.holdings[j].value = r.listed[i].quantity * r.listed[i].price

\* What a sync leaves is all of what the broker listed or says that it is not:
\* no run stays unfinished, each has its one snapshot, and what is missing was listed
\* without a symbol or under an ISIN of two instruments, and is counted.
SyncIsComplete ==
    /\ Reported(db)
    /\ \A s \in Sessions : (At(s, "commit") /\ sess[s].kind = "sync") =>
          LET row == draft[s][sess[s].run]
          IN  /\ row.ingested + row.failed = Len(sess[s].listed)
              /\ Normalized(sess[s], Len(sess[s].listed))

Overwrites(s, k) == FinishSync(s) /\ k \in sess[s].blank

\* What is known of a company or an instrument stands, whatever others find and write
\* between the reads and the writes of a sync: it is never lost, and only a sync that
\* read it as not known, before another made it known, writes another company of an
\* instrument (InstrumentRepository.upsert) or another ISIN of a company
\* (CompanyRepository.upsert) in its place.
IdentityStandsStep ==
    /\ \A k \in Of(db, "instrument") : db[k].company # NONE =>
          /\ k \in DOMAIN db' /\ db'[k].company # NONE
          /\ db'[k].company = db[k].company \/ \E s \in Sessions : Overwrites(s, k)
    /\ \A k \in Of(db, "company") :
          /\ k \in DOMAIN db'
          /\ db[k].isin # NONE =>
                /\ db'[k].isin # NONE
                /\ db'[k].isin = db[k].isin \/ \E s \in Sessions : Overwrites(s, k)
IdentityStands == [][IdentityStandsStep]_txvars

=============================================================================
