-------------------------------- MODULE News --------------------------------
(***************************************************************************)
(* News ingestion (services/ingestion/news.py): a sync polls one feed,     *)
(* counts the attempt in the source's reliability row, drops what it has   *)
(* seen or nearly seen from that source, links every new item to the       *)
(* companies it mentions and files it, for each of them, under an event it *)
(* resembles or under a new one.  record-news-url does it for one article. *)
(***************************************************************************)
EXTENDS Transactions, TLC

CONSTANTS Sources,     \* the enabled feeds
          Headlines,
          Similarity,  \* headlines -> headlines -> 0..100, how alike they are
          Figures,     \* headline -> the numbers in it
          Mentions,    \* headline and description -> the aliases in it
          Aliases,     \* the active aliases: [company, alias, type, confidence]
          Feeds,       \* source -> the lists of entries its feed may answer with
          Articles,    \* what record-news-url may be given: [company, entry]
          Window,      \* CLUSTER_TIME_WINDOW, STALE_FEED_MAX_AGE
          RecentLimit, \* the limit of list_recent
          Now          \* when all this happens

NEAR_DUPLICATE_THRESHOLD == 90
CLUSTER_HEADLINE_THRESHOLD == 55
AMBIGUOUS_THRESHOLD == 50

ASSUME NewsAssumption ==
    /\ Window \in Nat /\ Now \in Nat /\ RecentLimit \in Nat
    /\ \A h \in Headlines : Similarity[h][h] = 100

Reliability(source) == <<"reliability", source>>
Item(source, url) == <<"item", source, url>>
Link(item, c) == <<"link", item, c>>
Event(n) == <<"event", n>>
EventItem(event, item) == <<"eventitem", event, item>>

-----------------------------------------------------------------------------
(* CompanyMatcher.                                                         *)

Strongest(A) == CHOOSE a \in A : \A b \in A : b.confidence <= a.confidence

\* A name is evidence on its own; a bare symbol that is also a word is a weak one.
_match_company(aliases) ==
    LET names == {a \in aliases : a.type # "symbol"}
        best == Strongest(IF names # {} THEN names ELSE aliases)
    IN  [score |-> best.confidence,
         method |-> IF names # {} THEN best.type
                    ELSE IF best.confidence >= AMBIGUOUS_THRESHOLD THEN "symbol"
                    ELSE "ambiguous"]

match(headline) ==
    LET hits == {a \in Aliases : a.alias \in Mentions[headline]}
    IN  [c \in {a.company : a \in hits} |-> _match_company({a \in hits : a.company = c})]

-----------------------------------------------------------------------------
(* news_dedup.                                                             *)

\* The items of any source that were found in the window before a time, and the
\* newest of them, as many as the limit allows.
FoundLately(rows, now) ==
    {k \in Of(rows, "item") : rows[k].discovered \in (now - Window)..now}
list_recent(rows) ==
    LET all == FoundLately(rows, Now)
    IN  {S \in SUBSET all :
            /\ S = all \/ Cardinality(S) = RecentLimit
            /\ Cardinality(S) <= RecentLimit
            /\ \A k \in S : \A j \in all \ S : rows[j].discovered <= rows[k].discovered}

is_near_duplicate(h, g) == Similarity[h][g] >= NEAR_DUPLICATE_THRESHOLD

\* The row of an entry that is new, and when it says that things happened.
NewItem(entry) ==
    [headline |-> entry.headline, published |-> entry.published, discovered |-> Now]
reference_time(item) == IF item.published = NONE THEN item.discovered ELSE item.published

Abs(n) == IF n < 0 THEN -n ELSE n

\* Ruled out by time, by the headline, or by figures that disagree.
plausible(item, event) ==
    LET mine == Figures[item.headline]
        its == Figures[event.headline]
    IN  /\ item.published # NONE => Abs(item.published - event.last_seen) <= Window
        /\ Similarity[item.headline][event.headline] >= CLUSTER_HEADLINE_THRESHOLD
        /\ mine = {} \/ its = {} \/ mine \cap its # {}

\* The events of the company a new item may belong to, and the best of them.
candidates(s, c, since) ==
    {k \in Of(View(s), "event") : View(s)[k].company = c /\ View(s)[k].last_seen >= since}
best_clusters(s, item, keys) ==
    LET fit == {k \in keys : plausible(item, View(s)[k])}
        score(k) == Similarity[item.headline][View(s)[k].headline]
    IN  {k \in fit : \A j \in fit : score(j) <= score(k)}

-----------------------------------------------------------------------------

NewsCommand ==
    [pc |-> "idle", want |-> NONE, kind |-> NONE, source |-> NONE, feed |-> <<>>,
     seen |-> NONE, counts |-> <<>>, item |-> NONE, companies |-> {}, company |-> NONE,
     event |-> NONE, recent |-> {}]

BeginSync(s) ==
    \E source \in Sources :
        Start(s, [NewsCommand EXCEPT !.pc = "fetch", !.kind = "sync", !.source = source])

BeginRecord(s) ==
    \E a \in Articles :
        Start(s, [NewsCommand EXCEPT !.pc = "company", !.kind = "record",
                     !.source = "manual", !.feed = <<a.entry>>, !.company = a.company])

\* fetch_all: blocked, out of order, or the entries of the feed.  Each counter
\* it moves is an UPDATE of its own.
Fetch(s) ==
    /\ At(s, "fetch")
    /\ \/ Local(s, [sess[s] EXCEPT !.pc = "count", !.counts = <<"failed">>])
       \/ \E feed \in Feeds[sess[s].source] :
             LET dates == {e.published : e \in Range(feed)} \ {NONE}
                 stale == dates # {} /\ \A d \in dates : Now - d > Window
             IN  Local(s, [sess[s] EXCEPT !.pc = "count", !.feed = feed,
                              !.counts = IF stale THEN <<"ok", "stale">> ELSE <<"ok">>])

NoFetches == [ok |-> 0, failed |-> 0, stale |-> 0]

\* Mutant: nothing is counted before the feed is read, so that no lock is taken.
CountLater(s) ==
    /\ At(s, "count")
    /\ Local(s, [sess[s] EXCEPT !.pc = IF sess[s].counts = <<"failed">> THEN "done" ELSE "recent"])

\* get_or_create_for_source.  The row is read once, and keeps what was read of
\* it while its UPDATE waits for a sync of the same source to end.
Count(s) ==
    LET key == Reliability(sess[s].source)
        counter == Head(sess[s].counts)
    IN  /\ At(s, "count")
        /\ \/ /\ sess[s].want = NONE
              /\ Local(s, [sess[s] EXCEPT !.want = key, !.seen =
                              IF Sees(s, key) THEN View(s)[key] ELSE NONE])
           \/ /\ sess[s].seen = NONE
              /\ FlushNew(s, NoFetches, [sess[s] EXCEPT !.seen = NoFetches])
           \/ /\ sess[s].seen # NONE
              /\ LET row == [sess[s].seen EXCEPT ![counter] = @ + 1]
                     rest == Tail(sess[s].counts)
                 IN  FlushUpdate(s, row,
                        [sess[s] EXCEPT !.counts = rest,
                            !.pc = IF rest # <<>> THEN "count"
                                   ELSE IF counter = "failed" THEN "done" ELSE "recent"])

-----------------------------------------------------------------------------

\* The recent items of the source, read once, before the first entry.
ReadRecent(s) ==
    /\ At(s, "recent")
    /\ \E S \in list_recent(View(s)) :
          Local(s, [sess[s] EXCEPT !.pc = "entries",
                       !.recent = {k \in S : k[2] = sess[s].source}])

Entry(s) == Head(sess[s].feed)

\* From this source: the same headline, whenever it was found, or one very like
\* it among the recent items.
Duplicate(s) ==
    \/ \E k \in Of(View(s), "item") :
          k[2] = sess[s].source /\ View(s)[k].headline = Entry(s).headline
    \/ \E k \in sess[s].recent :
          is_near_duplicate(Entry(s).headline, View(s)[k].headline)

\* An entry that is not new by its headline is passed over.  One whose URL is known
\* makes the item of that URL a recent one, as a new item is.
Ingest(s) ==
    LET key == Item(sess[s].source, Entry(s).url)
        stored == [sess[s] EXCEPT !.pc = "link", !.item = key, !.recent = @ \cup {key},
                                  !.companies = DOMAIN match(Entry(s).headline)]
        skipped == [sess[s] EXCEPT !.feed = Tail(@)]
    IN  /\ At(s, "entries") /\ sess[s].feed # <<>>
        /\ \/ /\ sess[s].want = NONE /\ Duplicate(s)
              /\ Local(s, skipped)
           \/ /\ sess[s].want # NONE \/ ~Duplicate(s)
              /\ GetOrCreate(s, key, NewItem(Entry(s)),
                             [skipped EXCEPT !.recent = @ \cup {key}], stored)

\* Mutant: the links of all companies, the event of one.
LinkAll(s) ==
    /\ At(s, "link") /\ sess[s].kind = "sync"
    /\ \E c \in sess[s].companies :
          Insert(s,
              [k \in {Link(sess[s].item, d) : d \in sess[s].companies} |->
                  match(View(s)[sess[s].item].headline)[k[3]]],
              [sess[s] EXCEPT !.pc = "cluster", !.company = c, !.companies = {}])

\* One company the new item mentions: its link, then its event.
LinkCompany(s) ==
    /\ At(s, "link") /\ sess[s].kind = "sync"
    /\ \E c \in sess[s].companies :
          InsertRow(s, Link(sess[s].item, c), match(View(s)[sess[s].item].headline)[c],
                    [sess[s] EXCEPT !.pc = "cluster", !.company = c, !.companies = @ \ {c}])

NextEntry(s) ==
    /\ At(s, "link") /\ sess[s].kind = "sync" /\ sess[s].companies = {}
    /\ Local(s, [sess[s] EXCEPT !.pc = "entries", !.feed = Tail(@), !.item = NONE])

-----------------------------------------------------------------------------
(* cluster_event.                                                          *)

\* A date on the command line has no time zone, and the new row keeps it so
\* until it is read again: comparing it to that of an event raises.
Naive(s) == sess[s].kind = "record" /\ sess[s].seen = "naive"

\* The item joins the event of the company that it is most like, or a new one.  A
\* later item moves the end of the event, in an UPDATE that waits for its lock
\* and does not look again.
cluster_event(s) ==
    LET item == View(s)[sess[s].item]
        at == reference_time(item)
        keys == candidates(s, sess[s].company, at - Window)
        best == best_clusters(s, item, keys)
        raises == Naive(s) /\ item.published # NONE /\ keys # {}
        new == Event(Fresh("event"))
        row == [company |-> sess[s].company, headline |-> item.headline,
                first_seen |-> at, last_seen |-> at]
        to(k) == [sess[s] EXCEPT !.pc = "join", !.event = k]
    IN  /\ At(s, "cluster")
        /\ \/ sess[s].want = NONE /\ raises /\ Rollback(s)
           \/ /\ sess[s].want = NONE /\ ~raises
              /\ \E k \in best :
                    Local(s, IF at > View(s)[k].last_seen THEN [sess[s] EXCEPT !.want = k]
                             ELSE to(k))
           \/ /\ sess[s].want = NONE /\ ~raises /\ best = {}
              /\ InsertRow(s, new, row, to(new))
           \/ FlushUpdate(s, [View(s)[sess[s].want] EXCEPT !.last_seen = at],
                          to(sess[s].want))

JoinEvent(s) ==
    LET after == [sess[s] EXCEPT !.pc = IF sess[s].kind = "sync" THEN "link" ELSE "done"]
    IN  /\ At(s, "join")
        /\ GetOrCreate(s, EventItem(sess[s].event, sess[s].item), TRUE, after, after)

-----------------------------------------------------------------------------
(* record-news-url.                                                        *)

ResolveCompany(s) ==
    LET after == [sess[s] EXCEPT !.pc = "article"]
    IN  /\ At(s, "company")
        /\ GetOrCreate(s, Company(sess[s].company), TRUE, after, after)

\* The row of the URL, or a new one.
RecordItem(s) ==
    LET key == Item("manual", Entry(s).url)
        with(seen) == [sess[s] EXCEPT !.pc = "link", !.item = key, !.seen = seen,
                          !.companies = DOMAIN match(Entry(s).headline) \cup {sess[s].company}]
    IN  /\ At(s, "article") /\ sess[s].kind = "record"
        /\ GetOrCreate(s, key, NewItem(Entry(s)), with("loaded"), with("naive"))

\* The link of the company named, then those of the others mentioned; the event is
\* that of the company named only.
RecordLink(s) ==
    LET named == sess[s].companies \cap {sess[s].company}
        how(c) == IF c = sess[s].company THEN [score |-> 100, method |-> "manual"]
                  ELSE match(Entry(s).headline)[c]
        linked(c) == [sess[s] EXCEPT !.companies = @ \ {c}]
    IN  /\ At(s, "link") /\ sess[s].kind = "record"
        /\ \/ sess[s].companies = {} /\ Local(s, [sess[s] EXCEPT !.pc = "cluster"])
           \/ \E c \in IF named # {} THEN named ELSE sess[s].companies :
                 /\ sess[s].want \in {NONE, Link(sess[s].item, c)}
                 /\ GetOrCreate(s, Link(sess[s].item, c), how(c), linked(c), linked(c))

EndOfFeed(s) ==
    /\ At(s, "entries") /\ sess[s].feed = <<>>
    /\ Local(s, [sess[s] EXCEPT !.pc = "done"])

Finish(s) == At(s, "done") /\ Commit(s, Idle)

-----------------------------------------------------------------------------

NewsProceed(s) ==
    \/ Fetch(s) \/ Count(s) \/ ReadRecent(s) \/ Ingest(s) \/ LinkCompany(s) \/ NextEntry(s)
    \/ cluster_event(s) \/ JoinEvent(s)
    \/ ResolveCompany(s) \/ RecordItem(s) \/ RecordLink(s) \/ EndOfFeed(s) \/ Finish(s)

BeginNews(s) == BeginSync(s) \/ BeginRecord(s)
=============================================================================
