------------------------------ MODULE Filings ------------------------------
(***************************************************************************)
(* The document archive (services/ingestion/filings.py, common.py): a sync *)
(* goes through a company's announcements and archives the attachments of  *)
(* the types it wants and the members of zipped ones, with the text of     *)
(* every new PDF; archive-document archives a file by hand, extract-text   *)
(* shows the text of one, and the record- commands enter what a person     *)
(* read in it.                                                             *)
(***************************************************************************)
EXTENDS Archive, TLC

CONSTANTS Listed,    \* symbols of the companies that are known at first
          Bytes,     \* what a download may be: name -> [type, members, opens]
          Announced, \* symbol -> the lists of announcements the exchange may give
          Served,    \* what the urls may serve: [url, bytes]
          Uploads,   \* what archive-document may be given: [symbol, url, bytes, filing]
          Syncs      \* what may be synced: [symbol, types, since]

_AUTO_ARCHIVE_TYPES == {"investor_presentation", "concall_transcript", "quarterly_result"}

ASSUME FilingsAssumption ==
    /\ IsFiniteSet(Sessions)
    /\ \A s \in Syncs : s.types \subseteq _AUTO_ARCHIVE_TYPES
    /\ \A b \in DOMAIN Bytes :
          /\ Bytes[b].type \in {"pdf", "zip", "html", "other"}
          /\ Bytes[b].members \in Seq({m \in DOMAIN Bytes : Bytes[m].type # "zip"})
          /\ Bytes[b].type # "zip" => Bytes[b].members = <<>>
    /\ \A d \in Served : d.bytes \in DOMAIN Bytes
    /\ \A c \in Syncs, d \in Served : NONE # <<"document", c.symbol, d.url, d.bytes>>

Document(n, url, b) == <<"document", n, url, b>>
DocFact(n) == <<"fact", n>>

\* The six tables of facts a person transcribes.
FactTables ==
    {"order_book", "guidance", "segment_metric", "operational_metric",
     "capacity_update", "commentary"}

\* Beside the bytes of a document, the text extracted from them.
Original(n, b) == <<n, b, "bytes">>
TextOf(path) == <<path[1], path[2], "text">>

FilingsInit == InitArchive(Listed)

-----------------------------------------------------------------------------

FilingCommand ==
    [pc |-> "ensure", want |-> NONE, kind |-> NONE, companies |-> {}, symbol |-> NONE,
     types |-> {}, since |-> NONE, todo |-> <<>>, path |-> NONE, parent |-> NONE,
     members |-> <<>>, got |-> {}, failed |-> {}, blocked |-> FALSE, table |-> NONE]

BeginSync(s) ==
    \E c \in Syncs :
        Start(s, [FilingCommand EXCEPT !.kind = "sync", !.companies = {c.symbol},
                     !.symbol = c.symbol, !.types = c.types, !.since = c.since])

BeginArchive(s) ==
    \E u \in Uploads :
        Start(s, [FilingCommand EXCEPT !.kind = "upload", !.companies = {u.symbol},
                     !.symbol = u.symbol, !.path = Original(u.symbol, u.bytes),
                     !.todo = <<[url |-> u.url, filing |-> u.filing, published |-> NONE]>>])

\* extract-text of an archived PDF.
BeginExtract(s) ==
    \E k \in Of(db, "document") :
        /\ Bytes[k[4]].type = "pdf"
        /\ Start(s, [FilingCommand EXCEPT !.pc = "extract", !.kind = "extract",
                        !.path = Original(k[2], k[4])])

\* Mutant: the cited document need not be there.
BeginRecordAny(s) ==
    \E u \in Uploads, table \in FactTables :
        Start(s, [FilingCommand EXCEPT !.kind = "record", !.companies = {u.symbol},
                     !.symbol = u.symbol, !.table = table,
                     !.parent = Document(u.symbol, u.url, u.bytes)])

\* The record- commands.  The foreign key asks for a document that is there, of
\* whatever company; a fact is a new row each time.
BeginRecord(s) ==
    \E k \in Of(db, "document"), n \in {c.symbol : c \in Syncs}, table \in FactTables :
        Start(s, [FilingCommand EXCEPT !.kind = "record", !.companies = {n}, !.symbol = n,
                     !.table = table, !.parent = k])

EnsureOne(s) ==
    EnsureCompany(s, [sess[s] EXCEPT !.pc =
        CASE sess[s].kind = "sync" -> "discover"
          [] sess[s].kind = "upload" -> "write"
          [] sess[s].kind = "record" -> "fact"])

RecordFact(s) ==
    /\ At(s, "fact")
    /\ InsertRow(s, DocFact(Fresh("fact")),
                 [company |-> sess[s].symbol, table |-> sess[s].table,
                  document |-> sess[s].parent],
                 [sess[s] EXCEPT !.pc = "done"])
    /\ UNCHANGED files

-----------------------------------------------------------------------------
(* FilingIngestionService.sync.                                            *)

\* Not before since, for which an announcement must have a date.
Eligible(s, a) ==
    /\ a.filing \in sess[s].types
    /\ sess[s].since # NONE => (a.published # NONE /\ a.published >= sess[s].since)
    /\ a.url # NONE

\* get_announcements: blocked, out of order, or the list of the symbol.
Discover(s) ==
    /\ At(s, "discover")
    /\ \/ Local(s, [sess[s] EXCEPT !.pc = "done", !.blocked = TRUE])
       \/ Local(s, [sess[s] EXCEPT !.pc = "done"])
       \/ \E list \in Announced[sess[s].symbol] :
             Local(s, [sess[s] EXCEPT !.pc = "download",
                          !.todo = SelectSeq(list, LAMBDA a : Eligible(s, a))])
    /\ UNCHANGED files

Announcement(s) == Head(sess[s].todo)

NextAnnouncement(s) ==
    [sess[s] EXCEPT !.pc = "download", !.todo = Tail(@), !.path = NONE, !.parent = NONE]

\* download_attachment: a block ends the sync; a failure, and a type that is
\* neither PDF nor ZIP, do not.
Download(s) ==
    LET a == Announcement(s) IN
    /\ At(s, "download") /\ sess[s].todo # <<>>
    /\ \/ Local(s, [sess[s] EXCEPT !.todo = <<>>, !.blocked = TRUE])
       \/ Local(s, [NextAnnouncement(s) EXCEPT !.failed = @ \cup {a.url}])
       \/ \E d \in Served :
             /\ d.url = a.url
             /\ Local(s, IF Bytes[d.bytes].type \in {"pdf", "zip"}
                         THEN [sess[s] EXCEPT !.pc = "write", !.got = @ \cup {<<a.url, d.bytes>>},
                                              !.path = Original(sess[s].symbol, d.bytes)]
                         ELSE NextAnnouncement(s))
    /\ UNCHANGED files

\* Where the sync goes from a document: to its next member, or announcement.
AfterDocument(s) ==
    IF sess[s].kind = "upload" THEN [sess[s] EXCEPT !.pc = "done"]
    ELSE IF sess[s].members # <<>>
    THEN [sess[s] EXCEPT !.pc = "write", !.members = Tail(@),
                         !.path = Original(sess[s].symbol, Head(sess[s].members))]
    ELSE NextAnnouncement(s)

\* Mutant: a zip file that was archived before is not unpacked again.
SkipKnown(s, created) == IF created THEN "unpack" ELSE "next"

UnpackFor(s, created) == "unpack"

\* get_or_create of the row.  The text of a new PDF of a sync is cached; a ZIP,
\* new or known, is unpacked.
RecordDocument(s) ==
    LET b == sess[s].path[2]
        key == Document(sess[s].symbol, Announcement(s).url, b)
        row == [parent |-> sess[s].parent, filing |-> Announcement(s).filing]
        zip == sess[s].kind = "sync" /\ Bytes[b].type = "zip"
        pdf == sess[s].kind = "sync" /\ Bytes[b].type = "pdf"
        after(created) ==
            IF zip /\ UnpackFor(s, created) = "unpack"
            THEN [sess[s] EXCEPT !.pc = "unpack", !.parent = key]
            ELSE IF pdf /\ created THEN [sess[s] EXCEPT !.pc = "text"]
            ELSE AfterDocument(s)
    IN  /\ At(s, "document")
        /\ \/ /\ sess[s].want = NONE
              /\ Local(s, IF Sees(s, key) THEN after(FALSE) ELSE [sess[s] EXCEPT !.want = key])
           \/ FlushNew(s, row, after(TRUE))
        /\ UNCHANGED files

\* extract_zip_members: nothing of an unsafe archive; an encrypted one raises
\* what nobody catches.
Unpack(s) ==
    LET b == sess[s].path[2] IN
    /\ At(s, "unpack")
    /\ IF Bytes[b].opens = "raises" THEN Rollback(s)
       ELSE IF Bytes[b].opens = "no" \/ Bytes[b].members = <<>>
       THEN Local(s, NextAnnouncement(s))
       ELSE Local(s, [sess[s] EXCEPT !.pc = "write",
                         !.path = Original(sess[s].symbol, Head(Bytes[b].members)),
                         !.members = Tail(Bytes[b].members)])
    /\ UNCHANGED files

\* _cache_pdf_text: a PDF that cannot be read has none.  write_text writes over
\* what is there.
CacheText(s) ==
    LET text == TextOf(sess[s].path)
        after == IF sess[s].kind = "extract" THEN Idle ELSE AfterDocument(s)
    IN  \/ /\ At(s, "text")
           /\ IF Bytes[sess[s].path[2]].opens = "yes"
              THEN Put(text, "torn") /\ Local(s, [sess[s] EXCEPT !.pc = "textfill"])
              ELSE UNCHANGED files /\ Local(s, after)
        \/ /\ At(s, "textfill")
           /\ Put(text, "whole")
           /\ Local(s, after)

\* extract-text: the cached text, whole or not, or that of the original, which
\* it caches.
Extract(s) ==
    /\ At(s, "extract")
    /\ Local(s, IF Written(TextOf(sess[s].path)) \/ ~Written(sess[s].path) THEN Idle
                ELSE [sess[s] EXCEPT !.pc = "text"])
    /\ UNCHANGED files

EndOfList(s) ==
    /\ At(s, "download") /\ sess[s].todo = <<>>
    /\ Local(s, [sess[s] EXCEPT !.pc = "done"])
    /\ UNCHANGED files

FinishFiling(s) == At(s, "done") /\ Commit(s, Idle) /\ UNCHANGED files

-----------------------------------------------------------------------------

ProceedFiling(s) ==
    \/ EnsureOne(s) \/ Discover(s) \/ Download(s) \/ WriteArchive(s) \/ RecordDocument(s)
    \/ Unpack(s) \/ CacheText(s) \/ Extract(s) \/ RecordFact(s) \/ EndOfList(s) \/ FinishFiling(s)
    \/ DeadlockVictim(s) /\ UNCHANGED files

BeginFiling(s) ==
    /\ BeginSync(s) \/ BeginArchive(s) \/ BeginExtract(s) \/ BeginRecord(s)
    /\ UNCHANGED files

FilingsNext == \E s \in Sessions : BeginFiling(s) \/ ProceedFiling(s) \/ (Crash(s) /\ UNCHANGED files)

FilingsSpec == FilingsInit /\ [][FilingsNext]_archivevars

-----------------------------------------------------------------------------
(* Properties.                                                             *)

\* What is archived can be produced: the bytes of every recorded document are
\* in the archive, a member of a zip file names the committed zip file of that
\* company and address that holds it, and every transcribed fact names a
\* committed document.  Crashes and rollbacks leave files without rows, never
\* rows without files.
DocumentsTraceable ==
    /\ DraftsDisjoint
    /\ \A k \in Of(db, "document") :
          /\ Written(Original(k[2], k[4]))
          /\ LET p == db[k].parent
             IN  p # NONE =>
                    /\ p \in Of(db, "document") /\ p[2] = k[2] /\ p[3] = k[3]
                    /\ k[4] \in Range(Bytes[p[4]].members)
    /\ \A f \in Of(db, "fact") : db[f].document \in Of(db, "document")

\* A downloaded file, and the members of a zip file that can be opened.
Contents(b) == {b} \cup (IF Bytes[b].opens = "yes" THEN Range(Bytes[b].members) ELSE {})

\* A sync that commits has every attachment it downloaded, the members of every
\* zip file it could open, and a text for every PDF among these that was new to it
\* and can be read, even if an earlier command had archived part of them.
SyncArchivesAllStep ==
    \A s \in Sessions : (At(s, "done") /\ sess[s].kind = "sync" /\ FinishFiling(s)) =>
        \A g \in sess[s].got : \A b \in Contents(g[2]) :
            LET document == Document(sess[s].symbol, g[1], b)
            IN  /\ document \in DOMAIN db'
                /\ (Bytes[b].type = "pdf" /\ Bytes[b].opens = "yes" /\ document \notin DOMAIN db)
                   => Written(TextOf(Original(sess[s].symbol, b)))
SyncArchivesAll == [][SyncArchivesAllStep]_archivevars

\* No command changes or removes a committed row, or damages an original that
\* was written to its end.
ArchiveStandsStep ==
    /\ \A k \in DOMAIN db : k \in DOMAIN db' /\ db'[k] = db[k]
    /\ \A k \in Of(db, "document") :
          LET path == Original(k[2], k[4]) IN files[path] = "whole" => files'[path] = "whole"
ArchiveStands == [][ArchiveStandsStep]_archivevars

=============================================================================
