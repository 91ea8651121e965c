--------------------------- MODULE Interpretation ---------------------------
(***************************************************************************)
(* What becomes of news events (services/interpretation/): interpret-events*)
(* proposes a reading of every event that has none, by rule or by asking a *)
(* language model, and review-interpretation turns an accepted one into    *)
(* the catalysts, risks and thesis changes of the research memory.         *)
(***************************************************************************)
EXTENDS News

CONSTANTS Says,     \* headline -> the kinds of phrase it has
          Proposals,\* what the language model may answer, NONE for a failed call
          Past      \* the databases to start from

Interpretation(n) == <<"interpretation", n>>
Fact(kind, n) == <<kind, n>>
FactKinds == {"catalyst", "risk", "thesis"}
\* Tables whose rows are counted: to draw an id, or for the limit of a query.
Numbered == FactKinds \cup {"event", "interpretation", "note", "item"}

\* Of decided only the properties speak: the events that had an interpretation when
\* the command began.
Run == [pc |-> "interpret", want |-> NONE, kind |-> "interpret", llm |-> FALSE, events |-> {},
        event |-> NONE, decided |-> {}]
Review ==
    [pc |-> "review", want |-> NONE, kind |-> "review", decision |-> NONE,
     reviewed |-> NONE, loaded |-> NONE, facts |-> {}]
Note == [pc |-> "company", want |-> NONE, kind |-> "note", company |-> NONE, event |-> NONE]

-----------------------------------------------------------------------------
(* rules.py: the first rule with a phrase in the headline wins.            *)

_rule_order_win == [says |-> "order", proposes |-> {"catalyst"}]
_rule_management_resignation == [says |-> "resigns", proposes |-> {"risk"}]
_rule_dividend == [says |-> "dividend", proposes |-> {"thesis"}]
_rule_buyback == [says |-> "buyback", proposes |-> {"catalyst"}]
_rule_regulatory_approval == [says |-> "approval", proposes |-> {"catalyst"}]
_rule_plant_shutdown == [says |-> "shutdown", proposes |-> {"risk"}]
_rule_rating_downgrade == [says |-> "downgrade", proposes |-> {"risk"}]
_rule_capex_announcement == [says |-> "capex", proposes |-> {"catalyst"}]

_RULES ==
    <<_rule_order_win, _rule_management_resignation, _rule_dividend, _rule_buyback,
      _rule_regulatory_approval, _rule_plant_shutdown, _rule_rating_downgrade,
      _rule_capex_announcement>>

interpret_deterministic(headline) ==
    LET fired == {i \in DOMAIN _RULES : _RULES[i].says \in Says[headline]}
        first == CHOOSE i \in fired : \A j \in fired : i <= j
    IN  IF fired = {} THEN NONE ELSE _RULES[first].proposes

\* _to_candidate: the model proposes a catalyst, a risk, both or neither, and
\* never a thesis change.
Candidates(headline, use_llm) ==
    LET ruled == interpret_deterministic(headline)
    IN  IF ruled # NONE THEN {ruled} ELSE IF use_llm THEN Proposals ELSE {NONE}

-----------------------------------------------------------------------------
(* interpret-events.                                                       *)

\* The events of one company, or of all.
BeginInterpret(s) ==
    \E C \in {{c} : c \in {a.company : a \in Aliases}} \cup {{a.company : a \in Aliases}} :
    \E use_llm \in BOOLEAN :
        Start(s, [Run EXCEPT !.llm = use_llm,
                     !.events = {k \in Of(db, "event") : db[k].company \in C},
                     !.decided = {db[k].event : k \in Of(db, "interpretation")}])

InterpretationsOf(rows, event) ==
    {k \in Of(rows, "interpretation") : rows[k].event = event}

\* Mutant: only a pending reading keeps an event from being read again.
pending_only(s, event) ==
    \E k \in InterpretationsOf(View(s), event) : View(s)[k].status = "pending"

already_interpreted(s, event) == InterpretationsOf(View(s), event) # {}

\* The SELECT for one event: it is skipped if it has an interpretation, whatever was
\* decided of it.
LookUp(s) ==
    /\ At(s, "interpret")
    /\ \E e \in sess[s].events :
          LET rest == [sess[s] EXCEPT !.events = @ \ {e}]
          IN  Local(s, IF already_interpreted(s, e) THEN rest
                       ELSE [rest EXCEPT !.pc = "propose", !.event = e])

\* The answer of the rules or of the model, which may take its time, and the INSERT,
\* which does not look again.
Propose(s) ==
    LET e == sess[s].event
        after == [sess[s] EXCEPT !.pc = "interpret", !.event = NONE]
        row(candidate) == [event |-> e, company |-> View(s)[e].company,
                           proposes |-> candidate, status |-> "pending", facts |-> {}]
    IN  /\ At(s, "propose")
        /\ \E c \in Candidates(View(s)[e].headline, sess[s].llm) :
              IF c = NONE THEN Local(s, after)
              ELSE InsertRow(s, Interpretation(Fresh("interpretation")), row(c), after)

FinishInterpret(s) ==
    /\ At(s, "interpret") /\ sess[s].events = {}
    /\ Commit(s, Idle)

-----------------------------------------------------------------------------
(* review-interpretation.                                                  *)

\* What is no longer pending is not reviewed again.
Reviewable == {k \in Of(db, "interpretation") : db[k].status = "pending"}

BeginReview(s) ==
    \E k \in Reviewable : \E decision \in {"accepted", "rejected"} :
        Start(s, [Review EXCEPT !.decision = decision, !.reviewed = k,
                     !.loaded = db[k].status])

\* The facts of an accepted interpretation, inserted before it is marked.
CreateFacts(s) ==
    LET k == sess[s].reviewed
        facts == IF sess[s].decision = "rejected" THEN {}
                 ELSE {Fact(kind, Fresh(kind)) : kind \in View(s)[k].proposes}
        rows == [f \in facts |-> [company |-> View(s)[k].company,
                                  event |-> View(s)[k].event, from |-> k]]
    IN  /\ At(s, "review")
        /\ Insert(s, rows, [sess[s] EXCEPT !.pc = "mark", !.facts = facts, !.want = k])

\* Mutant: the decision without what came of it.
MarkDecision(s) ==
    /\ At(s, "mark")
    /\ FlushUpdate(s, [View(s)[sess[s].reviewed] EXCEPT !.status = sess[s].decision],
                   [sess[s] EXCEPT !.pc = "done"])

\* mark_accepted, mark_rejected: an UPDATE that waits for the row's lock.  A
\* rejection leaves the resulting ids alone.
Mark(s) ==
    /\ At(s, "mark")
    /\ FlushUpdate(s, [View(s)[sess[s].reviewed] EXCEPT
                          !.status = sess[s].decision,
                          !.facts = IF sess[s].decision = "accepted" THEN sess[s].facts ELSE @],
                   [sess[s] EXCEPT !.pc = "done"])

-----------------------------------------------------------------------------
(* record-research-note.                                                   *)

BeginNote(s) ==
    \E a \in Articles, e \in Of(db, "event") \cup {NONE} :
        Start(s, [Note EXCEPT !.company = a.company, !.event = e])

RecordNote(s) ==
    /\ At(s, "article") /\ sess[s].kind = "note"
    /\ InsertRow(s, Fact("note", Fresh("note")),
                 [company |-> sess[s].company, event |-> sess[s].event, from |-> NONE],
                 [sess[s] EXCEPT !.pc = "done"])

-----------------------------------------------------------------------------

Proceed(s) ==
    \/ NewsProceed(s)
    \/ LookUp(s) \/ Propose(s) \/ FinishInterpret(s)
    \/ CreateFacts(s) \/ Mark(s) \/ RecordNote(s)
    \/ DeadlockVictim(s)

Begin(s) == BeginNews(s) \/ BeginInterpret(s) \/ BeginReview(s) \/ BeginNote(s)

Init == \E rows \in Past : InitTransactions(rows)

Next == \E s \in Sessions : Begin(s) \/ Proceed(s) \/ Crash(s)

Spec == Init /\ [][Next]_txvars

-----------------------------------------------------------------------------
(* What every committed database is.                                       *)

\* Near duplicates of each other, of which the second was found within the window
\* after the first: the likeness of two texts depends on which comes first.
ToldAgain(rows, first, second) ==
    /\ first \in FoundLately(rows, rows[second].discovered)
    /\ is_near_duplicate(rows[first].headline, rows[second].headline)
    /\ is_near_duplicate(rows[second].headline, rows[first].headline)

\* More items were found in the window before this one than a sync compares with.
Crowded(rows, item) ==
    Cardinality(FoundLately(rows, rows[item].discovered)) > RecentLimit + 1

Apart(rows, first, second) ==
    /\ rows[first].headline # rows[second].headline
    /\ ToldAgain(rows, first, second) => Crowded(rows, second)

\* A source's story is stored once, if no more was found lately than is compared.
OneStory(rows) ==
    \A i, j \in Of(rows, "item") :
        (i # j /\ i[2] = j[2] /\ i[2] # "manual") => Apart(rows, i, j)

\* Where an item is filed under an event of a company.
Filed(rows, item, c) ==
    {x \in Of(rows, "eventitem") : x[3] = item /\ rows[x[2]].company = c}

\* A polled item is in exactly one event of every company it is linked to, an
\* event is about the story of one of its items, and nothing that is stored
\* refers to an item or an event that is not.
Supported(rows) ==
    /\ \A l \in Of(rows, "link") :
          /\ l[2] \in Of(rows, "item")
          /\ l[2][2] # "manual" => \E x \in Filed(rows, l[2], l[3]) : Filed(rows, l[2], l[3]) = {x}
    /\ \A x \in Of(rows, "eventitem") : x[2] \in Of(rows, "event") /\ x[3] \in Of(rows, "item")
    /\ \A e \in Of(rows, "event") : \E i \in Of(rows, "item") :
          EventItem(e, i) \in DOMAIN rows /\ rows[i].headline = rows[e].headline
    /\ \A k \in Of(rows, "interpretation") : rows[k].event \in Of(rows, "event")

\* Nothing a rule or a model proposed enters the research memory unless a review
\* decided so: a fact is about the event and company of an interpretation that
\* proposed it and is no longer pending, and what an accepted one lists is there.
Reviewed(rows) ==
    /\ \A kind \in FactKinds : \A f \in Of(rows, kind) :
          LET k == rows[f].from
          IN  /\ k \in Of(rows, "interpretation") /\ rows[k].status # "pending"
              /\ kind \in rows[k].proposes
              /\ rows[f].event = rows[k].event /\ rows[f].company = rows[k].company
    /\ \A k \in Of(rows, "interpretation") :
          /\ rows[k].facts \subseteq DOMAIN rows
          /\ rows[k].status = "accepted" => {f[1] : f \in rows[k].facts} = rows[k].proposes

EventColumns == {"company", "headline", "first_seen", "last_seen"}
InterpretationColumns == {"event", "company", "proposes", "status", "facts"}

Consistent(rows) ==
    /\ \A i \in Of(rows, "item") : rows[i].discovered \in Int /\ rows[i].discovered <= Now
    /\ \A e \in Of(rows, "event") : DOMAIN rows[e] = EventColumns
    /\ \A k \in Of(rows, "interpretation") :
          DOMAIN rows[k] = InterpretationColumns /\ rows[k].proposes \subseteq FactKinds
    /\ \A tag \in Numbered : IsFiniteSet(Of(rows, tag))
    /\ OneStory(rows) /\ Supported(rows) /\ Reviewed(rows)

\* The databases to start from may be any that the commands leave.
ASSUME InterpretationAssumption ==
    /\ IsFiniteSet(Sessions)
    /\ "manual" \notin Sources
    /\ Proposals \subseteq {NONE} \cup SUBSET FactKinds
    /\ \A rows \in Past : Consistent(rows)

-----------------------------------------------------------------------------
(* Properties.                                                             *)

TypeOK ==
    /\ DraftsDisjoint
    /\ \A k \in Of(db, "interpretation") :
          db[k].status \in {"pending", "accepted", "rejected"}

\* A source's story is stored once, however its headline is reworded and however
\* many syncs of that source run, but for one case: more items of all sources were
\* found in the window than list_recent returns.  What keeps overlapping syncs apart
\* is the row they count in.
OneStoryPerSource == OneStory(db)

\* Whatever is being filed at once, events are supported by the items that tell
\* of them, and every polled item is in one event of each of its companies.
EventsAreSupported == Supported(db)

\* Only a review makes a proposal part of the research memory, and all of it.
OnlyReviewedFacts == Reviewed(db)

\* What a command interprets had no interpretation when the command began, and gets
\* one from it.
Unread(s, event) ==
    /\ event \notin sess[s].decided
    /\ \A k \in Of(draft[s], "interpretation") : draft[s][k].event # event

\* A decision stands: only a review that had found the interpretation pending
\* may write over it, and no interpret-events reads again what had an
\* interpretation when it began, a rejected one for instance.
DecisionsStandStep ==
    /\ \A k \in Of(db, "interpretation") :
          (db[k].status # "pending" /\ db'[k] # db[k]) =>
             \E s \in Sessions :
                /\ At(s, "done") /\ sess[s].kind = "review"
                /\ sess[s].reviewed = k /\ sess[s].loaded = "pending"
    /\ \A s \in Sessions :
          \A k \in Of(draft'[s], "interpretation") \ DOMAIN View(s) :
             Unread(s, draft'[s][k].event)
DecisionsStand == [][DecisionsStandStep]_txvars

=============================================================================
