------------------------ MODULE InterpretationProofs ------------------------
(***************************************************************************)
(* News and what is made of it, for any number of concurrent commands, any *)
(* feeds, articles, similarity of headlines and answers of the language    *)
(* model, and any consistent database to start from: every committed       *)
(* database is consistent, and what a review decided stands.               *)
(***************************************************************************)
EXTENDS Interpretation, TransactionsProofs, WellFoundedInduction

-----------------------------------------------------------------------------
(* The inductive invariant.  Consistent says nothing of what is not        *)
(* committed, and a commit installs it: it must follow, for the view of a  *)
(* session that is done, from what holds of its draft D, of what it sees,  *)
(* V, and of the committed rows R.                                         *)

\* The fields of the commands.
NewsFields == {"pc", "want", "kind", "source", "feed", "seen", "counts", "item",
               "companies", "company", "event", "recent"}
RunFields == {"pc", "want", "kind", "llm", "events", "event", "decided"}
ReviewFields == {"pc", "want", "kind", "decision", "reviewed", "loaded", "facts"}
NoteFields == {"pc", "want", "kind", "company", "event"}
Shape(r, fields) == DOMAIN r = fields /\ r = [f \in fields |-> r[f]]

\* The steps of a poll and of an article, and what each works on.
NewsSteps(r) ==
    \/ /\ r.kind = "sync" /\ r.source # "manual"
       /\ r.pc \in {"fetch", "count", "recent", "entries", "link", "cluster", "join", "done"}
    \/ /\ r.kind = "record" /\ r.source = "manual"
       /\ r.pc \in {"company", "article", "link", "cluster", "join", "done"}

\* A headline is not that of an item, nor like it if the item is a recent one.
Unlike(r, headline, V, i) ==
    /\ V[i].headline # headline
    /\ i \in r.recent => ~is_near_duplicate(headline, V[i].headline)

\* The key a command wants is that of the row it is about to write, and an entry
\* that is about to be stored was compared with what its source has told.
NewsWant(r, V) ==
    /\ r.pc \in {"fetch", "recent"} => r.want = NONE
    /\ r.pc = "company" => r.want \in {NONE, Company(r.company)}
    /\ r.pc = "article" => r.want \in {NONE, Item("manual", Head(r.feed).url)}
    /\ r.pc = "count" => r.want \in {NONE, Reliability(r.source)}
    /\ r.pc = "entries" /\ r.want # NONE =>
          /\ r.want = Item(r.source, Head(r.feed).url)
          /\ \A i \in Of(V, "item") : i[2] = r.source => Unlike(r, Head(r.feed).headline, V, i)
    /\ r.pc = "link" /\ r.kind = "sync" => r.want = NONE
    /\ r.pc = "link" /\ r.want # NONE => \E c \in r.companies : r.want = Link(r.item, c)
    /\ r.pc = "cluster" /\ r.want # NONE =>
          r.want \in Of(V, "event") /\ V[r.want].company = r.company
    /\ r.pc = "join" => r.want \in {NONE, EventItem(r.event, r.item)}

\* Where a draft files an item under an event of a company.
FiledIn(D, V, item, c) == {x \in Of(D, "eventitem") : x[3] = item /\ V[x[2]].company = c}

\* The item at hand, and for a poll its companies: linked and filed, linked but not
\* filed, or neither.
ItemOk(r, D, V) ==
    /\ r.pc \in {"link", "cluster", "join"} => r.item \in Of(V, "item") /\ r.item[2] = r.source
    /\ r.kind = "sync" /\ r.pc \in {"link", "cluster", "join"} =>
          r.item \in Of(D, "item") /\ \A c \in r.companies : Link(r.item, c) \notin DOMAIN D
    /\ r.kind = "sync" /\ r.pc \in {"cluster", "join"} =>
          Link(r.item, r.company) \in DOMAIN D /\ FiledIn(D, V, r.item, r.company) = {}
    /\ r.pc = "join" => r.event \in Of(V, "event") /\ V[r.event].company = r.company

NewsTags == {"company", "reliability", "item", "link", "event", "eventitem"}

\* The new items, unlike all others of the source, whose counters are locked.
ItemsOk(r, D, V, R) ==
    /\ \A k \in DOMAIN D : k[1] \in NewsTags
    /\ r.pc \in {"fetch", "count", "recent"} => \A k \in DOMAIN D : k[1] = "reliability"
    /\ r.kind = "sync" /\ r.pc \notin {"fetch", "count"} => Reliability(r.source) \in DOMAIN D
    /\ \A i \in Of(D, "item") :
          /\ i \notin DOMAIN R /\ i[2] = r.source /\ D[i].discovered = Now
          /\ r.kind = "sync" =>
                \A j \in Of(V, "item") : i # j /\ j[2] = r.source =>
                    Apart(V, i, j) /\ Apart(V, j, i)

\* What the source has told lately a poll compares with, or more was found lately
\* than it compares with.
RecentOk(r, V) ==
    r.kind = "sync" /\ r.pc \in {"entries", "link", "cluster", "join"} =>
        \A i \in FoundLately(V, Now) :
            i[2] = r.source => i \in r.recent \/ Cardinality(FoundLately(V, Now)) > RecentLimit

\* The new links and where their items are filed.
LinksOk(r, D, V, R) ==
    /\ \A l \in Of(D, "link") :
          /\ l \notin DOMAIN R /\ l = Link(l[2], l[3])
          /\ l[2] \in Of(V, "item") /\ l[2][2] = r.source
          /\ r.kind = "sync" =>
                /\ l[2] \in Of(D, "item")
                /\ \/ r.pc \in {"cluster", "join"} /\ l = Link(r.item, r.company)
                   \/ \E x \in FiledIn(D, V, l[2], l[3]) : FiledIn(D, V, l[2], l[3]) = {x}
    /\ \A x \in Of(D, "eventitem") :
          /\ x \notin DOMAIN R
          /\ x[2] \in Of(V, "event") /\ x[3] \in Of(V, "item") /\ x[3][2] = r.source
          /\ r.kind = "sync" =>
                x[3] \in Of(D, "item") /\ Link(x[3], V[x[2]].company) \in DOMAIN D

\* An event has an item that tells its story, but for the one that is about to get it.
About(V, e) ==
    \E i \in Of(V, "item") : EventItem(e, i) \in DOMAIN V /\ V[i].headline = V[e].headline
EventsOk(r, D, V, R) ==
    \A e \in Of(D, "event") :
        /\ DOMAIN D[e] = EventColumns
        /\ e \in DOMAIN R => D[e].company = R[e].company /\ D[e].headline = R[e].headline
        /\ About(V, e) \/ (r.pc = "join" /\ r.event = e /\ V[r.item].headline = V[e].headline)

NewsOk(r, D, V, R) ==
    /\ Shape(r, NewsFields) /\ NewsSteps(r) /\ NewsWant(r, V) /\ ItemOk(r, D, V)
    /\ ItemsOk(r, D, V, R) /\ LinksOk(r, D, V, R) /\ EventsOk(r, D, V, R)
    /\ RecentOk(r, V)

\* New readings, all pending, of events that are stored: each of another one, that
\* had none when the command began.
RunOk(r, D, R) ==
    /\ Shape(r, RunFields) /\ r.kind = "interpret" /\ r.pc \in {"interpret", "propose"}
    /\ r.events \subseteq Of(R, "event")
    /\ \A e \in r.decided : InterpretationsOf(R, e) # {}
    /\ r.pc = "propose" =>
          /\ r.event \in Of(R, "event") /\ r.event \notin r.events \cup r.decided
          /\ \A k \in DOMAIN D : D[k].event # r.event
    /\ \A k \in DOMAIN D :
          /\ k \in Of(D, "interpretation") /\ k \notin DOMAIN R
          /\ DOMAIN D[k] = InterpretationColumns
          /\ D[k].event \in Of(R, "event") /\ D[k].proposes \subseteq FactKinds
          /\ D[k].event \notin r.events
          /\ D[k].status = "pending" /\ D[k].facts = {}

\* The facts a review decided on, then its decision.
ReviewOk(r, D, R) ==
    LET k == r.reviewed
    IN  /\ Shape(r, ReviewFields) /\ r.kind = "review" /\ r.loaded = "pending"
        /\ r.decision \in {"accepted", "rejected"}
        /\ k \in Of(R, "interpretation")
        /\ DOMAIN D \subseteq r.facts \cup {k}
        /\ r.pc \in {"review", "mark"} => k \notin DOMAIN D
        /\ \/ r.pc = "review" /\ r.facts = {} /\ r.want = NONE
           \/ r.pc = "mark" /\ r.want = k
           \/ /\ r.pc = "done" /\ k \in DOMAIN D
              /\ DOMAIN D[k] = InterpretationColumns
              /\ D[k].status = r.decision /\ D[k].event = R[k].event
              /\ D[k].company = R[k].company /\ D[k].proposes = R[k].proposes
              /\ D[k].facts \subseteq DOMAIN R \cup DOMAIN D
              /\ r.decision = "accepted" => D[k].facts = r.facts
        /\ \A f \in r.facts :
              /\ f \in DOMAIN D /\ f \notin DOMAIN R /\ f[1] \in R[k].proposes
              /\ D[f].from = k /\ D[f].event = R[k].event /\ D[f].company = R[k].company
        /\ r.pc # "review" /\ r.decision = "accepted" => {f[1] : f \in r.facts} = R[k].proposes

\* A note, and perhaps its company.
NoteOk(r, D, R) ==
    /\ Shape(r, NoteFields) /\ r.kind = "note" /\ r.pc \in {"company", "article", "done"}
    /\ r.pc = "company" => r.want \in {NONE, Company(r.company)}
    /\ \A k \in DOMAIN D : k[1] \in {"company", "note"} /\ k \notin DOMAIN R

Ok(r, D, V, R) ==
    IF r.pc = "idle" THEN DOMAIN D = {}
    ELSE NewsOk(r, D, V, R) \/ RunOk(r, D, R) \/ ReviewOk(r, D, R) \/ NoteOk(r, D, R)

IInv ==
    /\ DraftsDisjoint
    /\ draft = [s \in Sessions |-> draft[s]] /\ sess = [s \in Sessions |-> sess[s]]
    /\ \A tag \in Numbered : FiniteTable(tag)
    /\ Consistent(db)
    /\ \A s \in Sessions : Ok(sess[s], draft[s], View(s), db)

-----------------------------------------------------------------------------
(* Views, drafts and databases that grow.                                  *)

\* What a session sees: the committed rows under those of its draft.
Overlay(D, V, R) ==
    /\ DOMAIN V = DOMAIN R \cup DOMAIN D
    /\ \A k \in DOMAIN V : V[k] = IF k \in DOMAIN D THEN D[k] ELSE R[k]

\* What never changes of a row.
Stands(V, W) ==
    /\ DOMAIN V \subseteq DOMAIN W
    /\ \A k \in Of(V, "item") : W[k] = V[k]
    /\ \A k \in Of(V, "event") : W[k].company = V[k].company /\ W[k].headline = V[k].headline
    /\ \A k \in Of(V, "interpretation") :
          /\ W[k].event = V[k].event /\ W[k].company = V[k].company
          /\ W[k].proposes = V[k].proposes

\* The commit of another session, as one that holds the draft D sees it.
Grows(D, R, R2) ==
    /\ Stands(R, R2)
    /\ \A k \in DOMAIN D : k \notin DOMAIN R => k \notin DOMAIN R2
    /\ \A i \in Of(R2, "item") :
          i \notin DOMAIN R /\ i[2] # "manual" => Reliability(i[2]) \notin DOMAIN D

LEMMA ViewIs ==
  ASSUME NEW s \in Sessions
  PROVE  Overlay(draft[s], View(s), db)
  BY DEF Overlay, View

LEMMA ViewsStand ==
  ASSUME NEW D, NEW V, NEW R, NEW V2, NEW R2,
         Overlay(D, V, R), Overlay(D, V2, R2), Stands(R, R2)
  PROVE  Stands(V, V2)
<1>1. DOMAIN V \subseteq DOMAIN V2
  BY DEF Overlay, Stands
<1>2. \A k \in DOMAIN V : k \in DOMAIN D => V2[k] = V[k]
  BY <1>1 DEF Overlay
<1>3. \A k \in DOMAIN V : k \notin DOMAIN D =>
          k \in DOMAIN R /\ k \in DOMAIN R2 /\ V[k] = R[k] /\ V2[k] = R2[k]
  BY <1>1 DEF Overlay, Stands
<1> QED  BY <1>1, <1>2, <1>3 DEF Stands, Of

-----------------------------------------------------------------------------
(* What was found lately.                                                  *)

LEMMA LatelyStands ==
  ASSUME NEW V, NEW V2, Stands(V, V2), IsFiniteSet(Of(V2, "item")), NEW now
  PROVE  /\ FoundLately(V, now) \subseteq FoundLately(V2, now)
         /\ FoundLately(V2, now) \cap Of(V, "item") \subseteq FoundLately(V, now)
         /\ IsFiniteSet(FoundLately(V2, now))
         /\ Cardinality(FoundLately(V, now)) \in Nat
         /\ Cardinality(FoundLately(V2, now)) \in Nat
         /\ Cardinality(FoundLately(V, now)) <= Cardinality(FoundLately(V2, now))
<1>1. FoundLately(V, now) \subseteq FoundLately(V2, now)
  BY DEF FoundLately, Stands, Of
<1>2. FoundLately(V2, now) \cap Of(V, "item") \subseteq FoundLately(V, now)
  BY DEF FoundLately, Stands
<1>3. IsFiniteSet(FoundLately(V2, now))
  <2>1. FoundLately(V2, now) \subseteq Of(V2, "item")
    BY DEF FoundLately
  <2> QED  BY <2>1, FS_Subset
<1>4. /\ IsFiniteSet(FoundLately(V, now))
      /\ Cardinality(FoundLately(V, now)) <= Cardinality(FoundLately(V2, now))
  BY <1>1, <1>3, FS_Subset
<1> QED  BY <1>1, <1>2, <1>3, <1>4, FS_CardinalityType

\* Two stories that are apart stay so while the database grows.
LEMMA ApartStands ==
  ASSUME NEW V, NEW V2, Stands(V, V2), IsFiniteSet(Of(V2, "item")), NewsAssumption,
         NEW i \in Of(V, "item"), NEW j \in Of(V, "item"), Apart(V, i, j)
  PROVE  Apart(V2, i, j)
<1>1. V2[i] = V[i] /\ V2[j] = V[j]
  BY DEF Stands
<1> DEFINE now == V[j].discovered
<1>2. ToldAgain(V2, i, j) => ToldAgain(V, i, j)
  BY <1>1, LatelyStands DEF ToldAgain
<1>3. Crowded(V, j) => Crowded(V2, j)
  <2>1. /\ Cardinality(FoundLately(V, now)) \in Nat /\ Cardinality(FoundLately(V2, now)) \in Nat
        /\ Cardinality(FoundLately(V, now)) <= Cardinality(FoundLately(V2, now))
    BY LatelyStands
  <2> QED  BY <1>1, <2>1 DEF Crowded, NewsAssumption
<1> QED  BY <1>1, <1>2, <1>3 DEF Apart

LEMMA LatelySame ==
  ASSUME NEW V, NEW V2, Of(V2, "item") = Of(V, "item"), \A k \in Of(V, "item") : V2[k] = V[k]
  PROVE  /\ \A now : FoundLately(V2, now) = FoundLately(V, now)
         /\ \A i, j \in Of(V, "item") : Apart(V2, i, j) <=> Apart(V, i, j)
<1>1. \A now : FoundLately(V2, now) = FoundLately(V, now)
  BY DEF FoundLately
<1> QED  BY <1>1 DEF Apart, ToldAgain, Crowded

-----------------------------------------------------------------------------
(* What another session commits disturbs no command.                       *)

LEMMA WantStands ==
  ASSUME NEW r, NEW V, NEW V2, Stands(V, V2), NewsWant(r, V),
         \A i \in Of(V2, "item") : i[2] = r.source /\ r.pc = "entries" => i \in DOMAIN V
  PROVE  NewsWant(r, V2)
<1>1. Of(V, "event") \subseteq Of(V2, "event")
  BY DEF Stands, Of
<1>2. \A i \in Of(V2, "item") : i[2] = r.source /\ r.pc = "entries" =>
          i \in Of(V, "item") /\ V2[i] = V[i]
  BY DEF Stands, Of
<1> QED  BY <1>1, <1>2 DEF NewsWant, Unlike, Stands

LEMMA FiledStands ==
  ASSUME NEW D, NEW V, NEW V2, Stands(V, V2),
         \A x \in Of(D, "eventitem") : x[2] \in Of(V, "event")
  PROVE  \A item, c : FiledIn(D, V2, item, c) = FiledIn(D, V, item, c)
  BY DEF FiledIn, Stands

LEMMA NewsStands ==
  ASSUME NEW r, NEW D, NEW V, NEW R, NEW V2, NEW R2,
         Overlay(D, V, R), Overlay(D, V2, R2), Grows(D, R, R2), NewsOk(r, D, V, R),
         IsFiniteSet(Of(V2, "item")), NewsAssumption
  PROVE  NewsOk(r, D, V2, R2)
<1>1. Stands(R, R2) /\ Stands(V, V2)
  BY ViewsStand DEF Grows
<1>2. \A tag : Of(V, tag) \subseteq Of(V2, tag)
  BY <1>1 DEF Stands, Of
<1>3. \A item, c : FiledIn(D, V2, item, c) = FiledIn(D, V, item, c)
  BY <1>1, FiledStands DEF NewsOk, LinksOk
<1>4. ASSUME NEW i \in Of(V2, "item"), i[2] = r.source, r.kind = "sync",
             r.pc \notin {"fetch", "count"}
      PROVE  i \in Of(V, "item") /\ V2[i] = V[i]
  <2>1. r.source # "manual" /\ Reliability(r.source) \in DOMAIN D
    BY <1>4 DEF NewsOk, NewsSteps, ItemsOk
  <2>2. i \in DOMAIN V
    BY <1>4, <2>1 DEF Overlay, Grows, Of
  <2> QED  BY <1>1, <1>4, <2>2 DEF Stands, Of
<1>5. NewsWant(r, V2)
  <2>1. r.pc = "entries" => r.kind = "sync"
    BY DEF NewsOk, NewsSteps
  <2> QED  BY <1>1, <1>4, <2>1, WantStands DEF NewsOk, Of
<1>6. ItemOk(r, D, V2)
  BY <1>1, <1>2, <1>3 DEF NewsOk, ItemOk, Stands
<1>7. ItemsOk(r, D, V2, R2)
  <2>1. \A i \in Of(D, "item") : i \notin DOMAIN R2
    BY DEF NewsOk, ItemsOk, Grows, Of
  <2>2. ASSUME r.pc \in {"fetch", "count"} PROVE Of(D, "item") = {}
    BY <2>2 DEF NewsOk, ItemsOk, Of
  <2>3. ASSUME NEW i \in Of(D, "item"), NEW j \in Of(V2, "item"), r.kind = "sync",
               i # j, j[2] = r.source
        PROVE  Apart(V2, i, j) /\ Apart(V2, j, i)
    <3>1. i \in Of(V, "item")
      BY DEF Overlay, Of
    <3>2. j \in Of(V, "item")
      BY <1>4, <2>2, <2>3
    <3>3. Apart(V, i, j) /\ Apart(V, j, i)
      BY <2>3, <3>2 DEF NewsOk, ItemsOk
    <3> QED  BY <1>1, <3>1, <3>2, <3>3, ApartStands
  <2> QED  BY <2>1, <2>3 DEF NewsOk, ItemsOk
<1>8. LinksOk(r, D, V2, R2)
  <2>1. \A k \in DOMAIN D : k \notin DOMAIN R => k \notin DOMAIN R2
    BY DEF Grows
  <2>2. \A x \in Of(D, "eventitem") : V2[x[2]].company = V[x[2]].company
    BY <1>1 DEF NewsOk, LinksOk, Stands
  <2>3. \A tag : Of(D, tag) \subseteq DOMAIN D
    BY DEF Of
  <2>4. LinksOk(r, D, V, R)
    BY DEF NewsOk
  <2>5. ASSUME NEW l \in Of(D, "link")
        PROVE  /\ l \notin DOMAIN R2 /\ l = Link(l[2], l[3])
               /\ l[2] \in Of(V2, "item") /\ l[2][2] = r.source
               /\ r.kind = "sync" =>
                     /\ l[2] \in Of(D, "item")
                     /\ \/ r.pc \in {"cluster", "join"} /\ l = Link(r.item, r.company)
                        \/ \E x \in FiledIn(D, V2, l[2], l[3]) :
                              FiledIn(D, V2, l[2], l[3]) = {x}
    BY <1>2, <1>3, <2>1, <2>3, <2>4 DEF LinksOk
  <2>6. ASSUME NEW x \in Of(D, "eventitem")
        PROVE  /\ x \notin DOMAIN R2
               /\ x[2] \in Of(V2, "event") /\ x[3] \in Of(V2, "item") /\ x[3][2] = r.source
               /\ r.kind = "sync" =>
                     x[3] \in Of(D, "item") /\ Link(x[3], V2[x[2]].company) \in DOMAIN D
    BY <1>2, <2>1, <2>2, <2>3, <2>4 DEF LinksOk
  <2> QED  BY <2>5, <2>6 DEF LinksOk
<1>9. EventsOk(r, D, V2, R2)
  <2> SUFFICES ASSUME NEW e \in Of(D, "event")
               PROVE  /\ e \in DOMAIN R2 => D[e].company = R2[e].company
                                           /\ D[e].headline = R2[e].headline
                      /\ \/ About(V2, e)
                         \/ r.pc = "join" /\ r.event = e /\ V2[r.item].headline = V2[e].headline
    BY DEF NewsOk, EventsOk
  <2>1. e \in Of(V, "event") /\ V2[e].headline = V[e].headline
    BY <1>1 DEF Overlay, Of, Stands
  <2>2. e \in DOMAIN R2 => D[e].company = R2[e].company /\ D[e].headline = R2[e].headline
    BY <1>1 DEF NewsOk, EventsOk, Grows, Stands, Of
  <2>3. About(V, e) => About(V2, e)
    BY <1>1, <1>2, <2>1 DEF About, Stands
  <2>4. r.pc = "join" => V2[r.item] = V[r.item]
    BY <1>1 DEF NewsOk, ItemOk, Stands
  <2> QED  BY <2>1, <2>2, <2>3, <2>4 DEF NewsOk, EventsOk
<1>10. RecentOk(r, V2)
  <2> SUFFICES ASSUME r.kind = "sync", r.pc \in {"entries", "link", "cluster", "join"},
                      NEW i \in FoundLately(V2, Now), i[2] = r.source
               PROVE  \/ i \in r.recent
                      \/ Cardinality(FoundLately(V2, Now)) > RecentLimit
    BY DEF RecentOk
  <2>1. i \in FoundLately(V, Now)
    BY <1>1, <1>4, LatelyStands DEF FoundLately
  <2>2. i \in r.recent \/ Cardinality(FoundLately(V, Now)) > RecentLimit
    BY <2>1 DEF NewsOk, RecentOk
  <2>3. /\ Cardinality(FoundLately(V, Now)) \in Nat /\ Cardinality(FoundLately(V2, Now)) \in Nat
        /\ Cardinality(FoundLately(V, Now)) <= Cardinality(FoundLately(V2, Now))
    BY <1>1, LatelyStands
  <2> QED  BY <2>2, <2>3 DEF NewsAssumption
<1> QED  BY <1>5, <1>6, <1>7, <1>8, <1>9, <1>10 DEF NewsOk

LEMMA OthersStand ==
  ASSUME NEW r, NEW D, NEW R, NEW R2, Grows(D, R, R2)
  PROVE  /\ RunOk(r, D, R) => RunOk(r, D, R2)
         /\ ReviewOk(r, D, R) => ReviewOk(r, D, R2)
         /\ NoteOk(r, D, R) => NoteOk(r, D, R2)
<1>1. \A tag : Of(R, tag) \subseteq Of(R2, tag)
  BY DEF Grows, Stands, Of
<1>2. \A k \in DOMAIN D : k \notin DOMAIN R => k \notin DOMAIN R2
  BY DEF Grows
<1>3. RunOk(r, D, R) => RunOk(r, D, R2)
  <2>1. \A e : InterpretationsOf(R, e) # {} => InterpretationsOf(R2, e) # {}
    BY <1>1 DEF Grows, Stands, InterpretationsOf
  <2> QED  BY <1>1, <1>2, <2>1 DEF RunOk
<1>4. NoteOk(r, D, R) => NoteOk(r, D, R2)
  BY <1>2 DEF NoteOk
<1>5. ASSUME ReviewOk(r, D, R) PROVE ReviewOk(r, D, R2)
  <2> DEFINE k == r.reviewed
  <2>1. k \in Of(R, "interpretation")
    BY <1>5 DEF ReviewOk
  <2>2. /\ k \in Of(R2, "interpretation") /\ R2[k].event = R[k].event
        /\ R2[k].company = R[k].company /\ R2[k].proposes = R[k].proposes
    BY <1>1, <2>1 DEF Grows, Stands
  <2>3. DOMAIN R \subseteq DOMAIN R2
    BY DEF Grows, Stands
  <2> QED  BY <1>2, <1>5, <2>2, <2>3 DEF ReviewOk
<1> QED  BY <1>3, <1>4, <1>5

LEMMA OkStands ==
  ASSUME NEW r, NEW D, NEW V, NEW R, NEW V2, NEW R2,
         Overlay(D, V, R), Overlay(D, V2, R2), Grows(D, R, R2), Ok(r, D, V, R),
         IsFiniteSet(Of(V2, "item")), NewsAssumption
  PROVE  Ok(r, D, V2, R2)
  BY NewsStands, OthersStand DEF Ok

-----------------------------------------------------------------------------
(* What a session commits is consistent.                                   *)

LEMMA TablesAdd ==
  ASSUME NEW D, NEW V, NEW R, Overlay(D, V, R)
  PROVE  \A tag : Of(V, tag) = Of(R, tag) \cup Of(D, tag)
  BY DEF Overlay, Of

LEMMA FiniteAdd ==
  ASSUME NEW D, NEW V, NEW R, Overlay(D, V, R),
         \A tag \in Numbered : IsFiniteSet(Of(R, tag)) /\ IsFiniteSet(Of(D, tag))
  PROVE  \A tag \in Numbered : IsFiniteSet(Of(V, tag))
<1> SUFFICES ASSUME NEW tag \in Numbered PROVE IsFiniteSet(Of(V, tag))
  OBVIOUS
<1>1. Of(V, tag) = Of(R, tag) \cup Of(D, tag)
  BY TablesAdd
<1> QED  BY <1>1, FS_Union

\* A draft without facts or decisions leaves the research memory as it was.
LEMMA ReviewsStay ==
  ASSUME NEW D, NEW V, NEW R, Overlay(D, V, R), Reviewed(R),
         \A k \in DOMAIN D : k[1] \notin FactKinds \cup {"interpretation"}
  PROVE  Reviewed(V)
<1>1. \A tag \in FactKinds \cup {"interpretation"} :
         Of(V, tag) = Of(R, tag) /\ \A k \in Of(V, tag) : V[k] = R[k]
  BY DEF Overlay, Of
<1>2. DOMAIN R \subseteq DOMAIN V
  BY DEF Overlay
<1> QED  BY <1>1, <1>2 DEF Reviewed

\* A draft without news leaves the news as they were.
LEMMA NewsStay ==
  ASSUME NEW D, NEW V, NEW R, Overlay(D, V, R), OneStory(R), Supported(R),
         \A k \in DOMAIN D : k[1] \notin {"item", "link", "event", "eventitem"},
         \A k \in Of(D, "interpretation") : D[k].event \in Of(R, "event")
  PROVE  OneStory(V) /\ Supported(V)
<1>1. \A tag \in {"item", "link", "event", "eventitem"} :
         Of(V, tag) = Of(R, tag) /\ \A k \in Of(V, tag) : V[k] = R[k]
  BY DEF Overlay, Of
<1>2. OneStory(V)
  <2>1. /\ Of(V, "item") = Of(R, "item")
        /\ \A i, j \in Of(R, "item") : Apart(V, i, j) <=> Apart(R, i, j)
    BY <1>1, LatelySame
  <2> QED  BY <2>1 DEF OneStory
<1>3. \A item, c : Filed(V, item, c) = Filed(R, item, c)
  BY <1>1 DEF Filed, Supported
<1>4. ASSUME NEW l \in Of(V, "link")
      PROVE  /\ l[2] \in Of(V, "item")
             /\ l[2][2] # "manual" =>
                   \E x \in Filed(V, l[2], l[3]) : Filed(V, l[2], l[3]) = {x}
  BY <1>1, <1>3 DEF Supported
<1>5. \A x \in Of(V, "eventitem") : x[2] \in Of(V, "event") /\ x[3] \in Of(V, "item")
  BY <1>1 DEF Supported
<1>6. ASSUME NEW e \in Of(V, "event")
      PROVE  \E i \in Of(V, "item") : EventItem(e, i) \in DOMAIN V /\ V[i].headline = V[e].headline
  BY <1>1 DEF Supported, Overlay
<1>7. ASSUME NEW k \in Of(V, "interpretation")
      PROVE  V[k].event \in Of(V, "event")
  <2>1. CASE k \in DOMAIN D
    BY <1>1, <2>1 DEF Overlay, Of
  <2>2. CASE k \notin DOMAIN D
    <3>1. k \in Of(R, "interpretation") /\ V[k] = R[k]
      BY <2>2 DEF Overlay, Of
    <3> QED  BY <1>1, <3>1 DEF Supported
  <2> QED  BY <2>1, <2>2
<1> QED  BY <1>2, <1>4, <1>5, <1>6, <1>7 DEF Supported

LEMMA NewsCommits ==
  ASSUME NEW r, NEW D, NEW V, NEW R, Overlay(D, V, R), Consistent(R),
         NewsOk(r, D, V, R), r.pc = "done", NewsAssumption,
         \A tag \in Numbered : IsFiniteSet(Of(D, tag))
  PROVE  Consistent(V) /\ Stands(R, V)
<1>1. /\ \A k \in DOMAIN D : k \in DOMAIN V /\ V[k] = D[k] /\ k[1] \in NewsTags
      /\ \A k \in DOMAIN R : k \in DOMAIN V /\ (k \notin DOMAIN D => V[k] = R[k])
      /\ \A k \in DOMAIN V : k \in DOMAIN D \/ k \in DOMAIN R
  BY DEF Overlay, NewsOk, ItemsOk
<1>2. \A tag : Of(V, tag) = Of(R, tag) \cup Of(D, tag)
  BY TablesAdd
<1>3. Stands(R, V)
  <2>1. \A k \in Of(R, "item") : V[k] = R[k]
    BY <1>1 DEF NewsOk, ItemsOk, Of
  <2>2. \A k \in Of(R, "event") : V[k].company = R[k].company /\ V[k].headline = R[k].headline
    BY <1>1 DEF NewsOk, EventsOk, Of
  <2>3. \A k \in Of(R, "interpretation") : V[k] = R[k]
    BY <1>1 DEF NewsTags, Of
  <2> QED  BY <1>1, <2>1, <2>2, <2>3 DEF Stands
<1>4. \A i \in Of(V, "item") : V[i].discovered \in Int /\ V[i].discovered <= Now
  <2>1. \A i \in Of(D, "item") : V[i].discovered = Now
    BY <1>1 DEF NewsOk, ItemsOk, Of
  <2>2. \A i \in Of(R, "item") : V[i] = R[i]
    BY <1>3 DEF Stands
  <2> QED  BY <1>2, <2>1, <2>2 DEF Consistent, NewsAssumption
<1>5. OneStory(V)
  <2> SUFFICES ASSUME NEW i \in Of(V, "item"), NEW j \in Of(V, "item"),
                      i # j, i[2] = j[2], i[2] # "manual"
               PROVE  Apart(V, i, j)
    BY DEF OneStory
  <2>1. ASSUME NEW a \in Of(D, "item"), NEW b \in Of(V, "item"), a # b, b[2] = a[2],
               a[2] # "manual"
        PROVE  Apart(V, a, b) /\ Apart(V, b, a)
    BY <2>1 DEF NewsOk, ItemsOk, NewsSteps, Of
  <2>2. CASE i \in Of(D, "item")
    BY <2>1, <2>2
  <2>3. CASE j \in Of(D, "item")
    BY <2>1, <2>3
  <2>4. CASE i \in Of(R, "item") /\ j \in Of(R, "item")
    <3>1. Apart(R, i, j)
      BY <2>4 DEF Consistent, OneStory
    <3>2. IsFiniteSet(Of(V, "item"))
      BY FiniteAdd DEF Consistent, Numbered
    <3> QED  BY <1>3, <2>4, <3>1, <3>2, ApartStands
  <2> QED  BY <1>2, <2>2, <2>3, <2>4
<1>6. Supported(V)
  <2>1. Supported(R) /\ LinksOk(r, D, V, R)
    BY DEF Consistent, NewsOk
  <2>2. \A i \in Of(D, "item") : i \notin DOMAIN R
    BY DEF NewsOk, ItemsOk
  <2>3. r.source # "manual" <=> r.kind = "sync"
    BY DEF NewsOk, NewsSteps
  <2>4. ASSUME NEW l \in Of(V, "link")
        PROVE  /\ l[2] \in Of(V, "item")
               /\ l[2][2] # "manual" =>
                     \E x \in Filed(V, l[2], l[3]) : Filed(V, l[2], l[3]) = {x}
    <3>1. CASE l \in Of(D, "link")
      <4>1. l[2] \in Of(V, "item") /\ l[2][2] = r.source
        BY <2>1, <3>1 DEF LinksOk
      <4>2. ASSUME r.kind = "sync"
            PROVE  Filed(V, l[2], l[3]) = FiledIn(D, V, l[2], l[3])
        <5>1. l[2] \in Of(D, "item")
          BY <2>1, <3>1, <4>2 DEF LinksOk
        <5>2. \A x \in Of(R, "eventitem") : x[3] # l[2]
          BY <2>1, <2>2, <5>1 DEF Supported, Of
        <5> QED  BY <1>2, <5>2 DEF Filed, FiledIn
      <4>3. ASSUME r.kind = "sync"
            PROVE  \E x \in FiledIn(D, V, l[2], l[3]) : FiledIn(D, V, l[2], l[3]) = {x}
        BY <2>1, <3>1, <4>3 DEF LinksOk
      <4> QED  BY <2>3, <4>1, <4>2, <4>3
    <3>2. CASE l \in Of(R, "link")
      <4>1. l[2] \in Of(R, "item")
        BY <2>1, <3>2 DEF Supported
      <4>2. ASSUME l[2][2] # "manual"
            PROVE  Filed(V, l[2], l[3]) = Filed(R, l[2], l[3])
        <5>1. \A x \in Of(D, "eventitem") : x[3] # l[2]
          BY <2>1, <2>2, <2>3, <4>1, <4>2 DEF LinksOk, Of
        <5>2. \A x \in Of(R, "eventitem") : V[x[2]].company = R[x[2]].company
          BY <1>3, <2>1 DEF Supported, Stands
        <5> QED  BY <1>2, <5>1, <5>2 DEF Filed
      <4>3. l[2][2] # "manual" =>
              \E x \in Filed(R, l[2], l[3]) : Filed(R, l[2], l[3]) = {x}
        BY <2>1, <3>2 DEF Supported
      <4> QED  BY <1>2, <4>1, <4>2, <4>3
    <3> QED  BY <1>2, <3>1, <3>2
  <2>5. ASSUME NEW x \in Of(V, "eventitem")
        PROVE  x[2] \in Of(V, "event") /\ x[3] \in Of(V, "item")
    BY <1>2, <2>1 DEF Supported, LinksOk
  <2>6. ASSUME NEW e \in Of(V, "event")
        PROVE  About(V, e)
    <3>1. CASE e \in Of(D, "event")
      BY <3>1 DEF NewsOk, EventsOk
    <3>2. CASE e \in Of(R, "event")
      <4>1. PICK i \in Of(R, "item") :
               EventItem(e, i) \in DOMAIN R /\ R[i].headline = R[e].headline
        BY <2>1, <3>2 DEF Supported
      <4> QED  BY <1>1, <1>2, <1>3, <3>2, <4>1 DEF Stands, About
    <3> QED  BY <1>2, <3>1, <3>2
  <2>7. ASSUME NEW k \in Of(V, "interpretation")
        PROVE  V[k].event \in Of(V, "event")
    <3>1. k \in Of(R, "interpretation") /\ V[k] = R[k]
      BY <1>1 DEF NewsTags, Of
    <3> QED  BY <1>2, <2>1, <3>1 DEF Supported
  <2> QED  BY <2>4, <2>5, <2>6, <2>7 DEF Supported, About
<1>7. Reviewed(V)
  BY <1>1, ReviewsStay DEF Consistent, NewsTags, FactKinds
<1>8. \A e \in Of(V, "event") : DOMAIN V[e] = EventColumns
  BY <1>1, <1>2 DEF NewsOk, EventsOk, Consistent, Of
<1>9. \A k \in Of(V, "interpretation") :
         DOMAIN V[k] = InterpretationColumns /\ V[k].proposes \subseteq FactKinds
  <2>1. \A k \in Of(V, "interpretation") : k \in Of(R, "interpretation") /\ V[k] = R[k]
    BY <1>1 DEF NewsTags, Of
  <2> QED  BY <2>1 DEF Consistent
<1>10. \A tag \in Numbered : IsFiniteSet(Of(V, tag))
  BY FiniteAdd DEF Consistent
<1> QED  BY <1>3, <1>4, <1>5, <1>6, <1>7, <1>8, <1>9, <1>10 DEF Consistent

LEMMA RunCommits ==
  ASSUME NEW r, NEW D, NEW V, NEW R, Overlay(D, V, R), Consistent(R), RunOk(r, D, R),
         \A tag \in Numbered : IsFiniteSet(Of(D, tag))
  PROVE  Consistent(V) /\ Stands(R, V)
<1>1. /\ \A k \in DOMAIN D : k \in DOMAIN V /\ V[k] = D[k] /\ k[1] = "interpretation"
      /\ \A k \in DOMAIN R : k \in DOMAIN V /\ V[k] = R[k] /\ k \notin DOMAIN D
      /\ \A k \in DOMAIN V : k \in DOMAIN D \/ k \in DOMAIN R
  <2>1. \A k \in DOMAIN D : k \notin DOMAIN R /\ k[1] = "interpretation"
    BY DEF RunOk, Of
  <2> QED  BY <2>1 DEF Overlay
<1>2. \A tag : Of(V, tag) = Of(R, tag) \cup Of(D, tag)
  BY TablesAdd
<1>3. Stands(R, V)
  BY <1>1 DEF Stands, Of
<1>4. OneStory(V) /\ Supported(V)
  BY <1>1, NewsStay DEF RunOk, Consistent, Of
<1>5. \A kind \in FactKinds \cup {"item", "event"} :
        \A f \in Of(V, kind) : f \in Of(R, kind) /\ V[f] = R[f]
  BY <1>1 DEF Of, FactKinds
<1>6. \A k \in Of(R, "interpretation") : k \in Of(V, "interpretation") /\ V[k] = R[k]
  BY <1>1 DEF Of
<1>7. \A k \in Of(V, "interpretation") :
        k \in Of(R, "interpretation")
        \/ /\ DOMAIN V[k] = InterpretationColumns /\ V[k].proposes \subseteq FactKinds
           /\ V[k].status = "pending" /\ V[k].facts = {}
  BY <1>1 DEF RunOk, Of
<1>8. Reviewed(V)
  <2>1. DOMAIN R \subseteq DOMAIN V /\ Reviewed(R)
    BY <1>1 DEF Consistent
  <2>2. ASSUME NEW kind \in FactKinds, NEW f \in Of(V, kind)
        PROVE  LET k == V[f].from
               IN  /\ k \in Of(V, "interpretation") /\ V[k].status # "pending"
                   /\ kind \in V[k].proposes
                   /\ V[f].event = V[k].event /\ V[f].company = V[k].company
    BY <1>5, <1>6, <2>1 DEF Reviewed
  <2>3. ASSUME NEW k \in Of(V, "interpretation")
        PROVE  /\ V[k].facts \subseteq DOMAIN V
               /\ V[k].status = "accepted" => {f[1] : f \in V[k].facts} = V[k].proposes
    BY <1>6, <1>7, <2>1 DEF Reviewed
  <2> QED  BY <2>2, <2>3 DEF Reviewed
<1>9. /\ \A i \in Of(V, "item") : V[i].discovered \in Int /\ V[i].discovered <= Now
      /\ \A e \in Of(V, "event") : DOMAIN V[e] = EventColumns
  BY <1>5 DEF Consistent
<1>10. \A k \in Of(V, "interpretation") :
         DOMAIN V[k] = InterpretationColumns /\ V[k].proposes \subseteq FactKinds
  BY <1>6, <1>7 DEF Consistent
<1>11. \A tag \in Numbered : IsFiniteSet(Of(V, tag))
  BY FiniteAdd DEF Consistent
<1> QED  BY <1>3, <1>4, <1>8, <1>9, <1>10, <1>11 DEF Consistent

\* A review commits its decision with the facts it lists.
LEMMA ReviewCommits ==
  ASSUME NEW r, NEW D, NEW V, NEW R, Overlay(D, V, R), Consistent(R), ReviewOk(r, D, R),
         r.pc = "done", \A tag \in Numbered : IsFiniteSet(Of(D, tag))
  PROVE  Consistent(V) /\ Stands(R, V)
<1> DEFINE p == r.reviewed
<1>0. /\ p \in Of(R, "interpretation") /\ p \in DOMAIN D /\ DOMAIN D \subseteq r.facts \cup {p}
      /\ r.decision \in {"accepted", "rejected"}
      /\ DOMAIN D[p] = InterpretationColumns
      /\ D[p].status = r.decision /\ D[p].event = R[p].event
      /\ D[p].company = R[p].company /\ D[p].proposes = R[p].proposes
      /\ D[p].facts \subseteq DOMAIN V
      /\ D[p].status = "accepted" => {f[1] : f \in D[p].facts} = D[p].proposes
      /\ \A f \in r.facts :
            /\ f \in DOMAIN D /\ f \notin DOMAIN R /\ f[1] \in R[p].proposes
            /\ D[f].from = p /\ D[f].event = R[p].event /\ D[f].company = R[p].company
  BY DEF ReviewOk, Overlay
<1> HIDE DEF p
<1>1. /\ \A k \in DOMAIN D : k \in DOMAIN V /\ V[k] = D[k]
      /\ \A k \in DOMAIN R : k \in DOMAIN V /\ (k # p => V[k] = R[k] /\ k \notin DOMAIN D)
      /\ \A k \in DOMAIN V : k \in DOMAIN D \/ k \in DOMAIN R
  BY <1>0 DEF Overlay
<1>2. R[p].proposes \subseteq FactKinds
  BY <1>0 DEF Consistent
<1>3. \A k \in DOMAIN D : k[1] \in FactKinds \cup {"interpretation"}
  BY <1>0, <1>2 DEF Of
<1>4. Of(V, "interpretation") = Of(R, "interpretation")
  BY <1>0, <1>1, <1>2 DEF Of, FactKinds
<1>5. \A k \in Of(R, "interpretation") :
         /\ V[k].event = R[k].event /\ V[k].company = R[k].company
         /\ V[k].proposes = R[k].proposes /\ DOMAIN V[k] = InterpretationColumns
  BY <1>0, <1>1 DEF Of, Consistent
<1>6. Stands(R, V)
  <2>1. \A k \in DOMAIN R : k[1] # "interpretation" => V[k] = R[k]
    BY <1>0, <1>1 DEF Of
  <2> QED  BY <1>1, <1>5, <2>1 DEF Stands, Of
<1>7. OneStory(V) /\ Supported(V)
  <2>1. \A k \in Of(D, "interpretation") : k = p
    BY <1>0, <1>2 DEF Of, FactKinds
  <2>2. R[p].event \in Of(R, "event")
    BY <1>0 DEF Consistent, Supported
  <2>3. OneStory(R) /\ Supported(R)
    BY DEF Consistent
  <2>4. \A k \in DOMAIN D : k[1] \notin {"item", "link", "event", "eventitem"}
    BY <1>3 DEF FactKinds
  <2>5. \A k \in Of(D, "interpretation") : D[k].event \in Of(R, "event")
    BY <1>0, <2>1, <2>2
  <2> QED  BY <2>3, <2>4, <2>5, NewsStay
<1>8. Reviewed(V)
  <2>1. Reviewed(R) /\ V[p] = D[p] /\ p \in Of(V, "interpretation")
    BY <1>0, <1>1, <1>4 DEF Consistent
  <2>2. ASSUME NEW kind \in FactKinds, NEW f \in Of(V, kind)
        PROVE  LET k == V[f].from
               IN  /\ k \in Of(V, "interpretation") /\ V[k].status # "pending"
                   /\ kind \in V[k].proposes
                   /\ V[f].event = V[k].event /\ V[f].company = V[k].company
    <3>1. CASE f \in r.facts
      <4>1. V[f] = D[f] /\ f[1] = kind
        BY <1>0, <1>1, <3>1 DEF Of
      <4> QED  BY <1>0, <2>1, <3>1, <4>1
    <3>2. CASE f \notin r.facts
      <4>1. f # p /\ f \in Of(R, kind) /\ V[f] = R[f]
        BY <1>0, <1>1, <3>2 DEF Of, FactKinds
      <4> DEFINE k == R[f].from
      <4>2. /\ k \in Of(R, "interpretation") /\ R[k].status # "pending"
            /\ kind \in R[k].proposes
            /\ R[f].event = R[k].event /\ R[f].company = R[k].company
        BY <2>1, <4>1 DEF Reviewed
      <4> HIDE DEF k
      <4>3. V[k].status # "pending"
        <5>1. CASE k = p
          BY <1>0, <2>1, <5>1
        <5>2. CASE k # p
          BY <1>1, <4>2, <5>2 DEF Of
        <5> QED  BY <5>1, <5>2
      <4> QED  BY <1>4, <1>5, <4>1, <4>2, <4>3 DEF k
    <3> QED  BY <3>1, <3>2
  <2>3. ASSUME NEW k \in Of(V, "interpretation")
        PROVE  /\ V[k].facts \subseteq DOMAIN V
               /\ V[k].status = "accepted" => {f[1] : f \in V[k].facts} = V[k].proposes
    <3>1. CASE k = p
      BY <1>0, <2>1, <3>1
    <3>2. CASE k # p
      <4>1. k \in Of(R, "interpretation") /\ V[k] = R[k]
        BY <1>1, <1>4, <3>2 DEF Of
      <4>2. DOMAIN R \subseteq DOMAIN V
        BY <1>1
      <4> QED  BY <2>1, <4>1, <4>2 DEF Reviewed
    <3> QED  BY <3>1, <3>2
  <2> QED  BY <2>2, <2>3 DEF Reviewed
<1>9. \A tag \in {"item", "event"} : \A k \in Of(V, tag) : k \in Of(R, tag) /\ V[k] = R[k]
  <2>1. \A k \in DOMAIN D : k[1] \notin {"item", "event"}
    BY <1>3 DEF FactKinds
  <2> QED  BY <1>1, <2>1 DEF Of, Overlay
<1>10. \A tag \in Numbered : IsFiniteSet(Of(V, tag))
  BY FiniteAdd DEF Consistent
<1>11. \A k \in Of(V, "interpretation") :
         DOMAIN V[k] = InterpretationColumns /\ V[k].proposes \subseteq FactKinds
  BY <1>4, <1>5 DEF Consistent
<1>12. /\ \A i \in Of(V, "item") : V[i].discovered \in Int /\ V[i].discovered <= Now
       /\ \A e \in Of(V, "event") : DOMAIN V[e] = EventColumns
  BY <1>9 DEF Consistent
<1> QED  BY <1>6, <1>7, <1>8, <1>10, <1>11, <1>12 DEF Consistent

LEMMA NoteCommits ==
  ASSUME NEW r, NEW D, NEW V, NEW R, Overlay(D, V, R), Consistent(R), NoteOk(r, D, R),
         \A tag \in Numbered : IsFiniteSet(Of(D, tag))
  PROVE  Consistent(V) /\ Stands(R, V)
<1>1. \A k \in DOMAIN D : k[1] \in {"company", "note"} /\ k \notin DOMAIN R
  BY DEF NoteOk
<1>2. \A tag \in FactKinds \cup {"item", "link", "event", "eventitem", "interpretation"} :
         Of(V, tag) = Of(R, tag) /\ \A k \in Of(V, tag) : V[k] = R[k]
  BY <1>1 DEF Overlay, Of, FactKinds
<1>3. Stands(R, V)
  BY <1>2 DEF Stands, Overlay
<1>4. Of(D, "interpretation") = {}
  BY <1>1 DEF Of
<1>5. OneStory(V) /\ Supported(V)
  BY <1>1, <1>4, NewsStay DEF Consistent
<1>6. Reviewed(V)
  BY <1>1, ReviewsStay DEF Consistent, FactKinds
<1>7. \A tag \in Numbered : IsFiniteSet(Of(V, tag))
  BY FiniteAdd DEF Consistent
<1> QED  BY <1>2, <1>3, <1>5, <1>6, <1>7 DEF Consistent

-----------------------------------------------------------------------------
(* The steps of a transaction.                                             *)

Keeps == IInv' /\ DecisionsStandStep

Seen(D, R) ==
    [k \in DOMAIN R \cup DOMAIN D |-> IF k \in DOMAIN D THEN D[k] ELSE R[k]]
AddRow(D, key, row) == [k \in DOMAIN D \cup {key} |-> IF k = key THEN row ELSE D[k]]

LEMMA SeenIs ==
  ASSUME NEW D, NEW R
  PROVE  Overlay(D, Seen(D, R), R)
  BY DEF Overlay, Seen

LEMMA SeenAddRow ==
  ASSUME NEW D, NEW R, NEW key, NEW row
  PROVE  Seen(AddRow(D, key, row), R) = AddRow(Seen(D, R), key, row)
<1> DEFINE A == AddRow(D, key, row)
           S == Seen(D, R)
<1>1. /\ DOMAIN A = DOMAIN D \cup {key} /\ A[key] = row
      /\ \A k \in DOMAIN D : k # key => A[k] = D[k]
  BY DEF AddRow
<1>2. /\ DOMAIN S = DOMAIN R \cup DOMAIN D
      /\ \A k \in DOMAIN S : S[k] = IF k \in DOMAIN D THEN D[k] ELSE R[k]
  BY DEF Seen
<1> HIDE DEF A, S
<1>3. Seen(A, R) = [k \in DOMAIN R \cup DOMAIN A |-> IF k \in DOMAIN A THEN A[k] ELSE R[k]]
  BY DEF Seen
<1>4. AddRow(S, key, row) = [k \in DOMAIN S \cup {key} |-> IF k = key THEN row ELSE S[k]]
  BY DEF AddRow
<1>5. DOMAIN R \cup DOMAIN A = DOMAIN S \cup {key}
  BY <1>1, <1>2
<1>6. \A k \in DOMAIN S \cup {key} :
         (IF k \in DOMAIN A THEN A[k] ELSE R[k]) = (IF k = key THEN row ELSE S[k])
  BY <1>1, <1>2
<1>7. Seen(A, R) = AddRow(S, key, row)
  BY <1>3, <1>4, <1>5, <1>6
<1> QED  BY <1>7 DEF A, S

\* A session that has not committed: its draft is now D2.
LEMMA OwnStep ==
  ASSUME IInv, NEW s \in Sessions, NEW state, NEW D2,
         db' = db, sess' = [sess EXCEPT ![s] = state], draft' = [draft EXCEPT ![s] = D2],
         \A t \in Sessions : t # s => DOMAIN D2 \cap DOMAIN draft[t] = {},
         \A tag \in Numbered : IsFiniteSet(Of(D2, tag)),
         Ok(state, D2, Seen(D2, db), db),
         \A k \in Of(D2, "interpretation") :
            k \notin DOMAIN View(s) => Unread(s, D2[k].event)
  PROVE  Keeps
<1>1. /\ draft'[s] = D2 /\ sess'[s] = state
      /\ \A t \in Sessions : t # s => sess'[t] = sess[t] /\ draft'[t] = draft[t]
      /\ sess' = [t \in Sessions |-> sess'[t]] /\ draft' = [t \in Sessions |-> draft'[t]]
  BY DEF IInv
<1>2. DraftsDisjoint'
  BY <1>1 DEF IInv, DraftsDisjoint
<1>3. \A tag \in Numbered : FiniteTable(tag)'
  <2> SUFFICES ASSUME NEW tag \in Numbered PROVE FiniteTable(tag)'
    OBVIOUS
  <2>1. FiniteTable(tag)
    BY DEF IInv
  <2>2. IsFiniteSet(Of(db', tag))
    BY <2>1 DEF FiniteTable
  <2>3. \A t \in Sessions : IsFiniteSet(Of(draft'[t], tag))
    BY <1>1, <2>1 DEF FiniteTable
  <2> QED  BY <2>2, <2>3 DEF FiniteTable
<1>4. Consistent(db)'
  BY DEF IInv
<1>5. ASSUME NEW t \in Sessions PROVE Ok(sess[t], draft[t], View(t), db)'
  <2>1. CASE t = s
    <3>1. View(s)' = Seen(D2, db)
      BY <1>1 DEF View, Seen
    <3> QED  BY <1>1, <2>1, <3>1
  <2>2. CASE t # s
    <3>1. View(t)' = View(t)
      BY <1>1, <2>2 DEF View
    <3>2. Ok(sess[t], draft[t], View(t), db)
      BY DEF IInv
    <3> QED  BY <1>1, <2>2, <3>1, <3>2
  <2> QED  BY <2>1, <2>2
<1>6. DecisionsStandStep
  <2>1. \A t \in Sessions : \A k \in Of(draft[t], "interpretation") : k \in DOMAIN View(t)
    BY DEF Of, View
  <2>2. \A t \in Sessions :
          \A k \in Of(draft'[t], "interpretation") \ DOMAIN View(t) :
             Unread(t, draft'[t][k].event)
    BY <1>1, <2>1
  <2> QED  BY <2>2 DEF DecisionsStandStep
<1> QED  BY <1>1, <1>2, <1>3, <1>4, <1>5, <1>6 DEF Keeps, IInv

LEMMA QuietKeeps ==
  ASSUME IInv, NEW s \in Sessions, NEW state,
         Local(s, state) \/ Start(s, state), Ok(state, draft[s], View(s), db)
  PROVE  Keeps
<1>1. /\ db' = db /\ sess' = [sess EXCEPT ![s] = state] /\ draft' = draft
  BY DEF Local, Start, Become
<1>2. draft' = [draft EXCEPT ![s] = draft[s]]
  BY <1>1 DEF IInv
<1>3. View(s) = Seen(draft[s], db)
  BY DEF View, Seen
<1>4. \A t \in Sessions : t # s => DOMAIN draft[s] \cap DOMAIN draft[t] = {}
  BY DEF IInv, DraftsDisjoint
<1>5. \A tag \in Numbered : IsFiniteSet(Of(draft[s], tag))
  BY DEF IInv, FiniteTable
<1>6. \A k \in Of(draft[s], "interpretation") : k \in DOMAIN View(s)
  BY DEF Of, View
<1> QED  BY <1>1, <1>2, <1>3, <1>4, <1>5, <1>6, OwnStep

LEMMA RollbackKeeps ==
  ASSUME IInv, NEW s \in Sessions, Rollback(s)
  PROVE  Keeps
<1>1. /\ db' = db /\ sess' = [sess EXCEPT ![s] = Idle]
      /\ draft' = [draft EXCEPT ![s] = Nothing]
  BY DEF Rollback, Become
<1>2. DOMAIN Nothing = {} /\ Idle.pc = "idle" /\ \A tag : Of(Nothing, tag) = {}
  BY DEF Nothing, Idle, Of
<1>3. Ok(Idle, Nothing, Seen(Nothing, db), db)
  BY <1>2 DEF Ok
<1>4. \A tag \in Numbered : IsFiniteSet(Of(Nothing, tag))
  BY <1>2, FS_EmptySet
<1>5. \A t \in Sessions : t # s => DOMAIN Nothing \cap DOMAIN draft[t] = {}
  BY <1>2
<1> QED  BY <1>1, <1>2, <1>3, <1>4, <1>5, OwnStep

\* The rows of a flush.
LEMMA InsertKeeps ==
  ASSUME IInv, NEW s \in Sessions, NEW rows, NEW state, NEW D2, Insert(s, rows, state),
         D2 = [k \in DOMAIN draft[s] \cup DOMAIN rows |->
                 IF k \in DOMAIN rows THEN rows[k] ELSE draft[s][k]],
         \A t \in Sessions : t # s => DOMAIN rows \cap DOMAIN draft[t] = {},
         \A tag \in Numbered : IsFiniteSet(Of(D2, tag)),
         Ok(state, D2, Seen(D2, db), db),
         \A k \in DOMAIN rows : k[1] = "interpretation" /\ k \notin DOMAIN View(s) =>
            Unread(s, rows[k].event)
  PROVE  Keeps
<1>1. /\ db' = db /\ sess' = [sess EXCEPT ![s] = state]
      /\ draft' = [draft EXCEPT ![s] = D2]
  BY DEF Insert, Become, IInv
<1>2. DOMAIN D2 = DOMAIN draft[s] \cup DOMAIN rows
  OBVIOUS
<1>3. \A t \in Sessions : t # s => DOMAIN D2 \cap DOMAIN draft[t] = {}
  BY <1>2 DEF IInv, DraftsDisjoint
<1>4. \A k \in Of(D2, "interpretation") :
         k \notin DOMAIN View(s) => Unread(s, D2[k].event)
  BY <1>2 DEF Of, View
<1> QED  BY <1>1, <1>3, <1>4, OwnStep

LEMMA RowKeeps ==
  ASSUME IInv, NEW s \in Sessions, NEW key, NEW row, NEW state,
         InsertRow(s, key, row, state),
         \A t \in Sessions : t # s => key \notin DOMAIN draft[t],
         Ok(state, AddRow(draft[s], key, row), AddRow(View(s), key, row), db),
         key[1] = "interpretation" /\ key \notin DOMAIN View(s) =>
            Unread(s, row.event)
  PROVE  Keeps
<1> DEFINE rows == [k \in {key} |-> row]
           D2 == AddRow(draft[s], key, row)
<1>1. DOMAIN rows = {key} /\ rows[key] = row
  OBVIOUS
<1>2. Insert(s, rows, state)
  BY DEF InsertRow
<1> HIDE DEF rows
<1>3. D2 = [k \in DOMAIN draft[s] \cup DOMAIN rows |->
              IF k \in DOMAIN rows THEN rows[k] ELSE draft[s][k]]
  BY <1>1 DEF AddRow
<1>4. \A tag \in Numbered : IsFiniteSet(Of(D2, tag))
  <2> SUFFICES ASSUME NEW tag \in Numbered PROVE IsFiniteSet(Of(D2, tag))
    OBVIOUS
  <2>1. IsFiniteSet(Of(draft[s], tag))
    BY DEF IInv, FiniteTable
  <2>2. Of(D2, tag) = Of(draft[s], tag) \/ Of(D2, tag) = Of(draft[s], tag) \cup {key}
    <3>1. CASE tag = key[1]
      BY <3>1 DEF AddRow, Of
    <3>2. CASE tag # key[1]
      BY <3>2 DEF AddRow, Of
    <3> QED  BY <3>1, <3>2
  <2> QED  BY <2>1, <2>2, FS_AddElement
<1>5. Seen(D2, db) = AddRow(View(s), key, row)
  <2>1. View(s) = Seen(draft[s], db)
    BY DEF View, Seen
  <2> QED  BY <2>1, SeenAddRow
<1> HIDE DEF D2
<1>6. Ok(state, D2, Seen(D2, db), db)
  BY <1>5 DEF D2
<1>7. \A t \in Sessions : t # s => DOMAIN rows \cap DOMAIN draft[t] = {}
  BY <1>1
<1>8. \A k \in DOMAIN rows : k[1] = "interpretation" /\ k \notin DOMAIN View(s) =>
         Unread(s, rows[k].event)
  BY <1>1
<1> QED  BY <1>2, <1>3, <1>4, <1>6, <1>7, <1>8, InsertKeeps

\* The row a command wants: a new one, or one it changes.
LEMMA UpdateKeeps ==
  ASSUME IInv, NEW s \in Sessions, NEW row, NEW state, FlushUpdate(s, row, state),
         sess[s].want # NONE =>
            Ok([state EXCEPT !.want = NONE], AddRow(draft[s], sess[s].want, row),
               AddRow(View(s), sess[s].want, row), db),
         sess[s].want[1] # "interpretation" \/ sess[s].want \in DOMAIN View(s)
  PROVE  Keeps
<1> DEFINE key == sess[s].want
           after == [state EXCEPT !.want = NONE]
<1>1. InsertRow(s, key, row, after) /\ key # NONE
  BY DEF FlushUpdate, Flush
<1>2. \A t \in Sessions : t # s => key \notin DOMAIN draft[t]
  BY DEF FlushUpdate, Free, WaitsFor
<1>3. Ok(after, AddRow(draft[s], key, row), AddRow(View(s), key, row), db)
  BY <1>1
<1>4. key[1] = "interpretation" /\ key \notin DOMAIN View(s) =>
         Unread(s, row.event)
  OBVIOUS
<1> HIDE DEF key, after
<1> QED  BY <1>1, <1>2, <1>3, <1>4, RowKeeps

LEMMA FlushKeeps ==
  ASSUME IInv, NEW s \in Sessions, NEW row, NEW state, FlushNew(s, row, state),
         sess[s].want # NONE /\ sess[s].want \notin DOMAIN View(s) =>
            Ok([state EXCEPT !.want = NONE], AddRow(draft[s], sess[s].want, row),
               AddRow(View(s), sess[s].want, row), db),
         sess[s].want[1] # "interpretation"
  PROVE  Keeps
<1>1. CASE Sees(s, sess[s].want)
  BY <1>1, RollbackKeeps DEF FlushNew
<1>2. CASE ~Sees(s, sess[s].want)
  <2>1. sess[s].want \notin DOMAIN View(s)
    BY <1>2 DEF Sees, View
  <2>2. FlushUpdate(s, row, state)
    BY <1>2 DEF FlushNew, FlushUpdate
  <2> QED  BY <2>1, <2>2, UpdateKeeps
<1> QED  BY <1>1, <1>2

\* An id drawn for a new row is nobody's.
LEMMA FreshKey ==
  ASSUME IInv, NEW tag \in Numbered, InterpretationAssumption
  PROVE  /\ <<tag, Fresh(tag)>> \notin DOMAIN db
         /\ \A t \in Sessions : /\ <<tag, Fresh(tag)>> \notin DOMAIN draft[t]
                                /\ <<tag, Fresh(tag)>> \notin DOMAIN View(t)
<1>1. FiniteTable(tag) /\ IsFiniteSet(Sessions)
  BY DEF IInv, InterpretationAssumption
<1>2. /\ <<tag, Fresh(tag)>> \notin DOMAIN db
      /\ \A t \in Sessions : <<tag, Fresh(tag)>> \notin DOMAIN draft[t]
  BY <1>1, FreshIsNew
<1> QED  BY <1>2 DEF View

\* A commit of a draft that is complete.
LEMMA CommitKeeps ==
  ASSUME IInv, NEW s \in Sessions, Commit(s, Idle), NewsAssumption,
         At(s, "done") \/ (At(s, "interpret") /\ RunOk(sess[s], draft[s], db))
  PROVE  Keeps
<1> DEFINE r == sess[s]
           D == draft[s]
           V == View(s)
<1>1. /\ db' = V /\ sess'[s] = Idle /\ draft'[s] = Nothing
      /\ \A t \in Sessions : t # s => sess'[t] = sess[t] /\ draft'[t] = draft[t]
      /\ sess' = [t \in Sessions |-> sess'[t]] /\ draft' = [t \in Sessions |-> draft'[t]]
  BY DEF IInv, Commit, Become
<1>2. Overlay(D, V, db) /\ Ok(r, D, V, db) /\ Consistent(db)
  BY ViewIs DEF IInv
<1>3. \A tag \in Numbered : IsFiniteSet(Of(D, tag))
  BY DEF IInv, FiniteTable
<1>4. \/ NewsOk(r, D, V, db) /\ r.pc = "done"
      \/ RunOk(r, D, db)
      \/ ReviewOk(r, D, db) /\ r.pc = "done"
      \/ NoteOk(r, D, db)
  BY <1>2 DEF Ok, At
<1> HIDE DEF V, D, r
<1>5. Consistent(V) /\ Stands(db, V)
  BY <1>2, <1>3, <1>4, NewsCommits, RunCommits, ReviewCommits, NoteCommits
<1>6. DraftsDisjoint'
  BY <1>1 DEF IInv, DraftsDisjoint, Nothing
<1>7. \A tag \in Numbered : FiniteTable(tag)'
  <2> SUFFICES ASSUME NEW tag \in Numbered PROVE FiniteTable(tag)'
    OBVIOUS
  <2>1. IsFiniteSet(Of(V, tag))
    BY <1>5 DEF Consistent
  <2>2. Of(draft'[s], tag) = {} /\ IsFiniteSet({})
    BY <1>1, FS_EmptySet DEF Of, Nothing
  <2>3. \A t \in Sessions : IsFiniteSet(Of(draft[t], tag))
    BY DEF IInv, FiniteTable
  <2> QED  BY <1>1, <2>1, <2>2, <2>3 DEF FiniteTable
<1>8. ASSUME NEW i \in Of(V, "item"), i \notin DOMAIN db, i[2] # "manual"
      PROVE  Reliability(i[2]) \in DOMAIN D
  <2>1. i \in Of(D, "item")
    BY <1>2, <1>8 DEF Overlay, Of
  <2>2. ~RunOk(r, D, db) /\ ~NoteOk(r, D, db)
    BY <2>1 DEF RunOk, NoteOk, Of
  <2>3. ~(ReviewOk(r, D, db) /\ r.pc = "done")
    <3> SUFFICES ASSUME ReviewOk(r, D, db), r.pc = "done" PROVE FALSE
      OBVIOUS
    <3>1. /\ r.reviewed \in Of(db, "interpretation")
          /\ DOMAIN D \subseteq r.facts \cup {r.reviewed}
          /\ \A f \in r.facts : f[1] \in db[r.reviewed].proposes
      BY DEF ReviewOk
    <3>2. db[r.reviewed].proposes \subseteq FactKinds
      BY <1>2, <3>1 DEF Consistent
    <3> QED  BY <2>1, <3>1, <3>2 DEF Of, FactKinds
  <2> QED  BY <1>4, <1>8, <2>1, <2>2, <2>3 DEF NewsOk, NewsSteps, ItemsOk
<1>9. ASSUME NEW t \in Sessions PROVE Ok(sess[t], draft[t], View(t), db)'
  <2>1. CASE t = s
    BY <1>1, <2>1 DEF Ok, Idle, Nothing
  <2>2. CASE t # s
    <3> DEFINE E == draft[t]
               W == View(t)
               W2 == View(t)'
    <3>1. DOMAIN E \cap DOMAIN D = {}
      BY <2>2 DEF IInv, DraftsDisjoint, D
    <3>2. Overlay(E, W, db) /\ Ok(sess[t], E, W, db)
      BY ViewIs DEF IInv
    <3>3. Overlay(E, W2, V)
      BY <1>1, <2>2 DEF Overlay, View
    <3> HIDE DEF E, W, W2
    <3>4. Grows(E, db, V)
      <4>1. \A k \in DOMAIN V : k \in DOMAIN db \/ k \in DOMAIN D
        BY <1>2 DEF Overlay
      <4> QED  BY <1>5, <1>8, <3>1, <4>1 DEF Grows
    <3>5. IsFiniteSet(Of(W2, "item"))
      <4>1. IsFiniteSet(Of(V, "item")) /\ IsFiniteSet(Of(E, "item"))
        BY <1>5 DEF Consistent, Numbered, IInv, FiniteTable, E
      <4>2. Of(W2, "item") = Of(V, "item") \cup Of(E, "item")
        BY <3>3, TablesAdd
      <4> QED  BY <4>1, <4>2, FS_Union
    <3>6. Ok(sess[t], E, W2, V)
      BY <3>2, <3>3, <3>4, <3>5, OkStands
    <3> QED  BY <1>1, <2>2, <3>6 DEF E, W2
  <2> QED  BY <2>1, <2>2
<1>10. DecisionsStandStep
  <2>1. ASSUME NEW k \in Of(db, "interpretation"), db'[k] # db[k]
        PROVE  At(s, "done") /\ r.kind = "review" /\ r.reviewed = k /\ r.loaded = "pending"
    <3>1. k \in DOMAIN D /\ k \in DOMAIN db
      BY <1>1, <1>2, <2>1 DEF Overlay, Of
    <3>2. ~NewsOk(r, D, V, db) /\ ~RunOk(r, D, db) /\ ~NoteOk(r, D, db)
      BY <2>1, <3>1 DEF NewsOk, ItemsOk, NewsTags, RunOk, NoteOk, Of
    <3>3. ReviewOk(r, D, db) /\ r.pc = "done"
      BY <1>4, <3>2
    <3> QED  BY <3>1, <3>3 DEF ReviewOk, At, r
  <2>2. \A t \in Sessions : \A k \in Of(draft[t], "interpretation") : k \in DOMAIN View(t)
    BY DEF Of, View
  <2>3. Of(draft'[s], "interpretation") = {}
    BY <1>1 DEF Of, Nothing
  <2> QED  BY <1>1, <2>1, <2>2, <2>3 DEF DecisionsStandStep, r
<1> QED  BY <1>1, <1>5, <1>6, <1>7, <1>9, <1>10 DEF Keeps, IInv

-----------------------------------------------------------------------------
(* What the steps of a poll or of an article leave alone.                  *)

SameTable(D, D2, tag) == Of(D2, tag) = Of(D, tag) /\ \A k \in Of(D, tag) : D2[k] = D[k]

\* The command q is the command r a step later.
Follows(r, q) ==
    /\ Shape(q, NewsFields) /\ NewsSteps(q) /\ q.kind = r.kind /\ q.source = r.source
    /\ r.recent \subseteq q.recent
    /\ q.kind = "sync" /\ q.pc \in {"entries", "link", "cluster", "join"} =>
          r.pc \in {"entries", "link", "cluster", "join"}

LEMMA AddRowKeeps ==
  ASSUME NEW D, NEW key, NEW row, NEW tag, tag # key[1]
  PROVE  SameTable(D, AddRow(D, key, row), tag)
  BY DEF AddRow, Of, SameTable

\* A draft and the view of it with one row more.
OnTop(D, V, key, row, D2, V2) ==
    /\ \A tag : tag # key[1] => SameTable(D, D2, tag) /\ SameTable(V, V2, tag)
    /\ DOMAIN D \subseteq DOMAIN D2 /\ DOMAIN D2 = DOMAIN D \cup {key} /\ D2[key] = row
    /\ DOMAIN V \subseteq DOMAIN V2 /\ DOMAIN V2 = DOMAIN V \cup {key} /\ V2[key] = row
    /\ \A k \in DOMAIN D : k # key => D2[k] = D[k]
    /\ \A k \in DOMAIN V : k # key => V2[k] = V[k]
    /\ Of(D2, key[1]) = Of(D, key[1]) \cup {key} /\ Of(V2, key[1]) = Of(V, key[1]) \cup {key}

LEMMA RowOnTop ==
  ASSUME NEW D, NEW V, NEW key, NEW row
  PROVE  OnTop(D, V, key, row, AddRow(D, key, row), AddRow(V, key, row))
<1> DEFINE D2 == AddRow(D, key, row)
           V2 == AddRow(V, key, row)
<1>1. ASSUME NEW tag, tag # key[1]
      PROVE  SameTable(D, D2, tag) /\ SameTable(V, V2, tag)
  BY <1>1, AddRowKeeps
<1>2. /\ DOMAIN D2 = DOMAIN D \cup {key} /\ D2[key] = row
      /\ \A k \in DOMAIN D : k # key => D2[k] = D[k]
  BY DEF AddRow
<1>3. /\ DOMAIN V2 = DOMAIN V \cup {key} /\ V2[key] = row
      /\ \A k \in DOMAIN V : k # key => V2[k] = V[k]
  BY DEF AddRow
<1> HIDE DEF D2, V2
<1>4. Of(D2, key[1]) = Of(D, key[1]) \cup {key} /\ Of(V2, key[1]) = Of(V, key[1]) \cup {key}
  BY <1>2, <1>3 DEF Of
<1>5. OnTop(D, V, key, row, D2, V2)
  BY <1>1, <1>2, <1>3, <1>4 DEF OnTop
<1> QED  BY <1>5 DEF D2, V2

\* A new row, or one of a table that nothing refers to, or a change of no account.
LEMMA AddRowStands ==
  ASSUME NEW V, NEW key, NEW row,
         \/ key \notin DOMAIN V
         \/ key[1] \notin {"item", "event", "interpretation"}
         \/ /\ key[1] = "event"
            /\ row.company = V[key].company /\ row.headline = V[key].headline
  PROVE  Stands(V, AddRow(V, key, row))
  BY DEF AddRow, Of, Stands

LEMMA ItemsKept ==
  ASSUME NEW r, NEW q, NEW D, NEW V, NEW R, NEW D2, NEW V2,
         Overlay(D, V, R), ItemsOk(r, D, V, R), NewsSteps(q), q.kind = r.kind, q.source = r.source,
         SameTable(D, D2, "item"), SameTable(V, V2, "item"), DOMAIN D \subseteq DOMAIN D2,
         \A k \in DOMAIN D2 : k[1] \in NewsTags,
         q.pc \in {"fetch", "count", "recent"} => \A k \in DOMAIN D2 : k[1] = "reliability",
         r.kind = "sync" /\ r.pc \in {"fetch", "count"} /\ q.pc \notin {"fetch", "count"} =>
            Reliability(r.source) \in DOMAIN D2
  PROVE  ItemsOk(q, D2, V2, R)
<1>1. q.kind = "sync" /\ q.pc \notin {"fetch", "count"} => Reliability(q.source) \in DOMAIN D2
  BY DEF ItemsOk
<1>2. \A i \in Of(D2, "item") :
          /\ i \notin DOMAIN R /\ i[2] = q.source /\ D2[i].discovered = Now
          /\ q.kind = "sync" =>
                \A j \in Of(V2, "item") : i # j /\ j[2] = q.source =>
                    Apart(V2, i, j) /\ Apart(V2, j, i)
  <2>1. \A i, j \in Of(V, "item") : Apart(V2, i, j) <=> Apart(V, i, j)
    BY LatelySame DEF SameTable
  <2>2. Of(D, "item") \subseteq Of(V, "item")
    BY DEF Overlay, Of
  <2> QED  BY <2>1, <2>2 DEF ItemsOk, SameTable
<1> QED  BY <1>1, <1>2 DEF ItemsOk

LEMMA RecentKept ==
  ASSUME NEW r, NEW q, NEW V, NEW V2, RecentOk(r, V), Follows(r, q), SameTable(V, V2, "item")
  PROVE  RecentOk(q, V2)
<1>1. FoundLately(V2, Now) = FoundLately(V, Now)
  BY LatelySame DEF SameTable
<1> QED  BY <1>1 DEF RecentOk, Follows

LEMMA LinksKept ==
  ASSUME NEW r, NEW q, NEW D, NEW V, NEW R, NEW D2, NEW V2,
         LinksOk(r, D, V, R), q.kind = r.kind, q.source = r.source,
         SameTable(D, D2, "link"), SameTable(D, D2, "eventitem"), Stands(V, V2),
         DOMAIN D \subseteq DOMAIN D2,
         r.kind = "sync" /\ r.pc \in {"cluster", "join"} =>
            q.pc \in {"cluster", "join"} /\ q.item = r.item /\ q.company = r.company
  PROVE  LinksOk(q, D2, V2, R)
<1>1. \A tag : Of(D, tag) \subseteq Of(D2, tag) /\ Of(V, tag) \subseteq Of(V2, tag)
  BY DEF Stands, Of
<1>2. Of(D2, "link") = Of(D, "link") /\ Of(D2, "eventitem") = Of(D, "eventitem")
  BY DEF SameTable
<1>3. \A x \in Of(D, "eventitem") : V2[x[2]].company = V[x[2]].company
  BY DEF LinksOk, Stands
<1>4. \A item, c : FiledIn(D2, V2, item, c) = FiledIn(D, V, item, c)
  BY <1>2, <1>3 DEF FiledIn
<1>5. ASSUME NEW l \in Of(D2, "link")
      PROVE  /\ l \notin DOMAIN R /\ l = Link(l[2], l[3])
             /\ l[2] \in Of(V2, "item") /\ l[2][2] = q.source
             /\ q.kind = "sync" =>
                   /\ l[2] \in Of(D2, "item")
                   /\ \/ q.pc \in {"cluster", "join"} /\ l = Link(q.item, q.company)
                      \/ \E x \in FiledIn(D2, V2, l[2], l[3]) :
                            FiledIn(D2, V2, l[2], l[3]) = {x}
  BY <1>1, <1>2, <1>4 DEF LinksOk
<1>6. ASSUME NEW x \in Of(D2, "eventitem")
      PROVE  /\ x \notin DOMAIN R
             /\ x[2] \in Of(V2, "event") /\ x[3] \in Of(V2, "item") /\ x[3][2] = q.source
             /\ q.kind = "sync" =>
                   x[3] \in Of(D2, "item") /\ Link(x[3], V2[x[2]].company) \in DOMAIN D2
  BY <1>1, <1>2, <1>3 DEF LinksOk
<1> QED  BY <1>5, <1>6 DEF LinksOk

LEMMA AboutStands ==
  ASSUME NEW V, NEW V2, Stands(V, V2), NEW e \in Of(V, "event"), About(V, e)
  PROVE  About(V2, e)
<1>1. PICK i \in Of(V, "item") : EventItem(e, i) \in DOMAIN V /\ V[i].headline = V[e].headline
  BY DEF About
<1>2. i \in Of(V2, "item") /\ EventItem(e, i) \in DOMAIN V2
  BY <1>1 DEF Stands, Of
<1>3. V2[i].headline = V2[e].headline
  BY <1>1 DEF Stands
<1> QED  BY <1>2, <1>3 DEF About

LEMMA EventsKept ==
  ASSUME NEW r, NEW q, NEW D, NEW V, NEW R, NEW D2, NEW V2,
         EventsOk(r, D, V, R), SameTable(D, D2, "event"), Stands(V, V2),
         Overlay(D, V, R), ItemOk(r, D, V),
         r.pc = "join" => \/ q.pc = "join" /\ q.event = r.event /\ q.item = r.item
                          \/ EventItem(r.event, r.item) \in DOMAIN V2
  PROVE  EventsOk(q, D2, V2, R)
<1> SUFFICES ASSUME NEW e \in Of(D, "event")
             PROVE  /\ DOMAIN D2[e] = EventColumns
                    /\ e \in DOMAIN R => D2[e].company = R[e].company
                                         /\ D2[e].headline = R[e].headline
                    /\ \/ About(V2, e)
                       \/ /\ q.pc = "join" /\ q.event = e
                          /\ V2[q.item].headline = V2[e].headline
  BY DEF EventsOk, SameTable
<1>1. D2[e] = D[e] /\ e \in Of(V, "event")
  BY DEF SameTable, Overlay, Of
<1>2. CASE About(V, e)
  BY <1>1, <1>2, AboutStands DEF EventsOk
<1>3. CASE r.pc = "join" /\ r.event = e /\ V[r.item].headline = V[e].headline
  <2>1. /\ r.item \in Of(V, "item") /\ r.item \in Of(V2, "item")
        /\ V2[r.item].headline = V2[e].headline
    BY <1>1, <1>3 DEF ItemOk, Stands, Of
  <2> QED  BY <1>1, <1>3, <2>1 DEF EventsOk, About
<1> QED  BY <1>2, <1>3 DEF EventsOk

\* A step that reads.
LEMMA NewsReads ==
  ASSUME NEW r, NEW q, NEW D, NEW V, NEW R, NewsOk(r, D, V, R), Overlay(D, V, R),
         Follows(r, q), NewsWant(q, V), ItemOk(q, D, V),
         r.pc \in {"fetch", "count"} <=> q.pc \in {"fetch", "count"}, q.pc # "recent",
         r.kind = "sync" /\ r.pc \in {"cluster", "join"} =>
            q.pc \in {"cluster", "join"} /\ q.item = r.item /\ q.company = r.company,
         r.pc = "join" => \/ q.pc = "join" /\ q.event = r.event /\ q.item = r.item
                          \/ EventItem(r.event, r.item) \in DOMAIN V
  PROVE  NewsOk(q, D, V, R)
<1>1. Stands(V, V) /\ \A tag : SameTable(D, D, tag) /\ SameTable(V, V, tag)
  BY DEF Stands, SameTable
<1>2. ItemsOk(q, D, V, R)
  BY <1>1, ItemsKept DEF NewsOk, Follows, ItemsOk
<1>3. LinksOk(q, D, V, R)
  BY <1>1, LinksKept DEF NewsOk, Follows
<1>4. EventsOk(q, D, V, R)
  BY <1>1, EventsKept DEF NewsOk
<1>5. RecentOk(q, V)
  BY <1>1, RecentKept DEF NewsOk
<1> QED  BY <1>2, <1>3, <1>4, <1>5 DEF NewsOk, Follows

-----------------------------------------------------------------------------
(* Which command a session is at.                                          *)

LEMMA NewsIs ==
  ASSUME IInv, NEW s \in Sessions,
         sess[s].pc \in {"fetch", "count", "recent", "entries", "link", "cluster", "join"}
  PROVE  NewsOk(sess[s], draft[s], View(s), db)
<1>1. Ok(sess[s], draft[s], View(s), db)
  BY DEF IInv
<1> QED  BY <1>1 DEF Ok, RunOk, ReviewOk, NoteOk

LEMMA SeenIsFinite ==
  ASSUME IInv, NEW s \in Sessions, NEW tag \in Numbered
  PROVE  IsFiniteSet(Of(View(s), tag))
<1>1. IsFiniteSet(Of(db, tag)) /\ IsFiniteSet(Of(draft[s], tag))
  BY DEF IInv, FiniteTable
<1>2. Of(View(s), tag) = Of(db, tag) \cup Of(draft[s], tag)
  BY ViewIs, TablesAdd
<1> QED  BY <1>1, <1>2, FS_Union

LEMMA NewsDrafts ==
  ASSUME IInv, NEW s \in Sessions, NEW k \in DOMAIN draft[s],
         k[1] \in {"item", "link", "event", "eventitem", "reliability"}
  PROVE  NewsOk(sess[s], draft[s], View(s), db)
<1> DEFINE r == sess[s]
           D == draft[s]
<1>1. Ok(r, D, View(s), db)
  BY DEF IInv
<1>2. ~RunOk(r, D, db) /\ ~NoteOk(r, D, db)
  BY DEF RunOk, NoteOk, Of
<1>3. ASSUME ReviewOk(r, D, db) PROVE FALSE
  <2>1. /\ r.reviewed \in Of(db, "interpretation")
        /\ DOMAIN D \subseteq r.facts \cup {r.reviewed}
        /\ \A f \in r.facts : f[1] \in db[r.reviewed].proposes
    BY <1>3 DEF ReviewOk
  <2>2. db[r.reviewed].proposes \subseteq FactKinds
    BY <2>1 DEF IInv, Consistent
  <2> QED  BY <2>1, <2>2 DEF Of, FactKinds
<1> QED  BY <1>1, <1>2, <1>3 DEF Ok

-----------------------------------------------------------------------------
(* The steps of News.                                                      *)

LEMMA NewsBegins ==
  ASSUME NEW r, NEW D, NEW V, NEW R, Shape(r, NewsFields), NewsSteps(r), r.want = NONE,
         r.pc \in {"fetch", "company"}, DOMAIN D = {}
  PROVE  NewsOk(r, D, V, R)
<1>1. \A tag : Of(D, tag) = {}
  BY DEF Of
<1>2. NewsWant(r, V) /\ ItemOk(r, D, V)
  BY DEF NewsWant, ItemOk
<1>3. ItemsOk(r, D, V, R)
  BY <1>1 DEF ItemsOk, NewsSteps
<1>4. LinksOk(r, D, V, R) /\ EventsOk(r, D, V, R)
  BY <1>1 DEF LinksOk, EventsOk
<1>5. RecentOk(r, V)
  BY DEF RecentOk
<1> QED  BY <1>2, <1>3, <1>4, <1>5 DEF NewsOk

LEMMA IdleIsEmpty ==
  ASSUME IInv, NEW s \in Sessions, At(s, "idle")
  PROVE  DOMAIN draft[s] = {}
  BY DEF IInv, Ok, At

LEMMA BeginSyncKeeps ==
  ASSUME IInv, NEW s \in Sessions, BeginSync(s), InterpretationAssumption
  PROVE  Keeps
<1>1. PICK source \in Sources :
        Start(s, [NewsCommand EXCEPT !.pc = "fetch", !.kind = "sync", !.source = source])
  BY DEF BeginSync
<1> DEFINE r == [NewsCommand EXCEPT !.pc = "fetch", !.kind = "sync", !.source = source]
<1>2. /\ Shape(r, NewsFields) /\ r.pc = "fetch" /\ r.kind = "sync" /\ r.want = NONE
      /\ r.source = source
  BY DEF NewsCommand, Shape, NewsFields
<1>3. Start(s, r) /\ DOMAIN draft[s] = {}
  BY <1>1, IdleIsEmpty DEF Start
<1>4. source # "manual"
  BY DEF InterpretationAssumption
<1> HIDE DEF r
<1>5. Ok(r, draft[s], View(s), db)
  BY <1>2, <1>3, <1>4, NewsBegins DEF Ok, NewsSteps
<1> QED  BY <1>3, <1>5, QuietKeeps

LEMMA BeginRecordKeeps ==
  ASSUME IInv, NEW s \in Sessions, BeginRecord(s)
  PROVE  Keeps
<1>1. PICK a \in Articles :
        Start(s, [NewsCommand EXCEPT !.pc = "company", !.kind = "record",
                     !.source = "manual", !.feed = <<a.entry>>, !.company = a.company])
  BY DEF BeginRecord
<1> DEFINE r == [NewsCommand EXCEPT !.pc = "company", !.kind = "record",
                     !.source = "manual", !.feed = <<a.entry>>, !.company = a.company]
<1>2. /\ Shape(r, NewsFields) /\ r.pc = "company" /\ r.kind = "record" /\ r.want = NONE
      /\ r.source = "manual"
  BY DEF NewsCommand, Shape, NewsFields
<1>3. Start(s, r) /\ DOMAIN draft[s] = {}
  BY <1>1, IdleIsEmpty DEF Start
<1> HIDE DEF r
<1>4. Ok(r, draft[s], View(s), db)
  BY <1>2, <1>3, NewsBegins DEF Ok, NewsSteps
<1> QED  BY <1>3, <1>4, QuietKeeps

LEMMA FetchKeeps ==
  ASSUME IInv, NEW s \in Sessions, Fetch(s)
  PROVE  Keeps
<1> DEFINE r == sess[s]
           failed == [r EXCEPT !.pc = "count", !.counts = <<"failed">>]
           got(feed, counts) == [r EXCEPT !.pc = "count", !.feed = feed, !.counts = counts]
           D == draft[s]
           V == View(s)
<1>0. r.pc = "fetch" /\ NewsOk(r, D, V, db) /\ Overlay(D, V, db)
  BY NewsIs, ViewIs DEF Fetch, At
<1>1. Local(s, failed) \/ \E feed, counts : Local(s, got(feed, counts))
  BY DEF Fetch
<1> HIDE DEF r, D, V
<1>2. Shape(r, NewsFields) /\ NewsSteps(r) /\ r.kind = "sync" /\ r.want = NONE
  BY <1>0 DEF NewsOk, NewsSteps, NewsWant
<1>3. \A q : (q = failed \/ \E feed, counts : q = got(feed, counts)) =>
         /\ Shape(q, NewsFields) /\ q.pc = "count" /\ q.kind = r.kind /\ q.want = NONE
         /\ q.source = r.source /\ q.recent = r.recent
  BY <1>2 DEF Shape, NewsFields
<1> HIDE DEF failed, got
<1>4. PICK q : Local(s, q) /\ (q = failed \/ \E feed, counts : q = got(feed, counts))
  BY <1>1
<1>5. /\ Shape(q, NewsFields) /\ q.pc = "count" /\ q.kind = r.kind /\ q.want = NONE
      /\ q.source = r.source /\ q.recent = r.recent
  BY <1>3, <1>4
<1>6. Follows(r, q) /\ NewsWant(q, V) /\ ItemOk(q, D, V)
  BY <1>2, <1>5 DEF Follows, NewsSteps, NewsWant, ItemOk
<1>7. NewsOk(q, D, V, db)
  BY <1>0, <1>5, <1>6, NewsReads
<1>8. Ok(q, D, V, db)
  BY <1>5, <1>7 DEF Ok
<1> QED  BY <1>4, <1>8, QuietKeeps DEF D, V

\* While it counts, a poll has drafted nothing but its counters.
LEMMA CountRow ==
  ASSUME NEW r, NEW q, NEW D, NEW V, NEW R, NEW row, Overlay(D, V, R),
         NewsOk(r, D, V, R), r.pc = "count", Follows(r, q), q.want = NONE,
         q.pc \in {"count", "recent", "done"}
  PROVE  NewsOk(q, AddRow(D, Reliability(r.source), row),
                AddRow(V, Reliability(r.source), row), R)
<1> DEFINE key == Reliability(r.source)
           D2 == AddRow(D, key, row)
           V2 == AddRow(V, key, row)
<1>1. key[1] = "reliability"
  BY DEF Reliability
<1>d. /\ D2 = AddRow(D, key, row) /\ V2 = AddRow(V, key, row)
      /\ OnTop(D, V, key, row, D2, V2)
  BY RowOnTop
<1> HIDE DEF key, D2, V2
<1>2. /\ \A tag : tag # "reliability" => SameTable(D, D2, tag) /\ SameTable(V, V2, tag)
      /\ DOMAIN D \subseteq DOMAIN D2 /\ DOMAIN D2 = DOMAIN D \cup {key}
  BY <1>1, <1>d DEF OnTop
<1>3. Stands(V, V2)
  BY <1>1, <1>d, AddRowStands
<1>4. \A k \in DOMAIN D2 : k[1] = "reliability"
  BY <1>1, <1>2 DEF NewsOk, ItemsOk
<1>5. r.kind = "sync" /\ key \in DOMAIN D2
  BY <1>2 DEF NewsOk, NewsSteps
<1>6. ItemsOk(q, D2, V2, R)
  BY <1>2, <1>4, <1>5, ItemsKept DEF NewsOk, Follows, NewsTags, key
<1>7. LinksOk(q, D2, V2, R)
  BY <1>2, <1>3, LinksKept DEF NewsOk, Follows
<1>8. EventsOk(q, D2, V2, R)
  BY <1>2, <1>3, EventsKept DEF NewsOk
<1>9. NewsWant(q, V2) /\ ItemOk(q, D2, V2)
  BY DEF NewsWant, ItemOk
<1>10. RecentOk(q, V2)
  BY DEF RecentOk
<1>11. NewsOk(q, D2, V2, R)
  BY <1>6, <1>7, <1>8, <1>9, <1>10 DEF NewsOk, Follows
<1> QED  BY <1>11 DEF D2, V2, key

LEMMA CountKeeps ==
  ASSUME IInv, NEW s \in Sessions, Count(s)
  PROVE  Keeps
<1> DEFINE r == sess[s]
           key == Reliability(r.source)
           D == draft[s]
           V == View(s)
           wanting(seen) == [r EXCEPT !.want = key, !.seen = seen]
           fresh == [r EXCEPT !.seen = NoFetches]
           on(counts, pc) == [r EXCEPT !.counts = counts, !.pc = pc]
           Pcs == {"count", "recent", "done"}
<1>0. r.pc = "count" /\ NewsOk(r, D, V, db) /\ Overlay(D, V, db)
  BY NewsIs, ViewIs DEF Count, At
<1>1. \/ \E seen : Local(s, wanting(seen))
      \/ FlushNew(s, NoFetches, fresh)
      \/ \E row, counts : \E pc \in Pcs : FlushUpdate(s, row, on(counts, pc))
  BY DEF Count
<1>2. Shape(r, NewsFields) /\ NewsSteps(r) /\ r.kind = "sync" /\ r.want \in {NONE, key}
  BY <1>0 DEF NewsOk, NewsSteps, NewsWant
<1>3. sess[s] = r /\ key[1] = "reliability"
  BY DEF Reliability
<1> HIDE DEF r, D, V, key
<1>4. ASSUME NEW seen, Local(s, wanting(seen))
      PROVE  Keeps
  <2> DEFINE q == wanting(seen)
  <2>1. /\ Shape(q, NewsFields) /\ q.pc = "count" /\ q.kind = r.kind /\ q.want = key
        /\ q.source = r.source /\ q.recent = r.recent
    BY <1>0, <1>2 DEF Shape, NewsFields
  <2> HIDE DEF wanting
  <2>2. Follows(r, q) /\ NewsWant(q, V) /\ ItemOk(q, D, V)
    BY <1>2, <2>1 DEF Follows, NewsSteps, NewsWant, ItemOk, key
  <2>3. Ok(q, D, V, db)
    BY <1>0, <2>1, <2>2, NewsReads DEF Ok
  <2> QED  BY <1>4, <2>3, QuietKeeps DEF D, V
<1>5. ASSUME NEW row, NEW state, Shape(state, NewsFields), state.pc \in Pcs,
             state.kind = r.kind, state.source = r.source, state.recent = r.recent,
             FlushNew(s, row, state) \/ FlushUpdate(s, row, state)
      PROVE  Keeps
  <2> DEFINE q == [state EXCEPT !.want = NONE]
  <2>1. /\ Shape(q, NewsFields) /\ q.pc = state.pc /\ q.kind = r.kind /\ q.want = NONE
        /\ q.source = r.source /\ q.recent = r.recent
    BY <1>5 DEF Shape, NewsFields
  <2> HIDE DEF q
  <2>2. sess[s].want = key
    BY <1>2, <1>3, <1>5 DEF FlushNew, FlushUpdate
  <2>3. Follows(r, q)
    BY <1>2, <1>5, <2>1 DEF Follows, NewsSteps
  <2>4. NewsOk(q, AddRow(D, key, row), AddRow(V, key, row), db)
    BY <1>0, <1>5, <2>1, <2>3, CountRow DEF key
  <2>5. Ok(q, AddRow(D, key, row), AddRow(V, key, row), db)
    BY <1>5, <2>1, <2>4 DEF Ok
  <2> QED  BY <1>3, <1>5, <2>2, <2>5, FlushKeeps, UpdateKeeps DEF q, D, V
<1>6. CASE FlushNew(s, NoFetches, fresh)
  <2>1. /\ Shape(fresh, NewsFields) /\ fresh.pc = "count" /\ fresh.kind = r.kind
        /\ fresh.source = r.source /\ fresh.recent = r.recent
    BY <1>0, <1>2 DEF Shape, NewsFields
  <2> HIDE DEF fresh
  <2> QED  BY <1>5, <1>6, <2>1
<1>7. ASSUME NEW row, NEW counts, NEW pc \in Pcs, FlushUpdate(s, row, on(counts, pc))
      PROVE  Keeps
  <2> DEFINE q == on(counts, pc)
  <2>1. /\ Shape(q, NewsFields) /\ q.pc = pc /\ q.kind = r.kind /\ q.source = r.source /\ q.recent = r.recent
    BY <1>2 DEF Shape, NewsFields
  <2> HIDE DEF on
  <2> QED  BY <1>5, <1>7, <2>1
<1> QED  BY <1>1, <1>4, <1>6, <1>7

\* The recent items of a poll, read once.
LEMMA ReadRecentKeeps ==
  ASSUME IInv, NEW s \in Sessions, ReadRecent(s), NewsAssumption
  PROVE  Keeps
<1> DEFINE r == sess[s]
           D == draft[s]
           V == View(s)
           all == FoundLately(V, Now)
           of(S) == {k \in S : k[2] = r.source}
           read(mine) == [r EXCEPT !.pc = "entries", !.recent = mine]
<1>0. r.pc = "recent" /\ NewsOk(r, D, V, db) /\ Overlay(D, V, db)
  BY NewsIs, ViewIs DEF ReadRecent, At
<1>1. PICK S \in list_recent(V) : Local(s, read(of(S)))
  BY DEF ReadRecent
<1>2. S \subseteq all /\ (S = all \/ Cardinality(S) = RecentLimit)
  BY DEF list_recent
<1>3. IsFiniteSet(all)
  <2>1. IsFiniteSet(Of(V, "item"))
    BY SeenIsFinite DEF Numbered
  <2> QED  BY <2>1, FS_Subset DEF FoundLately
<1> DEFINE mine == of(S)
           q == read(mine)
<1>m. \A i \in S : i[2] = r.source => i \in mine
  OBVIOUS
<1> HIDE DEF r, D, V, of, mine
<1>4. Shape(r, NewsFields) /\ NewsSteps(r) /\ r.kind = "sync" /\ r.want = NONE
  BY <1>0 DEF NewsOk, NewsSteps, NewsWant
<1>5. /\ Shape(q, NewsFields) /\ q.pc = "entries" /\ q.kind = r.kind /\ q.want = NONE
      /\ q.source = r.source /\ q.recent = mine
  <2>1. Shape(r, NewsFields)
    BY <1>4
  <2>2. Shape(q, NewsFields)
    BY <2>1 DEF Shape
  <2>3. q.kind = r.kind /\ q.want = r.want /\ q.source = r.source
    BY <2>1 DEF Shape, NewsFields
  <2>4. q.pc = "entries" /\ q.recent = mine
    BY <2>1 DEF Shape, NewsFields
  <2> QED  BY <1>4, <2>2, <2>3, <2>4
<1> HIDE DEF q, all
<1>6. NewsSteps(q) /\ NewsWant(q, V) /\ ItemOk(q, D, V)
  BY <1>4, <1>5 DEF NewsSteps, NewsWant, ItemOk
<1>7. Stands(V, V) /\ \A tag : SameTable(D, D, tag) /\ SameTable(V, V, tag)
  BY DEF Stands, SameTable
<1>8. ItemsOk(q, D, V, db)
  BY <1>0, <1>5, <1>6, <1>7, ItemsKept DEF NewsOk, ItemsOk
<1>9. LinksOk(q, D, V, db) /\ EventsOk(q, D, V, db)
  BY <1>0, <1>5, <1>7, LinksKept, EventsKept DEF NewsOk
<1>10. RecentOk(q, V)
  <2> SUFFICES ASSUME NEW i \in all, i \notin S
               PROVE  Cardinality(all) > RecentLimit
    BY <1>m, <1>5 DEF RecentOk, all
  <2>1. Cardinality(S) <= Cardinality(all) /\ Cardinality(S) # Cardinality(all)
    BY <1>2, <1>3, FS_Subset
  <2>2. Cardinality(all) \in Nat /\ Cardinality(S) = RecentLimit
    BY <1>2, <1>3, FS_CardinalityType
  <2> QED  BY <2>1, <2>2 DEF NewsAssumption
<1>11. Ok(q, D, V, db)
  BY <1>5, <1>6, <1>8, <1>9, <1>10 DEF Ok, NewsOk
<1> QED  BY <1>1, <1>11, QuietKeeps DEF D, V, q, mine

\* A new item, of a poll or of an article: nothing refers to it yet, and what a poll
\* did not compare it with was crowded out of the recent items.
LEMMA ItemRow ==
  ASSUME NEW r, NEW q, NEW D, NEW V, NEW R, NEW key, NEW row, NEW D2, NEW V2,
         Overlay(D, V, R), NewsOk(r, D, V, R), OnTop(D, V, key, row, D2, V2),
         Stands(V, V2), key[1] = "item", key[2] = r.source, key \notin DOMAIN V,
         row.discovered = Now, NewsAssumption, IsFiniteSet(Of(V, "item")),
         \A i \in Of(V, "item") : V[i].discovered \in Int /\ V[i].discovered <= Now,
         r.pc \in {"entries", "article"}, Follows(r, q), q.pc = "link", q.want = NONE,
         q.item = key, r.kind = "sync" => key \in q.recent,
         \A j \in Of(V, "item") :
            r.kind = "sync" /\ j[2] = r.source => Unlike(r, row.headline, V, j)
  PROVE  NewsOk(q, D2, V2, R)
<1>1. /\ \A tag : tag # "item" => SameTable(D, D2, tag) /\ SameTable(V, V2, tag)
      /\ DOMAIN D \subseteq DOMAIN D2 /\ DOMAIN D2 = DOMAIN D \cup {key} /\ D2[key] = row
      /\ V2[key] = row
      /\ \A k \in DOMAIN D : k # key => D2[k] = D[k]
      /\ \A k \in DOMAIN V : k # key => V2[k] = V[k]
      /\ Of(D2, "item") = Of(D, "item") \cup {key} /\ Of(V2, "item") = Of(V, "item") \cup {key}
  BY DEF OnTop
<1>2. /\ ItemsOk(r, D, V, R) /\ LinksOk(r, D, V, R) /\ EventsOk(r, D, V, R)
      /\ ItemOk(r, D, V) /\ NewsSteps(r) /\ RecentOk(r, V)
  BY DEF NewsOk
<1>3. key \notin DOMAIN R /\ key \notin DOMAIN D /\ key \notin Of(V, "item")
  BY DEF Overlay, Of
<1>4. /\ Shape(q, NewsFields) /\ NewsSteps(q) /\ q.kind = r.kind /\ q.source = r.source
      /\ r.recent \subseteq q.recent
      /\ r.kind = "sync" => r.pc = "entries"
  BY <1>2 DEF Follows, NewsSteps
<1>5. \A j \in Of(V, "item") : V2[j] = V[j] /\ j # key
  BY <1>1, <1>3 DEF Of
<1> DEFINE before == FoundLately(V, Now)
           now == FoundLately(V2, Now)
<1>6. now = before \cup {key} /\ key \notin before
  <2>1. V2[key].discovered \in (Now - Window)..Now
    BY <1>1 DEF NewsAssumption
  <2> QED  BY <1>1, <1>3, <1>5, <2>1 DEF FoundLately
<1>7. /\ IsFiniteSet(Of(V2, "item")) /\ Cardinality(before) \in Nat
      /\ Cardinality(now) = Cardinality(before) + 1
  <2>1. IsFiniteSet(before)
    BY FS_Subset DEF FoundLately
  <2>2. Cardinality(before \cup {key}) = Cardinality(before) + 1
    BY <1>6, <2>1, FS_AddElement
  <2>3. IsFiniteSet(Of(V, "item") \cup {key})
    BY FS_AddElement
  <2> QED  BY <1>1, <1>6, <2>1, <2>2, <2>3, FS_CardinalityType
<1> HIDE DEF before, now
<1>8. ASSUME r.kind = "sync", NEW j \in before, j[2] = r.source,
             is_near_duplicate(row.headline, V[j].headline)
      PROVE  Cardinality(now) > RecentLimit + 1
  <2>1. j \in Of(V, "item") /\ j \notin r.recent
    BY <1>8 DEF before, FoundLately, Unlike
  <2>2. Cardinality(before) > RecentLimit
    BY <1>2, <1>4, <1>8, <2>1 DEF RecentOk, before
  <2> QED  BY <1>7, <2>2 DEF NewsAssumption
<1>9. ASSUME r.kind = "sync", NEW j \in Of(V, "item"), j[2] = r.source
      PROVE  Apart(V2, key, j) /\ Apart(V2, j, key)
  <2>1. /\ V2[key].headline = row.headline /\ V2[key].discovered = Now
        /\ V2[j] = V[j] /\ V[j].headline # row.headline
    BY <1>1, <1>5, <1>9 DEF Unlike
  <2>2. ASSUME ToldAgain(V2, key, j) PROVE Crowded(V2, j)
    <3>1. V[j].discovered = Now
      BY <2>1, <2>2 DEF ToldAgain, FoundLately, NewsAssumption
    <3>2. j \in before
      BY <3>1 DEF FoundLately, before, NewsAssumption
    <3>3. is_near_duplicate(row.headline, V[j].headline)
      BY <2>1, <2>2 DEF ToldAgain
    <3>4. Cardinality(now) > RecentLimit + 1
      BY <1>8, <1>9, <3>2, <3>3
    <3> QED  BY <2>1, <3>1, <3>4 DEF Crowded, now
  <2>3. ASSUME ToldAgain(V2, j, key) PROVE Crowded(V2, key)
    <3>1. j \in now
      BY <2>1, <2>3 DEF ToldAgain, now
    <3>2. j \in before
      BY <1>5, <1>6, <3>1
    <3>3. is_near_duplicate(row.headline, V[j].headline)
      BY <2>1, <2>3 DEF ToldAgain
    <3>4. Cardinality(now) > RecentLimit + 1
      BY <1>8, <1>9, <3>2, <3>3
    <3> QED  BY <2>1, <3>4 DEF Crowded, now
  <2> QED  BY <2>1, <2>2, <2>3 DEF Apart
<1>10. ItemsOk(q, D2, V2, R)
  <2>1. \A k \in DOMAIN D2 : k[1] \in NewsTags
    BY <1>1, <1>2 DEF ItemsOk, NewsTags
  <2>2. r.kind = "sync" => Reliability(q.source) \in DOMAIN D2
    BY <1>1, <1>2, <1>4 DEF ItemsOk
  <2>3. \A i \in Of(D2, "item") : /\ i \notin DOMAIN R /\ i[2] = q.source
                                  /\ D2[i].discovered = Now
    BY <1>1, <1>2, <1>3, <1>4 DEF ItemsOk, Of
  <2>4. ASSUME r.kind = "sync", NEW i \in Of(D2, "item"), NEW j \in Of(V2, "item"),
               i # j, j[2] = q.source
        PROVE  Apart(V2, i, j) /\ Apart(V2, j, i)
    <3>1. i[2] = r.source /\ j[2] = r.source
      BY <1>4, <2>3, <2>4
    <3>2. i = key \/ i \in Of(D, "item") \cap Of(V, "item")
      BY <1>1 DEF Of, Overlay
    <3>3. j = key \/ j \in Of(V, "item")
      BY <1>1
    <3>4. CASE i = key \/ j = key
      BY <1>9, <2>4, <3>1, <3>2, <3>3, <3>4
    <3>5. CASE i # key /\ j # key
      <4>1. Apart(V, i, j) /\ Apart(V, j, i)
        BY <1>2, <2>4, <3>1, <3>2, <3>3, <3>5 DEF ItemsOk
      <4> QED  BY <1>7, <3>2, <3>3, <3>5, <4>1, ApartStands
    <3> QED  BY <3>4, <3>5
  <2> QED  BY <1>4, <2>1, <2>2, <2>3, <2>4 DEF ItemsOk
<1>11. LinksOk(q, D2, V2, R)
  BY <1>1, <1>2, <1>4, LinksKept
<1>12. EventsOk(q, D2, V2, R)
  BY <1>1, <1>2, EventsKept
<1>13. NewsWant(q, V2)
  BY DEF NewsWant
<1>14. ItemOk(q, D2, V2)
  <2>1. \A c : Link(key, c) \notin DOMAIN D
    <3> SUFFICES ASSUME NEW c, Link(key, c) \in DOMAIN D PROVE FALSE
      OBVIOUS
    <3>1. Link(key, c)[1] = "link" /\ Link(key, c)[2] = key
      BY DEF Link
    <3>2. Link(key, c) \in Of(D, "link")
      BY <3>1 DEF Of
    <3>3. key \in Of(V, "item")
      BY <1>2, <3>1, <3>2 DEF LinksOk
    <3> QED  BY <3>3 DEF Of
  <2>2. \A c : Link(key, c) \notin DOMAIN D2
    BY <1>1, <2>1 DEF Link
  <2> QED  BY <1>1, <1>4, <2>2 DEF ItemOk
<1>15. RecentOk(q, V2)
  <2> SUFFICES ASSUME r.kind = "sync", NEW i \in now, i[2] = r.source, i \notin q.recent
               PROVE  Cardinality(now) > RecentLimit
    BY <1>4 DEF RecentOk, now
  <2>1. i \in before
    BY <1>6
  <2>2. Cardinality(before) > RecentLimit
    BY <1>2, <1>4, <2>1 DEF RecentOk, before
  <2> QED  BY <1>7, <2>2 DEF NewsAssumption
<1> QED  BY <1>4, <1>10, <1>11, <1>12, <1>13, <1>14, <1>15 DEF NewsOk

LEMMA IngestKeeps ==
  ASSUME IInv, NEW s \in Sessions, Ingest(s), NewsAssumption
  PROVE  Keeps
<1> DEFINE r == sess[s]
           D == draft[s]
           V == View(s)
           entry == Head(r.feed)
           key == Item(r.source, entry.url)
           skipped == [r EXCEPT !.feed = Tail(@)]
           known == [skipped EXCEPT !.recent = @ \cup {key}]
           wanting == [r EXCEPT !.want = key]
           stored == [r EXCEPT !.pc = "link", !.item = key, !.recent = @ \cup {key},
                               !.companies = DOMAIN match(entry.headline)]
           row == NewItem(entry)
<1>0. r.pc = "entries" /\ NewsOk(r, D, V, db) /\ Overlay(D, V, db)
  BY NewsIs, ViewIs DEF Ingest, At
<1>1. \/ r.want = NONE /\ (Local(s, skipped) \/ Local(s, known))
      \/ r.want = NONE /\ ~Duplicate(s) /\ Local(s, wanting)
      \/ r.want # NONE /\ FlushNew(s, row, stored)
  BY DEF Ingest, Entry, GetOrCreate, FlushNew
<1>2. ~Duplicate(s) =>
         \A i \in Of(V, "item") : i[2] = r.source => Unlike(r, entry.headline, V, i)
  BY DEF Duplicate, Entry, Unlike
<1>3. /\ IsFiniteSet(Of(V, "item"))
      /\ \A i \in Of(V, "item") : V[i].discovered \in Int /\ V[i].discovered <= Now
  <2>1. \A i \in Of(D, "item") : D[i].discovered = Now
    BY <1>0 DEF NewsOk, ItemsOk
  <2>2. \A i \in Of(db, "item") : db[i].discovered \in Int /\ db[i].discovered <= Now
    BY DEF IInv, Consistent
  <2>3. IsFiniteSet(Of(V, "item"))
    BY SeenIsFinite DEF Numbered
  <2> QED  BY <1>0, <2>1, <2>2, <2>3 DEF Overlay, Of, NewsAssumption
<1>4. sess[s] = r /\ row.headline = entry.headline /\ row.discovered = Now
  BY DEF NewItem
<1>5. key[1] = "item" /\ key[2] = r.source /\ key = Item(r.source, entry.url)
  BY DEF Item
<1>d. entry = Head(r.feed)
  OBVIOUS
<1> HIDE DEF r, D, V, entry, key, row
<1>6. Shape(r, NewsFields) /\ NewsSteps(r) /\ r.kind = "sync"
  BY <1>0 DEF NewsOk, NewsSteps
<1>7. ASSUME NEW q, r.want = NONE, Local(s, q), q = skipped \/ q = known
      PROVE  Keeps
  <2>1. /\ Shape(q, NewsFields) /\ q.pc = "entries" /\ q.kind = r.kind
        /\ q.want = NONE /\ q.source = r.source /\ r.recent \subseteq q.recent
    <3>1. /\ Shape(skipped, NewsFields) /\ skipped.pc = "entries" /\ skipped.kind = r.kind
          /\ skipped.want = NONE /\ skipped.source = r.source /\ skipped.recent = r.recent
      BY <1>0, <1>6, <1>7 DEF Shape, NewsFields
    <3> HIDE DEF skipped
    <3>2. /\ Shape(known, NewsFields) /\ known.pc = "entries" /\ known.kind = r.kind
          /\ known.want = NONE /\ known.source = r.source
          /\ known.recent = r.recent \cup {key}
      BY <3>1 DEF Shape, NewsFields
    <3> QED  BY <1>7, <3>1, <3>2
  <2>2. Follows(r, q) /\ NewsWant(q, V) /\ ItemOk(q, D, V)
    BY <1>0, <1>6, <2>1 DEF Follows, NewsSteps, NewsWant, ItemOk
  <2>3. Ok(q, D, V, db)
    BY <1>0, <2>1, <2>2, NewsReads DEF Ok
  <2> QED  BY <1>7, <2>3, QuietKeeps DEF D, V
<1>8. CASE r.want = NONE /\ ~Duplicate(s) /\ Local(s, wanting)
  <2>1. /\ Shape(wanting, NewsFields) /\ wanting.pc = "entries" /\ wanting.kind = r.kind
        /\ wanting.want = key /\ wanting.source = r.source /\ wanting.recent = r.recent
        /\ wanting.feed = r.feed
    BY <1>0, <1>6 DEF Shape, NewsFields
  <2> HIDE DEF wanting
  <2>2. \A i \in Of(V, "item") : i[2] = r.source => Unlike(wanting, entry.headline, V, i)
    BY <1>2, <1>8, <2>1 DEF Unlike
  <2>3. NewsWant(wanting, V)
    BY <1>d, <1>5, <2>1, <2>2 DEF NewsWant
  <2>4. Follows(r, wanting) /\ ItemOk(wanting, D, V)
    BY <1>0, <1>6, <2>1 DEF Follows, NewsSteps, ItemOk
  <2>5. Ok(wanting, D, V, db)
    BY <1>0, <2>1, <2>3, <2>4, NewsReads DEF Ok
  <2> QED  BY <1>8, <2>5, QuietKeeps DEF D, V
<1>9. CASE r.want # NONE /\ FlushNew(s, row, stored)
  <2> DEFINE q == [stored EXCEPT !.want = NONE]
             D2 == AddRow(D, key, row)
             V2 == AddRow(V, key, row)
  <2>1. /\ r.want = key
        /\ \A i \in Of(V, "item") : i[2] = r.source => Unlike(r, row.headline, V, i)
    BY <1>0, <1>d, <1>4, <1>5, <1>9 DEF NewsOk, NewsWant
  <2>2. /\ Shape(q, NewsFields) /\ q.pc = "link" /\ q.kind = r.kind /\ q.want = NONE
        /\ q.source = r.source /\ q.recent = r.recent \cup {key} /\ q.item = key
    <3> DEFINE C == DOMAIN match(entry.headline)
    <3> HIDE DEF C
    <3>1. stored = [r EXCEPT !.pc = "link", !.item = key, !.recent = @ \cup {key},
                             !.companies = C]
      BY DEF C
    <3> HIDE DEF stored
    <3> QED  BY <1>6, <3>1 DEF Shape, NewsFields
  <2>3. D2 = AddRow(D, key, row) /\ V2 = AddRow(V, key, row) /\ OnTop(D, V, key, row, D2, V2)
    BY RowOnTop
  <2>4. sess[s].want = key
    BY <1>4, <2>1
  <2>5. key \notin DOMAIN V => Stands(V, V2)
    BY AddRowStands
  <2> HIDE DEF D2, V2, q
  <2>6. Follows(r, q)
    BY <1>0, <1>6, <2>2 DEF Follows, NewsSteps
  <2>7. key \notin DOMAIN V => NewsOk(q, D2, V2, db)
    BY <1>0, <1>3, <1>4, <1>5, <2>1, <2>2, <2>3, <2>5, <2>6, ItemRow
  <2>8. key \notin DOMAIN V => Ok(q, D2, V2, db)
    BY <2>2, <2>7 DEF Ok
  <2> HIDE DEF stored
  <2>9. key[1] # "interpretation" /\ key # NONE
    BY <1>5, <1>9, <2>1
  <2> QED  BY <1>9, <2>3, <2>4, <2>8, <2>9, FlushKeeps DEF D, V, q
<1> QED  BY <1>1, <1>7, <1>8, <1>9

\* The link of a company that a new item of a poll mentions.
LEMMA LinkRow ==
  ASSUME NEW r, NEW q, NEW D, NEW V, NEW R, NEW row, NEW c, NEW D2, NEW V2,
         Overlay(D, V, R), Supported(R), NewsOk(r, D, V, R),
         OnTop(D, V, Link(r.item, c), row, D2, V2),
         Stands(V, V2), r.pc = "link", c \in r.companies, Follows(r, q), q.want = NONE,
         q.item = r.item, q.companies = r.companies \ {c},
         r.kind = "sync" => q.pc = "cluster" /\ q.company = c,
         r.kind = "record" => q.pc = "link" /\ Link(r.item, c) \notin DOMAIN V
  PROVE  NewsOk(q, D2, V2, R)
<1> DEFINE key == Link(r.item, c)
<1>1. key[1] = "link" /\ key[2] = r.item /\ key[3] = c
  BY DEF Link
<1>2. \A d : Link(r.item, d) = key => d = c
  BY DEF Link
<1>3. OnTop(D, V, key, row, D2, V2)
  OBVIOUS
<1>d. key = Link(r.item, c)
  OBVIOUS
<1> HIDE DEF key
<1>4. /\ \A tag : tag # "link" => SameTable(D, D2, tag) /\ SameTable(V, V2, tag)
      /\ DOMAIN D \subseteq DOMAIN D2 /\ DOMAIN D2 = DOMAIN D \cup {key}
      /\ Of(D2, "link") = Of(D, "link") \cup {key}
  BY <1>1, <1>3 DEF OnTop
<1>5. /\ ItemsOk(r, D, V, R) /\ LinksOk(r, D, V, R) /\ EventsOk(r, D, V, R)
      /\ ItemOk(r, D, V) /\ NewsSteps(r)
  BY DEF NewsOk
<1>6. Shape(q, NewsFields) /\ NewsSteps(q) /\ q.kind = r.kind /\ q.source = r.source
  BY DEF Follows
<1>7. /\ r.item \in Of(V, "item") /\ r.item[2] = r.source /\ r.kind \in {"sync", "record"}
      /\ r.kind = "sync" => r.item \in Of(D, "item")
  BY <1>5 DEF ItemOk, NewsSteps
<1>8. \A tag : Of(V, tag) \subseteq Of(V2, tag) /\ Of(D, tag) \subseteq Of(D2, tag)
  BY <1>4 DEF Stands, Of, SameTable
<1>9. key \notin DOMAIN R
  <2>1. CASE r.kind = "sync"
    <3>1. r.item \notin DOMAIN R
      BY <1>5, <1>7, <2>1 DEF ItemsOk
    <3> QED  BY <1>1, <3>1 DEF Supported, Of
  <2>2. CASE r.kind = "record"
    BY <1>d, <2>2 DEF Overlay
  <2> QED  BY <1>7, <2>1, <2>2
<1>10. ItemsOk(q, D2, V2, R)
  <2>1. \A k \in DOMAIN D2 : k[1] \in NewsTags
    BY <1>1, <1>4, <1>5 DEF ItemsOk, NewsTags
  <2> QED  BY <1>4, <1>5, <1>6, <1>7, <2>1, ItemsKept
<1>11. EventsOk(q, D2, V2, R)
  BY <1>4, <1>5, EventsKept
<1>12. \A x \in Of(D, "eventitem") : V2[x[2]].company = V[x[2]].company
  BY <1>5 DEF LinksOk, Stands
<1>13. Of(D2, "eventitem") = Of(D, "eventitem")
  BY <1>4 DEF SameTable
<1>14. \A item, d : FiledIn(D2, V2, item, d) = FiledIn(D, V, item, d)
  BY <1>12, <1>13 DEF FiledIn
<1>15. LinksOk(q, D2, V2, R)
  <2>1. ASSUME NEW l \in Of(D2, "link")
        PROVE  /\ l \notin DOMAIN R /\ l = Link(l[2], l[3])
               /\ l[2] \in Of(V2, "item") /\ l[2][2] = q.source
               /\ q.kind = "sync" =>
                     /\ l[2] \in Of(D2, "item")
                     /\ \/ q.pc \in {"cluster", "join"} /\ l = Link(q.item, q.company)
                        \/ \E x \in FiledIn(D2, V2, l[2], l[3]) :
                              FiledIn(D2, V2, l[2], l[3]) = {x}
    <3>1. CASE l = key
      BY <1>1, <1>d, <1>6, <1>7, <1>8, <1>9, <3>1
    <3>2. CASE l \in Of(D, "link")
      BY <1>5, <1>6, <1>8, <1>14, <3>2 DEF LinksOk
    <3> QED  BY <1>4, <3>1, <3>2
  <2>2. ASSUME NEW x \in Of(D2, "eventitem")
        PROVE  /\ x \notin DOMAIN R
               /\ x[2] \in Of(V2, "event") /\ x[3] \in Of(V2, "item") /\ x[3][2] = q.source
               /\ q.kind = "sync" =>
                     x[3] \in Of(D2, "item") /\ Link(x[3], V2[x[2]].company) \in DOMAIN D2
    BY <1>4, <1>5, <1>6, <1>8, <1>12, <1>13 DEF LinksOk
  <2> QED  BY <2>1, <2>2 DEF LinksOk
<1>16. ItemOk(q, D2, V2)
  <2>1. q.item \in Of(V2, "item") /\ q.item[2] = q.source
    BY <1>6, <1>7, <1>8
  <2>2. ASSUME r.kind = "sync"
        PROVE  /\ q.item \in Of(D2, "item")
               /\ \A d \in q.companies : Link(q.item, d) \notin DOMAIN D2
               /\ Link(q.item, q.company) \in DOMAIN D2
               /\ FiledIn(D2, V2, q.item, q.company) = {}
    <3>1. /\ \A d \in r.companies : Link(r.item, d) \notin DOMAIN D
          /\ q.company = c
      BY <1>5, <2>2 DEF ItemOk
    <3>2. \A d \in q.companies : Link(q.item, d) \notin DOMAIN D2
      BY <1>2, <1>4, <3>1
    <3>3. FiledIn(D, V, r.item, c) = {}
      BY <1>5, <2>2, <3>1 DEF LinksOk, FiledIn
    <3> QED  BY <1>d, <1>4, <1>7, <1>8, <1>14, <2>2, <3>1, <3>2, <3>3
  <2>3. q.pc # "join"
    BY <1>7
  <2> QED  BY <1>6, <2>1, <2>2, <2>3 DEF ItemOk
<1>17. NewsWant(q, V2)
  BY <1>7 DEF NewsWant
<1>18. RecentOk(q, V2)
  BY <1>4, RecentKept DEF NewsOk
<1> QED  BY <1>6, <1>10, <1>11, <1>15, <1>16, <1>17, <1>18 DEF NewsOk

\* No other session can hold the link of an item that nobody else sees.
LEMMA LinkIsOurs ==
  ASSUME IInv, NEW s \in Sessions, NEW t \in Sessions, t # s, NEW c,
         NEW item \in Of(draft[s], "item"), item \notin DOMAIN db
  PROVE  Link(item, c) \notin DOMAIN draft[t]
<1> SUFFICES ASSUME Link(item, c) \in DOMAIN draft[t] PROVE FALSE
  OBVIOUS
<1>1. Link(item, c)[1] = "link" /\ Link(item, c)[2] = item
  BY DEF Link
<1>2. NewsOk(sess[t], draft[t], View(t), db) /\ Link(item, c) \in Of(draft[t], "link")
  BY <1>1, NewsDrafts DEF Of
<1>3. item \in Of(View(t), "item")
  BY <1>1, <1>2 DEF NewsOk, LinksOk
<1>4. item \in DOMAIN db \/ item \in DOMAIN draft[t]
  BY <1>3 DEF Of, View
<1> QED  BY <1>4 DEF IInv, DraftsDisjoint, Of

LEMMA LinkCompanyKeeps ==
  ASSUME IInv, NEW s \in Sessions, LinkCompany(s)
  PROVE  Keeps
<1> DEFINE r == sess[s]
           D == draft[s]
           V == View(s)
           linked(c) == [r EXCEPT !.pc = "cluster", !.company = c, !.companies = @ \ {c}]
<1>0. /\ r.pc = "link" /\ r.kind = "sync"
      /\ NewsOk(r, D, V, db) /\ Overlay(D, V, db) /\ Supported(db)
  BY NewsIs, ViewIs DEF LinkCompany, At, IInv, Consistent
<1>1. PICK c \in r.companies : \E row : InsertRow(s, Link(r.item, c), row, linked(c))
  BY DEF LinkCompany
<1>2. PICK row : InsertRow(s, Link(r.item, c), row, linked(c))
  BY <1>1
<1>3. r.item \in Of(D, "item") /\ r.item \notin DOMAIN db
  BY <1>0 DEF NewsOk, ItemOk, ItemsOk
<1> DEFINE q == linked(c)
           key == Link(r.item, c)
           D2 == AddRow(D, key, row)
           V2 == AddRow(V, key, row)
<1>4. \A t \in Sessions : t # s => key \notin DOMAIN draft[t]
  BY <1>3, LinkIsOurs
<1>5. key[1] = "link"
  BY DEF Link
<1>6. /\ D2 = AddRow(D, key, row) /\ V2 = AddRow(V, key, row)
      /\ OnTop(D, V, key, row, D2, V2)
  BY RowOnTop
<1>7. Stands(V, V2)
  BY <1>5, AddRowStands
<1> HIDE DEF r, D, V, D2, V2
<1>8. Shape(r, NewsFields) /\ NewsSteps(r) /\ r.want = NONE
  BY <1>0 DEF NewsOk, NewsWant
<1>9. /\ Shape(q, NewsFields) /\ q.pc = "cluster" /\ q.kind = r.kind /\ q.want = NONE
      /\ q.source = r.source /\ q.recent = r.recent /\ q.item = r.item /\ q.company = c
      /\ q.companies = r.companies \ {c}
  BY <1>8 DEF Shape, NewsFields
<1> HIDE DEF linked
<1>10. Follows(r, q)
  BY <1>0, <1>8, <1>9 DEF Follows, NewsSteps
<1>11. NewsOk(q, D2, V2, db)
  BY <1>0, <1>1, <1>6, <1>7, <1>9, <1>10, LinkRow
<1> HIDE DEF key
<1>12. Ok(q, D2, V2, db)
  BY <1>9, <1>11 DEF Ok
<1> QED  BY <1>2, <1>4, <1>5, <1>6, <1>12, RowKeeps DEF D, V, key

LEMMA NextEntryKeeps ==
  ASSUME IInv, NEW s \in Sessions, NextEntry(s)
  PROVE  Keeps
<1> DEFINE r == sess[s]
           D == draft[s]
           V == View(s)
           q == [r EXCEPT !.pc = "entries", !.feed = Tail(@), !.item = NONE]
<1>0. /\ r.pc = "link" /\ r.kind = "sync" /\ Local(s, q)
      /\ NewsOk(r, D, V, db) /\ Overlay(D, V, db)
  BY NewsIs, ViewIs DEF NextEntry, At
<1> HIDE DEF r, D, V
<1>1. Shape(r, NewsFields) /\ NewsSteps(r) /\ r.want = NONE
  BY <1>0 DEF NewsOk, NewsWant
<1>2. /\ Shape(q, NewsFields) /\ q.pc = "entries" /\ q.kind = r.kind /\ q.want = NONE
      /\ q.source = r.source /\ q.recent = r.recent
  BY <1>1 DEF Shape, NewsFields
<1> HIDE DEF q
<1>3. Follows(r, q) /\ NewsWant(q, V) /\ ItemOk(q, D, V)
  BY <1>0, <1>1, <1>2 DEF Follows, NewsSteps, NewsWant, ItemOk
<1>4. Ok(q, D, V, db)
  BY <1>0, <1>2, <1>3, NewsReads DEF Ok
<1> QED  BY <1>0, <1>4, QuietKeeps DEF D, V

LEMMA EndOfFeedKeeps ==
  ASSUME IInv, NEW s \in Sessions, EndOfFeed(s)
  PROVE  Keeps
<1> DEFINE r == sess[s]
           D == draft[s]
           V == View(s)
           q == [r EXCEPT !.pc = "done"]
<1>0. r.pc = "entries" /\ Local(s, q) /\ NewsOk(r, D, V, db) /\ Overlay(D, V, db)
  BY NewsIs, ViewIs DEF EndOfFeed, At
<1> HIDE DEF r, D, V
<1>1. Shape(r, NewsFields) /\ NewsSteps(r)
  BY <1>0 DEF NewsOk
<1>2. Shape(q, NewsFields) /\ q.pc = "done" /\ q.kind = r.kind /\ q.source = r.source /\ q.recent = r.recent
  BY <1>1 DEF Shape, NewsFields
<1> HIDE DEF q
<1>3. Follows(r, q) /\ NewsWant(q, V) /\ ItemOk(q, D, V)
  BY <1>0, <1>1, <1>2 DEF Follows, NewsSteps, NewsWant, ItemOk
<1>4. Ok(q, D, V, db)
  BY <1>0, <1>2, <1>3, NewsReads DEF Ok
<1> QED  BY <1>0, <1>4, QuietKeeps DEF D, V

-----------------------------------------------------------------------------
(* cluster_event.                                                          *)

\* What the event chosen is, whichever it is: of the company at hand.
LEMMA Joining ==
  ASSUME NEW r, NEW q, NEW D, NEW V, NEW R, NEW D2, NEW V2, NEW e,
         NewsOk(r, D, V, R), r.pc = "cluster", Stands(V, V2), DOMAIN D \subseteq DOMAIN D2,
         SameTable(D, D2, "item"), SameTable(D, D2, "link"), SameTable(D, D2, "eventitem"),
         e \in Of(V2, "event"), V2[e].company = r.company,
         Follows(r, q), q.pc = "join", q.want = NONE, q.event = e, q.item = r.item,
         q.company = r.company, q.companies = r.companies
  PROVE  NewsWant(q, V2) /\ ItemOk(q, D2, V2) /\ LinksOk(q, D2, V2, R)
<1>1. LinksOk(r, D, V, R) /\ ItemOk(r, D, V) /\ q.kind = r.kind /\ q.source = r.source
  BY DEF NewsOk, Follows
<1>2. LinksOk(q, D2, V2, R)
  BY <1>1, LinksKept
<1>3. NewsWant(q, V2)
  BY DEF NewsWant
<1>4. FiledIn(D2, V2, r.item, r.company) = FiledIn(D, V, r.item, r.company)
  BY <1>1 DEF FiledIn, LinksOk, SameTable, Stands
<1>5. r.item \in Of(V2, "item") /\ Of(D2, "item") = Of(D, "item")
  BY <1>1 DEF ItemOk, Stands, Of, SameTable
<1>6. \A c : Link(r.item, c) \in DOMAIN D2 <=> Link(r.item, c) \in DOMAIN D
  <2>1. \A c : Link(r.item, c)[1] = "link"
    BY DEF Link
  <2> QED  BY <2>1 DEF SameTable, Of
<1>7. ItemOk(q, D2, V2)
  BY <1>1, <1>4, <1>5, <1>6 DEF ItemOk
<1> QED  BY <1>2, <1>3, <1>7

\* A new event for the item at hand.
LEMMA EventRow ==
  ASSUME NEW r, NEW q, NEW D, NEW V, NEW R, NEW key, NEW row, NEW D2, NEW V2,
         Overlay(D, V, R), NewsOk(r, D, V, R), OnTop(D, V, key, row, D2, V2),
         key[1] = "event", key \notin DOMAIN V, Stands(V, V2), r.pc = "cluster",
         DOMAIN row = EventColumns, row.company = r.company,
         row.headline = V[r.item].headline,
         Follows(r, q), q.pc = "join", q.want = NONE, q.event = key, q.item = r.item,
         q.company = r.company, q.companies = r.companies
  PROVE  NewsOk(q, D2, V2, R)
<1>1. /\ \A tag : tag # "event" => SameTable(D, D2, tag) /\ SameTable(V, V2, tag)
      /\ DOMAIN D \subseteq DOMAIN D2 /\ DOMAIN D2 = DOMAIN D \cup {key} /\ D2[key] = row
      /\ V2[key] = row
      /\ \A k \in DOMAIN D : k # key => D2[k] = D[k]
      /\ Of(D2, "event") = Of(D, "event") \cup {key}
      /\ Of(V2, "event") = Of(V, "event") \cup {key}
  BY DEF OnTop
<1>2. /\ ItemsOk(r, D, V, R) /\ EventsOk(r, D, V, R) /\ ItemOk(r, D, V) /\ NewsSteps(r)
      /\ Shape(q, NewsFields) /\ NewsSteps(q) /\ q.kind = r.kind /\ q.source = r.source
  BY DEF NewsOk, Follows
<1>3. NewsWant(q, V2) /\ ItemOk(q, D2, V2) /\ LinksOk(q, D2, V2, R)
  BY <1>1, Joining
<1>4. ItemsOk(q, D2, V2, R)
  <2>1. \A k \in DOMAIN D2 : k[1] \in NewsTags
    BY <1>1, <1>2 DEF ItemsOk, NewsTags
  <2> QED  BY <1>1, <1>2, <2>1, ItemsKept
<1>5. EventsOk(q, D2, V2, R)
  <2> SUFFICES ASSUME NEW e \in Of(D2, "event")
               PROVE  /\ DOMAIN D2[e] = EventColumns
                      /\ e \in DOMAIN R => D2[e].company = R[e].company
                                           /\ D2[e].headline = R[e].headline
                      /\ \/ About(V2, e)
                         \/ /\ q.pc = "join" /\ q.event = e
                            /\ V2[q.item].headline = V2[e].headline
    BY DEF EventsOk
  <2>1. CASE e = key
    <3>1. key \notin DOMAIN R
      BY DEF Overlay
    <3>2. V2[r.item] = V[r.item]
      BY <1>2 DEF ItemOk, Stands
    <3> QED  BY <1>1, <2>1, <3>1, <3>2
  <2>2. CASE e # key
    <3>1. e \in Of(D, "event") /\ D2[e] = D[e] /\ e \in Of(V, "event")
      BY <1>1, <2>2 DEF Of, Overlay
    <3>2. About(V, e)
      BY <1>2, <3>1 DEF EventsOk
    <3>3. About(V2, e)
      BY <3>1, <3>2, AboutStands
    <3> QED  BY <1>2, <3>1, <3>3 DEF EventsOk
  <2> QED  BY <2>1, <2>2
<1>6. RecentOk(q, V2)
  BY <1>1, RecentKept DEF NewsOk
<1> QED  BY <1>2, <1>3, <1>4, <1>5, <1>6 DEF NewsOk

\* An event of the view is one of the draft or of the database, with an item.
LEMMA EventOfView ==
  ASSUME NEW r, NEW D, NEW V, NEW R, Overlay(D, V, R), NewsOk(r, D, V, R), Consistent(R),
         r.pc # "join", NEW e \in Of(V, "event")
  PROVE  /\ DOMAIN V[e] = EventColumns /\ About(V, e)
         /\ e \in DOMAIN R => V[e].company = R[e].company /\ V[e].headline = R[e].headline
<1>1. CASE e \in DOMAIN D
  <2>1. e \in Of(D, "event") /\ V[e] = D[e]
    BY <1>1 DEF Overlay, Of
  <2> QED  BY <2>1 DEF NewsOk, EventsOk
<1>2. CASE e \notin DOMAIN D
  <2>1. e \in Of(R, "event") /\ V[e] = R[e]
    BY <1>2 DEF Overlay, Of
  <2>2. PICK i \in Of(R, "item") : EventItem(e, i) \in DOMAIN R /\ R[i].headline = R[e].headline
    BY <2>1 DEF Consistent, Supported
  <2>3. i \in Of(V, "item") /\ V[i] = R[i] /\ EventItem(e, i) \in DOMAIN V
    BY <2>2 DEF Overlay, Of, NewsOk, ItemsOk
  <2>4. About(V, e)
    BY <2>1, <2>2, <2>3 DEF About
  <2> QED  BY <2>1, <2>4 DEF Consistent
<1> QED  BY <1>1, <1>2

\* The end of an event is moved, and nothing else of it.
LEMMA EventMoved ==
  ASSUME NEW r, NEW q, NEW D, NEW V, NEW R, NEW key, NEW row, NEW D2, NEW V2,
         Overlay(D, V, R), NewsOk(r, D, V, R), Consistent(R),
         OnTop(D, V, key, row, D2, V2), Stands(V, V2),
         key \in Of(V, "event"), V[key].company = r.company, r.pc = "cluster",
         DOMAIN row = EventColumns, row.company = V[key].company,
         row.headline = V[key].headline,
         Follows(r, q), q.pc = "join", q.want = NONE, q.event = key, q.item = r.item,
         q.company = r.company, q.companies = r.companies
  PROVE  NewsOk(q, D2, V2, R)
<1>0. key[1] = "event"
  BY DEF Of
<1>1. /\ \A tag : tag # "event" => SameTable(D, D2, tag) /\ SameTable(V, V2, tag)
      /\ DOMAIN D \subseteq DOMAIN D2 /\ DOMAIN D2 = DOMAIN D \cup {key} /\ D2[key] = row
      /\ V2[key] = row
      /\ \A k \in DOMAIN D : k # key => D2[k] = D[k]
      /\ Of(D2, "event") = Of(D, "event") \cup {key}
      /\ Of(V2, "event") = Of(V, "event") \cup {key}
  BY <1>0 DEF OnTop
<1>2. /\ ItemsOk(r, D, V, R) /\ EventsOk(r, D, V, R) /\ ItemOk(r, D, V) /\ NewsSteps(r)
      /\ Shape(q, NewsFields) /\ NewsSteps(q) /\ q.kind = r.kind /\ q.source = r.source
  BY DEF NewsOk, Follows
<1>3. NewsWant(q, V2) /\ ItemOk(q, D2, V2) /\ LinksOk(q, D2, V2, R)
  BY <1>1, Joining
<1>4. ItemsOk(q, D2, V2, R)
  <2>1. \A k \in DOMAIN D2 : k[1] \in NewsTags
    BY <1>0, <1>1, <1>2 DEF ItemsOk, NewsTags
  <2> QED  BY <1>1, <1>2, <2>1, ItemsKept
<1>5. EventsOk(q, D2, V2, R)
  <2> SUFFICES ASSUME NEW e \in Of(D2, "event")
               PROVE  /\ DOMAIN D2[e] = EventColumns
                      /\ e \in DOMAIN R => D2[e].company = R[e].company
                                           /\ D2[e].headline = R[e].headline
                      /\ About(V2, e)
    BY DEF EventsOk
  <2>1. e \in Of(V, "event")
    BY <1>1 DEF Of, Overlay
  <2>2. /\ About(V, e)
        /\ e \in DOMAIN R => V[e].company = R[e].company /\ V[e].headline = R[e].headline
    BY <2>1, EventOfView
  <2>3. About(V2, e)
    BY <2>1, <2>2, AboutStands
  <2>4. CASE e = key
    BY <1>1, <2>2, <2>3, <2>4
  <2>5. CASE e # key
    <3>1. e \in Of(D, "event") /\ D2[e] = D[e]
      BY <1>1, <2>5 DEF Of
    <3> QED  BY <1>2, <2>3, <3>1 DEF EventsOk
  <2> QED  BY <2>4, <2>5
<1>6. RecentOk(q, V2)
  BY <1>1, RecentKept DEF NewsOk
<1> QED  BY <1>2, <1>3, <1>4, <1>5, <1>6 DEF NewsOk

LEMMA ClusterKeeps ==
  ASSUME IInv, NEW s \in Sessions, cluster_event(s), InterpretationAssumption
  PROVE  Keeps
<1> DEFINE r == sess[s]
           D == draft[s]
           V == View(s)
           at == reference_time(V[r.item])
           new == Event(Fresh("event"))
           row == [company |-> r.company, headline |-> V[r.item].headline,
                   first_seen |-> at, last_seen |-> at]
           moved == [V[r.want] EXCEPT !.last_seen = at]
           to(k) == [r EXCEPT !.pc = "join", !.event = k]
           wanting(k) == [r EXCEPT !.want = k]
           theirs == {k \in Of(V, "event") : V[k].company = r.company}
<1>0. /\ r.pc = "cluster" /\ NewsOk(r, D, V, db) /\ Overlay(D, V, db) /\ Consistent(db)
  BY NewsIs, ViewIs DEF cluster_event, At, IInv
<1>1. \/ Rollback(s)
      \/ r.want = NONE /\ \E k \in theirs : Local(s, wanting(k)) \/ Local(s, to(k))
      \/ r.want = NONE /\ InsertRow(s, new, row, to(new))
      \/ r.want # NONE /\ FlushUpdate(s, moved, to(r.want))
  <2> DEFINE best == best_clusters(s, V[r.item], candidates(s, r.company, at - Window))
  <2>1. best \subseteq theirs
    BY DEF best_clusters, candidates
  <2>2. \/ Rollback(s)
        \/ r.want = NONE /\ \E k \in best : Local(s, wanting(k)) \/ Local(s, to(k))
        \/ r.want = NONE /\ InsertRow(s, new, row, to(new))
        \/ FlushUpdate(s, moved, to(r.want))
    <3> HIDE DEF theirs
    <3> QED  BY DEF cluster_event
  <2>3. FlushUpdate(s, moved, to(r.want)) => r.want # NONE
    BY DEF FlushUpdate
  <2> HIDE DEF best, theirs, r
  <2> QED  BY <2>1, <2>2, <2>3
<1>2. new \notin DOMAIN V /\ \A t \in Sessions : new \notin DOMAIN draft[t]
  BY FreshKey DEF Numbered, Event
<1>3. new[1] = "event" /\ sess[s] = r
  BY DEF Event
<1> HIDE DEF r, D, V, at, new, row, moved
<1>4. Shape(r, NewsFields) /\ NewsSteps(r) /\ ItemOk(r, D, V)
  BY <1>0 DEF NewsOk
<1>5. ASSUME NEW k
      PROVE  /\ Shape(to(k), NewsFields) /\ to(k).pc = "join" /\ to(k).kind = r.kind
             /\ to(k).want = r.want /\ to(k).source = r.source /\ to(k).recent = r.recent /\ to(k).event = k
             /\ to(k).item = r.item /\ to(k).company = r.company
             /\ to(k).companies = r.companies
  BY <1>4 DEF Shape, NewsFields
<1>6. ASSUME NEW k
      PROVE  /\ Shape(wanting(k), NewsFields) /\ wanting(k).pc = "cluster"
             /\ wanting(k).kind = r.kind /\ wanting(k).want = k
             /\ wanting(k).source = r.source /\ wanting(k).recent = r.recent
             /\ wanting(k).item = r.item /\ wanting(k).company = r.company
             /\ wanting(k).companies = r.companies
  BY <1>0, <1>4 DEF Shape, NewsFields
<1> HIDE DEF to, wanting
<1>7. ASSUME NEW k \in theirs, r.want = NONE, Local(s, wanting(k)) \/ Local(s, to(k))
      PROVE  Keeps
  <2>1. k \in Of(V, "event") /\ V[k].company = r.company
    OBVIOUS
  <2> HIDE DEF theirs
  <2>2. Ok(wanting(k), D, V, db)
    <3> DEFINE q == wanting(k)
    <3>1. Follows(r, q) /\ NewsWant(q, V) /\ ItemOk(q, D, V)
      BY <1>0, <1>4, <1>6, <2>1 DEF Follows, NewsSteps, NewsWant, ItemOk
    <3>2. NewsOk(q, D, V, db)
      BY <1>0, <1>6, <3>1, NewsReads
    <3> QED  BY <1>6, <3>2 DEF Ok
  <2>3. Ok(to(k), D, V, db)
    <3> DEFINE q == to(k)
    <3>1. Follows(r, q) /\ NewsWant(q, V) /\ ItemOk(q, D, V)
      BY <1>0, <1>4, <1>5, <1>7, <2>1 DEF Follows, NewsSteps, NewsWant, ItemOk
    <3>2. NewsOk(q, D, V, db)
      BY <1>0, <1>5, <3>1, NewsReads
    <3> QED  BY <1>5, <3>2 DEF Ok
  <2> QED  BY <1>7, <2>2, <2>3, QuietKeeps DEF D, V
<1>8. CASE r.want = NONE /\ InsertRow(s, new, row, to(new))
  <2> DEFINE q == to(new)
             D2 == AddRow(D, new, row)
             V2 == AddRow(V, new, row)
  <2>1. /\ D2 = AddRow(D, new, row) /\ V2 = AddRow(V, new, row)
        /\ OnTop(D, V, new, row, D2, V2)
    BY RowOnTop
  <2>2. Stands(V, V2)
    BY <1>2, AddRowStands
  <2>3. DOMAIN row = EventColumns /\ row.company = r.company
        /\ row.headline = V[r.item].headline
    BY DEF row, EventColumns
  <2> HIDE DEF D2, V2
  <2>4. Follows(r, q)
    BY <1>0, <1>4, <1>5 DEF Follows, NewsSteps
  <2>5. NewsOk(q, D2, V2, db)
    BY <1>0, <1>2, <1>3, <1>5, <1>8, <2>1, <2>2, <2>3, <2>4, EventRow
  <2>6. Ok(q, D2, V2, db)
    BY <1>5, <2>5 DEF Ok
  <2> QED  BY <1>2, <1>3, <1>8, <2>1, <2>6, RowKeeps DEF D, V
<1>9. CASE r.want # NONE /\ FlushUpdate(s, moved, to(r.want))
  <2> DEFINE key == r.want
             q == [to(key) EXCEPT !.want = NONE]
             D2 == AddRow(D, key, moved)
             V2 == AddRow(V, key, moved)
  <2>1. key \in Of(V, "event") /\ V[key].company = r.company
    BY <1>0, <1>9 DEF NewsOk, NewsWant
  <2>2. DOMAIN V[key] = EventColumns
    BY <1>0, <2>1, EventOfView
  <2>3. /\ DOMAIN moved = EventColumns /\ moved.company = V[key].company
        /\ moved.headline = V[key].headline
    BY <2>2 DEF moved, EventColumns
  <2>4. key[1] = "event"
    BY <2>1 DEF Of
  <2>5. /\ D2 = AddRow(D, key, moved) /\ V2 = AddRow(V, key, moved)
        /\ OnTop(D, V, key, moved, D2, V2)
    BY RowOnTop
  <2>6. Stands(V, V2)
    BY <2>3, <2>4, AddRowStands
  <2>7. /\ Shape(q, NewsFields) /\ q.pc = "join" /\ q.kind = r.kind
        /\ q.want = NONE /\ q.source = r.source /\ q.recent = r.recent /\ q.event = key
        /\ q.item = r.item /\ q.company = r.company /\ q.companies = r.companies
    BY <1>5 DEF Shape, NewsFields
  <2> HIDE DEF D2, V2, q
  <2>8. Follows(r, q)
    BY <1>0, <1>4, <2>7 DEF Follows, NewsSteps
  <2>9. NewsOk(q, D2, V2, db)
    BY <1>0, <2>1, <2>3, <2>5, <2>6, <2>7, <2>8, EventMoved
  <2>10. Ok(q, D2, V2, db)
    BY <2>7, <2>9 DEF Ok
  <2> QED  BY <1>3, <1>9, <2>4, <2>5, <2>10, UpdateKeeps DEF D, V, q
<1> HIDE DEF theirs
<1> QED  BY <1>1, <1>7, <1>8, <1>9, RollbackKeeps

\* The item is filed under its event.
LEMMA JoinRow ==
  ASSUME NEW r, NEW q, NEW D, NEW V, NEW R, NEW row, NEW D2, NEW V2,
         Overlay(D, V, R), NewsOk(r, D, V, R),
         OnTop(D, V, EventItem(r.event, r.item), row, D2, V2), Stands(V, V2),
         EventItem(r.event, r.item) \notin DOMAIN V, r.pc = "join", Follows(r, q),
         q.want = NONE, q.item = r.item, q.companies = r.companies,
         r.kind = "sync" => q.pc = "link", r.kind = "record" => q.pc = "done"
  PROVE  NewsOk(q, D2, V2, R)
<1> DEFINE key == EventItem(r.event, r.item)
<1>1. key[1] = "eventitem" /\ key[2] = r.event /\ key[3] = r.item
  BY DEF EventItem
<1>2. OnTop(D, V, key, row, D2, V2) /\ key \notin DOMAIN V
  OBVIOUS
<1>d. key = EventItem(r.event, r.item)
  OBVIOUS
<1> HIDE DEF key
<1>3. /\ \A tag : tag # "eventitem" => SameTable(D, D2, tag) /\ SameTable(V, V2, tag)
      /\ DOMAIN D \subseteq DOMAIN D2 /\ DOMAIN D2 = DOMAIN D \cup {key}
      /\ DOMAIN V2 = DOMAIN V \cup {key}
      /\ Of(D2, "eventitem") = Of(D, "eventitem") \cup {key}
  BY <1>1, <1>2 DEF OnTop
<1>4. /\ ItemsOk(r, D, V, R) /\ LinksOk(r, D, V, R) /\ EventsOk(r, D, V, R)
      /\ ItemOk(r, D, V) /\ NewsSteps(r)
      /\ Shape(q, NewsFields) /\ NewsSteps(q) /\ q.kind = r.kind /\ q.source = r.source
  BY DEF NewsOk, Follows
<1>5. /\ r.item \in Of(V, "item") /\ r.item[2] = r.source /\ r.kind \in {"sync", "record"}
      /\ r.event \in Of(V, "event") /\ V[r.event].company = r.company
      /\ r.kind = "sync" => /\ r.item \in Of(D, "item")
                            /\ Link(r.item, r.company) \in DOMAIN D
                            /\ FiledIn(D, V, r.item, r.company) = {}
                            /\ \A c \in r.companies : Link(r.item, c) \notin DOMAIN D
  BY <1>4 DEF ItemOk, NewsSteps
<1>6. \A tag : Of(V, tag) \subseteq Of(V2, tag) /\ Of(D, tag) \subseteq Of(D2, tag)
  BY <1>3 DEF Stands, Of
<1>7. \A x \in Of(D2, "eventitem") : x[2] \in Of(V, "event") /\ V2[x[2]].company = V[x[2]].company
  BY <1>1, <1>3, <1>4, <1>5 DEF LinksOk, Stands
<1>8. ItemsOk(q, D2, V2, R)
  <2>1. \A k \in DOMAIN D2 : k[1] \in NewsTags
    BY <1>1, <1>3, <1>4 DEF ItemsOk, NewsTags
  <2> QED  BY <1>3, <1>4, <1>5, <2>1, ItemsKept
<1>9. EventsOk(q, D2, V2, R)
  BY <1>d, <1>3, <1>4, EventsKept
<1>10. \A item, c :
          /\ (item = r.item /\ c = r.company) =>
                FiledIn(D2, V2, item, c) = FiledIn(D, V, item, c) \cup {key}
          /\ ~(item = r.item /\ c = r.company) =>
                FiledIn(D2, V2, item, c) = FiledIn(D, V, item, c)
  <2> TAKE item, c
  <2>1. \A x \in Of(D, "eventitem") : V2[x[2]].company = V[x[2]].company
    BY <1>3, <1>7
  <2>2. V2[r.event].company = r.company
    BY <1>1, <1>3, <1>5, <1>7
  <2> QED  BY <1>1, <1>3, <2>1, <2>2 DEF FiledIn
<1>11. LinksOk(q, D2, V2, R)
  <2>1. ASSUME NEW l \in Of(D2, "link")
        PROVE  /\ l \notin DOMAIN R /\ l = Link(l[2], l[3])
               /\ l[2] \in Of(V2, "item") /\ l[2][2] = q.source
               /\ q.kind = "sync" =>
                     /\ l[2] \in Of(D2, "item")
                     /\ \E x \in FiledIn(D2, V2, l[2], l[3]) :
                           FiledIn(D2, V2, l[2], l[3]) = {x}
    <3>1. l \in Of(D, "link")
      BY <1>3 DEF SameTable
    <3>2. /\ l \notin DOMAIN R /\ l = Link(l[2], l[3])
          /\ l[2] \in Of(V, "item") /\ l[2][2] = r.source
          /\ r.kind = "sync" => l[2] \in Of(D, "item")
      BY <1>4, <3>1 DEF LinksOk
    <3>3. ASSUME r.kind = "sync"
          PROVE  \E x \in FiledIn(D2, V2, l[2], l[3]) : FiledIn(D2, V2, l[2], l[3]) = {x}
      <4>1. CASE l[2] = r.item /\ l[3] = r.company
        <5>1. FiledIn(D2, V2, l[2], l[3]) = {key}
          BY <1>5, <1>10, <3>3, <4>1
        <5> QED  BY <5>1
      <4>2. CASE ~(l[2] = r.item /\ l[3] = r.company)
        <5>1. FiledIn(D2, V2, l[2], l[3]) = FiledIn(D, V, l[2], l[3])
          BY <1>10, <4>2
        <5>2. l # Link(r.item, r.company)
          BY <4>2 DEF Link
        <5> QED  BY <1>4, <3>1, <3>3, <5>1, <5>2 DEF LinksOk
      <4> QED  BY <4>1, <4>2
    <3> QED  BY <1>4, <1>6, <3>2, <3>3
  <2>2. ASSUME NEW x \in Of(D2, "eventitem")
        PROVE  /\ x \notin DOMAIN R
               /\ x[2] \in Of(V2, "event") /\ x[3] \in Of(V2, "item") /\ x[3][2] = q.source
               /\ q.kind = "sync" =>
                     x[3] \in Of(D2, "item") /\ Link(x[3], V2[x[2]].company) \in DOMAIN D2
    <3>1. CASE x = key
      <4>1. key \notin DOMAIN R
        BY <1>2 DEF Overlay
      <4> QED  BY <1>1, <1>3, <1>4, <1>5, <1>6, <1>7, <3>1, <4>1
    <3>2. CASE x \in Of(D, "eventitem")
      BY <1>3, <1>4, <1>6, <1>7, <3>2 DEF LinksOk
    <3> QED  BY <1>3, <3>1, <3>2
  <2> QED  BY <2>1, <2>2 DEF LinksOk
<1>12. ItemOk(q, D2, V2)
  <2>1. \A c : Link(r.item, c) # key
    BY <1>1 DEF Link
  <2> QED  BY <1>3, <1>4, <1>5, <1>6, <2>1 DEF ItemOk
<1>13. NewsWant(q, V2)
  BY <1>5 DEF NewsWant
<1>14. RecentOk(q, V2)
  BY <1>3, RecentKept DEF NewsOk
<1> QED  BY <1>4, <1>8, <1>9, <1>11, <1>12, <1>13, <1>14 DEF NewsOk

LEMMA JoinEventKeeps ==
  ASSUME IInv, NEW s \in Sessions, JoinEvent(s)
  PROVE  Keeps
<1> DEFINE r == sess[s]
           D == draft[s]
           V == View(s)
           key == EventItem(r.event, r.item)
           after == [r EXCEPT !.pc = IF r.kind = "sync" THEN "link" ELSE "done"]
           wanting == [r EXCEPT !.want = key]
<1>0. r.pc = "join" /\ NewsOk(r, D, V, db) /\ Overlay(D, V, db) /\ Supported(db)
  BY NewsIs, ViewIs DEF JoinEvent, At, IInv, Consistent
<1>1. \/ r.want = NONE /\ key \in DOMAIN V /\ Local(s, after)
      \/ r.want = NONE /\ Local(s, wanting)
      \/ r.want # NONE /\ FlushNew(s, TRUE, after)
  BY DEF JoinEvent, GetOrCreate, Sees, View, FlushNew
<1>2. key[1] = "eventitem" /\ key[2] = r.event /\ key[3] = r.item /\ sess[s] = r
  BY DEF EventItem
<1>3. Shape(r, NewsFields) /\ NewsSteps(r) /\ ItemOk(r, D, V) /\ r.want \in {NONE, key}
  BY <1>0 DEF NewsOk, NewsWant
<1>d. key = EventItem(r.event, r.item)
  OBVIOUS
<1> HIDE DEF r, D, V, key
<1>4. /\ Shape(after, NewsFields) /\ after.kind = r.kind /\ after.want = r.want
      /\ after.source = r.source /\ after.recent = r.recent /\ after.item = r.item /\ after.companies = r.companies
      /\ after.pc = IF r.kind = "sync" THEN "link" ELSE "done"
  BY <1>3 DEF Shape, NewsFields
<1>5. /\ Shape(wanting, NewsFields) /\ wanting.pc = "join" /\ wanting.kind = r.kind
      /\ wanting.want = key /\ wanting.source = r.source /\ wanting.recent = r.recent /\ wanting.event = r.event
      /\ wanting.item = r.item /\ wanting.company = r.company
      /\ wanting.companies = r.companies
  BY <1>0, <1>3 DEF Shape, NewsFields
<1>6. CASE r.want = NONE /\ key \in DOMAIN V /\ Local(s, after)
  <2>1. r.kind # "sync"
    <3> SUFFICES ASSUME r.kind = "sync" PROVE FALSE
      OBVIOUS
    <3>1. r.item \in Of(D, "item") /\ FiledIn(D, V, r.item, r.company) = {}
          /\ V[r.event].company = r.company
      BY <1>0, <1>3 DEF ItemOk
    <3>2. key \in DOMAIN D
      <4>1. r.item \notin DOMAIN db
        BY <1>0, <3>1 DEF NewsOk, ItemsOk
      <4>2. key \notin DOMAIN db
        BY <1>0, <1>2, <4>1 DEF Supported, Of
      <4> QED  BY <1>0, <1>6, <4>2 DEF Overlay
    <3>3. key \in FiledIn(D, V, r.item, r.company)
      BY <1>2, <3>1, <3>2 DEF FiledIn, Of
    <3> QED  BY <3>1, <3>3
  <2>2. after.pc = "done"
    BY <1>4, <2>1
  <2> HIDE DEF after
  <2>3. Follows(r, after) /\ NewsWant(after, V) /\ ItemOk(after, D, V)
    BY <1>3, <1>4, <2>1, <2>2 DEF Follows, NewsSteps, NewsWant, ItemOk
  <2>4. Ok(after, D, V, db)
    BY <1>0, <1>d, <1>6, <2>1, <2>2, <2>3, NewsReads DEF Ok
  <2> QED  BY <1>6, <2>4, QuietKeeps DEF D, V
<1>7. CASE r.want = NONE /\ Local(s, wanting)
  <2> HIDE DEF wanting
  <2>1. Follows(r, wanting) /\ NewsWant(wanting, V) /\ ItemOk(wanting, D, V)
    BY <1>0, <1>d, <1>3, <1>5 DEF Follows, NewsSteps, NewsWant, ItemOk
  <2>2. Ok(wanting, D, V, db)
    BY <1>0, <1>5, <2>1, NewsReads DEF Ok
  <2> QED  BY <1>7, <2>2, QuietKeeps DEF D, V
<1>8. CASE r.want # NONE /\ FlushNew(s, TRUE, after)
  <2> DEFINE q == [after EXCEPT !.want = NONE]
             D2 == AddRow(D, key, TRUE)
             V2 == AddRow(V, key, TRUE)
  <2>1. r.want = key
    BY <1>3, <1>8
  <2> HIDE DEF after
  <2>2. /\ Shape(q, NewsFields) /\ q.pc = after.pc /\ q.kind = r.kind /\ q.want = NONE
        /\ q.source = r.source /\ q.recent = r.recent /\ q.item = r.item /\ q.companies = r.companies
    BY <1>4 DEF Shape, NewsFields
  <2>3. /\ D2 = AddRow(D, key, TRUE) /\ V2 = AddRow(V, key, TRUE)
        /\ OnTop(D, V, key, TRUE, D2, V2)
    BY RowOnTop
  <2>4. Stands(V, V2)
    BY <1>2, AddRowStands
  <2> HIDE DEF D2, V2, q
  <2>5. /\ r.kind = "sync" => q.pc = "link"
        /\ r.kind = "record" => q.pc = "done"
    BY <1>4, <2>2
  <2>6. Follows(r, q)
    BY <1>0, <1>3, <2>2, <2>5 DEF Follows, NewsSteps
  <2>7. key \notin DOMAIN V => NewsOk(q, D2, V2, db)
    BY <1>0, <1>d, <2>2, <2>3, <2>4, <2>5, <2>6, JoinRow
  <2>8. q.pc # "idle"
    BY <2>6 DEF Follows, NewsSteps
  <2>9. key \notin DOMAIN V => Ok(q, D2, V2, db)
    BY <2>7, <2>8 DEF Ok
  <2> QED  BY <1>2, <1>8, <2>1, <2>3, <2>9, FlushKeeps DEF D, V, q
<1> QED  BY <1>1, <1>6, <1>7, <1>8

-----------------------------------------------------------------------------
(* record-news-url and record-research-note.                               *)

\* The row of a company, for which a command has drafted nothing yet.
LEMMA CompanyRow ==
  ASSUME NEW r, NEW q, NEW D, NEW V, NEW R, NEW key, NEW row, NEW D2, NEW V2,
         Overlay(D, V, R), NewsOk(r, D, V, R), OnTop(D, V, key, row, D2, V2),
         Stands(V, V2), key[1] = "company", r.pc = "company",
         Follows(r, q), q.want = NONE, q.pc = "article"
  PROVE  NewsOk(q, D2, V2, R)
<1>1. /\ \A tag : tag # "company" => SameTable(D, D2, tag) /\ SameTable(V, V2, tag)
      /\ DOMAIN D \subseteq DOMAIN D2 /\ DOMAIN D2 = DOMAIN D \cup {key}
  BY DEF OnTop
<1>2. /\ ItemsOk(r, D, V, R) /\ LinksOk(r, D, V, R) /\ EventsOk(r, D, V, R)
      /\ ItemOk(r, D, V) /\ r.kind = "record"
      /\ Shape(q, NewsFields) /\ NewsSteps(q) /\ q.kind = r.kind /\ q.source = r.source
  BY DEF NewsOk, NewsSteps, Follows
<1>3. \A k \in DOMAIN D2 : k[1] \in NewsTags
  BY <1>1, <1>2 DEF ItemsOk, NewsTags
<1>4. ItemsOk(q, D2, V2, R)
  BY <1>1, <1>2, <1>3, ItemsKept
<1>5. LinksOk(q, D2, V2, R)
  BY <1>1, <1>2, LinksKept
<1>6. EventsOk(q, D2, V2, R)
  BY <1>1, <1>2, EventsKept
<1>7. NewsWant(q, V2) /\ ItemOk(q, D2, V2)
  BY <1>2 DEF NewsWant, ItemOk
<1>8. RecentOk(q, V2)
  BY <1>1, RecentKept DEF NewsOk
<1> QED  BY <1>2, <1>4, <1>5, <1>6, <1>7, <1>8 DEF NewsOk

LEMMA ResolveCompanyKeeps ==
  ASSUME IInv, NEW s \in Sessions, ResolveCompany(s)
  PROVE  Keeps
<1> DEFINE r == sess[s]
           D == draft[s]
           V == View(s)
           key == Company(r.company)
           after == [r EXCEPT !.pc = "article"]
           wanting == [r EXCEPT !.want = key]
           q == [after EXCEPT !.want = NONE]
           D2 == AddRow(D, key, TRUE)
           V2 == AddRow(V, key, TRUE)
<1>0. r.pc = "company" /\ Ok(r, D, V, db) /\ Overlay(D, V, db)
  BY ViewIs DEF ResolveCompany, At, IInv
<1>1. \/ r.want = NONE /\ Local(s, after)
      \/ r.want = NONE /\ Local(s, wanting)
      \/ r.want # NONE /\ FlushNew(s, TRUE, after)
  BY DEF ResolveCompany, GetOrCreate, FlushNew
<1>2. key[1] = "company" /\ sess[s] = r
  BY DEF Company
<1>d. key = Company(r.company)
  OBVIOUS
<1>3. /\ D2 = AddRow(D, key, TRUE) /\ V2 = AddRow(V, key, TRUE)
      /\ OnTop(D, V, key, TRUE, D2, V2)
  BY RowOnTop
<1>4. Stands(V, V2)
  BY <1>2, AddRowStands
<1> HIDE DEF r, D, V, key, D2, V2
<1>5. NewsOk(r, D, V, db) \/ NoteOk(r, D, db)
  BY <1>0 DEF Ok, RunOk, ReviewOk
<1>6. r.want \in {NONE, key}
  BY <1>0, <1>5, <1>d DEF NewsOk, NewsWant, NoteOk
<1>7. CASE NewsOk(r, D, V, db)
  <2>1. Shape(r, NewsFields) /\ NewsSteps(r) /\ ItemOk(r, D, V) /\ r.kind = "record"
    BY <1>0, <1>7 DEF NewsOk, NewsSteps
  <2>2. /\ Shape(after, NewsFields) /\ after.kind = r.kind /\ after.want = r.want
        /\ after.source = r.source /\ after.recent = r.recent /\ after.pc = "article"
    BY <2>1 DEF Shape, NewsFields
  <2>3. /\ Shape(wanting, NewsFields) /\ wanting.pc = "company" /\ wanting.kind = r.kind
        /\ wanting.want = key /\ wanting.source = r.source /\ wanting.recent = r.recent /\ wanting.company = r.company
    BY <1>0, <2>1 DEF Shape, NewsFields
  <2>4. /\ Shape(q, NewsFields) /\ q.kind = r.kind /\ q.want = NONE
        /\ q.source = r.source /\ q.recent = r.recent /\ q.pc = "article"
    BY <2>1 DEF Shape, NewsFields
  <2> HIDE DEF after, wanting, q
  <2>5. ASSUME r.want = NONE, Local(s, after) PROVE Keeps
    <3>1. Follows(r, after) /\ NewsWant(after, V) /\ ItemOk(after, D, V)
      BY <2>1, <2>2, <2>5 DEF Follows, NewsSteps, NewsWant, ItemOk
    <3>2. Ok(after, D, V, db)
      BY <1>0, <1>7, <2>1, <2>2, <3>1, NewsReads DEF Ok
    <3> QED  BY <2>5, <3>2, QuietKeeps DEF D, V
  <2>6. ASSUME r.want = NONE, Local(s, wanting) PROVE Keeps
    <3>1. Follows(r, wanting) /\ NewsWant(wanting, V) /\ ItemOk(wanting, D, V)
      BY <1>d, <2>1, <2>3, <2>6 DEF Follows, NewsSteps, NewsWant, ItemOk
    <3>2. Ok(wanting, D, V, db)
      BY <1>0, <1>7, <2>1, <2>3, <3>1, NewsReads DEF Ok
    <3> QED  BY <2>6, <3>2, QuietKeeps DEF D, V
  <2>7. ASSUME r.want # NONE, FlushNew(s, TRUE, after) PROVE Keeps
    <3>1. Follows(r, q)
      BY <2>1, <2>4 DEF Follows, NewsSteps
    <3>2. NewsOk(q, D2, V2, db)
      BY <1>0, <1>2, <1>3, <1>4, <1>7, <2>4, <3>1, CompanyRow
    <3>3. Ok(q, D2, V2, db)
      BY <2>4, <3>2 DEF Ok
    <3>4. r.want = key
      BY <1>6, <2>7
    <3> QED  BY <1>2, <1>3, <2>7, <3>3, <3>4, FlushKeeps DEF D, V, q
  <2> QED  BY <1>1, <2>5, <2>6, <2>7
<1>8. CASE NoteOk(r, D, db)
  <2>1. Shape(r, NoteFields) /\ r.kind = "note"
    BY <1>8 DEF NoteOk
  <2>2. /\ Shape(after, NoteFields) /\ after.kind = "note" /\ after.pc = "article"
    BY <2>1 DEF Shape, NoteFields
  <2>3. /\ Shape(wanting, NoteFields) /\ wanting.pc = "company" /\ wanting.kind = "note"
        /\ wanting.want = key /\ wanting.company = r.company
    BY <1>0, <2>1 DEF Shape, NoteFields
  <2>4. Shape(q, NoteFields) /\ q.kind = "note" /\ q.pc = "article"
    BY <2>1 DEF Shape, NoteFields
  <2> HIDE DEF after, wanting, q
  <2>5. ASSUME Local(s, after) PROVE Keeps
    <3>1. Ok(after, D, V, db)
      BY <1>8, <2>2 DEF Ok, NoteOk
    <3> QED  BY <2>5, <3>1, QuietKeeps DEF D, V
  <2>6. ASSUME Local(s, wanting) PROVE Keeps
    <3>1. Ok(wanting, D, V, db)
      BY <1>8, <1>d, <2>3 DEF Ok, NoteOk
    <3> QED  BY <2>6, <3>1, QuietKeeps DEF D, V
  <2>7. ASSUME r.want # NONE, FlushNew(s, TRUE, after) PROVE Keeps
    <3>1. ASSUME key \notin DOMAIN V PROVE Ok(q, D2, V2, db)
      <4>1. key \notin DOMAIN db /\ DOMAIN D2 = DOMAIN D \cup {key}
        BY <1>0, <1>3, <3>1 DEF Overlay, OnTop
      <4>2. \A k \in DOMAIN D2 : k[1] \in {"company", "note"} /\ k \notin DOMAIN db
        BY <1>2, <1>8, <4>1 DEF NoteOk
      <4> QED  BY <2>4, <4>2 DEF Ok, NoteOk
    <3>2. r.want = key
      BY <1>6, <2>7
    <3> QED  BY <1>2, <1>3, <2>7, <3>1, <3>2, FlushKeeps DEF D, V, q
  <2> QED  BY <1>1, <2>5, <2>6, <2>7
<1> QED  BY <1>5, <1>7, <1>8

LEMMA RecordItemKeeps ==
  ASSUME IInv, NEW s \in Sessions, RecordItem(s), NewsAssumption
  PROVE  Keeps
<1> DEFINE r == sess[s]
           D == draft[s]
           V == View(s)
           entry == Head(r.feed)
           key == Item("manual", entry.url)
           C == DOMAIN match(entry.headline) \cup {r.company}
           with(seen) == [r EXCEPT !.pc = "link", !.item = key, !.seen = seen,
                             !.companies = C]
           wanting == [r EXCEPT !.want = key]
           row == NewItem(entry)
           q == [with("naive") EXCEPT !.want = NONE]
           D2 == AddRow(D, key, row)
           V2 == AddRow(V, key, row)
<1>0. /\ r.pc = "article" /\ r.kind = "record" /\ Ok(r, D, V, db) /\ Overlay(D, V, db)
  BY ViewIs DEF RecordItem, At, IInv
<1>1. \/ r.want = NONE /\ key \in DOMAIN V /\ Local(s, with("loaded"))
      \/ r.want = NONE /\ Local(s, wanting)
      \/ r.want # NONE /\ FlushNew(s, row, with("naive"))
  BY DEF RecordItem, GetOrCreate, FlushNew, Entry, Sees, View
<1>2. /\ key[1] = "item" /\ key[2] = "manual" /\ sess[s] = r /\ row.discovered = Now
  BY DEF Item, NewItem
<1>d. key = Item("manual", Head(r.feed).url)
  OBVIOUS
<1>3. D2 = AddRow(D, key, row) /\ V2 = AddRow(V, key, row) /\ OnTop(D, V, key, row, D2, V2)
  BY RowOnTop
<1>4. key \notin DOMAIN V => Stands(V, V2)
  BY AddRowStands
<1>5. NewsOk(r, D, V, db)
  BY <1>0 DEF Ok, RunOk, ReviewOk, NoteOk
<1>f. /\ IsFiniteSet(Of(V, "item"))
      /\ \A i \in Of(V, "item") : V[i].discovered \in Int /\ V[i].discovered <= Now
  <2>1. \A i \in Of(D, "item") : D[i].discovered = Now
    BY <1>5 DEF NewsOk, ItemsOk
  <2>2. \A i \in Of(db, "item") : db[i].discovered \in Int /\ db[i].discovered <= Now
    BY DEF IInv, Consistent
  <2>3. IsFiniteSet(Of(V, "item"))
    BY SeenIsFinite DEF Numbered
  <2> QED  BY <1>0, <2>1, <2>2, <2>3 DEF Overlay, Of, NewsAssumption
<1> HIDE DEF r, D, V, key, D2, V2, row, C
<1>6. /\ r.want \in {NONE, key} /\ Shape(r, NewsFields) /\ NewsSteps(r) /\ ItemOk(r, D, V)
      /\ r.source = "manual"
  BY <1>0, <1>5, <1>d DEF NewsOk, NewsWant, NewsSteps
<1>7. ASSUME NEW seen
      PROVE  /\ Shape(with(seen), NewsFields) /\ with(seen).kind = r.kind
             /\ with(seen).want = r.want /\ with(seen).source = r.source /\ with(seen).recent = r.recent
             /\ with(seen).pc = "link" /\ with(seen).item = key
  <2>1. Shape(r, NewsFields)
    BY <1>6
  <2>2. Shape(with(seen), NewsFields)
    BY <2>1 DEF Shape
  <2>3. with(seen).kind = r.kind /\ with(seen).want = r.want /\ with(seen).source = r.source /\ with(seen).recent = r.recent
    BY <2>1 DEF Shape, NewsFields
  <2>4. with(seen).pc = "link" /\ with(seen).item = key
    BY <2>1 DEF Shape, NewsFields
  <2> QED  BY <2>2, <2>3, <2>4
<1>8. /\ Shape(wanting, NewsFields) /\ wanting.pc = "article" /\ wanting.kind = r.kind
      /\ wanting.want = key /\ wanting.source = r.source /\ wanting.recent = r.recent /\ wanting.feed = r.feed
  BY <1>0, <1>6 DEF Shape, NewsFields
<1> HIDE DEF with
<1>9. /\ Shape(q, NewsFields) /\ q.kind = r.kind /\ q.want = NONE
      /\ q.source = r.source /\ q.recent = r.recent /\ q.pc = "link" /\ q.item = key
  BY <1>7 DEF Shape, NewsFields
<1> HIDE DEF wanting, q
<1>10. CASE r.want = NONE /\ key \in DOMAIN V /\ Local(s, with("loaded"))
  <2> DEFINE p == with("loaded")
  <2>1. key \in Of(V, "item")
    BY <1>2, <1>10 DEF Of
  <2>2. Follows(r, p) /\ NewsWant(p, V) /\ ItemOk(p, D, V)
    BY <1>0, <1>2, <1>6, <1>7, <1>10, <2>1 DEF Follows, NewsSteps, NewsWant, ItemOk
  <2>3. Ok(p, D, V, db)
    BY <1>0, <1>5, <1>7, <2>2, NewsReads DEF Ok
  <2> QED  BY <1>10, <2>3, QuietKeeps DEF D, V
<1>11. CASE r.want = NONE /\ Local(s, wanting)
  <2>1. Follows(r, wanting) /\ NewsWant(wanting, V) /\ ItemOk(wanting, D, V)
    BY <1>0, <1>d, <1>6, <1>8 DEF Follows, NewsSteps, NewsWant, ItemOk
  <2>2. Ok(wanting, D, V, db)
    BY <1>0, <1>5, <1>8, <2>1, NewsReads DEF Ok
  <2> QED  BY <1>11, <2>2, QuietKeeps DEF D, V
<1>12. CASE r.want # NONE /\ FlushNew(s, row, with("naive"))
  <2>1. Follows(r, q)
    BY <1>0, <1>6, <1>9 DEF Follows, NewsSteps
  <2>2. key \notin DOMAIN V => NewsOk(q, D2, V2, db)
    BY <1>0, <1>2, <1>3, <1>4, <1>5, <1>6, <1>9, <1>f, <2>1, ItemRow
  <2>3. key \notin DOMAIN V => Ok(q, D2, V2, db)
    BY <1>9, <2>2 DEF Ok
  <2>4. r.want = key
    BY <1>6, <1>12
  <2> QED  BY <1>2, <1>3, <1>12, <2>3, <2>4, FlushKeeps DEF D, V, q
<1> QED  BY <1>1, <1>10, <1>11, <1>12

LEMMA RecordLinkKeeps ==
  ASSUME IInv, NEW s \in Sessions, RecordLink(s)
  PROVE  Keeps
<1> DEFINE r == sess[s]
           D == draft[s]
           V == View(s)
           key(c) == Link(r.item, c)
           linked(c) == [r EXCEPT !.companies = @ \ {c}]
           wanting(c) == [r EXCEPT !.want = key(c)]
           filing == [r EXCEPT !.pc = "cluster"]
<1>0. /\ r.pc = "link" /\ r.kind = "record"
      /\ NewsOk(r, D, V, db) /\ Overlay(D, V, db) /\ Supported(db)
  BY NewsIs, ViewIs DEF RecordLink, At, IInv, Consistent
<1>1. \/ r.companies = {} /\ Local(s, filing)
      \/ \E c \in r.companies :
            \/ r.want = NONE /\ (Local(s, linked(c)) \/ Local(s, wanting(c)))
            \/ /\ r.want = key(c) /\ r.want # NONE
               /\ \E row : FlushNew(s, row, linked(c))
  BY DEF RecordLink, GetOrCreate, FlushNew
<1>2. \A c : key(c)[1] = "link"
  BY DEF Link
<1>3. sess[s] = r
  OBVIOUS
<1> HIDE DEF r, D, V
<1>4. Shape(r, NewsFields) /\ NewsSteps(r) /\ ItemOk(r, D, V) /\ NewsWant(r, V)
  BY <1>0 DEF NewsOk
<1>5. /\ Shape(filing, NewsFields) /\ filing.kind = r.kind /\ filing.want = r.want
      /\ filing.source = r.source /\ filing.recent = r.recent /\ filing.pc = "cluster" /\ filing.item = r.item
  BY <1>4 DEF Shape, NewsFields
<1>6. ASSUME NEW c
      PROVE  /\ Shape(linked(c), NewsFields) /\ linked(c).kind = r.kind
             /\ linked(c).want = r.want /\ linked(c).source = r.source /\ linked(c).recent = r.recent
             /\ linked(c).pc = "link" /\ linked(c).item = r.item
             /\ linked(c).companies = r.companies \ {c}
  BY <1>0, <1>4 DEF Shape, NewsFields
<1>7. ASSUME NEW c
      PROVE  /\ Shape(wanting(c), NewsFields) /\ wanting(c).kind = r.kind
             /\ wanting(c).want = key(c) /\ wanting(c).source = r.source /\ wanting(c).recent = r.recent
             /\ wanting(c).pc = "link" /\ wanting(c).item = r.item
             /\ wanting(c).companies = r.companies
  BY <1>0, <1>4 DEF Shape, NewsFields
<1>8. CASE r.companies = {} /\ Local(s, filing)
  <2> HIDE DEF filing
  <2>1. r.want = NONE
    BY <1>0, <1>4, <1>8 DEF NewsWant
  <2>2. Follows(r, filing) /\ NewsWant(filing, V) /\ ItemOk(filing, D, V)
    BY <1>0, <1>4, <1>5, <2>1 DEF Follows, NewsSteps, NewsWant, ItemOk
  <2>3. Ok(filing, D, V, db)
    BY <1>0, <1>5, <2>2, NewsReads DEF Ok
  <2> QED  BY <1>8, <2>3, QuietKeeps DEF D, V
<1>9. ASSUME NEW c \in r.companies, r.want = NONE, Local(s, linked(c))
      PROVE  Keeps
  <2> DEFINE q == linked(c)
  <2> HIDE DEF linked
  <2>1. Follows(r, q) /\ NewsWant(q, V) /\ ItemOk(q, D, V)
    BY <1>0, <1>4, <1>6, <1>9 DEF Follows, NewsSteps, NewsWant, ItemOk
  <2>2. Ok(q, D, V, db)
    BY <1>0, <1>6, <2>1, NewsReads DEF Ok
  <2> QED  BY <1>9, <2>2, QuietKeeps DEF D, V
<1>10. ASSUME NEW c \in r.companies, r.want = NONE, Local(s, wanting(c))
       PROVE  Keeps
  <2> DEFINE q == wanting(c)
  <2> HIDE DEF wanting
  <2>1. Follows(r, q) /\ NewsWant(q, V) /\ ItemOk(q, D, V)
    BY <1>0, <1>4, <1>7 DEF Follows, NewsSteps, NewsWant, ItemOk
  <2>2. Ok(q, D, V, db)
    BY <1>0, <1>7, <2>1, NewsReads DEF Ok
  <2> QED  BY <1>10, <2>2, QuietKeeps DEF D, V
<1>11. ASSUME NEW c \in r.companies, NEW row, r.want = key(c), r.want # NONE,
              FlushNew(s, row, linked(c))
       PROVE  Keeps
  <2> DEFINE q == [linked(c) EXCEPT !.want = NONE]
             D2 == AddRow(D, key(c), row)
             V2 == AddRow(V, key(c), row)
  <2>1. /\ Shape(q, NewsFields) /\ q.kind = r.kind /\ q.want = NONE
        /\ q.source = r.source /\ q.recent = r.recent /\ q.pc = "link" /\ q.item = r.item
        /\ q.companies = r.companies \ {c}
    BY <1>0, <1>4 DEF Shape, NewsFields
  <2>2. /\ D2 = AddRow(D, key(c), row) /\ V2 = AddRow(V, key(c), row)
        /\ OnTop(D, V, Link(r.item, c), row, D2, V2)
    BY RowOnTop
  <2>3. Stands(V, V2)
    BY <1>2, AddRowStands
  <2> HIDE DEF linked, q, D2, V2
  <2>4. Follows(r, q)
    BY <1>0, <1>4, <2>1 DEF Follows, NewsSteps
  <2>5. key(c) \notin DOMAIN V => NewsOk(q, D2, V2, db)
    BY <1>0, <1>11, <2>1, <2>2, <2>3, <2>4, LinkRow
  <2>6. key(c) \notin DOMAIN V => Ok(q, D2, V2, db)
    BY <2>1, <2>5 DEF Ok
  <2>7. key(c)[1] # "interpretation"
    BY <1>2
  <2> HIDE DEF key
  <2> QED  BY <1>3, <1>11, <2>2, <2>6, <2>7, FlushKeeps DEF D, V, q
<1> QED  BY <1>1, <1>8, <1>9, <1>10, <1>11

-----------------------------------------------------------------------------
(* Interpretations, reviews and notes.                                     *)

LEMMA LeastOf ==
  ASSUME NEW N \in SUBSET Nat, N # {}
  PROVE  \E n \in N : \A m \in N : n <= m
<1> DEFINE Less == OpToRel(<, Nat)
<1>1. IsWellFoundedOn(Less, Nat)
  BY NatLessThanWellFounded
<1>2. \A m, n \in Nat : m < n => <<m, n>> \in Less
  BY DEF OpToRel
<1> HIDE DEF Less
<1>3. PICK n \in N : \A m \in N : ~(<<m, n>> \in Less)
  BY <1>1, WFMin
<1>4. \A m \in N : ~(m < n)
  BY <1>2, <1>3
<1> QED  BY <1>4

\* A rule or the model proposes kinds of facts, or nothing.
LEMMA CandidatesAreFacts ==
  ASSUME NEW headline, NEW use_llm, NEW c \in Candidates(headline, use_llm), c # NONE,
         InterpretationAssumption
  PROVE  c \subseteq FactKinds
<1> DEFINE fired == {i \in DOMAIN _RULES : _RULES[i].says \in Says[headline]}
           first == CHOOSE i \in fired : \A j \in fired : i <= j
<1>1. DOMAIN _RULES = 1..8
  BY DEF _RULES
<1>2. \A i \in 1..8 : _RULES[i].proposes \subseteq FactKinds
  <2>1. \A i \in 1..8 : i \in {1, 2, 3, 4, 5, 6, 7, 8}
    OBVIOUS
  <2> QED  BY <2>1 DEF _RULES, FactKinds, _rule_order_win, _rule_management_resignation,
            _rule_dividend, _rule_buyback, _rule_regulatory_approval, _rule_plant_shutdown,
            _rule_rating_downgrade, _rule_capex_announcement
<1>3. interpret_deterministic(headline) =
        IF fired = {} THEN NONE ELSE _RULES[first].proposes
  BY DEF interpret_deterministic
<1>4. fired # {} => first \in 1..8
  <2>1. fired \subseteq 1..8
    BY <1>1
  <2> HIDE DEF fired
  <2>2. fired # {} => \E i \in fired : \A j \in fired : i <= j
    <3>1. fired \in SUBSET Nat
      BY <2>1
    <3> QED  BY <3>1, LeastOf
  <2> QED  BY <2>1, <2>2
<1> HIDE DEF fired, first
<1>5. CASE interpret_deterministic(headline) # NONE
  <2>1. c = _RULES[first].proposes /\ first \in 1..8
    BY <1>3, <1>4, <1>5 DEF Candidates
  <2> QED  BY <1>2, <2>1
<1>6. CASE interpret_deterministic(headline) = NONE
  BY <1>6 DEF Candidates, InterpretationAssumption
<1> QED  BY <1>5, <1>6

LEMMA BeginInterpretKeeps ==
  ASSUME IInv, NEW s \in Sessions, BeginInterpret(s)
  PROVE  Keeps
<1> DEFINE decided == {db[k].event : k \in Of(db, "interpretation")}
           q(llm, C) ==
      [Run EXCEPT !.llm = llm, !.events = {k \in Of(db, "event") : db[k].company \in C},
                  !.decided = decided]
<1>1. PICK llm, C : Start(s, q(llm, C))
  BY DEF BeginInterpret
<1>2. /\ Shape(q(llm, C), RunFields) /\ q(llm, C).kind = "interpret"
      /\ q(llm, C).pc = "interpret" /\ q(llm, C).events \subseteq Of(db, "event")
      /\ q(llm, C).decided = decided
  <2> HIDE DEF decided
  <2> QED  BY DEF Run, Shape, RunFields
<1>d. \A e \in decided : InterpretationsOf(db, e) # {}
  BY DEF InterpretationsOf
<1> HIDE DEF q, decided
<1>3. DOMAIN draft[s] = {}
  BY <1>1, IdleIsEmpty DEF Start
<1>4. Ok(q(llm, C), draft[s], View(s), db)
  BY <1>2, <1>d, <1>3 DEF Ok, RunOk
<1> QED  BY <1>1, <1>4, QuietKeeps

LEMMA BeginReviewKeeps ==
  ASSUME IInv, NEW s \in Sessions, BeginReview(s)
  PROVE  Keeps
<1> DEFINE q(k, decision) ==
      [Review EXCEPT !.decision = decision, !.reviewed = k, !.loaded = db[k].status]
<1>1. PICK k \in Reviewable, decision \in {"accepted", "rejected"} : Start(s, q(k, decision))
  BY DEF BeginReview
<1> DEFINE r == q(k, decision)
<1>2. k \in Of(db, "interpretation") /\ db[k].status = "pending"
  BY DEF Reviewable
<1>3. /\ Shape(r, ReviewFields) /\ r.kind = "review" /\ r.pc = "review" /\ r.want = NONE
      /\ r.loaded = "pending" /\ r.decision = decision /\ r.reviewed = k /\ r.facts = {}
  BY <1>2 DEF Review, Shape, ReviewFields
<1>4. Start(s, r) /\ DOMAIN draft[s] = {}
  BY <1>1, IdleIsEmpty DEF Start
<1> HIDE DEF r
<1>5. ReviewOk(r, draft[s], db)
  BY <1>2, <1>3, <1>4 DEF ReviewOk
<1>6. Ok(r, draft[s], View(s), db)
  BY <1>3, <1>5 DEF Ok
<1> QED  BY <1>4, <1>6, QuietKeeps

LEMMA BeginNoteKeeps ==
  ASSUME IInv, NEW s \in Sessions, BeginNote(s)
  PROVE  Keeps
<1> DEFINE q(c, e) == [Note EXCEPT !.company = c, !.event = e]
<1>1. PICK c, e : Start(s, q(c, e))
  BY DEF BeginNote
<1>2. /\ Shape(q(c, e), NoteFields) /\ q(c, e).kind = "note" /\ q(c, e).pc = "company"
      /\ q(c, e).want = NONE
  BY DEF Note, Shape, NoteFields
<1> HIDE DEF q
<1>3. DOMAIN draft[s] = {}
  BY <1>1, IdleIsEmpty DEF Start
<1>4. Ok(q(c, e), draft[s], View(s), db)
  BY <1>2, <1>3 DEF Ok, NoteOk
<1> QED  BY <1>1, <1>4, QuietKeeps

LEMMA RunIs ==
  ASSUME IInv, NEW s \in Sessions, At(s, "interpret") \/ At(s, "propose")
  PROVE  RunOk(sess[s], draft[s], db)
<1>1. Ok(sess[s], draft[s], View(s), db) /\ sess[s].pc \in {"interpret", "propose"}
  BY DEF IInv, At
<1> QED  BY <1>1 DEF Ok, NewsOk, NewsSteps, ReviewOk, NoteOk

\* An event is skipped, or it has no interpretation that the command can see.
LEMMA LookUpKeeps ==
  ASSUME IInv, NEW s \in Sessions, LookUp(s)
  PROVE  Keeps
<1> DEFINE r == sess[s]
           D == draft[s]
           V == View(s)
           rest(e) == [r EXCEPT !.events = @ \ {e}]
           chosen(e) == [rest(e) EXCEPT !.pc = "propose", !.event = e]
<1>0. RunOk(r, D, db) /\ Overlay(D, V, db) /\ r.pc = "interpret"
  BY RunIs, ViewIs DEF LookUp, At
<1>1. PICK e \in r.events :
         \/ Local(s, rest(e))
         \/ InterpretationsOf(V, e) = {} /\ Local(s, chosen(e))
  BY DEF LookUp, already_interpreted
<1> DEFINE q == rest(e)
           p == chosen(e)
<1> HIDE DEF r, D, V
<1>2. Shape(r, RunFields) /\ r.kind = "interpret"
  BY <1>0 DEF RunOk
<1>3. /\ Shape(q, RunFields) /\ q.kind = "interpret" /\ q.pc = "interpret"
      /\ q.events = r.events \ {e} /\ q.decided = r.decided
  BY <1>0, <1>2 DEF Shape, RunFields
<1>4. p = [q EXCEPT !.pc = "propose", !.event = e]
  OBVIOUS
<1> HIDE DEF rest, chosen, q, p
<1>5. /\ Shape(p, RunFields) /\ p.kind = "interpret" /\ p.pc = "propose" /\ p.event = e
      /\ p.events = r.events \ {e} /\ p.decided = r.decided
  BY <1>3, <1>4 DEF Shape, RunFields
<1>6. CASE Local(s, q)
  <2>1. Ok(q, D, V, db)
    BY <1>0, <1>3 DEF RunOk, Ok
  <2> QED  BY <1>6, <2>1, QuietKeeps DEF D, V
<1>7. CASE InterpretationsOf(V, e) = {} /\ Local(s, p)
  <2>1. \A k \in Of(db, "interpretation") : k \in Of(V, "interpretation") /\ V[k] = db[k]
    BY <1>0 DEF Overlay, RunOk, Of
  <2>2. InterpretationsOf(db, e) = {}
    BY <1>7, <2>1 DEF InterpretationsOf
  <2>3. e \in Of(db, "event") /\ e \notin r.decided /\ \A k \in DOMAIN D : D[k].event # e
    BY <1>0, <2>2 DEF RunOk
  <2>4. Ok(p, D, V, db)
    BY <1>0, <1>5, <2>3 DEF RunOk, Ok
  <2> QED  BY <1>7, <2>4, QuietKeeps DEF D, V
<1> QED  BY <1>1, <1>6, <1>7 DEF q, p

\* What is proposed is of an event that had no interpretation at the start.
LEMMA ProposeKeeps ==
  ASSUME IInv, NEW s \in Sessions, Propose(s), InterpretationAssumption
  PROVE  Keeps
<1> DEFINE r == sess[s]
           D == draft[s]
           V == View(s)
           e == r.event
           key == Interpretation(Fresh("interpretation"))
           q == [r EXCEPT !.pc = "interpret", !.event = NONE]
           row(c) == [event |-> e, company |-> V[e].company, proposes |-> c,
                      status |-> "pending", facts |-> {}]
<1>0. RunOk(r, D, db) /\ Overlay(D, V, db) /\ r.pc = "propose"
  BY RunIs, ViewIs DEF Propose, At
<1>1. \/ Local(s, q)
      \/ \E c \in Candidates(V[e].headline, r.llm) : c # NONE /\ InsertRow(s, key, row(c), q)
  BY DEF Propose
<1>2. /\ key[1] = "interpretation" /\ key \notin DOMAIN db
      /\ \A t \in Sessions : key \notin DOMAIN draft[t]
  BY FreshKey DEF Interpretation, Numbered
<1>3. Unread(s, e)
  BY <1>0 DEF RunOk, Unread, Of
<1> HIDE DEF r, D, V, key
<1>4. Shape(r, RunFields) /\ r.kind = "interpret"
  BY <1>0 DEF RunOk
<1>5. /\ Shape(q, RunFields) /\ q.kind = "interpret" /\ q.pc = "interpret"
      /\ q.events = r.events /\ q.decided = r.decided
  BY <1>4 DEF Shape, RunFields
<1> HIDE DEF q
<1>6. CASE Local(s, q)
  <2>1. Ok(q, D, V, db)
    BY <1>0, <1>5 DEF RunOk, Ok
  <2> QED  BY <1>6, <2>1, QuietKeeps DEF D, V
<1>7. ASSUME NEW c \in Candidates(V[e].headline, r.llm), c # NONE,
             InsertRow(s, key, row(c), q)
      PROVE  Keeps
  <2> DEFINE new == row(c)
             D2 == AddRow(D, key, new)
             V2 == AddRow(V, key, new)
  <2>1. /\ DOMAIN new = InterpretationColumns /\ new.event = e /\ new.proposes = c
        /\ new.status = "pending" /\ new.facts = {}
    BY DEF InterpretationColumns
  <2>2. c \subseteq FactKinds
    BY <1>7, CandidatesAreFacts
  <2>3. OnTop(D, V, key, new, D2, V2)
    BY RowOnTop
  <2> HIDE DEF row, e
  <2>4. RunOk(q, D2, db)
    <3> HIDE DEF D2, V2
    <3>1. e \in Of(db, "event") /\ e \notin r.events /\ r.events \subseteq Of(db, "event")
      BY <1>0 DEF RunOk, e
    <3>2. ASSUME NEW k \in DOMAIN D2
          PROVE  /\ k \in Of(D2, "interpretation") /\ k \notin DOMAIN db
                 /\ DOMAIN D2[k] = InterpretationColumns
                 /\ D2[k].event \in Of(db, "event") /\ D2[k].proposes \subseteq FactKinds
                 /\ D2[k].event \notin r.events
                 /\ D2[k].status = "pending" /\ D2[k].facts = {}
      <4>1. CASE k = key
        BY <1>2, <2>1, <2>2, <2>3, <3>1, <4>1 DEF OnTop, Of
      <4>2. CASE k # key
        <5>1. k \in DOMAIN D /\ D2[k] = D[k]
          BY <2>3, <4>2 DEF OnTop
        <5> QED  BY <1>0, <5>1 DEF RunOk, Of
      <4> QED  BY <4>1, <4>2
    <3>3. \A d \in r.decided : InterpretationsOf(db, d) # {}
      BY <1>0 DEF RunOk
    <3> QED  BY <1>5, <3>1, <3>2, <3>3 DEF RunOk
  <2>5. Ok(q, D2, V2, db)
    BY <1>5, <2>4 DEF Ok
  <2>6. Unread(s, new.event)
    BY <1>3, <2>1
  <2> HIDE DEF new
  <2> QED  BY <1>2, <1>7, <2>5, <2>6, RowKeeps DEF D, V, new
<1> QED  BY <1>1, <1>6, <1>7

LEMMA FinishInterpretKeeps ==
  ASSUME IInv, NEW s \in Sessions, FinishInterpret(s), NewsAssumption
  PROVE  Keeps
  BY RunIs, CommitKeeps DEF FinishInterpret

LEMMA FinishKeeps ==
  ASSUME IInv, NEW s \in Sessions, Finish(s), NewsAssumption
  PROVE  Keeps
  BY CommitKeeps DEF Finish

LEMMA ReviewIs ==
  ASSUME IInv, NEW s \in Sessions, sess[s].pc \in {"review", "mark"}
  PROVE  ReviewOk(sess[s], draft[s], db)
<1>1. Ok(sess[s], draft[s], View(s), db)
  BY DEF IInv
<1> QED  BY <1>1 DEF Ok, NewsOk, NewsSteps, RunOk, NoteOk

LEMMA CreateFactsKeeps ==
  ASSUME IInv, NEW s \in Sessions, CreateFacts(s), InterpretationAssumption
  PROVE  Keeps
<1> DEFINE r == sess[s]
           D == draft[s]
           V == View(s)
           k == r.reviewed
           facts == IF r.decision = "rejected" THEN {}
                    ELSE {Fact(kind, Fresh(kind)) : kind \in V[k].proposes}
           rows == [f \in facts |-> [company |-> V[k].company, event |-> V[k].event, from |-> k]]
           q == [r EXCEPT !.pc = "mark", !.facts = facts, !.want = k]
           D2 == [f \in DOMAIN D \cup DOMAIN rows |-> IF f \in DOMAIN rows THEN rows[f] ELSE D[f]]
<1>0. r.pc = "review" /\ ReviewOk(r, D, db) /\ Overlay(D, V, db) /\ Insert(s, rows, q)
  BY ReviewIs, ViewIs DEF CreateFacts, At
<1>1. DOMAIN rows = facts
  OBVIOUS
<1>2. \A f \in facts : rows[f].company = V[k].company /\ rows[f].event = V[k].event
                       /\ rows[f].from = k
  OBVIOUS
<1>3. \A kind \in FactKinds :
         /\ Fact(kind, Fresh(kind)) \notin DOMAIN db
         /\ \A t \in Sessions : Fact(kind, Fresh(kind)) \notin DOMAIN draft[t]
  BY FreshKey DEF Fact, Numbered
<1>4. \A kind : Fact(kind, Fresh(kind))[1] = kind
  BY DEF Fact
<1>5. DOMAIN D2 = DOMAIN D \cup DOMAIN rows /\ \A f \in DOMAIN rows : D2[f] = rows[f]
  OBVIOUS
<1>6. D2 = [f \in DOMAIN draft[s] \cup DOMAIN rows |->
              IF f \in DOMAIN rows THEN rows[f] ELSE draft[s][f]]
  OBVIOUS
<1> HIDE DEF r, D, V, rows, D2
<1>7. /\ Shape(r, ReviewFields) /\ r.kind = "review" /\ r.loaded = "pending"
      /\ r.decision \in {"accepted", "rejected"} /\ k \in Of(db, "interpretation")
      /\ DOMAIN D = {}
  BY <1>0 DEF ReviewOk
<1>8. V[k] = db[k] /\ k \in DOMAIN db /\ k[1] = "interpretation"
  BY <1>0, <1>7 DEF Overlay, Of
<1>9. db[k].proposes \subseteq FactKinds
  BY <1>7 DEF IInv, Consistent
<1>10. \A f \in facts : \E kind \in FactKinds :
          /\ kind \in db[k].proposes /\ f = Fact(kind, Fresh(kind)) /\ f[1] = kind
  <2> HIDE DEF k
  <2>1. facts \subseteq {Fact(kind, Fresh(kind)) : kind \in V[k].proposes}
    OBVIOUS
  <2> HIDE DEF facts
  <2>2. \A f \in facts : \E kind \in db[k].proposes : f = Fact(kind, Fresh(kind))
    BY <1>8, <2>1
  <2>3. ASSUME NEW f \in facts
        PROVE  \E kind \in FactKinds :
                  /\ kind \in db[k].proposes /\ f = Fact(kind, Fresh(kind)) /\ f[1] = kind
    <3>1. PICK kind \in db[k].proposes : f = Fact(kind, Fresh(kind))
      BY <2>2
    <3>2. kind \in FactKinds /\ f[1] = kind
      BY <1>4, <1>9, <3>1
    <3> QED  BY <3>1, <3>2
  <2> QED  BY <2>3
<1>11. r.decision = "accepted" => {f[1] : f \in facts} = db[k].proposes
  <2> SUFFICES ASSUME r.decision = "accepted"
               PROVE  {f[1] : f \in facts} = db[k].proposes
    OBVIOUS
  <2> HIDE DEF k
  <2>1. facts = {Fact(kind, Fresh(kind)) : kind \in db[k].proposes}
    BY <1>8
  <2> HIDE DEF facts
  <2>2. \A f \in facts : f[1] \in db[k].proposes
    BY <1>10
  <2>3. ASSUME NEW kind \in db[k].proposes
        PROVE  \E f \in facts : f[1] = kind
    <3>1. Fact(kind, Fresh(kind)) \in facts
      BY <2>1
    <3> QED  BY <1>4, <3>1
  <2> QED  BY <2>2, <2>3
<1>12. /\ Shape(q, ReviewFields) /\ q.kind = "review" /\ q.loaded = "pending"
       /\ q.decision = r.decision /\ q.reviewed = k /\ q.pc = "mark" /\ q.want = k
       /\ q.facts = facts
  <2> HIDE DEF facts
  <2> QED  BY <1>7 DEF Shape, ReviewFields
<1> HIDE DEF facts, q, k
<1>13. \A t \in Sessions : DOMAIN rows \cap DOMAIN draft[t] = {}
  BY <1>1, <1>3, <1>10
<1>14. \A f \in facts : f \in DOMAIN D2 /\ f \notin DOMAIN db /\ f[1] \in db[k].proposes
                        /\ D2[f].from = k /\ D2[f].event = db[k].event
                        /\ D2[f].company = db[k].company
  BY <1>1, <1>2, <1>3, <1>5, <1>8, <1>10
<1>15. DOMAIN D2 = facts /\ k \notin DOMAIN D2
  BY <1>1, <1>5, <1>7, <1>8, <1>14
<1>16. ReviewOk(q, D2, db)
  BY <1>7, <1>11, <1>12, <1>14, <1>15 DEF ReviewOk
<1>17. \A tag \in Numbered : IsFiniteSet(Of(D2, tag))
  <2> SUFFICES ASSUME NEW tag \in Numbered PROVE IsFiniteSet(Of(D2, tag))
    OBVIOUS
  <2>1. Of(D2, tag) \subseteq {Fact(tag, Fresh(tag))}
    BY <1>10, <1>15 DEF Of
  <2>2. IsFiniteSet({Fact(tag, Fresh(tag))})
    BY FS_Singleton
  <2> QED  BY <2>1, <2>2, FS_Subset
<1>18. \A f \in DOMAIN rows : f[1] # "interpretation"
  BY <1>1, <1>9, <1>10 DEF FactKinds
<1>19. Ok(q, D2, Seen(D2, db), db)
  BY <1>12, <1>16 DEF Ok
<1> QED  BY <1>0, <1>6, <1>13, <1>17, <1>18, <1>19, InsertKeeps

LEMMA MarkKeeps ==
  ASSUME IInv, NEW s \in Sessions, Mark(s)
  PROVE  Keeps
<1> DEFINE r == sess[s]
           D == draft[s]
           V == View(s)
           k == r.reviewed
           row == [V[k] EXCEPT !.status = r.decision,
                               !.facts = IF r.decision = "accepted" THEN r.facts ELSE @]
           after == [r EXCEPT !.pc = "done"]
           q == [after EXCEPT !.want = NONE]
           D2 == AddRow(D, k, row)
           V2 == AddRow(V, k, row)
<1>0. /\ r.pc = "mark" /\ ReviewOk(r, D, db) /\ Overlay(D, V, db)
      /\ FlushUpdate(s, row, after)
  BY ReviewIs, ViewIs DEF Mark, At
<1>1. sess[s] = r
  OBVIOUS
<1>2. OnTop(D, V, k, row, D2, V2) /\ D2 = AddRow(D, k, row) /\ V2 = AddRow(V, k, row)
  BY RowOnTop
<1> HIDE DEF r, D, V, D2, V2
<1>3. /\ Shape(r, ReviewFields) /\ r.kind = "review" /\ r.loaded = "pending"
      /\ r.decision \in {"accepted", "rejected"} /\ k \in Of(db, "interpretation")
      /\ DOMAIN D \subseteq r.facts \cup {k} /\ k \notin DOMAIN D /\ r.want = k
  BY <1>0 DEF ReviewOk
<1>4. V[k] = db[k] /\ k \in DOMAIN V
  BY <1>0, <1>3 DEF Overlay, Of
<1>5. DOMAIN db[k] = InterpretationColumns /\ db[k].facts \subseteq DOMAIN db
  BY <1>3 DEF IInv, Consistent, Reviewed
<1>6. /\ DOMAIN row = InterpretationColumns /\ row.status = r.decision
      /\ row.event = db[k].event /\ row.company = db[k].company
      /\ row.proposes = db[k].proposes
      /\ row.facts = IF r.decision = "accepted" THEN r.facts ELSE db[k].facts
  BY <1>4, <1>5 DEF InterpretationColumns
<1>7. /\ Shape(q, ReviewFields) /\ q.kind = "review" /\ q.loaded = "pending"
      /\ q.decision = r.decision /\ q.reviewed = k /\ q.pc = "done" /\ q.want = NONE
      /\ q.facts = r.facts
  BY <1>3 DEF Shape, ReviewFields
<1>8. /\ DOMAIN D2 = DOMAIN D \cup {k} /\ D2[k] = row
      /\ \A f \in DOMAIN D : f # k => D2[f] = D[f]
  BY <1>2 DEF OnTop
<1> HIDE DEF row, q, k
<1>9. \A f \in r.facts :
         /\ f \in DOMAIN D2 /\ f \notin DOMAIN db /\ f[1] \in db[k].proposes
         /\ D2[f].from = k /\ D2[f].event = db[k].event /\ D2[f].company = db[k].company
  BY <1>0, <1>3, <1>8 DEF ReviewOk, k
<1>10. r.decision = "accepted" => {f[1] : f \in r.facts} = db[k].proposes
  BY <1>0 DEF ReviewOk, k
<1>11. D2[k].facts \subseteq DOMAIN db \cup DOMAIN D2
  BY <1>5, <1>6, <1>8, <1>9
<1>12. ReviewOk(q, D2, db)
  BY <1>3, <1>6, <1>7, <1>8, <1>9, <1>10, <1>11 DEF ReviewOk
<1>13. Ok(q, D2, V2, db)
  BY <1>7, <1>12 DEF Ok
<1> QED  BY <1>0, <1>1, <1>2, <1>3, <1>4, <1>13, UpdateKeeps DEF D, V, q

LEMMA RecordNoteKeeps ==
  ASSUME IInv, NEW s \in Sessions, RecordNote(s), InterpretationAssumption
  PROVE  Keeps
<1> DEFINE r == sess[s]
           D == draft[s]
           V == View(s)
           key == Fact("note", Fresh("note"))
           q == [r EXCEPT !.pc = "done"]
<1>0. r.pc = "article" /\ r.kind = "note" /\ Ok(r, D, V, db) /\ Overlay(D, V, db)
  BY ViewIs DEF RecordNote, At, IInv
<1>1. PICK row : InsertRow(s, key, row, q)
  BY DEF RecordNote
<1> DEFINE D2 == AddRow(D, key, row)
           V2 == AddRow(V, key, row)
<1>2. key[1] = "note" /\ key \notin DOMAIN db /\ \A t \in Sessions : key \notin DOMAIN draft[t]
  BY FreshKey DEF Fact, Numbered
<1>3. OnTop(D, V, key, row, D2, V2) /\ D2 = AddRow(D, key, row) /\ V2 = AddRow(V, key, row)
  BY RowOnTop
<1> HIDE DEF r, D, V, key, D2, V2
<1>4. NoteOk(r, D, db) /\ Shape(r, NoteFields)
  BY <1>0 DEF Ok, NewsOk, NewsSteps, RunOk, ReviewOk, NoteOk
<1>5. Shape(q, NoteFields) /\ q.kind = "note" /\ q.pc = "done"
  BY <1>0, <1>4 DEF Shape, NoteFields
<1> HIDE DEF q
<1>6. \A k \in DOMAIN D2 : k[1] \in {"company", "note"} /\ k \notin DOMAIN db
  BY <1>2, <1>3, <1>4 DEF OnTop, NoteOk
<1>7. Ok(q, D2, V2, db)
  BY <1>5, <1>6 DEF Ok, NoteOk
<1> QED  BY <1>1, <1>2, <1>3, <1>7, RowKeeps DEF D, V

-----------------------------------------------------------------------------
(* The invariant.                                                          *)

LEMMA StepKeeps ==
  ASSUME IInv, Next, NewsAssumption, InterpretationAssumption
  PROVE  Keeps
<1>1. PICK s \in Sessions : Begin(s) \/ Proceed(s) \/ Crash(s)
  BY DEF Next
<1>2. CASE Begin(s)
  BY <1>2, BeginSyncKeeps, BeginRecordKeeps, BeginInterpretKeeps, BeginReviewKeeps,
     BeginNoteKeeps DEF Begin, BeginNews
<1>3. CASE Proceed(s)
  <2>1. CASE NewsProceed(s)
    BY <2>1, FetchKeeps, CountKeeps, ReadRecentKeeps, IngestKeeps, LinkCompanyKeeps, NextEntryKeeps,
       ClusterKeeps, JoinEventKeeps, ResolveCompanyKeeps, RecordItemKeeps, RecordLinkKeeps,
       EndOfFeedKeeps, FinishKeeps DEF NewsProceed
  <2>2. CASE LookUp(s) \/ Propose(s) \/ FinishInterpret(s) \/ CreateFacts(s) \/ Mark(s)
             \/ RecordNote(s)
    BY <2>2, LookUpKeeps, ProposeKeeps, FinishInterpretKeeps, CreateFactsKeeps, MarkKeeps,
       RecordNoteKeeps
  <2>3. CASE DeadlockVictim(s)
    BY <2>3, RollbackKeeps DEF DeadlockVictim
  <2> QED  BY <1>3, <2>1, <2>2, <2>3 DEF Proceed
<1>4. CASE Crash(s)
  BY <1>4, RollbackKeeps DEF Crash
<1> QED  BY <1>1, <1>2, <1>3, <1>4

LEMMA StutterKeeps ==
  ASSUME IInv, UNCHANGED txvars
  PROVE  IInv'
<1>1. db' = db /\ draft' = draft /\ sess' = sess
  BY DEF txvars
<1>2. \A s \in Sessions : View(s)' = View(s)
  BY <1>1 DEF View
<1>3. DraftsDisjoint' /\ \A tag \in Numbered : FiniteTable(tag)'
  BY <1>1 DEF IInv, DraftsDisjoint, FiniteTable
<1> QED  BY <1>1, <1>2, <1>3 DEF IInv

LEMMA InitIInv ==
  ASSUME Init, InterpretationAssumption
  PROVE  IInv
<1>1. PICK rows \in Past : InitTransactions(rows)
  BY DEF Init
<1>2. /\ db = rows /\ Consistent(rows)
      /\ draft = [s \in Sessions |-> Nothing] /\ sess = [s \in Sessions |-> Idle]
  BY <1>1 DEF InitTransactions, InterpretationAssumption
<1>3. DOMAIN Nothing = {} /\ Idle.pc = "idle"
  BY DEF Nothing, Idle
<1>4. DraftsDisjoint
  BY <1>2, <1>3 DEF DraftsDisjoint
<1>5. \A tag \in Numbered : FiniteTable(tag)
  <2>1. \A tag : Of(Nothing, tag) = {}
    BY <1>3 DEF Of
  <2> QED  BY <1>2, <2>1, FS_EmptySet DEF FiniteTable, Consistent
<1>6. \A s \in Sessions : Ok(sess[s], draft[s], View(s), db)
  BY <1>2, <1>3 DEF Ok
<1> QED  BY <1>2, <1>4, <1>5, <1>6 DEF IInv

LEMMA Invariance == Spec => []IInv
<1>1. Init => IInv
  BY InitIInv, InterpretationAssumption
<1>2. IInv /\ [Next]_txvars => IInv'
  BY StepKeeps, StutterKeeps, NewsAssumption, InterpretationAssumption DEF Keeps
<1> QED  BY <1>1, <1>2, PTL DEF Spec

\* Every command leaves a database that is consistent, so that the next commands
\* may start from it: what a transaction publishes, whatever others published
\* while it ran, is what models.py and the services take for granted of the rows.
THEOREM DatabaseStaysConsistent == Spec => []Consistent(db)
<1>1. IInv => Consistent(db)
  BY DEF IInv
<1> QED  BY <1>1, Invariance, PTL

\* However many polls of however many feeds overlap, no headline of a source is
\* stored twice, and a rewording found within the window of the first only when more
\* items than list_recent returns were found in that window: the reliability row that
\* a poll counts in before it looks for duplicates (fetch_all, then ingest_entry)
\* keeps out the other polls of that source.
THEOREM StoriesAreStoredOnce == Spec => []OneStoryPerSource
<1>1. Consistent(db) => OneStoryPerSource
  BY DEF Consistent, OneStoryPerSource
<1> QED  BY <1>1, DatabaseStaysConsistent, PTL

\* cluster_event files every polled item under exactly one event of each of its
\* companies and leaves no event without the item whose story it tells, whatever
\* is filed at the same time and whoever is rolled back half way.
THEOREM EventsStaySupported == Spec => []EventsAreSupported
<1>1. Consistent(db) => EventsAreSupported
  BY DEF Consistent, EventsAreSupported
<1> QED  BY <1>1, DatabaseStaysConsistent, PTL

\* review-interpretation alone makes catalysts, risks and thesis changes of what
\* a rule or the model proposed, and commits them with its decision or not at all.
THEOREM MemoryIsReviewed == Spec => []OnlyReviewedFacts
<1>1. Consistent(db) => OnlyReviewedFacts
  BY DEF Consistent, OnlyReviewedFacts
<1> QED  BY <1>1, DatabaseStaysConsistent, PTL

\* mark_accepted and mark_rejected write over no decision but that of a review
\* which had found the same interpretation pending, and interpret-events proposes
\* nothing about an event that had an interpretation when the command began, nor
\* twice about one event, however long the model took to answer.
THEOREM DecisionsAreKept == Spec => DecisionsStand
<1>1. IInv /\ [Next]_txvars => [DecisionsStandStep]_txvars
  BY StepKeeps, NewsAssumption, InterpretationAssumption DEF Keeps
<1> QED  BY <1>1, Invariance, PTL DEF Spec, DecisionsStand
=============================================================================
