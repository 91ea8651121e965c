--------------------------- MODULE ResearchProofs ---------------------------
(***************************************************************************)
(* Research and advice, for any number of concurrent commands, any         *)
(* publications meanwhile and any consistent database to start from: no    *)
(* committed forecast rests on anything later than its instant, a backtest *)
(* is blind, advice is supported by what it cites, and what was recorded   *)
(* stands.                                                                 *)
(***************************************************************************)
EXTENDS Advice, TransactionsProofs, WellFoundedInduction

-----------------------------------------------------------------------------
(* The inductive invariant.  What a commit publishes must follow from what *)
(* holds, while a command runs, of its draft D, of what it sees, V, and of *)
(* the committed rows R; n is the number of commands started.              *)

\* The fields of the commands.
EstimateFields == {"pc", "want", "kind", "period", "cutoff", "points", "fingerprint", "risks",
                   "features", "estimate", "loaded", "todo", "actual", "untouched"}
BandFields == {"pc", "want", "kind", "as_of", "days"}
ValueFields == {"pc", "want", "kind", "as_of", "scope", "results", "multiple"}
ThesisFields == {"pc", "want", "kind", "symbol", "status", "as_of", "evidence"}
WatchFields == {"pc", "want", "kind", "active", "loaded"}
AdviceFields == {"pc", "want", "kind", "as_of", "held", "named", "run", "todo", "symbol",
                 "thesis", "valuation", "estimate", "superseded"}
RuleFields == {"pc", "want", "kind", "run", "n", "loaded", "begun", "verdict"}
Shape(r, fields) == DOMAIN r = fields /\ r = [f \in fields |-> r[f]]

\* The tables whose rows are never changed, and those that only others write.
Kept == {"thesis", "features", "estimate", "score", "multiple", "valuation", "advice",
         "decision", "review"}
Published == {"result", "close", "risk"}

Drafts(D, tags) == \A k \in DOMAIN D : k[1] \in tags

\* The points are of earlier quarters, were available by the cutoff, and are chosen of
\* those that the fingerprint names.
Chosen(r) ==
    /\ \A u \in r.points : u.result[2] < r.period /\ u.available <= r.cutoff
    /\ Cites(r.points) \in Cited(r.fingerprint)

\* Nothing of the quarter that still stands was available by the cutoff.
Blind(r, R) == \A k \in r.untouched : k[2] = r.period => R[k].available > r.cutoff

EstimateSteps(r) ==
    \/ /\ r.kind = "estimate"
       /\ r.pc \in {"results", "signals", "features", "estimate", "commit"}
    \/ /\ r.kind = "backtest"
       /\ r.pc \in {"list", "earliest", "results", "signals", "features", "estimate", "score",
                    "commit"}

\* There is a snapshot of the quarter, the cutoff and the fingerprint.
Snapped(r, V) ==
    LET key == Features(r.period, r.cutoff, r.fingerprint)
    IN  Chosen(r) /\ r.features = key /\ key \in DOMAIN V

EstimateOk(r, D, V, R) ==
    /\ Shape(r, EstimateFields) /\ EstimateSteps(r)
    /\ Drafts(D, {"features", "estimate", "score"})
    /\ r.kind = "estimate" => r.untouched = {}
    /\ r.untouched \subseteq Of(R, "result")
    /\ r.pc \in {"results", "signals", "features", "estimate", "score"} => Blind(r, R)
    /\ r.want = NONE \/ (r.pc = "features" /\ r.want = Features(r.period, r.cutoff, r.fingerprint))
    /\ r.pc \in {"signals", "features"} => Chosen(r)
    /\ r.pc \in {"estimate", "score"} \/ (r.pc = "commit" /\ r.kind = "estimate") => Snapped(r, V)

\* The closes are of days up to that of the instant.
BandOk(r, D) ==
    /\ Shape(r, BandFields) /\ r.kind = "band" /\ r.want = NONE /\ r.as_of \in Nat
    /\ r.pc \in {"closes", "band", "commit"} /\ Drafts(D, {"multiple"})
    /\ r.pc = "band" => r.days \subseteq 0..Day(r.as_of)

\* The results are of one scope and were available, as the multiple was, by the instant.
ValueOk(r, D, V) ==
    /\ Shape(r, ValueFields) /\ r.kind = "value" /\ r.want = NONE /\ r.as_of \in Nat
    /\ r.pc \in {"financial", "ttm", "multiple", "price", "commit"} /\ Drafts(D, {"valuation"})
    /\ r.pc \in {"multiple", "price"} =>
          \A t, u \in r.results : t.result[3] = u.result[3] /\ u.available <= r.as_of
    /\ r.pc = "price" =>
          /\ r.multiple \in Of(V, "multiple") /\ V[r.multiple].effective <= r.as_of
          /\ V[r.multiple].available <= r.as_of

ThesisOk(r, D) ==
    /\ Shape(r, ThesisFields) /\ r.kind = "thesis" /\ r.want = NONE
    /\ r.pc \in {"evidence", "head", "post", "patch", "commit"} /\ Drafts(D, {"thesis"})

WatchOk(r, D) ==
    /\ Shape(r, WatchFields) /\ r.kind = "watch" /\ r.want \in {NONE, Watch(Subject)}
    /\ r.pc \in {"watch", "commit"} /\ Drafts(D, {"watch"})

\* What was read for the symbol at hand could support a decision.
Supports(r, V) ==
    /\ r.thesis # NONE => r.thesis \in Of(V, "thesis") /\ r.thesis \notin r.superseded
    /\ r.valuation # NONE =>
          r.valuation \in Of(V, "valuation") /\ V[r.valuation].as_of <= r.as_of
    /\ r.estimate # NONE => r.estimate \in Of(V, "estimate") /\ V[r.estimate].cutoff <= r.as_of

\* The run is flushed, and each of its symbols is decided, at hand, or to be read.
RunIs(r, D) ==
    LET k == RecommendationRun(r.run)
    IN  /\ k \in DOMAIN D /\ D[k].as_of = r.as_of /\ D[k].superseded = r.superseded
        /\ \A j \in DOMAIN D : j = k \/ j = Decision(r.run, j[3])
        /\ \A x \in D[k].symbols :
              \/ Decision(r.run, x) \in DOMAIN D \/ x \in r.todo
              \/ r.pc # "symbol" /\ x = r.symbol

AdviceOk(r, D, V, R) ==
    /\ Shape(r, AdviceFields) /\ r.kind = "advice" /\ r.want = NONE /\ r.as_of \in Nat
    /\ r.superseded \subseteq Superseded(R)
    /\ \/ r.pc = "universe" /\ DOMAIN D = {}
       \/ r.pc \in {"symbol", "valuation", "newest estimate", "decide"} /\ RunIs(r, D)
    /\ r.pc \in {"valuation", "newest estimate", "decide"} => Supports(r, V)

\* A rule whose approval, if it had one at m, does not stand; an approval not before
\* another; a rule of n commands.
NoLonger(x, m) == x.status # "APPROVED" \/ (x.approved # NONE /\ x.approved > m)
NotBefore(a, b) == b = NONE \/ (a # NONE /\ b <= a)
StampOk(x, n) ==
    /\ DOMAIN x = RuleColumns /\ x.approved \in (0..n) \cup {NONE}
    /\ x.status = "APPROVED" => x.approved # NONE

\* The rules that were approved when a command began.
Approvals(r) == {k \in DOMAIN r.begun : r.begun[k].status = "APPROVED"}

RuleWant(r) ==
    \/ r.pc = "commit" /\ r.want = NONE
    \/ r.kind = "review" /\ r.pc = "review" /\ r.want \in {NONE} \cup DOMAIN r.begun
    \/ /\ r.kind = "candidates" /\ r.pc = "rule"
       /\ r.want = NONE \/ (r.n <= Len(CandidateSpecs) /\ r.want = Rule(CandidateSpecs[r.n]))
    \/ /\ r.kind = "candidates" /\ r.pc = "proposal"
       /\ r.want = NONE \/ r.want = Proposal(CandidateSpecs[r.n])

Overwrites(r, D, k) == k \in DOMAIN D \/ (r.want # NONE /\ k = r.want)

\* An approval that a rerun is about to write over, or has, had been withdrawn or
\* renewed since it began.
RuleOk(r, D, V, R, n) ==
    /\ Shape(r, RuleFields) /\ r.kind \in {"candidates", "review"} /\ r.n \in Nat /\ RuleWant(r)
    /\ Drafts(D, {"rule", "proposal"}) /\ DOMAIN r.begun \subseteq Of(R, "rule")
    /\ r.pc \in {"rule", "review"} => \A old \in r.loaded :
          StampOk(old, n) /\ r.want \in Of(V, "rule") /\ NotBefore(V[r.want].approved, old.approved)
    /\ r.kind = "review" => \E k \in DOMAIN r.begun : DOMAIN r.begun = {k}
    /\ r.kind = "candidates" =>
          \A k \in Approvals(r) :
             /\ r.begun[k].approved \in Nat /\ r.begun[k].approved < n
             /\ Overwrites(r, D, k) => NoLonger(R[k], r.begun[k].approved)
    /\ \A k \in Of(D, "rule") :
          StampOk(D[k], n) /\ (k \in DOMAIN R => NotBefore(D[k].approved, R[k].approved))

Ok(r, D, V, R, n) ==
    \/ r = Idle /\ DOMAIN D = {}
    \/ EstimateOk(r, D, V, R) \/ BandOk(r, D) \/ ValueOk(r, D, V) \/ ThesisOk(r, D)
    \/ WatchOk(r, D) \/ AdviceOk(r, D, V, R) \/ RuleOk(r, D, V, R, n)

\* No draft has a row again that is never changed, or one that others publish.
Sound(D, V, R) ==
    /\ IsFiniteSet(DOMAIN D) /\ Timely(V) /\ Founded(V)
    /\ \A k \in DOMAIN D : k[1] \notin Published /\ (k[1] \in Kept => k \notin DOMAIN R)

\* A draft restores no approval that a rerun has seen go.
Replaces(r, k) ==
    k[1] = "rule" /\ r.pc # "idle" /\ r.kind = "candidates" /\ k \in Approvals(r)
Answers(r, D, R) ==
    \A k \in DOMAIN D :
        (Replaces(r, k) /\ NoLonger(R[k], r.begun[k].approved)) =>
            NoLonger(D[k], r.begun[k].approved)

IInv ==
    /\ DraftsDisjoint /\ started \in Nat
    /\ draft = [s \in Sessions |-> draft[s]] /\ sess = [s \in Sessions |-> sess[s]]
    /\ Consistent(db) /\ \A k \in Of(db, "rule") : StampOk(db[k], started)
    /\ \A s \in Sessions :
          Ok(sess[s], draft[s], View(s), db, started) /\ Sound(draft[s], View(s), db)
    /\ \A s, t \in Sessions : Answers(sess[s], draft[t], db)

-----------------------------------------------------------------------------
(* Views, drafts and databases that grow.                                  *)

\* What a session sees: the committed rows under those of its draft.
Overlay(D, V, R) ==
    /\ DOMAIN V = DOMAIN R \cup DOMAIN D
    /\ \A k \in DOMAIN V : V[k] = IF k \in DOMAIN D THEN D[k] ELSE R[k]

Seen(D, R) ==
    [k \in DOMAIN R \cup DOMAIN D |-> IF k \in DOMAIN D THEN D[k] ELSE R[k]]
AddRow(D, key, row) == [k \in DOMAIN D \cup {key} |-> IF k = key THEN row ELSE D[k]]

\* The rows that others refer to, and that nobody changes.
Stands(V, W) ==
    /\ DOMAIN V \subseteq DOMAIN W
    /\ \A k \in DOMAIN V :
          k[1] \in {"features", "estimate", "multiple", "valuation", "thesis", "advice"} =>
             W[k] = V[k]

LEMMA ViewIs ==
  ASSUME NEW s \in Sessions
  PROVE  Overlay(draft[s], View(s), db) /\ View(s) = Seen(draft[s], db)
  BY DEF Overlay, View, Seen

LEMMA SeenIs ==
  ASSUME NEW D, NEW R
  PROVE  Overlay(D, Seen(D, R), R)
  BY DEF Overlay, Seen

LEMMA SeenAddRow ==
  ASSUME NEW D, NEW R, NEW key, NEW row
  PROVE  Seen(AddRow(D, key, row), R) = AddRow(Seen(D, R), key, row)
<1> DEFINE A == AddRow(D, key, row)
           S == Seen(D, R)
<1>1. /\ DOMAIN A = DOMAIN D \cup {key} /\ A[key] = row
      /\ \A k \in DOMAIN D : k # key => A[k] = D[k]
  BY DEF AddRow
<1>2. /\ DOMAIN S = DOMAIN R \cup DOMAIN D
      /\ \A k \in DOMAIN S : S[k] = IF k \in DOMAIN D THEN D[k] ELSE R[k]
  BY DEF Seen
<1> HIDE DEF A, S
<1>3. Seen(A, R) = [k \in DOMAIN R \cup DOMAIN A |-> IF k \in DOMAIN A THEN A[k] ELSE R[k]]
  BY DEF Seen
<1>4. AddRow(S, key, row) = [k \in DOMAIN S \cup {key} |-> IF k = key THEN row ELSE S[k]]
  BY DEF AddRow
<1>5. DOMAIN R \cup DOMAIN A = DOMAIN S \cup {key}
  BY <1>1, <1>2
<1>6. \A k \in DOMAIN S \cup {key} :
         (IF k \in DOMAIN A THEN A[k] ELSE R[k]) = (IF k = key THEN row ELSE S[k])
  BY <1>1, <1>2
<1>7. Seen(A, R) = AddRow(S, key, row)
  BY <1>3, <1>4, <1>5, <1>6
<1> QED  BY <1>7 DEF A, S

\* A new row, or one of a table that nothing refers to.
LEMMA AddRowStands ==
  ASSUME NEW V, NEW key, NEW row, key[1] \in Kept \ {"decision"} => key \notin DOMAIN V
  PROVE  Stands(V, AddRow(V, key, row))
  BY DEF AddRow, Kept, Stands

\* As one that holds the draft D sees the commit of another.
LEMMA ViewsStand ==
  ASSUME NEW D, NEW V, NEW R, NEW V2, NEW R2,
         Overlay(D, V, R), Overlay(D, V2, R2), Stands(R, R2)
  PROVE  Stands(V, V2)
<1>1. DOMAIN V \subseteq DOMAIN V2
  BY DEF Overlay, Stands
<1>2. \A k \in DOMAIN V : k \in DOMAIN D => V2[k] = V[k]
  BY <1>1 DEF Overlay
<1>3. \A k \in DOMAIN V : k \notin DOMAIN D =>
          k \in DOMAIN R /\ k \in DOMAIN R2 /\ V[k] = R[k] /\ V2[k] = R2[k]
  BY <1>1 DEF Overlay, Stands
<1> QED  BY <1>1, <1>2, <1>3 DEF Stands

-----------------------------------------------------------------------------
(* Timely and Founded, row by row.                                         *)

TimelyRow(k, row, V) ==
    /\ k[1] = "features" =>
          /\ \A u \in row.points : u.result[2] < k[2] /\ u.available <= k[3]
          /\ Cites(row.points) \in Cited(k[4])
    /\ k[1] = "estimate" =>
          /\ row.features \in Of(V, "features")
          /\ row.features[2] = row.period /\ row.features[3] = row.cutoff
    /\ k[1] = "multiple" =>
          /\ row.effective \in Nat
          /\ \A u \in row.used :
                /\ u[1] \in 0..Day(row.effective)
                /\ u[2].available \in Nat /\ u[2].available <= DayEnd(u[1])
    /\ k[1] = "valuation" =>
          /\ row.as_of \in Nat /\ row.day <= Day(row.as_of)
          /\ \A t, u \in row.results : t.result[3] = u.result[3] /\ u.available <= row.as_of
          /\ row.multiple \in Of(V, "multiple") /\ V[row.multiple].effective <= row.as_of
          /\ V[row.multiple].available <= row.as_of

FoundedRow(d, made, V) ==
    LET run == V[RecommendationRun(d[2])]
        hard == \E r \in made.risks : r.hard
    IN  d[1] = "decision" =>
          /\ RecommendationRun(d[2]) \in DOMAIN V
          /\ made.thesis # NONE =>
                made.thesis \in DOMAIN V /\ made.thesis \notin run.superseded
          /\ made.action \in {"BUY", "ADD"} =>
                /\ ~hard /\ made.thesis # NONE
                /\ made.valuation \in Of(V, "valuation") /\ V[made.valuation].cheap
                /\ run.as_of - V[made.valuation].as_of \in 0..STALE_VALUATION_DAYS
                /\ made.estimate \in Of(V, "estimate")
                /\ V[made.estimate].cutoff <= run.as_of
          /\ (made.action \in {"REDUCE", "AVOID"}) <=> hard

SoundRow(k, row, V) == TimelyRow(k, row, V) /\ FoundedRow(k, row, V)
SoundRows(V) == \A k \in DOMAIN V : SoundRow(k, V[k], V)

LEMMA RowByRow ==
  ASSUME NEW V
  PROVE  SoundRows(V) <=> Timely(V) /\ Founded(V)
<1>1. (\A k \in DOMAIN V : TimelyRow(k, V[k], V)) <=> Timely(V)
  <2>1. ASSUME \A k \in DOMAIN V : TimelyRow(k, V[k], V) PROVE Timely(V)
    <3>1. \A tag : \A k \in Of(V, tag) : k \in DOMAIN V /\ k[1] = tag
      BY DEF Of
    <3>2. \A tag : \A k \in Of(V, tag) : TimelyRow(k, V[k], V) /\ k[1] = tag
      BY <2>1, <3>1
    <3> QED  BY <3>2 DEF Timely, TimelyRow
  <2>2. ASSUME Timely(V), NEW k \in DOMAIN V PROVE TimelyRow(k, V[k], V)
    <3>1. k \in Of(V, k[1])
      BY DEF Of
    <3> QED  BY <2>2, <3>1 DEF Timely, TimelyRow
  <2> QED  BY <2>1, <2>2
<1>2. (\A k \in DOMAIN V : FoundedRow(k, V[k], V)) <=> Founded(V)
  BY DEF Founded, FoundedRow, Of
<1> QED  BY <1>1, <1>2 DEF SoundRows, SoundRow

LEMMA RowStands ==
  ASSUME NEW V, NEW W, NEW k, NEW row, Stands(V, W), SoundRow(k, row, V)
  PROVE  SoundRow(k, row, W)
<1>1. \A tag : Of(V, tag) \subseteq Of(W, tag)
  BY DEF Stands, Of
<1>2. \A tag \in {"features", "estimate", "multiple", "valuation", "thesis", "advice"} :
         \A j \in Of(V, tag) : W[j] = V[j]
  BY DEF Stands, Of
<1>3. TimelyRow(k, row, W)
  BY <1>1, <1>2 DEF SoundRow, TimelyRow
<1>4. FoundedRow(k, row, W)
  <2>1. DOMAIN V \subseteq DOMAIN W
    BY DEF Stands
  <2>2. RecommendationRun(k[2]) \in DOMAIN V => W[RecommendationRun(k[2])] = V[RecommendationRun(k[2])]
    BY DEF Stands, RecommendationRun
  <2> QED  BY <1>1, <1>2, <2>1, <2>2 DEF SoundRow, FoundedRow
<1> QED  BY <1>3, <1>4 DEF SoundRow

\* Only four tables have rows of which something is asked.
LEMMA OtherRow ==
  ASSUME NEW V, NEW k, NEW row,
         k[1] \notin {"features", "estimate", "multiple", "valuation", "decision"}
  PROVE  SoundRow(k, row, V)
  BY DEF SoundRow, TimelyRow, FoundedRow

\* The rows of W are those of V that stand, and others of which that is known.
LEMMA RowsSound ==
  ASSUME NEW V, NEW W, Stands(V, W), Timely(V), Founded(V),
         \A k \in DOMAIN W : (k \in DOMAIN V /\ W[k] = V[k]) \/ SoundRow(k, W[k], W)
  PROVE  Timely(W) /\ Founded(W)
<1>1. SoundRows(V)
  BY RowByRow
<1>2. \A k \in DOMAIN W : SoundRow(k, W[k], W)
  BY <1>1, RowStands DEF SoundRows
<1> QED  BY <1>2, RowByRow DEF SoundRows

LEMMA AddRowSound ==
  ASSUME NEW V, NEW key, NEW row, NEW W, W = AddRow(V, key, row), Timely(V), Founded(V),
         key[1] \in Kept \ {"decision"} => key \notin DOMAIN V, SoundRow(key, row, V)
  PROVE  Timely(W) /\ Founded(W) /\ Stands(V, W)
<1>1. Stands(V, W)
  BY AddRowStands
<1>2. \A k \in DOMAIN W : (k \in DOMAIN V /\ W[k] = V[k]) \/ (k = key /\ W[k] = row)
  BY DEF AddRow
<1>3. SoundRow(key, row, W)
  BY <1>1, RowStands
<1> QED  BY <1>1, <1>2, <1>3, RowsSound

-----------------------------------------------------------------------------
(* What others commit disturbs no command.                                 *)

\* The committed rows R become R2 while a command holds the draft D.
Grown(r, D, R, R2) ==
    /\ DOMAIN R \subseteq DOMAIN R2
    /\ \A k \in DOMAIN R : k[1] \in Kept => R2[k] = R[k]
    /\ \A k \in DOMAIN R2 : k \in DOMAIN D => k \in DOMAIN R /\ R2[k] = R[k]
    /\ \A k \in Of(R, "rule") :
          /\ NotBefore(R2[k].approved, R[k].approved)
          /\ Replaces(r, k) /\ NoLonger(R[k], r.begun[k].approved) =>
                NoLonger(R2[k], r.begun[k].approved)

Stamps(R, n) == \A k \in Of(R, "rule") : StampOk(R[k], n)

\* But for the results that still stand, the command is as it was.
Alike(q, r) ==
    /\ Shape(q, EstimateFields) /\ q.untouched \subseteq r.untouched
    /\ q.pc = r.pc /\ q.want = r.want /\ q.kind = r.kind /\ q.period = r.period
    /\ q.cutoff = r.cutoff /\ q.points = r.points /\ q.fingerprint = r.fingerprint
    /\ q.features = r.features

LEMMA EstimateStands ==
  ASSUME NEW r, NEW q, NEW D, NEW V, NEW R, NEW V2, NEW R2, EstimateOk(r, D, V, R),
         Stands(V, V2), DOMAIN R \subseteq DOMAIN R2, Alike(q, r),
         \A k \in q.untouched : k \in Of(R, "result") => R2[k].available = R[k].available
  PROVE  EstimateOk(q, D, V2, R2)
<1>1. EstimateSteps(q)
  BY DEF EstimateOk, EstimateSteps, Alike
<1>2. q.untouched \subseteq Of(R2, "result") /\ (q.kind = "estimate" => q.untouched = {})
  BY DEF EstimateOk, Alike, Of
<1>3. q.pc \in {"results", "signals", "features", "estimate", "score"} => Blind(q, R2)
  BY DEF EstimateOk, Alike, Blind
<1>4. Chosen(r) => Chosen(q)
  BY DEF Alike, Chosen
<1>5. Snapped(r, V) => Snapped(q, V2)
  BY <1>4 DEF Alike, Snapped, Stands
<1> QED  BY <1>1, <1>2, <1>3, <1>4, <1>5 DEF EstimateOk, Alike

LEMMA AdviceStands ==
  ASSUME NEW r, NEW D, NEW V, NEW R, NEW V2, NEW R2, AdviceOk(r, D, V, R),
         Stands(V, V2), Stands(R, R2)
  PROVE  AdviceOk(r, D, V2, R2)
<1>1. Superseded(R) \subseteq Superseded(R2)
  <2>1. \A k \in Of(R, "thesis") : k \in Of(R2, "thesis") /\ R2[k] = R[k]
    BY DEF Stands, Of
  <2> QED  BY <2>1 DEF Superseded
<1>2. \A tag \in {"thesis", "valuation", "estimate"} :
         \A k \in Of(V, tag) : k \in Of(V2, tag) /\ V2[k] = V[k]
  BY DEF Stands, Of
<1>3. Supports(r, V) => Supports(r, V2)
  BY <1>2 DEF Supports
<1> QED  BY <1>1, <1>3 DEF AdviceOk

LEMMA ValueStands ==
  ASSUME NEW r, NEW D, NEW V, NEW V2, ValueOk(r, D, V), Stands(V, V2)
  PROVE  ValueOk(r, D, V2)
<1>1. \A k \in Of(V, "multiple") : k \in Of(V2, "multiple") /\ V2[k] = V[k]
  BY DEF Stands, Of
<1> QED  BY <1>1 DEF ValueOk

LEMMA RuleStands ==
  ASSUME NEW r, NEW D, NEW V, NEW R, NEW n \in Nat, NEW V2, NEW R2, NEW m \in Nat, n <= m,
         RuleOk(r, D, V, R, n), Overlay(D, V, R), Overlay(D, V2, R2), Grown(r, D, R, R2),
         Stamps(R, n), Stamps(R2, m), NONE \notin Nat
  PROVE  RuleOk(r, D, V2, R2, m)
<1>1. \A x : StampOk(x, n) => StampOk(x, m)
  BY DEF StampOk
<1>2. Of(R, "rule") \subseteq Of(R2, "rule") /\ Of(V, "rule") \subseteq Of(V2, "rule")
  BY DEF Grown, Overlay, Of
<1>3. ASSUME NEW old \in r.loaded, r.pc \in {"rule", "review"}
      PROVE  NotBefore(V2[r.want].approved, old.approved)
  <2> DEFINE k == r.want
  <2>1. StampOk(old, n) /\ k \in Of(V, "rule") /\ NotBefore(V[k].approved, old.approved)
    BY <1>3 DEF RuleOk
  <2>2. CASE k \in DOMAIN D
    BY <2>1, <2>2, <1>2 DEF Overlay, Of
  <2>3. CASE k \notin DOMAIN D
    <3>1. k \in Of(R, "rule") /\ V[k] = R[k] /\ k \in Of(R2, "rule") /\ V2[k] = R2[k]
      BY <1>2, <2>1, <2>3 DEF Overlay, Of
    <3>2. NotBefore(R2[k].approved, R[k].approved) /\ StampOk(R[k], n) /\ StampOk(R2[k], m)
      BY <3>1 DEF Grown, Stamps
    <3> HIDE DEF k
    <3>3. NotBefore(R2[k].approved, old.approved)
      BY <2>1, <3>1, <3>2 DEF NotBefore, StampOk
    <3> QED  BY <3>1, <3>3 DEF k
  <2> QED  BY <2>2, <2>3
<1>4. ASSUME NEW k \in Approvals(r), r.kind = "candidates"
      PROVE  /\ r.begun[k].approved \in Nat /\ r.begun[k].approved < m
             /\ Overwrites(r, D, k) => NoLonger(R2[k], r.begun[k].approved)
  <2>1. k \in Of(R, "rule") /\ r.pc # "idle"
    BY <1>4 DEF RuleOk, RuleWant, Approvals
  <2>2. Replaces(r, k)
    BY <1>4, <2>1 DEF Replaces, Of
  <2> QED  BY <1>4, <2>1, <2>2 DEF RuleOk, Grown
<1>5. ASSUME NEW k \in Of(D, "rule")
      PROVE  StampOk(D[k], m) /\ (k \in DOMAIN R2 => NotBefore(D[k].approved, R2[k].approved))
  BY <1>1, <1>5 DEF RuleOk, Grown, Of
<1> QED  BY <1>1, <1>2, <1>3, <1>4, <1>5 DEF RuleOk

LEMMA OthersStand ==
  ASSUME NEW r, NEW D, NEW V, NEW R, NEW n \in Nat, NEW V2, NEW R2, NEW m \in Nat, n <= m,
         Ok(r, D, V, R, n), ~EstimateOk(r, D, V, R), Overlay(D, V, R), Overlay(D, V2, R2),
         Grown(r, D, R, R2), Stamps(R, n), Stamps(R2, m), NONE \notin Nat
  PROVE  Ok(r, D, V2, R2, m)
<1>1. Stands(R, R2)
  BY DEF Grown, Stands, Kept
<1>2. Stands(V, V2)
  BY <1>1, ViewsStand
<1> QED  BY <1>1, <1>2, ValueStands, AdviceStands, RuleStands DEF Ok

LEMMA AlikeItself ==
  ASSUME NEW r, Shape(r, EstimateFields)
  PROVE  Alike(r, r)
  BY DEF Alike

LEMMA OkStands ==
  ASSUME NEW r, NEW D, NEW V, NEW R, NEW n \in Nat, NEW V2, NEW R2, NEW m \in Nat, n <= m,
         Ok(r, D, V, R, n), Overlay(D, V, R), Overlay(D, V2, R2),
         Grown(r, D, R, R2), Stamps(R, n), Stamps(R2, m), NONE \notin Nat,
         \A k \in Of(R, "result") : R2[k] = R[k]
  PROVE  Ok(r, D, V2, R2, m)
<1>1. ASSUME EstimateOk(r, D, V, R) PROVE Ok(r, D, V2, R2, m)
  <2>1. Stands(R, R2)
    BY DEF Grown, Stands, Kept
  <2>2. Stands(V, V2)
    BY <2>1, ViewsStand
  <2>3. Alike(r, r) /\ DOMAIN R \subseteq DOMAIN R2
    BY <1>1, AlikeItself DEF EstimateOk, Grown
  <2>4. EstimateOk(r, D, V2, R2)
    BY <1>1, <2>2, <2>3, EstimateStands
  <2> QED  BY <2>4 DEF Ok
<1> QED  BY <1>1, OthersStand

\* Nobody's commit, and another command started.
LEMMA OkLater ==
  ASSUME NEW r, NEW D, NEW V, NEW R, NEW n \in Nat, NEW m \in Nat, n <= m,
         Ok(r, D, V, R, n), Overlay(D, V, R), Stamps(R, n), NONE \notin Nat
  PROVE  Ok(r, D, V, R, m) /\ Stamps(R, m)
<1>1. Stamps(R, m)
  BY DEF Stamps, StampOk
<1>2. Grown(r, D, R, R)
  BY DEF Grown, NotBefore, Stamps, StampOk
<1> QED  BY <1>1, <1>2, OkStands

-----------------------------------------------------------------------------
(* The steps of a transaction.                                             *)

Keeps == IInv' /\ RecordsStandStep

\* A rerun that has written over an approval found it withdrawn or renewed.
LEMMA ApprovalsStand ==
  ASSUME IInv, NEW s \in Sessions, At(s, "commit"), sess[s].kind = "candidates",
         NEW k \in DOMAIN sess[s].begun, sess[s].begun[k].status = "APPROVED",
         db[k] = sess[s].begun[k]
  PROVE  k \notin DOMAIN draft[s]
<1> DEFINE r == sess[s]
<1>1. RuleOk(r, draft[s], View(s), db, started)
  <2>1. Ok(r, draft[s], View(s), db, started) /\ r.pc = "commit" /\ r.kind = "candidates"
    BY DEF IInv, At
  <2> QED  BY <2>1 DEF Ok, Idle, EstimateOk, EstimateSteps, BandOk, ValueOk, ThesisOk, WatchOk,
                       AdviceOk
<1>2. k \in Approvals(r) /\ ~NoLonger(db[k], r.begun[k].approved)
  BY <1>1 DEF Approvals, NoLonger, RuleOk
<1> QED  BY <1>1, <1>2 DEF RuleOk, Overwrites

LEMMA NothingRewritten ==
  ASSUME IInv,
         \A k \in DOMAIN db : k[1] \in Kept => k \in DOMAIN db' /\ db'[k] = db[k]
  PROVE  RecordsStandStep
<1>1. \A s \in Sessions : (At(s, "commit") /\ sess[s].kind = "candidates") =>
        \A k \in DOMAIN sess[s].begun :
           (sess[s].begun[k].status = "APPROVED" /\ db[k] = sess[s].begun[k]) =>
              k \notin DOMAIN draft[s]
  BY ApprovalsStand
<1> QED  BY <1>1 DEF RecordsStandStep, Kept

\* A session that has not committed: its draft is now D2.
LEMMA OwnStep ==
  ASSUME IInv, NEW s \in Sessions, NEW state, NEW D2, AdviceAssumption,
         db' = db, sess' = [sess EXCEPT ![s] = state], draft' = [draft EXCEPT ![s] = D2],
         started' \in Nat, started <= started',
         \A t \in Sessions : t # s => DOMAIN D2 \cap DOMAIN draft[t] = {},
         Ok(state, D2, Seen(D2, db), db, started'), Sound(D2, Seen(D2, db), db),
         Answers(state, D2, db),
         \A t \in Sessions : t # s => Answers(state, draft[t], db) /\ Answers(sess[t], D2, db)
  PROVE  Keeps
<1>1. /\ draft'[s] = D2 /\ sess'[s] = state
      /\ \A t \in Sessions : t # s => sess'[t] = sess[t] /\ draft'[t] = draft[t]
      /\ sess' = [t \in Sessions |-> sess'[t]] /\ draft' = [t \in Sessions |-> draft'[t]]
  BY DEF IInv
<1>2. DraftsDisjoint'
  BY <1>1 DEF IInv, DraftsDisjoint
<1>3. started \in Nat /\ Stamps(db, started) /\ NONE \notin Nat
  BY DEF IInv, Stamps, AdviceAssumption
<1>4. ASSUME NEW t \in Sessions
      PROVE  (Ok(sess[t], draft[t], View(t), db, started) /\ Sound(draft[t], View(t), db))'
  <2>1. CASE t = s
    <3>1. View(s)' = Seen(D2, db)
      BY <1>1 DEF View, Seen
    <3> QED  BY <1>1, <2>1, <3>1
  <2>2. CASE t # s
    <3>1. View(t)' = View(t)
      BY <1>1, <2>2 DEF View
    <3>2. Ok(sess[t], draft[t], View(t), db, started) /\ Sound(draft[t], View(t), db)
      BY DEF IInv
    <3>3. Ok(sess[t], draft[t], View(t), db, started')
      BY <1>3, <3>2, ViewIs, OkLater
    <3> QED  BY <1>1, <2>2, <3>1, <3>2, <3>3
  <2> QED  BY <2>1, <2>2
<1>5. (\A k \in Of(db, "rule") : StampOk(db[k], started))'
  <2>1. \A k \in Of(db, "rule") : StampOk(db[k], started')
    BY <1>3 DEF Stamps, StampOk
  <2> QED  BY <2>1
<1>6. ASSUME NEW t \in Sessions, NEW u \in Sessions
      PROVE  Answers(sess[t], draft[u], db)'
  <2>1. Answers(sess[t], draft[u], db)
    BY DEF IInv
  <2>2. Answers(sess'[t], draft'[u], db)
    BY <1>1, <2>1
  <2> QED  BY <2>2
<1>7. Consistent(db)'
  BY DEF IInv
<1>8. RecordsStandStep
  BY NothingRewritten
<1>9. IInv'
  BY <1>1, <1>2, <1>4, <1>5, <1>6, <1>7 DEF IInv
<1> QED  BY <1>8, <1>9 DEF Keeps

\* A command watches over no approval but those it watched over before.
Carries(r, q) ==
    \A k : Replaces(q, k) => Replaces(r, k) /\ q.begun[k].approved = r.begun[k].approved

LEMMA CarriesAnswers ==
  ASSUME NEW r, NEW q, NEW D, NEW R, Carries(r, q), Answers(r, D, R)
  PROVE  Answers(q, D, R)
  BY DEF Carries, Answers

LEMMA NoCandidates ==
  ASSUME NEW r, NEW q, q.pc = "idle" \/ q.kind # "candidates"
  PROVE  Carries(r, q)
  BY DEF Carries, Replaces

LEMMA QuietKeeps ==
  ASSUME IInv, NEW s \in Sessions, NEW state, AdviceAssumption,
         Local(s, state) \/ Start(s, state), Ok(state, draft[s], View(s), db, started'),
         \A t \in Sessions : Answers(state, draft[t], db)
  PROVE  Keeps
<1>1. /\ db' = db /\ sess' = [sess EXCEPT ![s] = state] /\ draft' = draft
      /\ started' \in Nat /\ started <= started'
  BY DEF Local, Start, Become, IInv
<1>2. draft' = [draft EXCEPT ![s] = draft[s]]
  BY <1>1 DEF IInv
<1>3. View(s) = Seen(draft[s], db)
  BY ViewIs
<1>4. \A t \in Sessions : t # s => DOMAIN draft[s] \cap DOMAIN draft[t] = {}
  BY DEF IInv, DraftsDisjoint
<1>5. Sound(draft[s], Seen(draft[s], db), db) /\ \A t \in Sessions : Answers(sess[t], draft[s], db)
  BY <1>3 DEF IInv
<1>6. Ok(state, draft[s], Seen(draft[s], db), db, started')
  BY <1>3
<1> QED  BY <1>1, <1>2, <1>4, <1>5, <1>6, OwnStep

\* A read, by a command that goes on.
LEMMA LocalKeeps ==
  ASSUME IInv, NEW s \in Sessions, NEW state, AdviceAssumption,
         Local(s, state), Ok(state, draft[s], View(s), db, started), Carries(sess[s], state)
  PROVE  Keeps
<1>1. \A t \in Sessions : Answers(state, draft[t], db)
  BY CarriesAnswers DEF IInv
<1> QED  BY <1>1, QuietKeeps DEF Local

LEMMA IdleIsEmpty ==
  ASSUME IInv, NEW s \in Sessions, At(s, "idle")
  PROVE  DOMAIN draft[s] = {}
<1>1. Ok(sess[s], draft[s], View(s), db, started) /\ sess[s].pc = "idle"
  BY DEF IInv, At
<1> QED  BY <1>1 DEF Ok, EstimateOk, EstimateSteps, BandOk, ValueOk, ThesisOk, WatchOk, AdviceOk,
                     RuleOk, RuleWant

LEMMA EmptyIsSound ==
  ASSUME NEW D, NEW R, DOMAIN D = {}, Timely(R), Founded(R)
  PROVE  Sound(D, Seen(D, R), R)
<1>1. Stands(R, Seen(D, R))
  BY DEF Stands, Seen
<1>2. \A k \in DOMAIN Seen(D, R) : k \in DOMAIN R /\ Seen(D, R)[k] = R[k]
  BY DEF Seen
<1>3. Timely(Seen(D, R)) /\ Founded(Seen(D, R))
  BY <1>1, <1>2, RowsSound
<1>4. IsFiniteSet(DOMAIN D)
  BY FS_EmptySet
<1> QED  BY <1>3, <1>4 DEF Sound

LEMMA RollbackKeeps ==
  ASSUME IInv, NEW s \in Sessions, Rollback(s), AdviceAssumption
  PROVE  Keeps
<1>1. /\ db' = db /\ sess' = [sess EXCEPT ![s] = Idle]
      /\ draft' = [draft EXCEPT ![s] = Nothing]
      /\ started' \in Nat /\ started <= started'
  BY DEF Rollback, Become, IInv
<1>2. DOMAIN Nothing = {} /\ Idle.pc = "idle"
  BY DEF Nothing, Idle
<1>3. Ok(Idle, Nothing, Seen(Nothing, db), db, started')
  BY <1>2 DEF Ok
<1>4. Sound(Nothing, Seen(Nothing, db), db)
  BY <1>2, EmptyIsSound DEF IInv, Consistent
<1>5. \A t \in Sessions : Answers(Idle, draft[t], db) /\ Answers(sess[t], Nothing, db)
  BY <1>2 DEF Answers, Replaces
<1>6. Answers(Idle, Nothing, db)
  BY <1>2 DEF Answers
<1>7. \A t \in Sessions : t # s => DOMAIN Nothing \cap DOMAIN draft[t] = {}
  BY <1>2
<1> QED  BY <1>1, <1>3, <1>4, <1>5, <1>6, <1>7, OwnStep

\* The flush of a row restores no approval.
RestoresNone(key, row) ==
    \A t \in Sessions :
        (Replaces(sess[t], key) /\ NoLonger(db[key], sess[t].begun[key].approved)) =>
            NoLonger(row, sess[t].begun[key].approved)

LEMMA RowKeeps ==
  ASSUME IInv, NEW s \in Sessions, NEW key, NEW row, NEW state, AdviceAssumption,
         InsertRow(s, key, row, state),
         \A t \in Sessions : t # s => key \notin DOMAIN draft[t],
         key[1] \notin Published, key[1] \in Kept => key \notin DOMAIN db,
         key[1] \in Kept \ {"decision"} => key \notin DOMAIN View(s),
         SoundRow(key, row, View(s)), RestoresNone(key, row), Carries(sess[s], state),
         Ok(state, AddRow(draft[s], key, row), AddRow(View(s), key, row), db, started)
  PROVE  Keeps
<1> DEFINE rows == [k \in {key} |-> row]
           D == draft[s]
           D2 == AddRow(D, key, row)
<1>1. /\ DOMAIN D2 = DOMAIN D \cup {key} /\ D2[key] = row
      /\ \A k \in DOMAIN D : k # key => D2[k] = D[k]
  BY DEF AddRow
<1>2. /\ db' = db /\ sess' = [sess EXCEPT ![s] = state]
      /\ draft' = [draft EXCEPT ![s] = D2] /\ started' = started
  <2>1. DOMAIN rows = {key} /\ rows[key] = row
    OBVIOUS
  <2>2. Insert(s, rows, state)
    BY DEF InsertRow
  <2> HIDE DEF rows
  <2>3. D2 = [k \in DOMAIN D \cup DOMAIN rows |-> IF k \in DOMAIN rows THEN rows[k] ELSE D[k]]
    BY <2>1 DEF AddRow
  <2> QED  BY <2>2, <2>3 DEF Insert, Become, IInv
<1>3. Seen(D2, db) = AddRow(View(s), key, row)
  BY ViewIs, SeenAddRow
<1>4. Sound(D, View(s), db) /\ \A t, u \in Sessions : Answers(sess[t], draft[u], db)
  BY DEF IInv
<1> HIDE DEF D2
<1>5. Sound(D2, Seen(D2, db), db)
  <2>1. Timely(Seen(D2, db)) /\ Founded(Seen(D2, db))
    BY <1>3, <1>4, AddRowSound DEF Sound
  <2>2. IsFiniteSet(DOMAIN D2)
    BY <1>1, <1>4, FS_AddElement DEF Sound
  <2>3. \A k \in DOMAIN D2 : k[1] \notin Published /\ (k[1] \in Kept => k \notin DOMAIN db)
    BY <1>1, <1>4 DEF Sound
  <2> QED  BY <2>1, <2>2, <2>3 DEF Sound
<1>6. \A t \in Sessions : Answers(sess[t], D2, db)
  BY <1>1, <1>4 DEF Answers, RestoresNone
<1>7. Answers(state, D2, db) /\ \A t \in Sessions : Answers(state, draft[t], db)
  BY <1>4, <1>6, CarriesAnswers
<1>8. \A t \in Sessions : t # s => DOMAIN D2 \cap DOMAIN draft[t] = {}
  BY <1>1 DEF IInv, DraftsDisjoint
<1>9. Ok(state, D2, Seen(D2, db), db, started')
  BY <1>2, <1>3 DEF D2
<1>10. started' \in Nat /\ started <= started'
  BY <1>2 DEF IInv
<1> QED  BY <1>2, <1>5, <1>6, <1>7, <1>8, <1>9, <1>10, OwnStep

\* The row a command wants: a new one, or one it changes.
LEMMA UpdateKeeps ==
  ASSUME IInv, NEW s \in Sessions, NEW row, NEW state, AdviceAssumption,
         FlushUpdate(s, row, state), NEW key, key = sess[s].want,
         NEW q, q = [state EXCEPT !.want = NONE],
         key[1] \notin Published, key[1] \in Kept => key \notin DOMAIN View(s),
         key # NONE =>
            /\ SoundRow(key, row, View(s)) /\ RestoresNone(key, row) /\ Carries(sess[s], q)
            /\ Ok(q, AddRow(draft[s], key, row), AddRow(View(s), key, row), db, started)
  PROVE  Keeps
<1>1. InsertRow(s, key, row, q) /\ key # NONE
  BY DEF FlushUpdate, Flush
<1>2. \A t \in Sessions : t # s => key \notin DOMAIN draft[t]
  BY DEF FlushUpdate, Free, WaitsFor
<1>3. DOMAIN db \subseteq DOMAIN View(s)
  BY DEF View
<1> QED  BY <1>1, <1>2, <1>3, RowKeeps

LEMMA FlushKeeps ==
  ASSUME IInv, NEW s \in Sessions, NEW row, NEW state, AdviceAssumption,
         FlushNew(s, row, state), NEW key, key = sess[s].want,
         NEW q, q = [state EXCEPT !.want = NONE],
         key[1] \notin Published,
         key # NONE /\ key \notin DOMAIN View(s) =>
            /\ SoundRow(key, row, View(s)) /\ RestoresNone(key, row) /\ Carries(sess[s], q)
            /\ Ok(q, AddRow(draft[s], key, row), AddRow(View(s), key, row), db, started)
  PROVE  Keeps
<1>1. CASE Sees(s, key)
  BY <1>1, RollbackKeeps DEF FlushNew
<1>2. CASE ~Sees(s, key)
  <2>1. key \notin DOMAIN View(s)
    BY <1>2 DEF Sees, View
  <2>2. FlushUpdate(s, row, state)
    BY <1>2 DEF FlushNew, FlushUpdate
  <2> QED  BY <2>1, <2>2, UpdateKeeps
<1> QED  BY <1>1, <1>2

\* A new row of a numbered table, by no candidate rules' command.
LEMMA OtherRestoresNone ==
  ASSUME NEW key, NEW row, key[1] # "rule"
  PROVE  RestoresNone(key, row)
  BY DEF RestoresNone, Replaces

\* An id drawn for a new row is nobody's.
LEMMA FreshKey ==
  ASSUME IInv, NEW tag \in Numbered, AdviceAssumption
  PROVE  /\ <<tag, Fresh(tag)>> \notin DOMAIN db
         /\ \A t \in Sessions : /\ <<tag, Fresh(tag)>> \notin DOMAIN draft[t]
                                /\ <<tag, Fresh(tag)>> \notin DOMAIN View(t)
<1>1. IsFiniteSet(Of(db, tag)) /\ IsFiniteSet(Sessions)
  BY DEF IInv, Consistent, AdviceAssumption
<1>2. ASSUME NEW t \in Sessions PROVE IsFiniteSet(Of(draft[t], tag))
  <2>1. IsFiniteSet(DOMAIN draft[t]) /\ Of(draft[t], tag) \subseteq DOMAIN draft[t]
    BY DEF IInv, Sound, Of
  <2> QED  BY <2>1, FS_Subset
<1>3. FiniteTable(tag)
  BY <1>1, <1>2 DEF FiniteTable
<1>4. /\ <<tag, Fresh(tag)>> \notin DOMAIN db
      /\ \A t \in Sessions : <<tag, Fresh(tag)>> \notin DOMAIN draft[t]
  BY <1>1, <1>3, FreshIsNew
<1> QED  BY <1>4 DEF View

LEMMA NumberedKeeps ==
  ASSUME IInv, NEW s \in Sessions, NEW tag \in Numbered, NEW row, NEW state, AdviceAssumption,
         NEW key, key = <<tag, Fresh(tag)>>, InsertRow(s, key, row, state),
         SoundRow(key, row, View(s)), Carries(sess[s], state),
         Ok(state, AddRow(draft[s], key, row), AddRow(View(s), key, row), db, started)
  PROVE  Keeps
<1>1. /\ key \notin DOMAIN db /\ key \notin DOMAIN View(s)
      /\ \A t \in Sessions : key \notin DOMAIN draft[t]
  BY FreshKey
<1>2. key[1] = tag
  OBVIOUS
<1>3. key[1] \notin Published /\ key[1] # "rule"
  BY <1>2 DEF Numbered, Published
<1>4. RestoresNone(key, row)
  BY <1>3, OtherRestoresNone
<1> QED  BY <1>1, <1>3, <1>4, RowKeeps

-----------------------------------------------------------------------------
(* Commits.                                                                *)

LEMMA ReplacesRule ==
  ASSUME IInv, NEW t \in Sessions, NEW k, Replaces(sess[t], k)
  PROVE  k \in Of(db, "rule")
<1>1. Ok(sess[t], draft[t], View(t), db, started)
  BY DEF IInv
<1>2. RuleOk(sess[t], draft[t], View(t), db, started)
  BY <1>1 DEF Replaces, Ok, Idle, EstimateOk, EstimateSteps, BandOk, ValueOk, ThesisOk, WatchOk,
              AdviceOk
<1> QED  BY <1>2 DEF Replaces, Approvals, RuleOk

LEMMA SoundStands ==
  ASSUME NEW r, NEW D, NEW V, NEW R, NEW V2, NEW R2, Overlay(D, V, R), Overlay(D, V2, R2),
         Grown(r, D, R, R2), Sound(D, V, R), Timely(R2), Founded(R2)
  PROVE  Sound(D, V2, R2)
<1>1. \A k \in DOMAIN D : k[1] \notin Published /\ (k[1] \in Kept => k \notin DOMAIN R2)
  BY DEF Sound, Grown
<1>2. Stands(V, V2)
  <2>1. Stands(R, R2)
    BY DEF Grown, Stands, Kept
  <2> QED  BY <2>1, ViewsStand
<1>3. Stands(R2, V2)
  BY <1>1 DEF Overlay, Stands, Kept
<1>4. SoundRows(V) /\ SoundRows(R2)
  BY RowByRow DEF Sound
<1>5. ASSUME NEW k \in DOMAIN V2 PROVE SoundRow(k, V2[k], V2)
  <2>1. CASE k \in DOMAIN D
    <3>1. k \in DOMAIN V /\ V2[k] = V[k]
      BY <2>1 DEF Overlay
    <3> QED  BY <1>2, <1>4, <3>1, RowStands DEF SoundRows
  <2>2. CASE k \notin DOMAIN D
    <3>1. k \in DOMAIN R2 /\ V2[k] = R2[k]
      BY <2>2 DEF Overlay
    <3> QED  BY <1>3, <1>4, <3>1, RowStands DEF SoundRows
  <2> QED  BY <2>1, <2>2
<1>6. Timely(V2) /\ Founded(V2)
  BY <1>5, RowByRow DEF SoundRows
<1> QED  BY <1>1, <1>6 DEF Sound

\* A session goes on, with its draft, under the new committed rows.
GoesOn(t) ==
    /\ draft'[t] = draft[t] /\ Grown(sess[t], draft[t], db, db')
    /\ Ok(sess'[t], draft[t], View(t)', db', started') /\ Carries(sess[t], sess'[t])

LEMMA CommittedStep ==
  ASSUME IInv, AdviceAssumption,
         started' \in Nat, started <= started', Consistent(db'), Stamps(db', started'),
         draft' = [t \in Sessions |-> draft'[t]], sess' = [t \in Sessions |-> sess'[t]],
         \A t \in Sessions : (draft'[t] = Nothing /\ sess'[t] = Idle) \/ GoesOn(t)
  PROVE  IInv'
<1>1. DOMAIN Nothing = {} /\ Idle.pc = "idle"
  BY DEF Nothing, Idle
<1>2. DraftsDisjoint'
  <2>1. \A t \in Sessions : DOMAIN draft'[t] \subseteq DOMAIN draft[t]
    BY <1>1 DEF GoesOn
  <2> QED  BY <2>1 DEF IInv, DraftsDisjoint
<1>3. ASSUME NEW t \in Sessions
      PROVE  (Ok(sess[t], draft[t], View(t), db, started) /\ Sound(draft[t], View(t), db))'
  <2>1. Overlay(draft[t], View(t), db) /\ Overlay(draft'[t], View(t)', db')
    BY ViewIs DEF Overlay, View
  <2>2. CASE draft'[t] = Nothing /\ sess'[t] = Idle
    <3>1. Ok(sess'[t], draft'[t], View(t)', db', started')
      BY <1>1, <2>2 DEF Ok
    <3>2. Timely(db') /\ Founded(db')
      BY DEF Consistent
    <3>3. Stands(db', View(t)')
      BY <1>1, <2>1, <2>2 DEF Overlay, Stands
    <3>4. \A k \in DOMAIN View(t)' : k \in DOMAIN db' /\ View(t)'[k] = db'[k]
      BY <1>1, <2>1, <2>2 DEF Overlay
    <3>5. Timely(View(t)') /\ Founded(View(t)')
      BY <3>2, <3>3, <3>4, RowsSound
    <3>6. Sound(draft'[t], View(t)', db')
      BY <1>1, <2>2, <3>5, FS_EmptySet DEF Sound
    <3> QED  BY <3>1, <3>6
  <2>3. CASE GoesOn(t)
    <3>1. Sound(draft[t], View(t), db)
      BY DEF IInv
    <3>2. Timely(db') /\ Founded(db')
      BY DEF Consistent
    <3>3. Overlay(draft[t], View(t)', db')
      BY <2>1, <2>3 DEF GoesOn
    <3>4. Sound(draft[t], View(t)', db')
      BY <2>1, <2>3, <3>1, <3>2, <3>3, SoundStands DEF GoesOn
    <3> QED  BY <2>3, <3>4 DEF GoesOn
  <2> QED  BY <2>2, <2>3
<1>4. ASSUME NEW t \in Sessions, NEW u \in Sessions
      PROVE  Answers(sess[t], draft[u], db)'
  <2> SUFFICES ASSUME NEW k \in DOMAIN draft'[u], Replaces(sess'[t], k),
                      NoLonger(db'[k], sess'[t].begun[k].approved)
               PROVE  NoLonger(draft'[u][k], sess'[t].begun[k].approved)
    BY DEF Answers
  <2>1. GoesOn(t) /\ GoesOn(u)
    BY <1>1 DEF Replaces
  <2>2. Replaces(sess[t], k) /\ sess'[t].begun[k].approved = sess[t].begun[k].approved
    BY <2>1 DEF GoesOn, Carries
  <2>3. k \in DOMAIN draft[u] /\ k \in DOMAIN db
    BY <2>1, <2>2, ReplacesRule DEF GoesOn, Of
  <2>4. db'[k] = db[k]
    BY <2>1, <2>3 DEF GoesOn, Grown
  <2>5. Answers(sess[t], draft[u], db)
    BY DEF IInv
  <2> QED  BY <2>1, <2>2, <2>3, <2>4, <2>5 DEF GoesOn, Answers
<1>5. \A k \in Of(db', "rule") : StampOk(db'[k], started')
  BY DEF Stamps
<1> QED  BY <1>2, <1>3, <1>4, <1>5 DEF IInv

\* Who may have drafted a decision, and who a rule.
LEMMA DecisionDrafts ==
  ASSUME NEW r, NEW D, NEW V, NEW R, NEW n, Ok(r, D, V, R, n), NEW d \in Of(D, "decision")
  PROVE  AdviceOk(r, D, V, R) /\ RunIs(r, D) /\ d[2] = r.run
<1>1. d \in DOMAIN D /\ d[1] = "decision"
  BY DEF Of
<1>2. AdviceOk(r, D, V, R)
  BY <1>1 DEF Ok, EstimateOk, BandOk, ValueOk, ThesisOk, WatchOk, RuleOk, Drafts
<1>3. RunIs(r, D)
  BY <1>1, <1>2 DEF AdviceOk
<1>4. d = Decision(r.run, d[3])
  BY <1>1, <1>3 DEF RunIs, RecommendationRun
<1> QED  BY <1>2, <1>3, <1>4 DEF Decision

LEMMA RuleDrafts ==
  ASSUME NEW r, NEW D, NEW V, NEW R, NEW n, Ok(r, D, V, R, n), NEW k \in Of(D, "rule")
  PROVE  RuleOk(r, D, V, R, n)
<1>1. k \in DOMAIN D /\ k[1] = "rule"
  BY DEF Of
<1>2. ASSUME AdviceOk(r, D, V, R) PROVE FALSE
  <2>1. RunIs(r, D)
    BY <1>1, <1>2 DEF AdviceOk
  <2> QED  BY <1>1, <2>1 DEF RunIs, RecommendationRun, Decision
<1> QED  BY <1>1, <1>2 DEF Ok, EstimateOk, BandOk, ValueOk, ThesisOk, WatchOk, Drafts

Finished(r) == r.pc = "commit" \/ (r.pc = "symbol" /\ r.todo = {})

LEMMA DraftCompletes ==
  ASSUME NEW r, NEW D, NEW V, NEW R, NEW n, Ok(r, D, V, R, n), Overlay(D, V, R),
         Sound(D, V, R), Finished(r), Founded(R), Complete(R)
  PROVE  Complete(V)
<1> SUFFICES ASSUME NEW d \in Of(V, "decision"), NEW x \in V[RecommendationRun(d[2])].symbols
             PROVE  Decision(d[2], x) \in DOMAIN V
  BY DEF Complete
<1>1. CASE d \in DOMAIN D
  <2>1. AdviceOk(r, D, V, R) /\ RunIs(r, D) /\ d[2] = r.run
    BY <1>1, DecisionDrafts DEF Of
  <2>2. r.pc = "symbol" /\ r.todo = {}
    BY <2>1 DEF Finished, AdviceOk
  <2>3. RecommendationRun(r.run) \in DOMAIN D
        /\ V[RecommendationRun(r.run)] = D[RecommendationRun(r.run)]
    BY <2>1 DEF RunIs, Overlay
  <2>4. Decision(r.run, x) \in DOMAIN D
    BY <2>1, <2>2, <2>3 DEF RunIs
  <2> QED  BY <2>1, <2>4 DEF Overlay
<1>2. CASE d \notin DOMAIN D
  <2>1. d \in Of(R, "decision")
    BY <1>2 DEF Overlay, Of
  <2>2. RecommendationRun(d[2]) \in DOMAIN R
    BY <2>1 DEF Founded
  <2>3. RecommendationRun(d[2]) \notin DOMAIN D
    BY <2>2 DEF Sound, RecommendationRun, Kept
  <2>4. V[RecommendationRun(d[2])] = R[RecommendationRun(d[2])]
    BY <2>2, <2>3 DEF Overlay
  <2>5. Decision(d[2], x) \in DOMAIN R
    BY <2>1, <2>4 DEF Complete
  <2> QED  BY <2>5 DEF Overlay
<1> QED  BY <1>1, <1>2

LEMMA DraftConsistent ==
  ASSUME NEW r, NEW D, NEW V, NEW R, NEW n \in Nat, Ok(r, D, V, R, n), Overlay(D, V, R),
         Sound(D, V, R), Finished(r), Consistent(R), Stamps(R, n)
  PROVE  Consistent(V) /\ Stamps(V, n)
<1>1. \A k \in Of(V, "result") : V[k].available \in Nat
  <2>1. \A k \in Of(V, "result") : k \in Of(R, "result") /\ V[k] = R[k]
    BY DEF Overlay, Of, Sound, Published
  <2> QED  BY <2>1 DEF Consistent
<1>2. Complete(V)
  BY DraftCompletes DEF Consistent
<1>3. Stamps(V, n)
  <2> SUFFICES ASSUME NEW k \in Of(V, "rule") PROVE StampOk(V[k], n)
    BY DEF Stamps
  <2>1. CASE k \in DOMAIN D
    <3>1. k \in Of(D, "rule") /\ V[k] = D[k]
      BY <2>1 DEF Of, Overlay
    <3> QED  BY <3>1, RuleDrafts DEF RuleOk
  <2>2. CASE k \notin DOMAIN D
    BY <2>2 DEF Stamps, Of, Overlay
  <2> QED  BY <2>1, <2>2
<1>4. Stamped(V)
  BY <1>3 DEF Stamps, StampOk, Stamped
<1>5. ASSUME NEW tag \in Numbered PROVE IsFiniteSet(Of(V, tag))
  <2>1. Of(V, tag) = Of(R, tag) \cup Of(D, tag)
    BY DEF Overlay, Of
  <2>2. Of(D, tag) \subseteq DOMAIN D /\ IsFiniteSet(DOMAIN D) /\ IsFiniteSet(Of(R, tag))
    BY DEF Of, Sound, Consistent
  <2>3. IsFiniteSet(Of(D, tag))
    BY <2>2, FS_Subset
  <2> QED  BY <2>1, <2>2, <2>3, FS_Union
<1> QED  BY <1>1, <1>2, <1>3, <1>4, <1>5 DEF Consistent, Sound

\* How the commit of a draft looks to another session.
LEMMA CommitGrows ==
  ASSUME NEW q, NEW r, NEW D, NEW V, NEW R, NEW n \in Nat, NEW E,
         Ok(r, D, V, R, n), Overlay(D, V, R), Sound(D, V, R), Stamps(R, n),
         DOMAIN D \cap DOMAIN E = {}, Answers(q, D, R), NONE \notin Nat
  PROVE  Grown(q, E, R, V) /\ \A k \in Of(R, "result") : V[k] = R[k]
<1>1. \A k \in DOMAIN R : k \notin DOMAIN D => V[k] = R[k]
  BY DEF Overlay
<1>2. ASSUME NEW k \in Of(R, "rule")
      PROVE  /\ NotBefore(V[k].approved, R[k].approved)
             /\ Replaces(q, k) /\ NoLonger(R[k], q.begun[k].approved) =>
                   NoLonger(V[k], q.begun[k].approved)
  <2>1. k \in DOMAIN R /\ StampOk(R[k], n)
    BY DEF Of, Stamps
  <2>2. CASE k \in DOMAIN D
    <3>1. k \in Of(D, "rule") /\ V[k] = D[k]
      BY <2>2 DEF Of, Overlay
    <3>2. NotBefore(D[k].approved, R[k].approved)
      BY <2>1, <3>1, RuleDrafts DEF RuleOk
    <3> QED  BY <2>2, <3>1, <3>2 DEF Answers
  <2>3. CASE k \notin DOMAIN D
    BY <1>1, <2>1, <2>3 DEF NotBefore, StampOk
  <2> QED  BY <2>2, <2>3
<1>3. \A k \in DOMAIN R : k[1] \in Kept \cup Published => k \notin DOMAIN D
  BY DEF Sound
<1>4. \A k \in DOMAIN V : k \in DOMAIN E => k \in DOMAIN R /\ V[k] = R[k]
  BY DEF Overlay
<1>5. DOMAIN R \subseteq DOMAIN V
  BY DEF Overlay
<1>6. \A k \in DOMAIN R : k[1] \in Kept \cup Published => V[k] = R[k]
  BY <1>1, <1>3
<1>7. Grown(q, E, R, V)
  BY <1>2, <1>4, <1>5, <1>6 DEF Grown
<1> QED  BY <1>6, <1>7 DEF Published, Of

LEMMA CommitKeeps ==
  ASSUME IInv, NEW s \in Sessions, Commit(s, Idle), AdviceAssumption, Finished(sess[s])
  PROVE  Keeps
<1> DEFINE r == sess[s]
           D == draft[s]
           V == View(s)
<1>1. /\ db' = V /\ sess'[s] = Idle /\ draft'[s] = Nothing /\ started' = started
      /\ \A t \in Sessions : t # s => sess'[t] = sess[t] /\ draft'[t] = draft[t]
      /\ sess' = [t \in Sessions |-> sess'[t]] /\ draft' = [t \in Sessions |-> draft'[t]]
  BY DEF IInv, Commit, Become
<1>2. /\ Overlay(D, V, db) /\ Ok(r, D, V, db, started) /\ Sound(D, V, db)
      /\ Stamps(db, started) /\ Consistent(db) /\ started \in Nat /\ NONE \notin Nat
  BY ViewIs DEF IInv, Stamps, AdviceAssumption
<1> HIDE DEF r, D, V
<1>3. Consistent(V) /\ Stamps(V, started)
  BY <1>2, DraftConsistent DEF r
<1>4. ASSUME NEW t \in Sessions, t # s PROVE GoesOn(t)
  <2> DEFINE E == draft[t]
             W == View(t)
             W2 == View(t)'
  <2>1. /\ Overlay(E, W, db) /\ Ok(sess[t], E, W, db, started) /\ Answers(sess[t], D, db)
        /\ DOMAIN D \cap DOMAIN E = {}
    BY <1>4, ViewIs DEF IInv, DraftsDisjoint, D
  <2>2. Overlay(E, W2, V)
    BY <1>1, <1>4 DEF Overlay, View
  <2> HIDE DEF E, W, W2
  <2>3. Grown(sess[t], E, db, V) /\ \A k \in Of(db, "result") : V[k] = db[k]
    BY <1>2, <2>1, CommitGrows
  <2>4. Ok(sess[t], E, W2, V, started)
    BY <1>2, <1>3, <2>1, <2>2, <2>3, OkStands
  <2>5. Carries(sess[t], sess'[t])
    BY <1>1, <1>4 DEF Carries
  <2> QED  BY <1>1, <1>4, <2>3, <2>4, <2>5 DEF GoesOn, E, W2
<1>5. IInv'
  BY <1>1, <1>2, <1>3, <1>4, CommittedStep
<1>6. \A k \in DOMAIN db : k[1] \in Kept => k \in DOMAIN V /\ V[k] = db[k]
  BY <1>2 DEF Sound, Overlay
<1>7. RecordsStandStep
  BY <1>1, <1>6, NothingRewritten
<1> QED  BY <1>5, <1>7 DEF Keeps

-----------------------------------------------------------------------------
(* The commands of one statement.                                          *)

\* Others' rows, or new ones that nobody refers to yet.
Storable(rows) ==
    /\ \A k \in DOMAIN rows :
          \/ k[1] \in Published
          \/ /\ k[1] \in {"multiple", "review"} /\ SoundRow(k, rows[k], db)
             /\ k \notin DOMAIN db /\ \A t \in Sessions : k \notin DOMAIN draft[t]
    /\ \A k \in Of(rows, "result") : rows[k].available \in Nat
    /\ \A tag \in Numbered : IsFiniteSet(Of(rows, tag))

LEMMA StoreStep ==
  ASSUME IInv, NEW s \in Sessions, NEW rows, Store(s, rows), Storable(rows), AdviceAssumption
  PROVE  /\ Consistent(db') /\ Stamps(db', started') /\ RecordsStandStep
         /\ \A t \in Sessions : Grown(sess[t], draft[t], db, db')
<1> DEFINE R == db
           R2 == db'
<1>1. /\ DOMAIN R2 = DOMAIN R \cup DOMAIN rows
      /\ \A k \in DOMAIN R2 : R2[k] = IF k \in DOMAIN rows THEN rows[k] ELSE R[k]
  BY DEF Store
<1>2. started \in Nat /\ started' = started + 1
  BY DEF Store, IInv
<1>3. Consistent(R) /\ Stamps(R, started) /\ NONE \notin Nat
  BY DEF IInv, Stamps, AdviceAssumption
<1>4. \A k \in DOMAIN rows : k[1] \in Published \/ (k[1] \in Kept /\ k \notin DOMAIN R)
  BY DEF Storable, Kept
<1>5. \A k \in DOMAIN rows : \A t \in Sessions : k \notin DOMAIN draft[t]
  BY DEF Storable, IInv, Sound
<1>6. ASSUME NEW k \in DOMAIN rows PROVE SoundRow(k, rows[k], R)
  <2>1. CASE k[1] \in Published
    BY <2>1, OtherRow DEF Published
  <2> QED  BY <2>1 DEF Storable
<1> HIDE DEF R, R2
<1>7. \A k \in DOMAIN R : k[1] \notin Published => R2[k] = R[k]
  BY <1>1, <1>4
<1>8. Stands(R, R2)
  BY <1>1, <1>7 DEF Stands, Published
<1>9. Timely(R2) /\ Founded(R2)
  <2>1. \A k \in DOMAIN R2 : (k \in DOMAIN R /\ R2[k] = R[k]) \/ SoundRow(k, R2[k], R)
    BY <1>1, <1>6
  <2>2. \A k \in DOMAIN R2 : (k \in DOMAIN R /\ R2[k] = R[k]) \/ SoundRow(k, R2[k], R2)
    BY <1>8, <2>1, RowStands
  <2> QED  BY <1>3, <1>8, <2>2, RowsSound DEF Consistent
<1>10. \A k \in Of(R2, "result") : R2[k].available \in Nat
  <2> SUFFICES ASSUME NEW k \in Of(R2, "result") PROVE R2[k].available \in Nat
    OBVIOUS
  <2>1. CASE k \in DOMAIN rows
    BY <1>1, <2>1 DEF Storable, Of
  <2>2. CASE k \notin DOMAIN rows
    BY <1>1, <1>3, <2>2 DEF Consistent, Of
  <2> QED  BY <2>1, <2>2
<1>11. Complete(R2)
  <2>1. \A d \in Of(R2, "decision") :
           d \in Of(R, "decision") /\ RecommendationRun(d[2]) \in DOMAIN R
    BY <1>1, <1>3 DEF Consistent, Founded, Storable, Of, Published
  <2>2. \A d \in Of(R2, "decision") :
           R2[RecommendationRun(d[2])] = R[RecommendationRun(d[2])]
    BY <1>7, <2>1 DEF RecommendationRun, Published
  <2> QED  BY <1>1, <1>3, <2>1, <2>2 DEF Consistent, Complete
<1>12. Of(R2, "rule") = Of(R, "rule") /\ \A k \in Of(R, "rule") : R2[k] = R[k]
  BY <1>1, <1>7 DEF Storable, Of, Published
<1>13. Stamped(R2) /\ Stamps(R2, started')
  BY <1>2, <1>3, <1>12 DEF Consistent, Stamped, Stamps, StampOk
<1>14. ASSUME NEW tag \in Numbered PROVE IsFiniteSet(Of(R2, tag))
  <2>1. Of(R2, tag) = Of(R, tag) \cup Of(rows, tag)
    BY <1>1 DEF Of
  <2> QED  BY <1>3, <2>1, FS_Union DEF Consistent, Storable
<1>15. Consistent(R2)
  BY <1>9, <1>10, <1>11, <1>13, <1>14 DEF Consistent
<1>16. \A k \in DOMAIN R : k[1] \in Kept => k \in DOMAIN R2 /\ R2[k] = R[k]
  BY <1>1, <1>7 DEF Kept, Published
<1>17. ASSUME NEW t \in Sessions PROVE Grown(sess[t], draft[t], R, R2)
  <2>1. \A k \in Of(R, "rule") : NotBefore(R2[k].approved, R[k].approved)
    BY <1>2, <1>3, <1>12 DEF Stamps, StampOk, NotBefore
  <2>2. \A k \in DOMAIN R2 : k \in DOMAIN draft[t] => k \in DOMAIN R /\ R2[k] = R[k]
    BY <1>1, <1>5
  <2> QED  BY <1>1, <1>12, <1>16, <2>1, <2>2 DEF Grown
<1>18. RecordsStandStep
  BY <1>16, NothingRewritten DEF R, R2
<1> QED  BY <1>13, <1>15, <1>17, <1>18 DEF R, R2

\* A new row, stored at once.
LEMMA RecordKeeps ==
  ASSUME IInv, NEW s \in Sessions, NEW tag \in {"multiple", "review"}, NEW row,
         NEW key, key = <<tag, Fresh(tag)>>, Store(s, [k \in {key} |-> row]),
         UNCHANGED sess, SoundRow(key, row, db), AdviceAssumption
  PROVE  Keeps
<1> DEFINE rows == [k \in {key} |-> row]
<1>1. DOMAIN rows = {key} /\ rows[key] = row /\ Store(s, rows) /\ key[1] = tag
  OBVIOUS
<1> HIDE DEF rows
<1>2. key \notin DOMAIN db /\ \A t \in Sessions : key \notin DOMAIN draft[t]
  BY FreshKey DEF Numbered
<1>3. Storable(rows)
  <2>1. \A T : Of(rows, T) = {} \/ Of(rows, T) = {key}
    BY <1>1 DEF Of
  <2>2. Of(rows, "result") = {}
    BY <1>1 DEF Of
  <2>3. IsFiniteSet({}) /\ IsFiniteSet({key})
    BY FS_EmptySet, FS_Singleton
  <2> QED  BY <1>1, <1>2, <2>1, <2>2, <2>3 DEF Storable
<1>4. /\ Consistent(db') /\ Stamps(db', started') /\ RecordsStandStep
      /\ \A t \in Sessions : Grown(sess[t], draft[t], db, db')
  BY <1>1, <1>3, StoreStep
<1>5. /\ draft' = draft /\ sess' = sess /\ started' = started + 1 /\ started \in Nat
      /\ draft' = [t \in Sessions |-> draft'[t]] /\ sess' = [t \in Sessions |-> sess'[t]]
  BY <1>1 DEF Store, IInv
<1>6. /\ DOMAIN db' = DOMAIN db \cup {key}
      /\ \A k \in DOMAIN db' : k = key \/ db'[k] = db[k]
  BY <1>1 DEF Store
<1>7. \A k \in Of(db, "result") : db'[k] = db[k]
  BY <1>2, <1>6 DEF Of
<1>8. ASSUME NEW t \in Sessions PROVE GoesOn(t)
  <2>1. Ok(sess[t], draft[t], View(t), db, started) /\ Overlay(draft[t], View(t), db)
    BY ViewIs DEF IInv
  <2>2. Overlay(draft[t], View(t)', db')
    BY <1>5 DEF Overlay, View
  <2>3. Stamps(db, started) /\ NONE \notin Nat
    BY DEF IInv, Stamps, AdviceAssumption
  <2>4. started' \in Nat /\ started <= started'
    BY <1>5
  <2>5. Ok(sess[t], draft[t], View(t)', db', started')
    BY <1>4, <1>5, <1>7, <2>1, <2>2, <2>3, <2>4, OkStands
  <2> QED  BY <1>4, <1>5, <2>5 DEF GoesOn, Carries
<1>9. started' \in Nat /\ started <= started'
  BY <1>5
<1>10. IInv'
  BY <1>4, <1>5, <1>8, <1>9, CommittedStep
<1> QED  BY <1>4, <1>10 DEF Keeps

\* No other command has this field.
LEMMA OthersTouch ==
  ASSUME NEW r, NEW D, NEW V, NEW R, NEW n, Ok(r, D, V, R, n), ~EstimateOk(r, D, V, R)
  PROVE  "untouched" \notin DOMAIN r
<1>1. \/ r = Idle
      \/ DOMAIN r \in {BandFields, ValueFields, ThesisFields, WatchFields, AdviceFields, RuleFields}
  BY DEF Ok, BandOk, ValueOk, ThesisOk, WatchOk, AdviceOk, RuleOk, Shape
<1>2. CASE r = Idle
  BY <1>2 DEF Idle
<1>3. "untouched" \notin BandFields \cup ValueFields \cup ThesisFields
  BY DEF BandFields, ValueFields, ThesisFields
<1>4. "untouched" \notin WatchFields \cup AdviceFields \cup RuleFields
  BY DEF WatchFields, AdviceFields, RuleFields
<1> QED  BY <1>1, <1>2, <1>3, <1>4

LEMMA PublishKeeps ==
  ASSUME IInv, NEW s \in Sessions, Publish(s), ForecastsAssumption, AdviceAssumption
  PROVE  Keeps
<1>1. PICK rows \in Publications :
        /\ Store(s, rows)
        /\ sess' = [t \in Sessions |->
              IF "untouched" \in DOMAIN sess[t]
              THEN [sess[t] EXCEPT !.untouched =
                      @ \ {k \in DOMAIN rows : k \in DOMAIN db => db[k] # rows[k]}]
              ELSE sess[t]]
  BY DEF Publish
<1> DEFINE changed == {k \in DOMAIN rows : k \in DOMAIN db => db[k] # rows[k]}
<1>2. Storable(rows)
  <2>1. \A k \in DOMAIN rows : k[1] \in Published /\ (k[1] = "result" => rows[k].available \in Nat)
    BY DEF ForecastsAssumption, Published
  <2>2. \A tag \in Numbered : Of(rows, tag) = {}
    BY <2>1 DEF Numbered, Published, Of
  <2> QED  BY <2>1, <2>2, FS_EmptySet DEF Storable, Of
<1>3. /\ Consistent(db') /\ Stamps(db', started') /\ RecordsStandStep
      /\ \A t \in Sessions : Grown(sess[t], draft[t], db, db')
  BY <1>1, <1>2, StoreStep
<1>4. /\ draft' = draft /\ started' = started + 1 /\ started \in Nat
      /\ draft' = [t \in Sessions |-> draft'[t]] /\ sess' = [t \in Sessions |-> sess'[t]]
  BY <1>1 DEF Store, IInv
<1>5. started' \in Nat /\ started <= started'
  BY <1>4
<1>6. \A k \in DOMAIN db : k \notin changed => db'[k] = db[k]
  BY <1>1 DEF Store
<1>7. ASSUME NEW t \in Sessions PROVE GoesOn(t)
  <2> DEFINE r == sess[t]
             D == draft[t]
             V == View(t)
             V2 == View(t)'
             q == [r EXCEPT !.untouched = @ \ changed]
  <2>1. Ok(r, D, V, db, started) /\ Overlay(D, V, db) /\ Stamps(db, started) /\ NONE \notin Nat
    BY ViewIs DEF IInv, Stamps, AdviceAssumption
  <2>2. Overlay(D, V2, db')
    BY <1>4 DEF Overlay, View
  <2>3. Stands(V, V2) /\ DOMAIN db \subseteq DOMAIN db'
    <3>1. Stands(db, db') /\ DOMAIN db \subseteq DOMAIN db'
      BY <1>3 DEF Grown, Stands, Kept
    <3> QED  BY <2>1, <2>2, <3>1, ViewsStand
  <2>4. sess'[t] = IF "untouched" \in DOMAIN r THEN q ELSE r
    BY <1>1
  <2> HIDE DEF changed, D, V, V2
  <2>5. CASE EstimateOk(r, D, V, db)
    <3>1. Shape(r, EstimateFields) /\ r.kind \in {"estimate", "backtest"}
      BY <2>5 DEF EstimateOk, EstimateSteps
    <3>2. sess'[t] = q
      BY <2>4, <3>1 DEF Shape, EstimateFields
    <3>3. /\ Shape(q, EstimateFields) /\ q.untouched = r.untouched \ changed
          /\ q.pc = r.pc /\ q.want = r.want /\ q.kind = r.kind /\ q.period = r.period
          /\ q.cutoff = r.cutoff /\ q.points = r.points /\ q.fingerprint = r.fingerprint
          /\ q.features = r.features
      <4> HIDE DEF r
      <4> QED  BY <3>1 DEF Shape, EstimateFields
    <3> HIDE DEF q, r
    <3>4. Alike(q, r)
      BY <3>3 DEF Alike
    <3>5. \A k \in q.untouched : k \in Of(db, "result") => db'[k].available = db[k].available
      BY <1>6, <3>3 DEF Of
    <3>6. EstimateOk(q, D, V2, db')
      BY <2>3, <2>5, <3>4, <3>5, EstimateStands
    <3>7. Carries(r, q)
      BY <3>1, <3>3, NoCandidates
    <3> QED  BY <1>3, <1>4, <3>2, <3>6, <3>7 DEF GoesOn, Ok, r, D, V2
  <2>6. CASE ~EstimateOk(r, D, V, db)
    <3>1. "untouched" \notin DOMAIN r
      BY <2>1, <2>6, OthersTouch
    <3>2. sess'[t] = r
      BY <2>4, <3>1
    <3> HIDE DEF q, r
    <3>3. Ok(r, D, V2, db', started')
      BY <1>3, <1>4, <1>5, <2>1, <2>2, <2>6, OthersStand DEF r, D
    <3> QED  BY <1>3, <1>4, <3>2, <3>3 DEF GoesOn, Carries, r, D, V2
  <2> QED  BY <2>5, <2>6
<1>8. IInv'
  BY <1>3, <1>4, <1>5, <1>7, CommittedStep
<1> QED  BY <1>3, <1>8 DEF Keeps

LEMMA RecordMultipleKeeps ==
  ASSUME IInv, NEW s \in Sessions, RecordMultiple(s), ForecastsAssumption, AdviceAssumption
  PROVE  Keeps
<1> DEFINE key == Multiple(Fresh("multiple"))
<1>1. PICK t \in Moments :
        Store(s, [k \in {key} |-> MultipleRow(t, 1, 1, 2, {})]) /\ UNCHANGED sess
  BY DEF RecordMultiple
<1>2. key = <<"multiple", Fresh("multiple")>> /\ key[1] = "multiple"
  BY DEF Multiple
<1> HIDE DEF key
<1>3. SoundRow(key, MultipleRow(t, 1, 1, 2, {}), db)
  <2>1. t \in Nat
    BY DEF ForecastsAssumption
  <2> QED  BY <1>2, <2>1 DEF SoundRow, TimelyRow, FoundedRow, MultipleRow
<1> QED  BY <1>1, <1>2, <1>3, RecordKeeps

LEMMA RecordReviewKeeps ==
  ASSUME IInv, NEW s \in Sessions, RecordReview(s), AdviceAssumption
  PROVE  Keeps
<1> DEFINE key == Review(Fresh("review"))
<1>1. PICK row : Store(s, [k \in {key} |-> row]) /\ UNCHANGED sess
  BY DEF RecordReview
<1>2. key = <<"review", Fresh("review")>> /\ key[1] = "review"
  BY DEF Review
<1> HIDE DEF key
<1>3. SoundRow(key, row, db)
  BY <1>2, OtherRow
<1> QED  BY <1>1, <1>2, <1>3, RecordKeeps

-----------------------------------------------------------------------------
(* The commands that begin.                                                *)

\* A command that watches over no approval.
LEMMA StartKeeps ==
  ASSUME IInv, NEW s \in Sessions, NEW state, Start(s, state), AdviceAssumption,
         DOMAIN draft[s] = {} => Ok(state, draft[s], View(s), db, started'),
         state.kind # "candidates"
  PROVE  Keeps
<1>1. DOMAIN draft[s] = {}
  BY IdleIsEmpty DEF Start
<1>2. \A t \in Sessions : Answers(state, draft[t], db)
  BY DEF Answers, Replaces
<1> QED  BY <1>1, <1>2, QuietKeeps

LEMMA BeginEstimateKeeps ==
  ASSUME IInv, NEW s \in Sessions, BeginEstimate(s), AdviceAssumption
  PROVE  Keeps
<1> DEFINE q(period, t) == [EstimateCommand EXCEPT !.period = period, !.cutoff = t]
<1>1. PICK period, t : Start(s, q(period, t))
  BY DEF BeginEstimate
<1> DEFINE r == q(period, t)
<1>2. /\ Shape(r, EstimateFields) /\ r.kind = "estimate" /\ r.pc = "results" /\ r.want = NONE
      /\ r.untouched = {}
  BY DEF EstimateCommand, Shape, EstimateFields
<1>3. Start(s, r)
  BY <1>1
<1> HIDE DEF r
<1>4. DOMAIN draft[s] = {} => Ok(r, draft[s], View(s), db, started')
  BY <1>2 DEF Ok, EstimateOk, EstimateSteps, Blind, Drafts
<1> QED  BY <1>2, <1>3, <1>4, StartKeeps

LEMMA BeginBacktestKeeps ==
  ASSUME IInv, NEW s \in Sessions, BeginBacktest(s), AdviceAssumption
  PROVE  Keeps
<1> DEFINE r == [EstimateCommand EXCEPT !.kind = "backtest", !.pc = "list",
                    !.untouched = Of(db, "result")]
<1>1. /\ Shape(r, EstimateFields) /\ r.kind = "backtest" /\ r.pc = "list" /\ r.want = NONE
      /\ r.untouched = Of(db, "result")
  BY DEF EstimateCommand, Shape, EstimateFields
<1>2. Start(s, r)
  BY DEF BeginBacktest
<1> HIDE DEF r
<1>3. DOMAIN draft[s] = {} => Ok(r, draft[s], View(s), db, started')
  BY <1>1 DEF Ok, EstimateOk, EstimateSteps, Drafts
<1> QED  BY <1>1, <1>2, <1>3, StartKeeps

LEMMA BeginBandKeeps ==
  ASSUME IInv, NEW s \in Sessions, BeginBand(s), ForecastsAssumption, AdviceAssumption
  PROVE  Keeps
<1> DEFINE q(t) == [BandCommand EXCEPT !.as_of = t]
<1>1. PICK t \in Moments : Start(s, q(t))
  BY DEF BeginBand
<1>2. /\ Shape(q(t), BandFields) /\ q(t).kind = "band" /\ q(t).pc = "closes"
      /\ q(t).want = NONE /\ q(t).as_of = t
  BY DEF BandCommand, Shape, BandFields
<1> HIDE DEF q
<1>3. t \in Nat
  BY DEF ForecastsAssumption
<1>4. DOMAIN draft[s] = {} => Ok(q(t), draft[s], View(s), db, started')
  BY <1>2, <1>3 DEF Ok, BandOk, Drafts
<1> QED  BY <1>1, <1>2, <1>4, StartKeeps

LEMMA BeginValuationKeeps ==
  ASSUME IInv, NEW s \in Sessions, BeginValuation(s), ForecastsAssumption, AdviceAssumption
  PROVE  Keeps
<1> DEFINE q(t) == [ValueCommand EXCEPT !.as_of = t]
<1>1. PICK t \in Moments : Start(s, q(t))
  BY DEF BeginValuation
<1>2. /\ Shape(q(t), ValueFields) /\ q(t).kind = "value" /\ q(t).pc = "financial"
      /\ q(t).want = NONE /\ q(t).as_of = t
  BY DEF ValueCommand, Shape, ValueFields
<1> HIDE DEF q
<1>3. t \in Nat
  BY DEF ForecastsAssumption
<1>4. DOMAIN draft[s] = {} => Ok(q(t), draft[s], View(s), db, started')
  BY <1>2, <1>3 DEF Ok, ValueOk, Drafts
<1> QED  BY <1>1, <1>2, <1>4, StartKeeps

LEMMA BeginThesisKeeps ==
  ASSUME IInv, NEW s \in Sessions, BeginThesis(s), AdviceAssumption
  PROVE  Keeps
<1> DEFINE q(status, t, evidence) ==
      [ThesisCommand EXCEPT !.symbol = Subject, !.status = status, !.as_of = t,
                            !.evidence = evidence]
           p(pc, status) ==
      [ThesisCommand EXCEPT !.pc = pc, !.symbol = Subject, !.status = status]
           Begins(r) == /\ Shape(r, ThesisFields) /\ r.kind = "thesis" /\ r.want = NONE
                        /\ r.pc \in {"evidence", "post", "patch"}
<1>1. ASSUME NEW status, NEW t, NEW evidence PROVE Begins(q(status, t, evidence))
  BY DEF ThesisCommand, Shape, ThesisFields
<1>2. ASSUME NEW pc \in {"post", "patch"}, NEW status PROVE Begins(p(pc, status))
  BY DEF ThesisCommand, Shape, ThesisFields
<1>3. \/ \E status, t, evidence : Start(s, q(status, t, evidence))
      \/ \E status : Start(s, p("post", status)) \/ Start(s, p("patch", status))
  BY DEF BeginThesis
<1> HIDE DEF q, p
<1>4. PICK r : Start(s, r) /\ Begins(r)
  BY <1>1, <1>2, <1>3
<1>5. DOMAIN draft[s] = {} => Ok(r, draft[s], View(s), db, started')
  BY <1>4 DEF Ok, ThesisOk, Drafts
<1> QED  BY <1>4, <1>5, StartKeeps

LEMMA BeginWatchKeeps ==
  ASSUME IInv, NEW s \in Sessions, BeginWatch(s), AdviceAssumption
  PROVE  Keeps
<1> DEFINE q(active) == [WatchCommand EXCEPT !.active = active]
<1>1. PICK active : Start(s, q(active))
  BY DEF BeginWatch
<1>2. /\ Shape(q(active), WatchFields) /\ q(active).kind = "watch" /\ q(active).pc = "watch"
      /\ q(active).want = NONE
  BY DEF WatchCommand, Shape, WatchFields
<1> HIDE DEF q
<1>3. DOMAIN draft[s] = {} => Ok(q(active), draft[s], View(s), db, started')
  BY <1>2 DEF Ok, WatchOk, Drafts
<1> QED  BY <1>1, <1>2, <1>3, StartKeeps

LEMMA BeginAdviceKeeps ==
  ASSUME IInv, NEW s \in Sessions, BeginAdvice(s), ForecastsAssumption, AdviceAssumption
  PROVE  Keeps
<1> DEFINE q(t, P, names) ==
      [AdviceCommand EXCEPT !.as_of = t, !.held = P, !.named = names,
                            !.superseded = Superseded(db)]
<1>1. PICK t, P, names : t \in Moments /\ Start(s, q(t, P, names))
  BY DEF BeginAdvice
<1> DEFINE r == q(t, P, names)
<1>2. /\ Shape(r, AdviceFields) /\ r.kind = "advice" /\ r.pc = "universe" /\ r.want = NONE
      /\ r.as_of = t /\ r.superseded = Superseded(db)
  BY DEF AdviceCommand, Shape, AdviceFields
<1>3. Start(s, r)
  BY <1>1
<1> HIDE DEF r
<1>4. t \in Nat
  BY <1>1 DEF ForecastsAssumption
<1>5. DOMAIN draft[s] = {} => Ok(r, draft[s], View(s), db, started')
  BY <1>2, <1>4 DEF Ok, AdviceOk
<1> QED  BY <1>2, <1>3, <1>5, StartKeeps

LEMMA BeginCandidatesKeeps ==
  ASSUME IInv, NEW s \in Sessions, BeginCandidates(s), AdviceAssumption
  PROVE  Keeps
<1> DEFINE q(run) ==
      [CandidateCommand EXCEPT !.run = run, !.begun = [k \in Of(db, "rule") |-> db[k]]]
<1>1. PICK run : Start(s, q(run))
  BY DEF BeginCandidates
<1> DEFINE r == q(run)
<1>2. /\ Shape(r, RuleFields) /\ r.kind = "candidates" /\ r.pc = "rule" /\ r.want = NONE
      /\ r.loaded = {} /\ r.n = 1 /\ r.begun = [k \in Of(db, "rule") |-> db[k]]
  BY DEF CandidateCommand, Shape, RuleFields
<1>3. Start(s, r) /\ DOMAIN draft[s] = {}
  BY <1>1, IdleIsEmpty DEF Start
<1> HIDE DEF r
<1>4. started \in Nat /\ started' = started + 1 /\ NONE \notin Nat
  BY <1>3 DEF Start, IInv, AdviceAssumption
<1>5. DOMAIN r.begun = Of(db, "rule") /\ \A k \in DOMAIN r.begun : r.begun[k] = db[k]
  BY <1>2
<1>6. ASSUME NEW k \in Approvals(r)
      PROVE  /\ r.begun[k].approved \in Nat /\ r.begun[k].approved < started'
             /\ ~NoLonger(db[k], r.begun[k].approved)
  <2>1. k \in Of(db, "rule") /\ r.begun[k] = db[k] /\ db[k].status = "APPROVED"
    BY <1>5 DEF Approvals
  <2>2. StampOk(db[k], started)
    BY <2>1 DEF IInv
  <2> QED  BY <1>4, <2>1, <2>2 DEF StampOk, NoLonger
<1>7. RuleOk(r, draft[s], View(s), db, started')
  <2>1. RuleWant(r)
    BY <1>2 DEF RuleWant
  <2>2. Of(draft[s], "rule") = {} /\ Drafts(draft[s], {"rule", "proposal"})
    BY <1>3 DEF Of, Drafts
  <2>3. \A k : ~Overwrites(r, draft[s], k)
    BY <1>2, <1>3 DEF Overwrites
  <2> QED  BY <1>2, <1>5, <1>6, <2>1, <2>2, <2>3 DEF RuleOk
<1>8. \A t \in Sessions : Answers(r, draft[t], db)
  BY <1>6 DEF Answers, Replaces
<1> QED  BY <1>3, <1>7, <1>8, QuietKeeps DEF Ok

LEMMA BeginRuleReviewKeeps ==
  ASSUME IInv, NEW s \in Sessions, BeginRuleReview(s), AdviceAssumption
  PROVE  Keeps
<1> DEFINE q(k, verdict) ==
      [CandidateCommand EXCEPT !.kind = "review", !.pc = "review", !.verdict = verdict,
                               !.begun = [j \in {k} |-> db[k]]]
<1>1. PICK k, verdict : k \in Of(db, "rule") /\ Start(s, q(k, verdict))
  BY DEF BeginRuleReview
<1> DEFINE r == q(k, verdict)
<1>2. /\ Shape(r, RuleFields) /\ r.kind = "review" /\ r.pc = "review" /\ r.want = NONE
      /\ r.loaded = {} /\ r.n = 1 /\ r.begun = [j \in {k} |-> db[k]]
  BY DEF CandidateCommand, Shape, RuleFields
<1>3. Start(s, r)
  BY <1>1
<1> HIDE DEF r
<1>4. DOMAIN r.begun = {k}
  BY <1>2
<1>5. ASSUME DOMAIN draft[s] = {} PROVE Ok(r, draft[s], View(s), db, started')
  <2>1. RuleWant(r)
    BY <1>2 DEF RuleWant
  <2>2. Of(draft[s], "rule") = {} /\ Drafts(draft[s], {"rule", "proposal"})
    BY <1>5 DEF Of, Drafts
  <2>3. RuleOk(r, draft[s], View(s), db, started')
    BY <1>1, <1>2, <1>4, <2>1, <2>2 DEF RuleOk
  <2> QED  BY <2>3 DEF Ok
<1> QED  BY <1>2, <1>3, <1>5, StartKeeps

-----------------------------------------------------------------------------
(* The steps of an estimate and of a backtest.                             *)

\* Where the commands may be.
LEMMA StepsOf ==
  ASSUME NEW r, NEW D, NEW V, NEW R, NEW n
  PROVE  /\ r = Idle => r.pc = "idle"
         /\ EstimateOk(r, D, V, R) =>
               /\ r.kind \in {"estimate", "backtest"}
               /\ r.pc \in {"results", "signals", "features", "estimate", "list", "earliest", "score",
                           "commit"}
         /\ BandOk(r, D) => r.kind = "band" /\ r.pc \in {"closes", "band", "commit"}
         /\ ValueOk(r, D, V) =>
               r.kind = "value" /\ r.pc \in {"financial", "ttm", "multiple", "price", "commit"}
         /\ ThesisOk(r, D) =>
               r.kind = "thesis" /\ r.pc \in {"evidence", "head", "post", "patch", "commit"}
         /\ WatchOk(r, D) => r.kind = "watch" /\ r.pc \in {"watch", "commit"}
         /\ AdviceOk(r, D, V, R) =>
               /\ r.kind = "advice"
               /\ r.pc \in {"universe", "symbol", "valuation", "newest estimate", "decide"}
         /\ RuleOk(r, D, V, R, n) =>
               /\ r.kind \in {"candidates", "review"}
               /\ r.pc \in {"rule", "proposal", "review", "commit"}
<1>1. r = Idle => r.pc = "idle"
  BY DEF Idle
<1>2. EstimateOk(r, D, V, R) =>
        /\ r.kind \in {"estimate", "backtest"}
        /\ r.pc \in {"results", "signals", "features", "estimate", "list", "earliest", "score",
                    "commit"}
  BY DEF EstimateOk, EstimateSteps
<1>3. RuleOk(r, D, V, R, n) =>
        r.kind \in {"candidates", "review"} /\ r.pc \in {"rule", "proposal", "review", "commit"}
  BY DEF RuleOk, RuleWant
<1>4. AdviceOk(r, D, V, R) =>
        /\ r.kind = "advice"
        /\ r.pc \in {"universe", "symbol", "valuation", "newest estimate", "decide"}
  BY DEF AdviceOk
<1> QED  BY <1>1, <1>2, <1>3, <1>4 DEF BandOk, ValueOk, ThesisOk, WatchOk

LEMMA EstimateIs ==
  ASSUME IInv, NEW s \in Sessions,
         sess[s].pc \in {"list", "earliest", "results", "signals", "features", "estimate", "score"}
  PROVE  EstimateOk(sess[s], draft[s], View(s), db)
<1>1. Ok(sess[s], draft[s], View(s), db, started)
  BY DEF IInv
<1> QED  BY <1>1, StepsOf DEF Ok

\* No command of this kind watches over approvals.
LEMMA EstimateLocal ==
  ASSUME IInv, NEW s \in Sessions, NEW q, Local(s, q), AdviceAssumption,
         EstimateOk(q, draft[s], View(s), db)
  PROVE  Keeps
<1>1. q.kind # "candidates"
  BY DEF EstimateOk, EstimateSteps
<1> QED  BY <1>1, NoCandidates, LocalKeeps DEF Ok

LEMMA ReadResultsKeeps ==
  ASSUME IInv, NEW s \in Sessions, ReadResults(s), AdviceAssumption
  PROVE  Keeps
<1> DEFINE r == sess[s]
           D == draft[s]
           V == View(s)
           known == {k \in list_by_company_as_of(s, r.cutoff) : k[2] < r.period}
           verified == {k \in known : Loaded(s, k).verified}
           print == {<<k, Loaded(s, k)>> : k \in known}
           after(P) == [r EXCEPT !.pc = "signals", !.points = Read(s, P), !.fingerprint = print]
<1>0. r.pc = "results" /\ EstimateOk(r, D, V, db)
  BY EstimateIs DEF ReadResults, At
<1>1. PICK P \in OneOfEach(Preferred(verified)) : Local(s, after(P))
  BY DEF ReadResults
<1> DEFINE points == Read(s, P)
           q == after(P)
<1>2. \A u \in points : u.result[2] < r.period /\ u.available <= r.cutoff
  <2>1. \A k \in Preferred(verified) : k[2] < r.period /\ k \in Available(s, r.cutoff)
    BY DEF Preferred, list_by_company_as_of, Latest
  <2>2. \A k \in P : k \in Preferred(verified)
    BY DEF OneOfEach
  <2>3. \A k \in P : k[2] < r.period /\ V[k].available <= r.cutoff
    BY <2>1, <2>2 DEF Available
  <2> HIDE DEF verified
  <2> QED  BY <2>3 DEF Read
<1>3. Cites(points) = P
  <2>1. \A u \in Read(s, P) : u.result \in P
    BY DEF Read
  <2>2. ASSUME NEW k \in P PROVE \E u \in Read(s, P) : u.result = k
    <3>1. [result |-> k, available |-> V[k].available] \in Read(s, P)
      BY DEF Read
    <3> QED  BY <3>1
  <2> QED  BY <2>1, <2>2 DEF Cites
<1>4. Cited(print) = OneOfEach(Preferred(verified))
  <2>1. {x[1] : x \in {y \in print : y[2].verified}} = verified
    <3> HIDE DEF known
    <3>1. ASSUME NEW y \in print, y[2].verified PROVE y[1] \in verified
      BY <3>1
    <3>2. ASSUME NEW k \in verified
          PROVE  <<k, Loaded(s, k)>> \in print /\ <<k, Loaded(s, k)>>[2].verified
      OBVIOUS
    <3> HIDE DEF verified, print
    <3>3. \A k \in verified : \E y \in print : y[2].verified /\ y[1] = k
      BY <3>2
    <3> QED  BY <3>1, <3>3
  <2> HIDE DEF verified, print
  <2> QED  BY <2>1 DEF Cited
<1>5. q = [r EXCEPT !.pc = "signals", !.points = points, !.fingerprint = print] /\ Local(s, q)
  BY <1>1
<1> HIDE DEF r, D, V, known, verified, points, print, q, after
<1>6. Shape(r, EstimateFields)
  BY <1>0 DEF EstimateOk
<1>7. /\ Shape(q, EstimateFields) /\ q.pc = "signals" /\ q.want = r.want /\ q.kind = r.kind
      /\ q.untouched = r.untouched /\ q.period = r.period /\ q.cutoff = r.cutoff
      /\ q.points = points /\ q.fingerprint = print
  BY <1>5, <1>6 DEF Shape, EstimateFields
<1>8. Chosen(q)
  BY <1>2, <1>3, <1>4, <1>7 DEF Chosen
<1>9. EstimateOk(q, D, V, db)
  BY <1>0, <1>7, <1>8 DEF EstimateOk, EstimateSteps, Blind
<1> QED  BY <1>5, <1>9, EstimateLocal DEF D, V

LEMMA ReadSignalsKeeps ==
  ASSUME IInv, NEW s \in Sessions, ReadSignals(s), AdviceAssumption
  PROVE  Keeps
<1> DEFINE r == sess[s]
           D == draft[s]
           V == View(s)
           risks == {k \in Of(V, "risk") : V[k].active /\ V[k].created <= r.cutoff}
           q == [r EXCEPT !.pc = "features", !.risks = risks]
<1>0. r.pc = "signals" /\ EstimateOk(r, D, V, db) /\ Local(s, q)
  BY EstimateIs DEF ReadSignals, At
<1> HIDE DEF r, D, V, risks
<1>1. Shape(r, EstimateFields)
  BY <1>0 DEF EstimateOk
<1>2. /\ Shape(q, EstimateFields) /\ q.pc = "features" /\ q.want = r.want /\ q.kind = r.kind
      /\ q.untouched = r.untouched /\ q.period = r.period /\ q.cutoff = r.cutoff
      /\ q.points = r.points /\ q.fingerprint = r.fingerprint
  BY <1>1 DEF Shape, EstimateFields
<1> HIDE DEF q
<1>3. EstimateOk(q, D, V, db)
  BY <1>0, <1>2 DEF EstimateOk, EstimateSteps, Blind, Chosen
<1> QED  BY <1>0, <1>3, EstimateLocal DEF D, V

\* A snapshot that is found, or that another stores, is one of this fingerprint.
LEMMA UseFeaturesKeeps ==
  ASSUME IInv, NEW s \in Sessions, UseFeatures(s), AdviceAssumption
  PROVE  Keeps
<1> DEFINE r == sess[s]
           D == draft[s]
           V == View(s)
           key == Features(r.period, r.cutoff, r.fingerprint)
           row == [points |-> r.points, risks |-> r.risks]
           found == [r EXCEPT !.pc = "estimate", !.features = key]
           wants == [r EXCEPT !.want = key]
           q == [found EXCEPT !.want = NONE]
<1>0. /\ r.pc = "features" /\ EstimateOk(r, D, V, db) /\ Chosen(r)
      /\ \/ /\ r.want = NONE
            /\ \/ Local(s, wants)
               \/ key \in DOMAIN V /\ Local(s, found)
         \/ FlushNew(s, row, found)
  BY EstimateIs DEF UseFeatures, At, get_matching, Of, EstimateOk
<1>1. row.points = r.points /\ key[1] = "features" /\ key[2] = r.period /\ key[3] = r.cutoff
      /\ key[4] = r.fingerprint
  BY DEF Features
<1> HIDE DEF r, D, V, key, row
<1>2. Shape(r, EstimateFields)
  BY <1>0 DEF EstimateOk
<1>3. /\ Shape(found, EstimateFields) /\ found.pc = "estimate" /\ found.want = r.want
      /\ found.kind = r.kind /\ found.untouched = r.untouched /\ found.period = r.period
      /\ found.cutoff = r.cutoff /\ found.points = r.points /\ found.fingerprint = r.fingerprint
      /\ found.features = key
  BY <1>2 DEF Shape, EstimateFields
<1>4. /\ Shape(wants, EstimateFields) /\ wants.pc = r.pc /\ wants.want = key
      /\ wants.kind = r.kind /\ wants.untouched = r.untouched /\ wants.period = r.period
      /\ wants.cutoff = r.cutoff /\ wants.points = r.points /\ wants.fingerprint = r.fingerprint
  BY <1>2 DEF Shape, EstimateFields
<1> HIDE DEF found, wants
<1>5. /\ Shape(q, EstimateFields) /\ q.pc = "estimate" /\ q.want = NONE
      /\ q.kind = r.kind /\ q.untouched = r.untouched /\ q.period = r.period
      /\ q.cutoff = r.cutoff /\ q.points = r.points /\ q.fingerprint = r.fingerprint
      /\ q.features = key
  BY <1>3 DEF Shape, EstimateFields
<1>6. CASE Local(s, wants)
  <2>1. EstimateOk(wants, D, V, db)
    BY <1>0, <1>4 DEF EstimateOk, EstimateSteps, Blind, Chosen, key
  <2> QED  BY <1>6, <2>1, EstimateLocal DEF D, V
<1>7. CASE r.want = NONE /\ key \in DOMAIN V /\ Local(s, found)
  <2>1. Snapped(found, V)
    BY <1>0, <1>3, <1>7 DEF Snapped, Chosen, key
  <2>2. EstimateOk(found, D, V, db)
    BY <1>0, <1>3, <1>7, <2>1 DEF EstimateOk, EstimateSteps, Blind
  <2> QED  BY <1>7, <2>2, EstimateLocal DEF D, V
<1>8. CASE FlushNew(s, row, found)
  <2> SUFFICES ASSUME r.want # NONE, r.want \notin DOMAIN V PROVE
                  /\ SoundRow(r.want, row, V) /\ RestoresNone(r.want, row) /\ Carries(r, q)
                  /\ Ok(q, AddRow(D, r.want, row), AddRow(V, r.want, row), db, started)
    <3>1. r.want = NONE \/ r.want = key
      BY <1>0 DEF EstimateOk, key
    <3>2. CASE r.want = NONE
      BY <1>8, <3>2 DEF FlushNew, r
    <3>3. CASE r.want = key
      <4>1. key[1] \notin Published
        BY <1>1 DEF Published
      <4> QED  BY <1>8, <3>3, <4>1, FlushKeeps DEF r, D, V, q
    <3> QED  BY <3>1, <3>2, <3>3
  <2> DEFINE D2 == AddRow(D, r.want, row)
             V2 == AddRow(V, r.want, row)
  <2>1. r.want = key
    BY <1>0 DEF EstimateOk, key
  <2>2. SoundRow(key, row, V)
    BY <1>0, <1>1 DEF SoundRow, TimelyRow, FoundedRow, Chosen
  <2>3. RestoresNone(key, row) /\ Carries(r, q)
    BY <1>0, <1>1, <1>5, OtherRestoresNone, NoCandidates DEF EstimateOk, EstimateSteps
  <2>4. DOMAIN D2 = DOMAIN D \cup {key} /\ key \in DOMAIN V2
    BY <2>1 DEF AddRow
  <2> HIDE DEF D2, V2, q
  <2>5. Snapped(q, V2)
    BY <1>0, <1>5, <2>4 DEF Snapped, Chosen, key
  <2>6. EstimateOk(q, D2, V2, db)
    BY <1>0, <1>1, <1>5, <2>4, <2>5 DEF EstimateOk, EstimateSteps, Blind, Drafts
  <2> QED  BY <2>1, <2>2, <2>3, <2>6 DEF Ok, D2, V2
<1> QED  BY <1>0, <1>6, <1>7, <1>8

LEMMA WriteEstimateKeeps ==
  ASSUME IInv, NEW s \in Sessions, WriteEstimate(s), AdviceAssumption
  PROVE  Keeps
<1> DEFINE r == sess[s]
           D == draft[s]
           V == View(s)
           key == Estimate(Fresh("estimate"))
           row == [period |-> r.period, cutoff |-> r.cutoff, features |-> r.features]
           q == [r EXCEPT !.pc = IF r.kind = "estimate" THEN "commit" ELSE "score",
                          !.estimate = key]
           D2 == AddRow(D, key, row)
           V2 == AddRow(V, key, row)
<1>0. /\ r.pc = "estimate" /\ EstimateOk(r, D, V, db) /\ Snapped(r, V)
      /\ InsertRow(s, key, row, q)
  BY EstimateIs DEF WriteEstimate, At, EstimateOk
<1>1. /\ row.period = r.period /\ row.cutoff = r.cutoff /\ row.features = r.features
      /\ key = <<"estimate", Fresh("estimate")>> /\ key[1] = "estimate"
  BY DEF Estimate
<1>2. DOMAIN D2 = DOMAIN D \cup {key} /\ DOMAIN V2 = DOMAIN V \cup {key}
  BY DEF AddRow
<1> HIDE DEF r, D, V, key, row, D2, V2
<1>3. Shape(r, EstimateFields)
  BY <1>0 DEF EstimateOk
<1>4. /\ Shape(q, EstimateFields) /\ q.pc = (IF r.kind = "estimate" THEN "commit" ELSE "score")
      /\ q.want = r.want /\ q.kind = r.kind /\ q.untouched = r.untouched
      /\ q.period = r.period /\ q.cutoff = r.cutoff /\ q.points = r.points
      /\ q.fingerprint = r.fingerprint /\ q.features = r.features
  BY <1>3 DEF Shape, EstimateFields
<1> HIDE DEF q
<1>5. SoundRow(key, row, V)
  BY <1>0, <1>1 DEF SoundRow, TimelyRow, FoundedRow, Snapped, Features, Of
<1>6. Snapped(q, V2)
  BY <1>0, <1>2, <1>4 DEF Snapped, Chosen
<1>7. EstimateOk(q, D2, V2, db)
  BY <1>0, <1>1, <1>2, <1>4, <1>6 DEF EstimateOk, EstimateSteps, Blind, Drafts
<1>8. Carries(r, q)
  BY <1>7, NoCandidates DEF EstimateOk, EstimateSteps
<1> QED  BY <1>0, <1>1, <1>5, <1>7, <1>8, NumberedKeeps DEF r, D, V, D2, V2, Ok, Numbered

LEMMA ListActualsKeeps ==
  ASSUME IInv, NEW s \in Sessions, ListActuals(s), AdviceAssumption
  PROVE  Keeps
<1> DEFINE r == sess[s]
           D == draft[s]
           V == View(s)
           rows == list_by_company(s)
           q(todo, loaded) == [r EXCEPT !.pc = "earliest", !.todo = todo, !.loaded = loaded]
<1>0. r.pc = "list" /\ EstimateOk(r, D, V, db) /\ \E todo, loaded : Local(s, q(todo, loaded))
  BY EstimateIs DEF ListActuals, At
<1> HIDE DEF r, D, V
<1>1. PICK todo, loaded : Local(s, q(todo, loaded))
  BY <1>0
<1>2. Shape(r, EstimateFields)
  BY <1>0 DEF EstimateOk
<1> DEFINE p == q(todo, loaded)
<1>3. /\ Shape(p, EstimateFields) /\ p.pc = "earliest" /\ p.want = r.want /\ p.kind = r.kind
      /\ p.untouched = r.untouched
  BY <1>2 DEF Shape, EstimateFields
<1>4. Local(s, p)
  BY <1>1
<1> HIDE DEF p
<1>5. EstimateOk(p, D, V, db)
  BY <1>0, <1>3 DEF EstimateOk, EstimateSteps
<1> QED  BY <1>4, <1>5, EstimateLocal DEF D, V

\* A nonempty set of instants has a first.
LEMMA LeastOf ==
  ASSUME NEW N \in SUBSET Nat, N # {}
  PROVE  Least(N) \in N /\ \A m \in N : Least(N) <= m
<1> DEFINE Less == OpToRel(<, Nat)
<1>1. IsWellFoundedOn(Less, Nat)
  BY NatLessThanWellFounded
<1>2. \A m, n \in Nat : m < n => <<m, n>> \in Less
  BY DEF OpToRel
<1> HIDE DEF Less
<1>3. PICK n \in N : \A m \in N : ~(<<m, n>> \in Less)
  BY <1>1, WFMin
<1>4. \A m \in N : ~(m < n)
  BY <1>2, <1>3
<1>5. \A m \in N : n <= m
  BY <1>4
<1> QED  BY <1>5 DEF Least

\* What still stands of the quarter is seen as it is committed, so it is counted in.
LEMMA NextActualKeeps ==
  ASSUME IInv, NEW s \in Sessions, NextActual(s), AdviceAssumption
  PROVE  Keeps
<1> DEFINE r == sess[s]
           D == draft[s]
           V == View(s)
           times(a) == {V[k].available : k \in {j \in Results(s) : j[2] = a[2]}}
           q(a) == [r EXCEPT !.pc = "results", !.todo = @ \ {a}, !.actual = a,
                             !.period = a[2], !.cutoff = Least(times(a)) - 1]
<1>0. r.pc = "earliest" /\ EstimateOk(r, D, V, db) /\ Overlay(D, V, db)
  BY EstimateIs, ViewIs DEF NextActual, At
<1>1. PICK a : Local(s, q(a))
  BY DEF NextActual, get_earliest_available_at
<1> DEFINE A == times(a)
           p == q(a)
<1>2. Local(s, p) /\ p = [r EXCEPT !.pc = "results", !.todo = @ \ {a}, !.actual = a,
                             !.period = a[2], !.cutoff = Least(A) - 1]
  BY <1>1
<1>3. \A k \in Results(s) : k[2] = a[2] => V[k].available \in A
  OBVIOUS
<1>4. \A k \in Of(V, "result") : k \in Of(db, "result") /\ V[k] = db[k]
  BY <1>0 DEF EstimateOk, Drafts, Overlay, Of
<1>5. Of(db, "result") \subseteq Of(V, "result") /\ Results(s) = Of(V, "result")
  BY <1>0 DEF Overlay, Of, Results
<1>6. A \subseteq Nat
  BY <1>4, <1>5 DEF IInv, Consistent
<1> HIDE DEF r, D, V, A, p, times
<1>7. Shape(r, EstimateFields)
  BY <1>0 DEF EstimateOk
<1>8. /\ Shape(p, EstimateFields) /\ p.pc = "results" /\ p.want = r.want /\ p.kind = r.kind
      /\ p.untouched = r.untouched /\ p.period = a[2] /\ p.cutoff = Least(A) - 1
  BY <1>2, <1>7 DEF Shape, EstimateFields
<1>9. Blind(p, db)
  <2> SUFFICES ASSUME NEW k \in r.untouched, k[2] = a[2]
               PROVE  db[k].available > Least(A) - 1
    BY <1>8 DEF Blind
  <2>1. k \in Of(db, "result")
    BY <1>0 DEF EstimateOk
  <2>2. db[k].available \in A
    BY <1>3, <1>4, <1>5, <2>1
  <2>3. Least(A) \in A /\ Least(A) <= db[k].available
    BY <1>6, <2>2, LeastOf
  <2>4. Least(A) \in Nat /\ db[k].available \in Nat
    BY <1>6, <2>2, <2>3
  <2>5. \A m, n \in Nat : m <= n => n > m - 1
    OBVIOUS
  <2> QED  BY <2>3, <2>4, <2>5
<1>10. EstimateOk(p, D, V, db)
  BY <1>0, <1>8, <1>9 DEF EstimateOk, EstimateSteps
<1> QED  BY <1>2, <1>10, EstimateLocal DEF D, V

LEMMA WriteScoreKeeps ==
  ASSUME IInv, NEW s \in Sessions, WriteScore(s), AdviceAssumption
  PROVE  Keeps
<1> DEFINE r == sess[s]
           D == draft[s]
           V == View(s)
           key == Score(Fresh("score"))
           row == score_estimate(s)
           q == [EstimateCommand EXCEPT !.kind = "backtest", !.pc = "earliest",
                    !.todo = r.todo, !.loaded = r.loaded, !.untouched = r.untouched]
           D2 == AddRow(D, key, row)
           V2 == AddRow(V, key, row)
<1>0. r.pc = "score" /\ EstimateOk(r, D, V, db) /\ InsertRow(s, key, row, q)
  BY EstimateIs DEF WriteScore, At
<1>1. /\ key = <<"score", Fresh("score")>> /\ key[1] = "score"
      /\ DOMAIN D2 = DOMAIN D \cup {key}
  BY DEF Score, AddRow
<1> HIDE DEF r, D, V, key, row, D2, V2
<1>2. /\ Shape(q, EstimateFields) /\ q.pc = "earliest" /\ q.want = NONE
      /\ q.kind = "backtest" /\ q.untouched = r.untouched
  BY DEF EstimateCommand, Shape, EstimateFields
<1> HIDE DEF q
<1>3. EstimateOk(q, D2, V2, db)
  BY <1>0, <1>1, <1>2 DEF EstimateOk, EstimateSteps, Drafts
<1>4. SoundRow(key, row, V) /\ Carries(r, q)
  BY <1>1, <1>2, OtherRow, NoCandidates
<1> QED  BY <1>0, <1>1, <1>3, <1>4, NumberedKeeps DEF r, D, V, D2, V2, Ok, Numbered

LEMMA AllScoredKeeps ==
  ASSUME IInv, NEW s \in Sessions, AllScored(s), AdviceAssumption
  PROVE  Keeps
<1> DEFINE r == sess[s]
           D == draft[s]
           V == View(s)
           q == [r EXCEPT !.pc = "commit"]
<1>0. r.pc = "earliest" /\ EstimateOk(r, D, V, db) /\ Local(s, q)
  BY EstimateIs DEF AllScored, At
<1> HIDE DEF r, D, V
<1>1. Shape(r, EstimateFields)
  BY <1>0 DEF EstimateOk
<1>2. /\ Shape(q, EstimateFields) /\ q.pc = "commit" /\ q.want = r.want /\ q.kind = r.kind
      /\ q.untouched = r.untouched
  BY <1>1 DEF Shape, EstimateFields
<1> HIDE DEF q
<1>3. EstimateOk(q, D, V, db)
  BY <1>0, <1>2 DEF EstimateOk, EstimateSteps
<1> QED  BY <1>0, <1>3, EstimateLocal DEF D, V

-----------------------------------------------------------------------------
(* The steps of a band and of a valuation.                                 *)

LEMMA BandIs ==
  ASSUME IInv, NEW s \in Sessions, sess[s].pc \in {"closes", "band"}
  PROVE  BandOk(sess[s], draft[s])
<1>1. Ok(sess[s], draft[s], View(s), db, started)
  BY DEF IInv
<1> QED  BY <1>1, StepsOf DEF Ok

LEMMA ReadClosesKeeps ==
  ASSUME IInv, NEW s \in Sessions, ReadCloses(s), AdviceAssumption
  PROVE  Keeps
<1> DEFINE r == sess[s]
           D == draft[s]
           days == {k[2] : k \in Of(View(s), "close")} \cap 0..Day(r.as_of)
           q == [r EXCEPT !.pc = "band", !.days = days]
<1>0. r.pc = "closes" /\ BandOk(r, D) /\ Local(s, q) /\ days \subseteq 0..Day(r.as_of)
  BY BandIs DEF ReadCloses, At
<1> HIDE DEF r, D, days
<1>1. /\ Shape(q, BandFields) /\ q.pc = "band" /\ q.want = r.want /\ q.kind = r.kind
      /\ q.as_of = r.as_of /\ q.days = days
  BY <1>0 DEF BandOk, Shape, BandFields
<1> HIDE DEF q
<1>2. BandOk(q, D)
  BY <1>0, <1>1 DEF BandOk
<1>3. Carries(r, q)
  BY <1>2, NoCandidates DEF BandOk
<1> QED  BY <1>0, <1>2, <1>3, LocalKeeps DEF r, D, Ok

\* What a band cites of a day was available that day.
LEMMA WriteBandKeeps ==
  ASSUME IInv, NEW s \in Sessions, WriteBand(s), AdviceAssumption
  PROVE  Keeps
<1> DEFINE r == sess[s]
           D == draft[s]
           V == View(s)
           key == Multiple(Fresh("multiple"))
           known(listed) == [d \in r.days |-> KnownOn(s, d, listed)]
           used(listed, days) ==
             UNION {{<<d, u>> : u \in Read(s, known(listed)[d])} : d \in days}
           row(listed, days, low, mid, high) ==
             MultipleRow(r.as_of, low, mid, high, used(listed, days))
           q == [r EXCEPT !.pc = "commit"]
<1>0. r.pc = "band" /\ BandOk(r, D)
  BY BandIs DEF WriteBand, At
<1>1. \/ Rollback(s)
      \/ \E listed : \E days \in SUBSET r.days : \E low, mid, high :
            InsertRow(s, key, row(listed, days, low, mid, high), q)
  <2> DEFINE observed(listed) == {d \in r.days : Cardinality(known(listed)[d]) = Year
                                               /\ \A k \in known(listed)[d] : V[k].eps > 0}
             pe(listed) ==
               [d \in observed(listed) |-> V[Close(d)].close \div Earnings(s, known(listed)[d])]
             reached(listed, x) == 4 * Cardinality({d \in observed(listed) : pe(listed)[d] <= x})
             quartile(listed, n) ==
               Least({x \in {pe(listed)[d] : d \in observed(listed)} :
                         reached(listed, x) >= n * Cardinality(observed(listed))})
             few(listed) ==
               \/ Cardinality(observed(listed)) < MIN_OBSERVATIONS
               \/ \E k \in Of(V, "multiple") : V[k].used # {} /\ V[k].effective = r.as_of
  <2>1. PICK listed \in SetToSeqs(Tied(s)) :
          IF few(listed) THEN Rollback(s)
          ELSE InsertRow(s, key, row(listed, observed(listed), quartile(listed, 1),
                                     quartile(listed, 2), quartile(listed, 3)), q)
    BY DEF WriteBand
  <2>2. observed(listed) \in SUBSET r.days
    OBVIOUS
  <2> HIDE DEF observed, quartile, row, known, used, key, q, r, few
  <2> QED  BY <2>1, <2>2
<1>2. ASSUME NEW listed, NEW days \in SUBSET r.days, NEW low, NEW mid, NEW high,
             InsertRow(s, key, row(listed, days, low, mid, high), q)
      PROVE  Keeps
  <2> DEFINE x == row(listed, days, low, mid, high)
             D2 == AddRow(D, key, x)
  <2>0. \A k \in Results(s) : V[k].available \in Nat
    <3>1. Overlay(D, V, db)
      BY ViewIs
    <3>2. \A k \in Of(V, "result") : k \in Of(db, "result") /\ V[k] = db[k]
      BY <1>0, <3>1 DEF BandOk, Drafts, Overlay, Of
    <3>3. \A k \in Of(db, "result") : db[k].available \in Nat
      BY DEF IInv, Consistent
    <3>4. Results(s) = Of(V, "result")
      BY DEF Results
    <3> HIDE DEF V
    <3> QED  BY <3>2, <3>3, <3>4
  <2>1. \A u \in used(listed, days) :
           u[1] \in r.days /\ u[2].available \in Nat /\ u[2].available <= DayEnd(u[1])
    <3>1. ASSUME NEW d \in days, NEW u \in Read(s, known(listed)[d])
          PROVE  u.available \in Nat /\ u.available <= DayEnd(d)
      <4>1. known(listed)[d] = KnownOn(s, d, listed)
        OBVIOUS
      <4>2. PICK k \in KnownOn(s, d, listed) : u.available = V[k].available
        BY <4>1 DEF Read
      <4>3. k \in Available(s, DayEnd(d))
        BY DEF KnownOn, LastYear
      <4>4. k \in Results(s) /\ V[k].available <= DayEnd(d)
        BY <4>3 DEF Available
      <4> QED  BY <2>0, <4>2, <4>4
    <3> HIDE DEF known
    <3> QED  BY <3>1
  <2>2. x.used = used(listed, days) /\ x.effective = r.as_of
    BY DEF MultipleRow
  <2>3. /\ key = <<"multiple", Fresh("multiple")>> /\ key[1] = "multiple"
        /\ DOMAIN D2 = DOMAIN D \cup {key}
    BY DEF Multiple, AddRow
  <2>4. InsertRow(s, key, x, q)
    BY <1>2
  <2> HIDE DEF r, D, V, key, known, used, row, x, D2
  <2>5. /\ Shape(q, BandFields) /\ q.pc = "commit" /\ q.want = r.want /\ q.kind = r.kind
        /\ q.as_of = r.as_of
    BY <1>0 DEF BandOk, Shape, BandFields
  <2> HIDE DEF q
  <2>6. BandOk(q, D2)
    BY <1>0, <2>3, <2>5 DEF BandOk, Drafts
  <2>7. SoundRow(key, x, V)
    <3>1. r.as_of \in Nat /\ \A u \in used(listed, days) : u[1] \in 0..Day(r.as_of)
      BY <1>0, <2>1 DEF BandOk
    <3> QED  BY <2>1, <2>2, <2>3, <3>1 DEF SoundRow, TimelyRow, FoundedRow
  <2>8. Carries(r, q)
    BY <2>6, NoCandidates DEF BandOk
  <2> QED  BY <2>3, <2>4, <2>6, <2>7, <2>8, NumberedKeeps DEF r, D, V, D2, Ok, Numbered
<1> HIDE DEF r, key, known, used, row, q
<1> QED  BY <1>1, <1>2, RollbackKeeps

LEMMA ValueIs ==
  ASSUME IInv, NEW s \in Sessions, sess[s].pc \in {"financial", "ttm", "multiple", "price"}
  PROVE  ValueOk(sess[s], draft[s], View(s))
<1>1. Ok(sess[s], draft[s], View(s), db, started)
  BY DEF IInv
<1> QED  BY <1>1, StepsOf DEF Ok

LEMMA ValueLocal ==
  ASSUME IInv, NEW s \in Sessions, NEW q, Local(s, q), AdviceAssumption,
         ValueOk(q, draft[s], View(s))
  PROVE  Keeps
<1>1. q.kind # "candidates"
  BY DEF ValueOk
<1> QED  BY <1>1, NoCandidates, LocalKeeps DEF Ok

LEMMA LatestFinancialKeeps ==
  ASSUME IInv, NEW s \in Sessions, LatestFinancial(s), AdviceAssumption
  PROVE  Keeps
<1> DEFINE r == sess[s]
           D == draft[s]
           V == View(s)
           q(scope) == [r EXCEPT !.pc = "ttm", !.scope = scope]
<1>0. r.pc = "financial" /\ ValueOk(r, D, V)
  BY ValueIs DEF LatestFinancial, At
<1>1. Rollback(s) \/ \E scope : Local(s, q(scope))
  BY DEF LatestFinancial
<1> HIDE DEF r, D, V
<1>2. ASSUME NEW scope, Local(s, q(scope)) PROVE Keeps
  <2> DEFINE p == q(scope)
  <2>1. /\ Shape(p, ValueFields) /\ p.pc = "ttm" /\ p.want = r.want /\ p.kind = r.kind
        /\ p.as_of = r.as_of
    BY <1>0 DEF ValueOk, Shape, ValueFields
  <2>2. Local(s, p)
    BY <1>2
  <2> HIDE DEF p
  <2>3. ValueOk(p, D, V)
    BY <1>0, <2>1 DEF ValueOk
  <2> QED  BY <2>2, <2>3, ValueLocal DEF D, V
<1> HIDE DEF q
<1> QED  BY <1>1, <1>2, RollbackKeeps

\* The year of earnings is one of verified results of the scope, known by the instant.
LEMMA TtmEarningsKeeps ==
  ASSUME IInv, NEW s \in Sessions, TtmEarnings(s), AdviceAssumption
  PROVE  Keeps
<1> DEFINE r == sess[s]
           D == draft[s]
           V == View(s)
           K == {k \in Available(s, r.as_of) : V[k].verified /\ OfScope(s, k)}
           newest == {k \in K : \A j \in K : j[2] = k[2] =>
                         \/ j[5] < k[5]
                         \/ j[5] = k[5] /\ V[j].available <= V[k].available}
           results(P) == Read(s, LastYear(P))
           after(P) == [r EXCEPT !.pc = "multiple", !.results = results(P)]
<1>0. r.pc = "ttm" /\ ValueOk(r, D, V)
  BY ValueIs DEF TtmEarnings, At
<1>1. PICK P \in OneOfEach(newest) : Local(s, after(P)) \/ Rollback(s)
  BY DEF TtmEarnings
<1> DEFINE q == after(P)
<1>2. \A k \in LastYear(P) : k[3] = r.scope /\ V[k].available <= r.as_of
  <2>1. LastYear(P) \subseteq K
    <3> HIDE DEF K
    <3> QED  BY DEF LastYear, OneOfEach
  <2> QED  BY <2>1 DEF OfScope, Available
<1>3. \A t, u \in results(P) : t.result[3] = u.result[3] /\ u.available <= r.as_of
  <2>1. \A u \in results(P) :
           \E k \in LastYear(P) : u.result = k /\ u.available = V[k].available
    BY DEF Read
  <2> HIDE DEF results, r, V
  <2> QED  BY <1>2, <2>1
<1>4. q = [r EXCEPT !.pc = "multiple", !.results = results(P)]
  OBVIOUS
<1>5. Local(s, q) \/ Rollback(s)
  BY <1>1
<1> HIDE DEF r, D, V, K, newest, results, after, q
<1>6. /\ Shape(q, ValueFields) /\ q.pc = "multiple" /\ q.want = r.want /\ q.kind = r.kind
      /\ q.as_of = r.as_of /\ q.results = results(P)
  BY <1>0, <1>4 DEF ValueOk, Shape, ValueFields
<1>7. ValueOk(q, D, V)
  BY <1>0, <1>3, <1>6 DEF ValueOk
<1> QED  BY <1>5, <1>7, ValueLocal, RollbackKeeps DEF D, V

LEMMA ReadMultipleKeeps ==
  ASSUME IInv, NEW s \in Sessions, ReadMultiple(s), AdviceAssumption
  PROVE  Keeps
<1> DEFINE r == sess[s]
           D == draft[s]
           V == View(s)
           q(k) == [r EXCEPT !.pc = "price", !.multiple = k]
<1>0. r.pc = "multiple" /\ ValueOk(r, D, V)
  BY ValueIs DEF ReadMultiple, At
<1>1. \/ Rollback(s)
      \/ \E k \in Of(V, "multiple") :
            V[k].effective <= r.as_of /\ V[k].available <= r.as_of /\ Local(s, q(k))
  BY DEF ReadMultiple
<1> HIDE DEF r, D, V
<1>2. ASSUME NEW k \in Of(V, "multiple"), V[k].effective <= r.as_of,
             V[k].available <= r.as_of, Local(s, q(k))
      PROVE  Keeps
  <2> DEFINE p == q(k)
  <2>1. /\ Shape(p, ValueFields) /\ p.pc = "price" /\ p.want = r.want /\ p.kind = r.kind
        /\ p.as_of = r.as_of /\ p.results = r.results /\ p.multiple = k
    BY <1>0 DEF ValueOk, Shape, ValueFields
  <2>2. Local(s, p)
    BY <1>2
  <2> HIDE DEF p
  <2>3. ValueOk(p, D, V)
    BY <1>0, <1>2, <2>1 DEF ValueOk
  <2> QED  BY <2>2, <2>3, ValueLocal DEF D, V
<1> HIDE DEF q
<1> QED  BY <1>1, <1>2, RollbackKeeps

\* The last of some days up to one.
LEMMA GreatestOf ==
  ASSUME NEW m \in Nat, NEW N \in SUBSET (0..m), N # {}
  PROVE  Greatest(N) \in N
<1> DEFINE M == {m - x : x \in N}
<1>1. M \in SUBSET Nat /\ M # {}
  <2>1. \A x \in N : x \in Nat /\ x <= m
    OBVIOUS
  <2>2. \A x \in N : m - x \in Nat
    BY <2>1
  <2>3. PICK x : x \in N
    OBVIOUS
  <2>4. m - x \in M
    BY <2>3
  <2> QED  BY <2>2, <2>4
<1>2. Least(M) \in M /\ \A y \in M : Least(M) <= y
  <2> HIDE DEF M
  <2> QED  BY <1>1, LeastOf
<1>3. PICK x \in N : Least(M) = m - x
  BY <1>2
<1>4. ASSUME NEW y \in N PROVE y <= x
  <2>1. m - y \in M
    OBVIOUS
  <2>2. m - x <= m - y
    BY <1>2, <1>3, <2>1
  <2> QED  BY <2>2
<1> QED  BY <1>4 DEF Greatest

LEMMA WriteValuationKeeps ==
  ASSUME IInv, NEW s \in Sessions, WriteValuation(s), ForecastsAssumption, AdviceAssumption
  PROVE  Keeps
<1> DEFINE r == sess[s]
           D == draft[s]
           V == View(s)
           days == {k[2] : k \in Of(V, "close")} \cap 0..Day(r.as_of)
           existing == {k \in Of(V, "valuation") : V[k].as_of = r.as_of}
           fair == Earnings(s, {u.result : u \in r.results}) * V[r.multiple].mid
           key == Valuation(Fresh("valuation"))
           close == V[Close(Greatest(days))].close
           cheap == close < fair
           none == days = {} \/ close <= 0 \/ existing # {}
           row == [as_of |-> r.as_of, results |-> r.results, multiple |-> r.multiple,
                   day |-> Greatest(days), cheap |-> cheap]
           q == [r EXCEPT !.pc = "commit"]
           D2 == AddRow(D, key, row)
           V2 == AddRow(V, key, row)
<1>0. r.pc = "price" /\ ValueOk(r, D, V)
  BY ValueIs DEF WriteValuation, At
<1>1. IF none THEN Rollback(s) ELSE InsertRow(s, key, row, q)
  BY DEF WriteValuation
<1>2. days # {} => Greatest(days) <= Day(r.as_of)
  <2>1. Day(r.as_of) \in Nat
    <3>1. DayLength \in Nat \ {0} /\ r.as_of \in Nat
      BY <1>0 DEF ForecastsAssumption, ValueOk
    <3> HIDE DEF r
    <3> QED  BY <3>1 DEF Day
  <2>2. days \in SUBSET (0..Day(r.as_of))
    OBVIOUS
  <2> HIDE DEF days, r
  <2>3. days # {} => Greatest(days) \in days
    BY <2>1, <2>2, GreatestOf
  <2>4. days # {} => Greatest(days) \in 0..Day(r.as_of)
    BY <2>2, <2>3
  <2> QED  BY <2>1, <2>4
<1>3. /\ row.as_of = r.as_of /\ row.results = r.results /\ row.multiple = r.multiple
      /\ row.day = Greatest(days) /\ key = <<"valuation", Fresh("valuation")>>
      /\ key[1] = "valuation" /\ DOMAIN D2 = DOMAIN D \cup {key}
  BY DEF Valuation, AddRow
<1> HIDE DEF r, D, V, days, close, existing, fair, key, cheap, row, D2, V2
<1>4. /\ Shape(q, ValueFields) /\ q.pc = "commit" /\ q.want = r.want /\ q.kind = r.kind
      /\ q.as_of = r.as_of
  BY <1>0 DEF ValueOk, Shape, ValueFields
<1> HIDE DEF q
<1>5. ValueOk(q, D2, V2)
  BY <1>0, <1>3, <1>4 DEF ValueOk, Drafts
<1>6. days # {} => SoundRow(key, row, V)
  <2>1. /\ r.as_of \in Nat /\ r.multiple \in Of(V, "multiple")
        /\ V[r.multiple].effective <= r.as_of /\ V[r.multiple].available <= r.as_of
        /\ \A t, u \in r.results : t.result[3] = u.result[3] /\ u.available <= r.as_of
    BY <1>0 DEF ValueOk
  <2> QED  BY <1>2, <1>3, <2>1 DEF SoundRow, TimelyRow, FoundedRow
<1>7. Carries(r, q)
  BY <1>5, NoCandidates DEF ValueOk
<1>8. CASE none
  BY <1>1, <1>8, RollbackKeeps
<1>9. CASE days # {} /\ InsertRow(s, key, row, q)
  <2>1. Ok(q, AddRow(D, key, row), AddRow(V, key, row), db, started)
    BY <1>5 DEF Ok, D2, V2
  <2> QED  BY <1>3, <1>6, <1>7, <1>9, <2>1, NumberedKeeps DEF r, D, V, Numbered
<1> QED  BY <1>1, <1>8, <1>9

\* A forecast is finished with its last step.
LEMMA FinishForecastKeeps ==
  ASSUME IInv, NEW s \in Sessions, FinishForecast(s), AdviceAssumption
  PROVE  Keeps
  BY CommitKeeps DEF FinishForecast, At, Finished

-----------------------------------------------------------------------------
(* The steps of a thesis and of the watchlist.                             *)

LEMMA ThesisIs ==
  ASSUME IInv, NEW s \in Sessions, sess[s].pc \in {"evidence", "head", "post", "patch"}
  PROVE  ThesisOk(sess[s], draft[s])
<1>1. Ok(sess[s], draft[s], View(s), db, started)
  BY DEF IInv
<1> QED  BY <1>1, StepsOf DEF Ok

LEMMA CheckEvidenceKeeps ==
  ASSUME IInv, NEW s \in Sessions, CheckEvidence(s), AdviceAssumption
  PROVE  Keeps
<1> DEFINE r == sess[s]
           D == draft[s]
           q == [r EXCEPT !.pc = "head"]
<1>0. r.pc = "evidence" /\ ThesisOk(r, D)
  BY ThesisIs DEF CheckEvidence, At
<1>1. Rollback(s) \/ Local(s, q)
  BY DEF CheckEvidence
<1> HIDE DEF r, D
<1>2. Shape(q, ThesisFields) /\ q.pc = "head" /\ q.want = r.want /\ q.kind = r.kind
  BY <1>0 DEF ThesisOk, Shape, ThesisFields
<1> HIDE DEF q
<1>3. ThesisOk(q, D)
  BY <1>0, <1>2 DEF ThesisOk
<1>4. Carries(r, q)
  BY <1>3, NoCandidates DEF ThesisOk
<1> QED  BY <1>1, <1>3, <1>4, LocalKeeps, RollbackKeeps DEF r, D, Ok

LEMMA AppendThesisKeeps ==
  ASSUME IInv, NEW s \in Sessions, AppendThesis(s), AdviceAssumption
  PROVE  Keeps
<1> DEFINE r == sess[s]
           D == draft[s]
           V == View(s)
           key == Thesis(Fresh("thesis"))
           q == [r EXCEPT !.pc = "commit"]
<1>0. r.pc \in {"head", "post", "patch"} /\ ThesisOk(r, D)
  BY ThesisIs DEF AppendThesis, At
<1>1. Rollback(s) \/ \E row : Append1(s, row)
  BY DEF AppendThesis
<1>2. ASSUME NEW row, Append1(s, row) PROVE Keeps
  <2> DEFINE D2 == AddRow(D, key, row)
             V2 == AddRow(V, key, row)
  <2>1. /\ key = <<"thesis", Fresh("thesis")>> /\ key[1] = "thesis"
        /\ DOMAIN D2 = DOMAIN D \cup {key} /\ InsertRow(s, key, row, q)
    BY <1>2 DEF Thesis, AddRow, Append1
  <2> HIDE DEF r, D, V, key, D2, V2
  <2>2. Shape(q, ThesisFields) /\ q.pc = "commit" /\ q.want = r.want /\ q.kind = r.kind
    BY <1>0 DEF ThesisOk, Shape, ThesisFields
  <2> HIDE DEF q
  <2>3. ThesisOk(q, D2)
    BY <1>0, <2>1, <2>2 DEF ThesisOk, Drafts
  <2>4. Carries(r, q) /\ SoundRow(key, row, V)
    BY <2>1, <2>3, NoCandidates, OtherRow DEF ThesisOk
  <2>5. Ok(q, D2, V2, db, started)
    BY <2>3 DEF Ok
  <2> QED  BY <2>1, <2>4, <2>5, NumberedKeeps DEF r, D, V, D2, V2, Numbered
<1> QED  BY <1>1, <1>2, RollbackKeeps

LEMMA WatchIs ==
  ASSUME IInv, NEW s \in Sessions, sess[s].pc = "watch"
  PROVE  WatchOk(sess[s], draft[s])
<1>1. Ok(sess[s], draft[s], View(s), db, started)
  BY DEF IInv
<1> QED  BY <1>1, StepsOf DEF Ok

LEMMA SetWatchKeeps ==
  ASSUME IInv, NEW s \in Sessions, SetWatch(s), AdviceAssumption
  PROVE  Keeps
<1> DEFINE r == sess[s]
           D == draft[s]
           V == View(s)
           key == Watch(Subject)
           wants(loaded) == [r EXCEPT !.want = key, !.loaded = loaded]
           after == [r EXCEPT !.pc = "commit"]
           q == [after EXCEPT !.want = NONE]
<1>0. r.pc = "watch" /\ WatchOk(r, D)
  BY WatchIs DEF SetWatch, At
<1>1. \/ Rollback(s)
      \/ \E loaded : Local(s, wants(loaded))
      \/ \E row : FlushNew(s, row, after) \/ FlushUpdate(s, row, after)
  BY DEF SetWatch, UpdateChanged
<1>2. key[1] = "watch"
  BY DEF Watch
<1> HIDE DEF r, D, V, key
<1>3. ASSUME NEW loaded, Local(s, wants(loaded)) PROVE Keeps
  <2> DEFINE p == wants(loaded)
  <2>1. Shape(p, WatchFields) /\ p.pc = "watch" /\ p.want = key /\ p.kind = r.kind
    BY <1>0 DEF WatchOk, Shape, WatchFields
  <2>2. Local(s, p)
    BY <1>3
  <2> HIDE DEF p
  <2>3. WatchOk(p, D)
    BY <1>0, <2>1 DEF WatchOk, key
  <2>4. Carries(r, p)
    BY <2>3, NoCandidates DEF WatchOk
  <2> QED  BY <2>2, <2>3, <2>4, LocalKeeps DEF r, D, Ok
<1>4. Shape(after, WatchFields) /\ after.pc = "commit" /\ after.kind = r.kind
  BY <1>0 DEF WatchOk, Shape, WatchFields
<1> HIDE DEF after, wants
<1>5. Shape(q, WatchFields) /\ q.pc = "commit" /\ q.want = NONE /\ q.kind = r.kind
  BY <1>4 DEF Shape, WatchFields
<1> HIDE DEF q
<1>6. ASSUME NEW row, FlushNew(s, row, after) \/ FlushUpdate(s, row, after) PROVE Keeps
  <2> DEFINE D2 == AddRow(D, key, row)
             V2 == AddRow(V, key, row)
  <2>1. r.want = key
    BY <1>0, <1>6 DEF WatchOk, FlushNew, FlushUpdate, key, r
  <2>2. DOMAIN D2 = DOMAIN D \cup {key}
    BY DEF AddRow
  <2> HIDE DEF D2, V2
  <2>3. WatchOk(q, D2)
    BY <1>0, <1>2, <1>5, <2>2 DEF WatchOk, Drafts
  <2>4. /\ Carries(r, q) /\ SoundRow(key, row, V) /\ RestoresNone(key, row)
        /\ key[1] \notin Published /\ key[1] \notin Kept
    BY <1>2, <2>3, NoCandidates, OtherRow, OtherRestoresNone DEF WatchOk, Kept, Published
  <2>5. Ok(q, D2, V2, db, started)
    BY <2>3 DEF Ok
  <2> QED  BY <1>6, <2>1, <2>4, <2>5, FlushKeeps, UpdateKeeps DEF r, D, V, D2, V2, q
<1> QED  BY <1>1, <1>3, <1>6, RollbackKeeps

-----------------------------------------------------------------------------
(* The steps of a recommendation run.                                      *)

LEMMA AdviceIs ==
  ASSUME IInv, NEW s \in Sessions,
         sess[s].pc \in {"universe", "symbol", "valuation", "newest estimate", "decide"}
  PROVE  AdviceOk(sess[s], draft[s], View(s), db)
<1>1. Ok(sess[s], draft[s], View(s), db, started)
  BY DEF IInv
<1> QED  BY <1>1, StepsOf DEF Ok

LEMMA AdviceLocal ==
  ASSUME IInv, NEW s \in Sessions, NEW q, Local(s, q), AdviceAssumption,
         AdviceOk(q, draft[s], View(s), db)
  PROVE  Keeps
<1>1. q.kind # "candidates"
  BY DEF AdviceOk
<1> QED  BY <1>1, NoCandidates, LocalKeeps DEF Ok

LEMMA UniverseKeeps ==
  ASSUME IInv, NEW s \in Sessions, Universe(s), AdviceAssumption
  PROVE  Keeps
<1> DEFINE r == sess[s]
           D == draft[s]
           V == View(s)
           n == Fresh("advice")
           key == RecommendationRun(n)
           rowOf(symbols) == [as_of |-> r.as_of, symbols |-> symbols, superseded |-> r.superseded]
           qOf(symbols) == [r EXCEPT !.pc = "symbol", !.run = n, !.todo = symbols]
<1>0. r.pc = "universe" /\ AdviceOk(r, D, V, db)
  BY AdviceIs DEF Universe, At
<1>1. PICK symbols : InsertRow(s, key, rowOf(symbols), qOf(symbols))
  BY DEF Universe
<1> DEFINE row == rowOf(symbols)
           q == qOf(symbols)
           D2 == AddRow(D, key, row)
           V2 == AddRow(V, key, row)
<1>2. InsertRow(s, key, row, q)
  BY <1>1
<1>3. row.as_of = r.as_of /\ row.symbols = symbols /\ row.superseded = r.superseded
  OBVIOUS
<1>4. key = <<"advice", n>> /\ key[1] = "advice"
  BY DEF RecommendationRun
<1> HIDE DEF r, D, V, n, key, row
<1>5. DOMAIN D2 = DOMAIN D \cup {key} /\ D2[key] = row
  BY DEF AddRow
<1>6. /\ Shape(q, AdviceFields) /\ q.pc = "symbol" /\ q.want = r.want /\ q.kind = r.kind
      /\ q.as_of = r.as_of /\ q.superseded = r.superseded /\ q.run = n /\ q.todo = symbols
  BY <1>0 DEF AdviceOk, Shape, AdviceFields
<1> HIDE DEF q, D2, V2
<1>7. RunIs(q, D2)
  BY <1>0, <1>3, <1>5, <1>6 DEF RunIs, AdviceOk, key
<1>8. AdviceOk(q, D2, V2, db)
  BY <1>0, <1>6, <1>7 DEF AdviceOk
<1>9. Carries(r, q) /\ SoundRow(key, row, V)
  BY <1>4, <1>8, NoCandidates, OtherRow DEF AdviceOk
<1>10. Ok(q, D2, V2, db, started)
  BY <1>8 DEF Ok
<1> QED  BY <1>2, <1>4, <1>9, <1>10, NumberedKeeps DEF r, D, V, D2, V2, n, Numbered

\* What was superseded when the run began still is.
LEMMA SupersededStands ==
  ASSUME IInv, NEW s \in Sessions, NEW r, AdviceOk(r, draft[s], View(s), db)
  PROVE  r.superseded \subseteq Superseded(View(s))
<1> DEFINE D == draft[s]
           V == View(s)
<1>1. Overlay(D, V, db) /\ Sound(D, V, db)
  BY ViewIs DEF IInv
<1>2. \A k \in Of(db, "thesis") : k \in Of(V, "thesis") /\ V[k] = db[k]
  BY <1>1 DEF Overlay, Sound, Kept, Of
<1>3. Superseded(db) \subseteq Superseded(V)
  BY <1>2 DEF Superseded
<1> QED  BY <1>3 DEF AdviceOk

\* The step reads something for the symbol at hand.
LEMMA ReadThesisKeeps ==
  ASSUME IInv, NEW s \in Sessions, ReadThesis(s), AdviceAssumption
  PROVE  Keeps
<1> DEFINE r == sess[s]
           D == draft[s]
           V == View(s)
           qOf(x, k) == [r EXCEPT !.pc = IF x = Subject THEN "valuation" ELSE "decide",
                            !.todo = @ \ {x}, !.symbol = x, !.thesis = k,
                            !.valuation = NONE, !.estimate = NONE]
<1>0. r.pc = "symbol" /\ AdviceOk(r, D, V, db) /\ RunIs(r, D)
  BY AdviceIs DEF ReadThesis, At, AdviceOk
<1>1. PICK x \in r.todo : \E k \in OneOrNone(get_active(s, x)) : Local(s, qOf(x, k))
  BY DEF ReadThesis
<1>1a. PICK k \in OneOrNone(get_active(s, x)) : Local(s, qOf(x, k))
  BY <1>1
<1>2. k = NONE \/ (k \in Of(V, "thesis") /\ k \notin Superseded(V))
  <2>1. k = NONE \/ k \in get_active(s, x)
    BY <1>1a DEF OneOrNone
  <2> QED  BY <2>1 DEF get_active, Heads
<1>3. r.superseded \subseteq Superseded(V)
  BY <1>0, SupersededStands
<1> DEFINE q == qOf(x, k)
<1>4. Local(s, q)
  BY <1>1a
<1> HIDE DEF r, D, V
<1>5. /\ Shape(q, AdviceFields) /\ q.pc \in {"valuation", "decide"} /\ q.want = r.want
      /\ q.kind = r.kind /\ q.as_of = r.as_of /\ q.superseded = r.superseded /\ q.run = r.run
      /\ q.todo = r.todo \ {x} /\ q.symbol = x /\ q.thesis = k /\ q.valuation = NONE
      /\ q.estimate = NONE
  BY <1>0 DEF AdviceOk, Shape, AdviceFields
<1> HIDE DEF q
<1>6. RunIs(q, D)
  BY <1>0, <1>5 DEF RunIs
<1>7. Supports(q, V)
  BY <1>2, <1>3, <1>5 DEF Supports
<1>8. AdviceOk(q, D, V, db)
  BY <1>0, <1>5, <1>6, <1>7 DEF AdviceOk
<1> QED  BY <1>4, <1>8, AdviceLocal DEF D, V

LEMMA ReadValuationKeeps ==
  ASSUME IInv, NEW s \in Sessions, ReadValuation(s), AdviceAssumption
  PROVE  Keeps
<1> DEFINE r == sess[s]
           D == draft[s]
           V == View(s)
           qOf(k) == [r EXCEPT !.pc = "newest estimate", !.valuation = k]
<1>0. r.pc = "valuation" /\ AdviceOk(r, D, V, db) /\ RunIs(r, D)
  BY AdviceIs DEF ReadValuation, At, AdviceOk
<1>1. PICK k : /\ k = NONE \/ (k \in Of(V, "valuation") /\ V[k].as_of <= r.as_of)
               /\ Local(s, qOf(k))
  BY DEF ReadValuation, OneOrNone
<1> DEFINE q == qOf(k)
<1>2. Local(s, q)
  BY <1>1
<1> HIDE DEF r, D, V
<1>3. /\ Shape(q, AdviceFields) /\ q.pc = "newest estimate" /\ q.want = r.want
      /\ q.kind = r.kind /\ q.as_of = r.as_of /\ q.superseded = r.superseded /\ q.run = r.run
      /\ q.todo = r.todo /\ q.symbol = r.symbol /\ q.thesis = r.thesis /\ q.valuation = k
      /\ q.estimate = r.estimate
  BY <1>0 DEF AdviceOk, Shape, AdviceFields
<1> HIDE DEF q
<1>4. RunIs(q, D) /\ Supports(q, V)
  BY <1>0, <1>1, <1>3 DEF RunIs, Supports, AdviceOk
<1>5. AdviceOk(q, D, V, db)
  BY <1>0, <1>3, <1>4 DEF AdviceOk
<1> QED  BY <1>2, <1>5, AdviceLocal DEF D, V

LEMMA ReadEstimateKeeps ==
  ASSUME IInv, NEW s \in Sessions, ReadEstimate(s), AdviceAssumption
  PROVE  Keeps
<1> DEFINE r == sess[s]
           D == draft[s]
           V == View(s)
           qOf(k) == [r EXCEPT !.pc = "decide", !.estimate = k]
<1>0. r.pc = "newest estimate" /\ AdviceOk(r, D, V, db) /\ RunIs(r, D)
  BY AdviceIs DEF ReadEstimate, At, AdviceOk
<1>1. PICK k : /\ k = NONE \/ (k \in Of(V, "estimate") /\ V[k].cutoff <= r.as_of)
               /\ Local(s, qOf(k))
  BY DEF ReadEstimate, OneOrNone
<1> DEFINE q == qOf(k)
<1>2. Local(s, q)
  BY <1>1
<1> HIDE DEF r, D, V
<1>3. /\ Shape(q, AdviceFields) /\ q.pc = "decide" /\ q.want = r.want
      /\ q.kind = r.kind /\ q.as_of = r.as_of /\ q.superseded = r.superseded /\ q.run = r.run
      /\ q.todo = r.todo /\ q.symbol = r.symbol /\ q.thesis = r.thesis
      /\ q.valuation = r.valuation /\ q.estimate = k
  BY <1>0 DEF AdviceOk, Shape, AdviceFields
<1> HIDE DEF q
<1>4. RunIs(q, D) /\ Supports(q, V)
  BY <1>0, <1>1, <1>3 DEF RunIs, Supports, AdviceOk
<1>5. AdviceOk(q, D, V, db)
  BY <1>0, <1>3, <1>4 DEF AdviceOk
<1> QED  BY <1>2, <1>5, AdviceLocal DEF D, V

\* What base_action says, given the risks, of what was read for the symbol.
LEMMA ActionIs ==
  ASSUME NEW s, NEW risks, NEW hard, hard = (\E k \in risks : View(s)[k].hard),
         NEW action, action = base_action(s, risks)
  PROVE  /\ (action \in {"REDUCE", "AVOID"}) <=> hard
         /\ action \in {"BUY", "ADD"} =>
               /\ ~hard /\ sess[s].thesis # NONE /\ ~Stale(s) /\ sess[s].estimate # NONE
               /\ sess[s].valuation # NONE /\ View(s)[sess[s].valuation].cheap
<1> DEFINE held == sess[s].symbol \in DOMAIN sess[s].held
           thesis == sess[s].thesis # NONE
           estimate == sess[s].estimate # NONE
           cheap == View(s)[sess[s].valuation].cheap
           supportive == sess[s].valuation # NONE /\ cheap
           light == sess[s].held[sess[s].symbol] # "heavy"
           watching == View(s)[sess[s].thesis].status = "watching"
           stale == Stale(s)
<1>1. action = CASE hard -> IF held THEN "REDUCE" ELSE "AVOID"
                 [] OTHER ->
                 CASE ~held /\ thesis /\ watching -> "WATCH"
                   [] held -> IF ~thesis THEN "INSUFFICIENT_EVIDENCE"
                              ELSE IF ~stale /\ supportive /\ light /\ estimate THEN "ADD"
                                   ELSE "HOLD"
                   [] OTHER -> IF thesis /\ ~stale /\ estimate
                               THEN IF supportive THEN "BUY" ELSE "WATCH"
                               ELSE "INSUFFICIENT_EVIDENCE"
  BY DEF base_action
<1> DEFINE goal == /\ (action \in {"REDUCE", "AVOID"}) <=> hard
                   /\ action \in {"BUY", "ADD"} =>
                         ~hard /\ thesis /\ ~stale /\ estimate /\ supportive
<1> HIDE DEF held, thesis, estimate, supportive, light, watching, stale
<1>2. ASSUME hard PROVE goal
  BY <1>1, <1>2
<1>3. ASSUME ~hard, ~held, thesis /\ watching PROVE goal
  BY <1>1, <1>3
<1>4. ASSUME ~hard, held PROVE goal
  <2>1. action = IF ~thesis THEN "INSUFFICIENT_EVIDENCE"
                 ELSE IF ~stale /\ supportive /\ light /\ estimate THEN "ADD" ELSE "HOLD"
    BY <1>1, <1>4
  <2> QED  BY <1>4, <2>1
<1>5. ASSUME ~hard, ~held, ~(thesis /\ watching) PROVE goal
  <2>1. action = IF thesis /\ ~stale /\ estimate
                 THEN IF supportive THEN "BUY" ELSE "WATCH"
                 ELSE "INSUFFICIENT_EVIDENCE"
    BY <1>1, <1>5
  <2> QED  BY <1>5, <2>1
<1>6. goal
  BY <1>2, <1>3, <1>4, <1>5
<1> QED  BY <1>6 DEF thesis, estimate, supportive, stale

\* Nobody else decides for the run: its row, and so its decisions, are the session's.
LEMMA DecisionIsNew ==
  ASSUME IInv, NEW s \in Sessions, AdviceOk(sess[s], draft[s], View(s), db),
         RunIs(sess[s], draft[s]), NEW x, NEW key, key = Decision(sess[s].run, x)
  PROVE  key \notin DOMAIN db /\ \A t \in Sessions : t # s => key \notin DOMAIN draft[t]
<1> DEFINE run == RecommendationRun(sess[s].run)
<1>1. run \in DOMAIN draft[s] /\ run \notin DOMAIN db
  <2>1. run \in DOMAIN draft[s] /\ run[1] = "advice"
    BY DEF RunIs, RecommendationRun
  <2> QED  BY <2>1 DEF IInv, Sound, Kept
<1>2. key[1] = "decision" /\ key[2] = sess[s].run
  BY DEF Decision
<1>3. key \notin DOMAIN db
  <2>1. \A d \in Of(db, "decision") : RecommendationRun(d[2]) \in DOMAIN db
    BY DEF IInv, Consistent, Founded
  <2> QED  BY <1>1, <1>2, <2>1 DEF Of
<1>4. ASSUME NEW t \in Sessions, t # s, key \in DOMAIN draft[t] PROVE FALSE
  <2>1. key \in Of(draft[t], "decision") /\ Ok(sess[t], draft[t], View(t), db, started)
    BY <1>2, <1>4 DEF Of, IInv
  <2>2. RunIs(sess[t], draft[t]) /\ key[2] = sess[t].run
    BY <2>1, DecisionDrafts
  <2>3. run \in DOMAIN draft[t]
    BY <1>2, <2>2 DEF RunIs
  <2> QED  BY <1>1, <1>4, <2>3 DEF IInv, DraftsDisjoint
<1> QED  BY <1>3, <1>4

LEMMA DecideKeeps ==
  ASSUME IInv, NEW s \in Sessions, Decide(s), AdviceAssumption
  PROVE  Keeps
<1> DEFINE r == sess[s]
           D == draft[s]
           V == View(s)
           risks == {k \in Of(V, "risk") : r.symbol = Subject /\ V[k].active}
           cited == {[risk |-> k, hard |-> V[k].hard] : k \in risks}
           hard == \E k \in risks : V[k].hard
           action == base_action(s, risks)
           key == Decision(r.run, r.symbol)
           row == [action |-> action, thesis |-> r.thesis, valuation |-> r.valuation,
                   estimate |-> r.estimate, risks |-> cited]
           q == [r EXCEPT !.pc = "symbol"]
           fails == Unweighable(s) /\ \A k \in risks : ~V[k].hard
           D2 == AddRow(D, key, row)
           V2 == AddRow(V, key, row)
           run == RecommendationRun(r.run)
<1>0. r.pc = "decide" /\ AdviceOk(r, D, V, db) /\ RunIs(r, D) /\ Supports(r, V)
  BY AdviceIs DEF Decide, At, AdviceOk
<1>1. IF fails THEN Rollback(s) ELSE InsertRow(s, key, row, q)
  BY DEF Decide
<1>2. /\ (action \in {"REDUCE", "AVOID"}) <=> hard
      /\ action \in {"BUY", "ADD"} =>
            /\ ~hard /\ r.thesis # NONE /\ ~Stale(s) /\ r.estimate # NONE
            /\ r.valuation # NONE /\ V[r.valuation].cheap
  <2> HIDE DEF risks
  <2> QED  BY ActionIs
<1>3. hard <=> \E c \in cited : c.hard
  <2> HIDE DEF risks
  <2>1. ASSUME NEW k \in risks PROVE \E c \in cited : c.risk = k /\ c.hard = V[k].hard
    <3>1. [risk |-> k, hard |-> V[k].hard] \in cited
      OBVIOUS
    <3> QED  BY <3>1
  <2>2. \A c \in cited : \E k \in risks : c.hard = V[k].hard
    OBVIOUS
  <2> HIDE DEF cited
  <2> QED  BY <2>1, <2>2
<1>4. ~Stale(s) => r.valuation # NONE /\ ~(r.as_of - V[r.valuation].as_of > STALE_VALUATION_DAYS)
  BY DEF Stale
<1>5. Overlay(D, V, db) /\ Sound(D, V, db)
  BY ViewIs DEF IInv
<1>6. key \notin DOMAIN db /\ \A t \in Sessions : t # s => key \notin DOMAIN draft[t]
  BY <1>0, DecisionIsNew
<1>7. /\ row.action = action /\ row.thesis = r.thesis /\ row.valuation = r.valuation
      /\ row.estimate = r.estimate /\ row.risks = cited
      /\ key[1] = "decision" /\ key[2] = r.run /\ key[3] = r.symbol /\ key = Decision(r.run, key[3])
      /\ DOMAIN D2 = DOMAIN D \cup {key} /\ \A k \in DOMAIN D : k # key => D2[k] = D[k]
  BY DEF Decision, AddRow
<1>8. run \in DOMAIN D /\ run \in DOMAIN V /\ V[run] = D[run] /\ run[1] = "advice"
      /\ D[run].as_of = r.as_of /\ D[run].superseded = r.superseded
  BY <1>0, <1>5 DEF RunIs, Overlay, RecommendationRun
<1> HIDE DEF r, D, V, risks, cited, hard, action, row, fails, D2, V2, key
<1>9. /\ Shape(q, AdviceFields) /\ q.pc = "symbol" /\ q.want = r.want
      /\ q.kind = r.kind /\ q.as_of = r.as_of /\ q.superseded = r.superseded /\ q.run = r.run
      /\ q.todo = r.todo /\ q.symbol = r.symbol
  BY <1>0 DEF AdviceOk, Shape, AdviceFields
<1> HIDE DEF q
<1>10. RunIs(q, D2)
  <2>1. run # key /\ D2[run] = D[run]
    BY <1>7, <1>8
  <2>2. \A j \in DOMAIN D2 : j = run \/ j = Decision(r.run, j[3])
    BY <1>0, <1>7 DEF RunIs
  <2>3. \A x \in D[run].symbols : Decision(r.run, x) \in DOMAIN D2 \/ x \in r.todo
    <3>1. key = Decision(r.run, r.symbol)
      BY <1>7
    <3> QED  BY <1>0, <1>7, <3>1 DEF RunIs
  <2> QED  BY <1>7, <1>8, <1>9, <2>1, <2>2, <2>3 DEF RunIs
<1>11. AdviceOk(q, D2, V2, db)
  BY <1>0, <1>9, <1>10 DEF AdviceOk
<1>12. FoundedRow(key, row, V)
  <2>1. r.thesis # NONE => r.thesis \in DOMAIN V /\ r.thesis \notin V[run].superseded
    BY <1>0, <1>8 DEF Supports, Of
  <2>2. ASSUME action \in {"BUY", "ADD"}
        PROVE  /\ ~hard /\ r.thesis # NONE /\ r.valuation \in Of(V, "valuation")
               /\ V[r.valuation].cheap
               /\ V[run].as_of - V[r.valuation].as_of \in 0..STALE_VALUATION_DAYS
               /\ r.estimate \in Of(V, "estimate") /\ V[r.estimate].cutoff <= V[run].as_of
    <3>1. /\ r.valuation \in Of(V, "valuation") /\ V[r.valuation].as_of <= r.as_of
          /\ r.estimate \in Of(V, "estimate") /\ V[r.estimate].cutoff <= r.as_of
      BY <1>0, <1>2, <2>2 DEF Supports
    <3>2. V[r.valuation].as_of \in Nat /\ r.as_of \in Nat /\ STALE_VALUATION_DAYS \in Nat
      BY <1>0, <1>5, <3>1 DEF Sound, Timely, AdviceOk, AdviceAssumption
    <3>3. ~(r.as_of - V[r.valuation].as_of > STALE_VALUATION_DAYS)
      BY <1>2, <1>4, <2>2
    <3>4. r.as_of - V[r.valuation].as_of \in 0..STALE_VALUATION_DAYS
      BY <3>1, <3>2, <3>3
    <3> QED  BY <1>2, <1>8, <2>2, <3>1, <3>4
  <2> QED  BY <1>2, <1>3, <1>7, <1>8, <2>1, <2>2 DEF FoundedRow
<1>13. SoundRow(key, row, V)
  BY <1>7, <1>12 DEF SoundRow, TimelyRow
<1>14. Carries(r, q) /\ RestoresNone(key, row) /\ key[1] \notin Published
  BY <1>7, <1>11, NoCandidates, OtherRestoresNone DEF AdviceOk, Published
<1>15. Ok(q, AddRow(D, key, row), AddRow(V, key, row), db, started)
  BY <1>11 DEF Ok, D2, V2
<1>16. CASE InsertRow(s, key, row, q)
  BY <1>6, <1>7, <1>13, <1>14, <1>15, <1>16, RowKeeps DEF r, D, V
<1> QED  BY <1>1, <1>16, RollbackKeeps

LEMMA FinishAdviceKeeps ==
  ASSUME IInv, NEW s \in Sessions, FinishAdvice(s), AdviceAssumption
  PROVE  Keeps
  BY CommitKeeps DEF FinishAdvice, At, Finished

-----------------------------------------------------------------------------
(* The steps of a rerun of the candidate rules and of a rule's review.     *)

LEMMA RuleIs ==
  ASSUME IInv, NEW s \in Sessions, sess[s].pc \in {"rule", "proposal", "review"}
  PROVE  RuleOk(sess[s], draft[s], View(s), db, started)
<1>1. Ok(sess[s], draft[s], View(s), db, started)
  BY DEF IInv
<1> QED  BY <1>1, StepsOf DEF Ok

\* An approval that a rerun watches over was made before it began.
LEMMA ApprovedBefore ==
  ASSUME IInv, NEW t \in Sessions, NEW k, Replaces(sess[t], k)
  PROVE  sess[t].begun[k].approved \in Nat /\ sess[t].begun[k].approved < started
<1>1. Ok(sess[t], draft[t], View(t), db, started)
  BY DEF IInv
<1>2. RuleOk(sess[t], draft[t], View(t), db, started)
  BY <1>1, StepsOf DEF Replaces, Ok
<1> QED  BY <1>2 DEF Replaces, RuleOk

\* The committed rule under the one the session sees.
LEMMA SeenRule ==
  ASSUME IInv, NEW s \in Sessions, NEW key \in Of(View(s), "rule"), AdviceAssumption
  PROVE  /\ StampOk(View(s)[key], started)
         /\ key \in DOMAIN db => NotBefore(View(s)[key].approved, db[key].approved)
         /\ \A t \in Sessions :
              (Replaces(sess[t], key) /\ NoLonger(db[key], sess[t].begun[key].approved)) =>
                 NoLonger(View(s)[key], sess[t].begun[key].approved)
<1> DEFINE D == draft[s]
           V == View(s)
<1>1. /\ Overlay(D, V, db) /\ Ok(sess[s], D, V, db, started)
      /\ \A t \in Sessions : Answers(sess[t], D, db)
  BY ViewIs DEF IInv
<1>2. started \in Nat /\ Stamps(db, started) /\ NONE \notin Nat
  BY DEF IInv, Stamps, AdviceAssumption
<1> HIDE DEF D, V
<1>3. CASE key \in DOMAIN D
  <2>1. key \in Of(D, "rule") /\ V[key] = D[key]
    BY <1>1, <1>3 DEF Of, Overlay, V
  <2>2. RuleOk(sess[s], D, V, db, started)
    BY <1>1, <2>1, RuleDrafts
  <2> QED  BY <1>1, <2>1, <2>2 DEF RuleOk, Answers, Of, V
<1>4. CASE key \notin DOMAIN D
  <2>1. key \in Of(db, "rule") /\ V[key] = db[key]
    BY <1>1, <1>4 DEF Of, Overlay, V
  <2> QED  BY <1>2, <2>1 DEF Stamps, StampOk, NotBefore, V
<1> QED  BY <1>3, <1>4

\* A rule that is written over keeps the time it has and is approved only if it was,
\* or is approved now.
LEMMA RuleRewritten ==
  ASSUME IInv, NEW s \in Sessions, NEW key \in Of(View(s), "rule"), AdviceAssumption,
         NEW row, DOMAIN row = RuleColumns,
         \/ /\ row.approved = View(s)[key].approved
            /\ row.status # "APPROVED" \/ row.status = View(s)[key].status
         \/ row.approved = started
  PROVE  /\ StampOk(row, started) /\ RestoresNone(key, row)
         /\ key \in DOMAIN db => NotBefore(row.approved, db[key].approved)
<1> DEFINE current == View(s)[key]
           m(t) == sess[t].begun[key].approved
<1>1. /\ StampOk(current, started)
      /\ key \in DOMAIN db => NotBefore(current.approved, db[key].approved)
      /\ \A t \in Sessions :
           (Replaces(sess[t], key) /\ NoLonger(db[key], m(t))) => NoLonger(current, m(t))
  BY SeenRule
<1>2. started \in Nat /\ NONE \notin Nat /\ (key \in DOMAIN db => StampOk(db[key], started))
  BY DEF IInv, AdviceAssumption, Of
<1>3. \A t \in Sessions : Replaces(sess[t], key) => m(t) \in Nat /\ m(t) < started
  BY ApprovedBefore
<1> HIDE DEF current, m
<1>4. CASE /\ row.approved = current.approved
           /\ row.status # "APPROVED" \/ row.status = current.status
  <2>1. StampOk(row, started)
    BY <1>1, <1>4 DEF StampOk
  <2>2. \A n : NoLonger(current, n) => NoLonger(row, n)
    BY <1>4 DEF NoLonger
  <2> QED  BY <1>1, <1>4, <2>1, <2>2 DEF RestoresNone, m
<1>5. CASE row.approved = started
  <2>1. StampOk(row, started)
    BY <1>2, <1>5 DEF StampOk
  <2>2. key \in DOMAIN db => NotBefore(row.approved, db[key].approved)
    BY <1>2, <1>5 DEF StampOk, NotBefore
  <2>3. \A t \in Sessions : Replaces(sess[t], key) => NoLonger(row, m(t))
    BY <1>2, <1>3, <1>5 DEF NoLonger
  <2> QED  BY <2>1, <2>2, <2>3 DEF RestoresNone, m
<1> QED  BY <1>4, <1>5 DEF current

\* The command goes on; it wants no other row than it did.
LEMMA RuleLocal ==
  ASSUME IInv, NEW s \in Sessions, NEW q, Local(s, q), AdviceAssumption,
         NEW r, r = sess[s], RuleOk(r, draft[s], View(s), db, started),
         Shape(q, RuleFields), q.kind = r.kind, q.begun = r.begun, q.n \in Nat, RuleWant(q),
         q.want # NONE /\ q.kind = "candidates" => \A k \in Approvals(r) :
            k = q.want => Overwrites(r, draft[s], k) \/ NoLonger(db[k], r.begun[k].approved),
         q.pc \in {"rule", "review"} => \A old \in q.loaded :
            /\ StampOk(old, started) /\ q.want \in Of(View(s), "rule")
            /\ NotBefore(View(s)[q.want].approved, old.approved)
  PROVE  Keeps
<1> DEFINE D == draft[s]
           V == View(s)
<1>1. Approvals(q) = Approvals(r)
  BY DEF Approvals
<1>2. ASSUME NEW k \in Approvals(q), q.kind = "candidates"
      PROVE  /\ q.begun[k].approved \in Nat /\ q.begun[k].approved < started
             /\ Overwrites(q, D, k) => NoLonger(db[k], q.begun[k].approved)
  BY <1>1, <1>2 DEF RuleOk, Overwrites
<1>3. RuleOk(q, D, V, db, started)
  BY <1>2 DEF RuleOk
<1>4. Carries(r, q)
  <2>1. r.pc # "idle"
    BY DEF RuleOk, RuleWant
  <2> QED  BY <1>1, <2>1 DEF Carries, Replaces
<1> QED  BY <1>3, <1>4, LocalKeeps DEF Ok

\* The command has written the row it wanted.
LEMMA RuleWritten ==
  ASSUME IInv, NEW s \in Sessions, NEW row, NEW after, AdviceAssumption,
         FlushUpdate(s, row, after) \/ FlushNew(s, row, after),
         RuleOk(sess[s], draft[s], View(s), db, started),
         NEW key, sess[s].want = NONE \/ sess[s].want = key, key[1] \in {"rule", "proposal"},
         key[1] = "rule" /\ (FlushNew(s, row, after) => key \notin DOMAIN View(s)) =>
            /\ StampOk(row, started) /\ RestoresNone(key, row)
            /\ key \in DOMAIN db => NotBefore(row.approved, db[key].approved),
         NEW q, q = [after EXCEPT !.want = NONE],
         Shape(q, RuleFields), q.kind = sess[s].kind, q.begun = sess[s].begun, q.n \in Nat, q.want = NONE,
         RuleWant(q), q.loaded = {}
  PROVE  Keeps
<1> DEFINE r == sess[s]
           D == draft[s]
           V == View(s)
           D2 == AddRow(D, key, row)
           V2 == AddRow(V, key, row)
<1>1. r.want = key
  BY DEF FlushUpdate, FlushNew
<1>2. DOMAIN D2 = DOMAIN D \cup {key} /\ D2[key] = row /\ \A k \in DOMAIN D : k # key => D2[k] = D[k]
  BY DEF AddRow
<1>3. Approvals(q) = Approvals(r)
  BY DEF Approvals
<1>4. r.want # NONE
  BY DEF FlushUpdate, FlushNew
<1> HIDE DEF D2, V2
<1>5. ASSUME key[1] = "rule" =>
               /\ StampOk(row, started) /\ RestoresNone(key, row)
               /\ key \in DOMAIN db => NotBefore(row.approved, db[key].approved)
      PROVE  /\ SoundRow(key, row, V) /\ RestoresNone(key, row) /\ Carries(r, q)
             /\ Ok(q, D2, V2, db, started)
  <2>1. SoundRow(key, row, V)
    BY OtherRow
  <2>2. RestoresNone(key, row)
    BY <1>5, OtherRestoresNone
  <2>3. Carries(r, q)
    <3>1. r.pc # "idle"
      BY DEF RuleOk, RuleWant
    <3> QED  BY <1>3, <3>1 DEF Carries, Replaces
  <2>4. ASSUME NEW k \in Approvals(q), q.kind = "candidates"
        PROVE  /\ q.begun[k].approved \in Nat /\ q.begun[k].approved < started
               /\ Overwrites(q, D2, k) => NoLonger(db[k], q.begun[k].approved)
    BY <1>1, <1>2, <1>3, <1>4, <2>4 DEF RuleOk, Overwrites
  <2>5. \A k \in Of(D2, "rule") :
          StampOk(D2[k], started) /\ (k \in DOMAIN db => NotBefore(D2[k].approved, db[k].approved))
    <3> SUFFICES ASSUME NEW k \in Of(D2, "rule")
                 PROVE  /\ StampOk(D2[k], started)
                        /\ k \in DOMAIN db => NotBefore(D2[k].approved, db[k].approved)
      OBVIOUS
    <3>1. CASE k = key
      BY <1>2, <1>5, <3>1 DEF Of
    <3>2. CASE k # key
      <4>1. k \in Of(D, "rule") /\ D2[k] = D[k]
        BY <1>2, <3>2 DEF Of
      <4> QED  BY <4>1 DEF RuleOk
    <3> QED  BY <3>1, <3>2
  <2>6. Drafts(D2, {"rule", "proposal"})
    BY <1>2 DEF RuleOk, Drafts
  <2>7. RuleOk(q, D2, V2, db, started)
    BY <2>4, <2>5, <2>6 DEF RuleOk
  <2> QED  BY <2>1, <2>2, <2>3, <2>7 DEF Ok
<1>6. key[1] \notin Published /\ key[1] \notin Kept
  BY DEF Published, Kept
<1>7. CASE FlushUpdate(s, row, after) /\ ~FlushNew(s, row, after)
  BY <1>1, <1>5, <1>6, <1>7, UpdateKeeps DEF D2, V2
<1>8. CASE FlushNew(s, row, after)
  BY <1>1, <1>5, <1>6, <1>8, FlushKeeps DEF D2, V2
<1> QED  BY <1>7, <1>8

LEMMA EvaluationIs ==
  ASSUME NEW s
  PROVE  Evaluation(s) # "APPROVED"
<1> DEFINE rows == Audits[sess[s].run]
           spec == candidate_specs(s)
<1>1. validate_expanding(rows, spec) = "BACKTESTED" \/ validate_expanding(rows, spec) = "REJECTED"
  BY DEF validate_expanding
<1> QED  BY <1>1 DEF Evaluation

\* The fields of a row that an UPDATE sets are those that are unlike what was loaded.
LEMMA UpdateIs ==
  ASSUME NEW s \in Sessions, NEW old, NEW new, NEW after, UpdateChanged(s, old, new, after)
  PROVE  \E row :
           /\ FlushUpdate(s, row, after) /\ DOMAIN row = DOMAIN View(s)[sess[s].want]
           /\ \A f \in DOMAIN row :
                 row[f] = IF f \in DOMAIN new /\ new[f] # old[f] THEN new[f]
                          ELSE View(s)[sess[s].want][f]
<1> DEFINE current == View(s)[sess[s].want]
           changed == {f \in DOMAIN new : new[f] # old[f]}
           row == [f \in DOMAIN current |-> IF f \in changed THEN new[f] ELSE current[f]]
<1>1. FlushUpdate(s, row, after)
  BY DEF UpdateChanged
<1>2. DOMAIN row = DOMAIN current
      /\ \A f \in DOMAIN row :
            row[f] = IF f \in DOMAIN new /\ new[f] # old[f] THEN new[f] ELSE current[f]
  OBVIOUS
<1> HIDE DEF row
<1> QED  BY <1>1, <1>2

\* What is loaded is seen, and is as it is seen.
LEMMA LoadedRule ==
  ASSUME IInv, NEW s \in Sessions, NEW key \in Of(View(s), "rule"), AdviceAssumption
  PROVE  /\ StampOk(View(s)[key], started)
         /\ NotBefore(View(s)[key].approved, View(s)[key].approved)
<1>1. StampOk(View(s)[key], started) /\ started \in Nat /\ NONE \notin Nat
  BY SeenRule DEF IInv, AdviceAssumption
<1> QED  BY <1>1 DEF StampOk, NotBefore

\* An approved rule that the rerun sees is passed over.
LEMMA DraftRuleKeeps ==
  ASSUME IInv, NEW s \in Sessions, DraftRule(s), AdviceAssumption
  PROVE  Keeps
<1> DEFINE r == sess[s]
           D == draft[s]
           V == View(s)
           key == Rule(CandidateSpecs[r.n])
           after == [r EXCEPT !.pc = "proposal", !.loaded = {}]
           new == [status |-> Evaluation(s), run |-> r.run]
           first == [status |-> Evaluation(s), run |-> r.run, approved |-> NONE]
           loaded == IF Sees(s, key) THEN {V[key]} ELSE {}
           wants == [r EXCEPT !.want = key, !.loaded = loaded]
           q == [after EXCEPT !.want = NONE]
<1>0. r.pc = "rule" /\ r.n <= Len(CandidateSpecs) /\ RuleOk(r, D, V, db, started)
  BY RuleIs DEF DraftRule, At
<1>1. \/ /\ r.want = NONE
         /\ IF Sees(s, key) /\ Reviewed(V[key]) THEN Local(s, after) ELSE Local(s, wants)
      \/ r.loaded = {} /\ FlushNew(s, first, after)
      \/ \E old \in r.loaded : UpdateChanged(s, old, new, after)
  BY DEF DraftRule, candidate_specs
<1>2. /\ DOMAIN new = {"status", "run"} /\ new.status # "APPROVED"
      /\ DOMAIN first = RuleColumns /\ first.status # "APPROVED" /\ first.approved = NONE
  BY EvaluationIs DEF RuleColumns
<1>3. key[1] = "rule"
  BY DEF Rule
<1>4. Overlay(D, V, db) /\ (Sees(s, key) <=> key \in DOMAIN V)
  BY ViewIs DEF Sees, View
<1>5. key = Rule(CandidateSpecs[r.n])
  OBVIOUS
<1>6. \A old \in loaded : key \in DOMAIN V /\ old = V[key]
  BY <1>4
<1> HIDE DEF r, D, V, key, new, first, loaded
<1>7. Shape(r, RuleFields) /\ r.kind = "candidates" /\ r.n \in Nat
  BY <1>0 DEF RuleOk, RuleWant
<1>8. /\ Shape(after, RuleFields) /\ after.pc = "proposal" /\ after.kind = r.kind
      /\ after.begun = r.begun /\ after.n = r.n /\ after.want = r.want /\ after.loaded = {}
  BY <1>7 DEF Shape, RuleFields
<1>9. /\ Shape(wants, RuleFields) /\ wants.pc = r.pc /\ wants.kind = r.kind
      /\ wants.begun = r.begun /\ wants.n = r.n /\ wants.want = key /\ wants.loaded = loaded
  BY <1>7 DEF Shape, RuleFields
<1> HIDE DEF after, wants
<1>10. /\ Shape(q, RuleFields) /\ q.pc = "proposal" /\ q.kind = r.kind
       /\ q.begun = r.begun /\ q.n = r.n /\ q.want = NONE /\ q.loaded = {}
       /\ q = [after EXCEPT !.want = NONE]
  BY <1>8 DEF Shape, RuleFields
<1> HIDE DEF q
<1>11. RuleWant(wants) /\ RuleWant(q)
  BY <1>0, <1>5, <1>7, <1>9, <1>10 DEF RuleWant
<1>12. CASE r.want = NONE /\ Local(s, after)
  <2>1. RuleWant(after) /\ after.want = NONE
    BY <1>7, <1>8, <1>12 DEF RuleWant
  <2> QED  BY <1>0, <1>7, <1>8, <1>12, <2>1, RuleLocal DEF r, D, V
<1>13. ASSUME NEW old \in loaded
       PROVE  /\ StampOk(old, started) /\ key \in Of(V, "rule")
              /\ NotBefore(V[key].approved, old.approved)
  <2>1. key \in Of(V, "rule") /\ old = V[key]
    BY <1>3, <1>6 DEF Of
  <2> QED  BY <2>1, LoadedRule DEF V
<1>14. CASE /\ r.want = NONE /\ Local(s, wants)
            /\ ~(Sees(s, key) /\ Reviewed(V[key]))
  <2>1. ASSUME NEW k \in Approvals(r), k = key
        PROVE  Overwrites(r, D, k) \/ NoLonger(db[k], r.begun[k].approved)
    <3>1. key \in DOMAIN db
      BY <1>0, <2>1 DEF RuleOk, Approvals, Of
    <3>2. CASE key \in DOMAIN D
      BY <2>1, <3>2 DEF Overwrites
    <3>3. CASE key \notin DOMAIN D
      BY <1>4, <1>14, <2>1, <3>1, <3>3 DEF Overlay, Reviewed, NoLonger
    <3> QED  BY <3>2, <3>3
  <2>2. \A old \in wants.loaded :
           /\ StampOk(old, started) /\ wants.want \in Of(V, "rule")
           /\ NotBefore(V[wants.want].approved, old.approved)
    BY <1>9, <1>13
  <2>3. wants.want = key /\ wants.n \in Nat
    BY <1>7, <1>9
  <2> QED  BY <1>0, <1>9, <1>11, <1>14, <2>1, <2>2, <2>3, RuleLocal DEF r, D, V
<1>15. r.want = NONE \/ r.want = key
  BY <1>0, <1>5 DEF RuleOk, RuleWant
<1>16. CASE FlushNew(s, first, after)
  <2>1. key \notin DOMAIN V =>
           /\ StampOk(first, started) /\ RestoresNone(key, first)
           /\ key \in DOMAIN db => NotBefore(first.approved, db[key].approved)
    <3>1. StampOk(first, started) /\ RestoresNone(key, first)
      BY <1>2 DEF StampOk, RestoresNone, NoLonger
    <3> QED  BY <1>4, <3>1 DEF Overlay
  <2>2. /\ RuleOk(sess[s], draft[s], View(s), db, started)
        /\ sess[s].want = NONE \/ sess[s].want = key
        /\ q.kind = sess[s].kind /\ q.begun = sess[s].begun /\ q.n \in Nat
    BY <1>0, <1>7, <1>10, <1>15 DEF r, D, V
  <2>3. key[1] = "rule" /\ (FlushNew(s, first, after) => key \notin DOMAIN View(s)) =>
           /\ StampOk(first, started) /\ RestoresNone(key, first)
           /\ key \in DOMAIN db => NotBefore(first.approved, db[key].approved)
    BY <1>16, <2>1 DEF V
  <2>4. IInv /\ AdviceAssumption
    OBVIOUS
  <2>5. FlushUpdate(s, first, after) \/ FlushNew(s, first, after)
    BY <1>16
  <2>6. key[1] \in {"rule", "proposal"}
    BY <1>3
  <2>7. q = [after EXCEPT !.want = NONE] /\ Shape(q, RuleFields) /\ q.want = NONE /\ RuleWant(q) /\ q.loaded = {}
    BY <1>10, <1>11
  <2> QED  BY <2>2, <2>3, <2>4, <2>5, <2>6, <2>7, RuleWritten
<1>17. ASSUME NEW old \in r.loaded, UpdateChanged(s, old, new, after) PROVE Keeps
  <2>1. r.want = key
    BY <1>15, <1>17 DEF UpdateChanged, r
  <2>2. key \in Of(V, "rule") /\ StampOk(V[key], started)
    BY <1>0, <1>17, <2>1, LoadedRule DEF RuleOk, V
  <2>3. PICK row : /\ FlushUpdate(s, row, after) /\ DOMAIN row = DOMAIN V[key]
                   /\ \A f \in DOMAIN row :
                        row[f] = IF f \in DOMAIN new /\ new[f] # old[f] THEN new[f]
                                 ELSE V[key][f]
    BY <1>17, <2>1, UpdateIs DEF r, V
  <2>4. DOMAIN row = RuleColumns
    BY <2>2, <2>3 DEF StampOk
  <2>5. /\ row.approved = V[key].approved
        /\ row.status # "APPROVED" \/ row.status = V[key].status
    BY <1>2, <2>3, <2>4 DEF RuleColumns
  <2>6. /\ StampOk(row, started) /\ RestoresNone(key, row)
        /\ key \in DOMAIN db => NotBefore(row.approved, db[key].approved)
    BY <2>2, <2>4, <2>5, RuleRewritten DEF V
  <2>7. /\ RuleOk(sess[s], draft[s], View(s), db, started)
        /\ sess[s].want = NONE \/ sess[s].want = key
        /\ q.kind = sess[s].kind /\ q.begun = sess[s].begun /\ q.n \in Nat
    BY <1>0, <1>7, <1>10, <2>1 DEF r, D, V
  <2>8. key[1] = "rule" /\ (FlushNew(s, row, after) => key \notin DOMAIN View(s)) =>
           /\ StampOk(row, started) /\ RestoresNone(key, row)
           /\ key \in DOMAIN db => NotBefore(row.approved, db[key].approved)
    BY <2>6
  <2>9. IInv /\ AdviceAssumption
    OBVIOUS
  <2>10. FlushUpdate(s, row, after) \/ FlushNew(s, row, after)
    BY <2>3
  <2>11. key[1] \in {"rule", "proposal"}
    BY <1>3
  <2>12. q = [after EXCEPT !.want = NONE] /\ Shape(q, RuleFields) /\ q.want = NONE /\ RuleWant(q) /\ q.loaded = {}
    BY <1>10, <1>11
  <2> QED  BY <2>7, <2>8, <2>9, <2>10, <2>11, <2>12, RuleWritten
<1> QED  BY <1>1, <1>12, <1>14, <1>16, <1>17

\* A proposal is replaced; no rule is.
LEMMA DraftProposalKeeps ==
  ASSUME IInv, NEW s \in Sessions, DraftProposal(s), AdviceAssumption
  PROVE  Keeps
<1> DEFINE r == sess[s]
           D == draft[s]
           V == View(s)
           key == Proposal(CandidateSpecs[r.n])
           after == [r EXCEPT !.pc = "rule", !.n = @ + 1, !.loaded = {}]
           row == [decision |-> IF Evaluation(s) = "BACKTESTED" THEN "APPROVE" ELSE "REJECT",
                   run |-> r.run]
           loaded == IF Sees(s, key) THEN {V[key]} ELSE {}
           wants == [r EXCEPT !.want = key, !.loaded = loaded]
           q == [after EXCEPT !.want = NONE]
<1>0. r.pc = "proposal" /\ RuleOk(r, D, V, db, started)
  BY RuleIs DEF DraftProposal, At
<1>1. \/ r.want = NONE /\ Local(s, wants)
      \/ r.loaded = {} /\ FlushNew(s, row, after)
      \/ \E old \in r.loaded : UpdateChanged(s, old, row, after)
  BY DEF DraftProposal, candidate_specs
<1>2. key[1] = "proposal" /\ key = Proposal(CandidateSpecs[r.n])
  BY DEF Proposal
<1> HIDE DEF r, D, V, key, row, loaded
<1>3. Shape(r, RuleFields) /\ r.kind = "candidates" /\ r.n \in Nat
  BY <1>0 DEF RuleOk, RuleWant
<1>4. /\ Shape(after, RuleFields) /\ after.pc = "rule" /\ after.kind = r.kind
      /\ after.begun = r.begun /\ after.n = r.n + 1 /\ after.want = r.want /\ after.loaded = {}
  BY <1>3 DEF Shape, RuleFields
<1>5. /\ Shape(wants, RuleFields) /\ wants.pc = r.pc /\ wants.kind = r.kind
      /\ wants.begun = r.begun /\ wants.n = r.n /\ wants.want = key
  BY <1>3 DEF Shape, RuleFields
<1> HIDE DEF after, wants
<1>6. /\ Shape(q, RuleFields) /\ q.pc = "rule" /\ q.kind = r.kind
      /\ q.begun = r.begun /\ q.n = r.n + 1 /\ q.want = NONE /\ q.loaded = {}
      /\ q = [after EXCEPT !.want = NONE]
  BY <1>4 DEF Shape, RuleFields
<1> HIDE DEF q
<1>7. RuleWant(wants) /\ RuleWant(q) /\ q.n \in Nat
  BY <1>0, <1>2, <1>3, <1>5, <1>6 DEF RuleWant
<1>8. CASE r.want = NONE /\ Local(s, wants)
  <2>1. \A k \in Approvals(r) : k # wants.want
    BY <1>0, <1>2, <1>5 DEF RuleOk, Approvals, Of
  <2>2. wants.pc \notin {"rule", "review"} /\ wants.n \in Nat
    BY <1>0, <1>3, <1>5
  <2> QED  BY <1>0, <1>5, <1>7, <1>8, <2>1, <2>2, RuleLocal DEF r, D, V
<1>9. ASSUME NEW row2, FlushUpdate(s, row2, after) \/ FlushNew(s, row2, after)
      PROVE  Keeps
  <2>1. RuleOk(sess[s], draft[s], View(s), db, started)
    BY <1>0 DEF r, D, V
  <2>2. sess[s].want = NONE \/ sess[s].want = key
    BY <1>0, <1>2 DEF RuleOk, RuleWant, r
  <2>3. q.kind = sess[s].kind /\ q.begun = sess[s].begun
    BY <1>6 DEF r
  <2>4. key[1] = "rule" /\ (FlushNew(s, row2, after) => key \notin DOMAIN View(s)) =>
           /\ StampOk(row2, started) /\ RestoresNone(key, row2)
           /\ key \in DOMAIN db => NotBefore(row2.approved, db[key].approved)
    BY <1>2
  <2>5. key[1] \in {"rule", "proposal"}
    BY <1>2
  <2>6. q = [after EXCEPT !.want = NONE] /\ Shape(q, RuleFields) /\ q.want = NONE /\ q.loaded = {}
    BY <1>6
  <2>7. RuleWant(q) /\ q.n \in Nat
    BY <1>7
  <2>8. IInv /\ AdviceAssumption
    OBVIOUS
  <2>9. FlushUpdate(s, row2, after) \/ FlushNew(s, row2, after)
    BY <1>9
  <2> QED  BY <2>1, <2>2, <2>3, <2>4, <2>5, <2>6, <2>7, <2>8, <2>9, RuleWritten
<1>10. CASE FlushNew(s, row, after)
  BY <1>9, <1>10
<1>11. ASSUME NEW old \in r.loaded, UpdateChanged(s, old, row, after) PROVE Keeps
  <2>1. PICK row2 : FlushUpdate(s, row2, after)
    BY <1>11, UpdateIs
  <2> QED  BY <1>9, <2>1
<1> QED  BY <1>1, <1>8, <1>10, <1>11

LEMMA AllDraftedKeeps ==
  ASSUME IInv, NEW s \in Sessions, AllDrafted(s), AdviceAssumption
  PROVE  Keeps
<1> DEFINE r == sess[s]
           q == [r EXCEPT !.pc = "commit"]
<1>0. /\ r.pc = "rule" /\ r.n > Len(CandidateSpecs) /\ Local(s, q)
      /\ RuleOk(r, draft[s], View(s), db, started)
  BY RuleIs DEF AllDrafted, At
<1> HIDE DEF r
<1>1. Shape(r, RuleFields) /\ r.kind = "candidates" /\ r.n \in Nat /\ r.want = NONE
  <2>1. Shape(r, RuleFields) /\ r.n \in Nat /\ RuleWant(r)
    BY <1>0 DEF RuleOk
  <2>2. Len(CandidateSpecs) \in Nat
    BY DEF AdviceAssumption
  <2> QED  BY <1>0, <2>1, <2>2 DEF RuleWant
<1>2. /\ Shape(q, RuleFields) /\ q.pc = "commit" /\ q.kind = r.kind /\ q.begun = r.begun
      /\ q.n = r.n /\ q.want = NONE
  BY <1>1 DEF Shape, RuleFields
<1> HIDE DEF q
<1>3. RuleWant(q)
  BY <1>2 DEF RuleWant
<1> QED  BY <1>0, <1>1, <1>2, <1>3, RuleLocal DEF r

\* What was loaded is a rule of some earlier instant: its time of approval is not
\* after the one that is seen now.
LEMMA ReviewRuleKeeps ==
  ASSUME IInv, NEW s \in Sessions, ReviewRule(s), AdviceAssumption
  PROVE  Keeps
<1> DEFINE r == sess[s]
           D == draft[s]
           V == View(s)
           key == CHOOSE k \in DOMAIN r.begun : TRUE
           approved == r.verdict = "APPROVED"
           after == [r EXCEPT !.pc = "commit", !.loaded = {}]
           new(old) == [status |-> r.verdict,
                        approved |-> IF approved THEN started ELSE old.approved]
           wants == [r EXCEPT !.want = key, !.loaded = {V[key]}]
           q == [after EXCEPT !.want = NONE]
<1>0. r.pc = "review" /\ RuleOk(r, D, V, db, started) /\ Overlay(D, V, db)
  BY RuleIs, ViewIs DEF ReviewRule, At
<1>1. \/ Rollback(s)
      \/ r.want = NONE /\ Local(s, wants)
      \/ \E old \in r.loaded : UpdateChanged(s, old, new(old), after)
  BY DEF ReviewRule
<1>2. \A old : /\ DOMAIN new(old) = {"status", "approved"} /\ new(old).status = r.verdict
               /\ new(old).approved = IF r.verdict = "APPROVED" THEN started ELSE old.approved
  OBVIOUS
<1>3. key = CHOOSE k \in DOMAIN r.begun : TRUE
  OBVIOUS
<1> HIDE DEF r, D, V, key, new
<1>4. Shape(r, RuleFields) /\ r.kind = "review" /\ r.n \in Nat
  BY <1>0 DEF RuleOk, RuleWant
<1>5. PICK k : DOMAIN r.begun = {k}
  BY <1>0, <1>4 DEF RuleOk
<1>6. DOMAIN r.begun = {key} /\ key \in Of(V, "rule") /\ key[1] = "rule"
  <2>1. key = k
    BY <1>3, <1>5
  <2>2. key \in Of(db, "rule")
    BY <1>0, <1>5, <2>1 DEF RuleOk
  <2> QED  BY <1>0, <1>5, <2>1, <2>2 DEF Overlay, Of
<1>7. r.want \in {NONE, key}
  BY <1>0, <1>4, <1>6 DEF RuleOk, RuleWant
<1>8. /\ Shape(after, RuleFields) /\ after.pc = "commit" /\ after.kind = r.kind
      /\ after.begun = r.begun /\ after.n = r.n /\ after.want = r.want /\ after.loaded = {}
  BY <1>4 DEF Shape, RuleFields
<1>9. /\ Shape(wants, RuleFields) /\ wants.pc = r.pc /\ wants.kind = r.kind
      /\ wants.begun = r.begun /\ wants.n = r.n /\ wants.want = key /\ wants.loaded = {V[key]}
  BY <1>4 DEF Shape, RuleFields
<1> HIDE DEF after, wants
<1>10. /\ Shape(q, RuleFields) /\ q.pc = "commit" /\ q.kind = r.kind
       /\ q.begun = r.begun /\ q.n = r.n /\ q.want = NONE /\ q.loaded = {}
       /\ q = [after EXCEPT !.want = NONE]
  BY <1>8 DEF Shape, RuleFields
<1> HIDE DEF q
<1>11. RuleWant(wants) /\ RuleWant(q)
  BY <1>0, <1>4, <1>6, <1>9, <1>10 DEF RuleWant
<1>12. CASE r.want = NONE /\ Local(s, wants)
  <2>1. StampOk(V[key], started) /\ NotBefore(V[key].approved, V[key].approved)
    BY <1>6, LoadedRule DEF V
  <2>2. \A old \in wants.loaded :
           /\ StampOk(old, started) /\ wants.want \in Of(V, "rule")
           /\ NotBefore(V[wants.want].approved, old.approved)
    BY <1>6, <1>9, <2>1
  <2>3. wants.kind # "candidates" /\ wants.n \in Nat
    BY <1>4, <1>9
  <2> QED  BY <1>0, <1>9, <1>11, <1>12, <2>2, <2>3, RuleLocal DEF r, D, V
<1>13. ASSUME NEW old \in r.loaded, UpdateChanged(s, old, new(old), after) PROVE Keeps
  <2>1. r.want = key
    BY <1>7, <1>13 DEF UpdateChanged, r
  <2>2. StampOk(V[key], started) /\ StampOk(old, started) /\ NotBefore(V[key].approved, old.approved)
    BY <1>0, <1>6, <1>13, <2>1, LoadedRule DEF RuleOk, V
  <2>3. PICK row : /\ FlushUpdate(s, row, after) /\ DOMAIN row = DOMAIN V[key]
                   /\ \A f \in DOMAIN row :
                        row[f] = IF f \in DOMAIN new(old) /\ new(old)[f] # old[f] THEN new(old)[f]
                                 ELSE V[key][f]
    BY <1>13, <2>1, UpdateIs DEF r, V
  <2>4. DOMAIN row = RuleColumns
    BY <2>2, <2>3 DEF StampOk
  <2>5. /\ row.approved = IF new(old).approved # old.approved THEN new(old).approved
                          ELSE V[key].approved
        /\ row.status = r.verdict \/ row.status = V[key].status
    BY <1>2, <2>3, <2>4 DEF RuleColumns
  <2>6. \/ /\ row.approved = V[key].approved
           /\ row.status # "APPROVED" \/ row.status = V[key].status
        \/ row.approved = started
    <3>1. CASE approved /\ old.approved # started
      BY <1>2, <2>5, <3>1
    <3>2. CASE approved /\ old.approved = started
      <4>1. started \in Nat /\ NONE \notin Nat
        BY DEF IInv, AdviceAssumption
      <4>2. V[key].approved = started
        BY <2>2, <3>2, <4>1 DEF StampOk, NotBefore
      <4> QED  BY <1>2, <2>5, <3>2, <4>2
    <3>3. CASE ~approved
      BY <1>2, <2>5, <3>3
    <3> QED  BY <3>1, <3>2, <3>3
  <2>7. /\ StampOk(row, started) /\ RestoresNone(key, row)
        /\ key \in DOMAIN db => NotBefore(row.approved, db[key].approved)
    BY <1>6, <2>4, <2>6, RuleRewritten DEF V
  <2>8. /\ RuleOk(sess[s], draft[s], View(s), db, started)
        /\ sess[s].want = NONE \/ sess[s].want = key
        /\ q.kind = sess[s].kind /\ q.begun = sess[s].begun /\ q.n \in Nat
    BY <1>0, <1>4, <1>10, <2>1 DEF r, D, V
  <2>9. key[1] = "rule" /\ (FlushNew(s, row, after) => key \notin DOMAIN View(s)) =>
           /\ StampOk(row, started) /\ RestoresNone(key, row)
           /\ key \in DOMAIN db => NotBefore(row.approved, db[key].approved)
    BY <2>7
  <2>10. IInv /\ AdviceAssumption
    OBVIOUS
  <2>11. FlushUpdate(s, row, after) \/ FlushNew(s, row, after)
    BY <2>3
  <2>12. key[1] \in {"rule", "proposal"}
    BY <1>6
  <2>13. q = [after EXCEPT !.want = NONE] /\ Shape(q, RuleFields) /\ q.want = NONE /\ RuleWant(q) /\ q.loaded = {}
    BY <1>10, <1>11
  <2> QED  BY <2>8, <2>9, <2>10, <2>11, <2>12, <2>13, RuleWritten
<1>14. CASE Rollback(s)
  BY <1>14, RollbackKeeps
<1> QED  BY <1>1, <1>12, <1>13, <1>14

LEMMA FinishOtherKeeps ==
  ASSUME IInv, NEW s \in Sessions, FinishOther(s), AdviceAssumption
  PROVE  Keeps
  BY CommitKeeps DEF FinishOther, At, Finished

-----------------------------------------------------------------------------
(* The invariant.                                                          *)

LEMMA StepKeeps ==
  ASSUME IInv, Next, ForecastsAssumption, AdviceAssumption
  PROVE  Keeps
<1>1. PICK s \in Sessions : Begin(s) \/ Proceed(s) \/ DeadlockVictim(s) \/ Crash(s)
  BY DEF Next
<1>2. CASE Begin(s)
  <2>1. CASE BeginForecast(s)
    BY <2>1, PublishKeeps, BeginEstimateKeeps, BeginBacktestKeeps, RecordMultipleKeeps,
       BeginBandKeeps, BeginValuationKeeps DEF BeginForecast
  <2>2. CASE BeginThesis(s) \/ BeginWatch(s) \/ BeginAdvice(s) \/ RecordReview(s)
    BY <2>2, BeginThesisKeeps, BeginWatchKeeps, BeginAdviceKeeps, RecordReviewKeeps
  <2>3. CASE BeginCandidates(s) \/ BeginRuleReview(s)
    BY <2>3, BeginCandidatesKeeps, BeginRuleReviewKeeps
  <2> QED  BY <1>2, <2>1, <2>2, <2>3 DEF Begin
<1>3. CASE Proceed(s)
  <2>1. CASE ForecastProceed(s)
    BY <2>1, ReadResultsKeeps, ReadSignalsKeeps, UseFeaturesKeeps, WriteEstimateKeeps,
       ListActualsKeeps, NextActualKeeps, WriteScoreKeeps, AllScoredKeeps, ReadClosesKeeps,
       WriteBandKeeps, LatestFinancialKeeps, TtmEarningsKeeps, ReadMultipleKeeps,
       WriteValuationKeeps, FinishForecastKeeps DEF ForecastProceed
  <2>2. CASE CheckEvidence(s) \/ AppendThesis(s) \/ SetWatch(s)
    BY <2>2, CheckEvidenceKeeps, AppendThesisKeeps, SetWatchKeeps
  <2>3. CASE \/ Universe(s) \/ ReadThesis(s) \/ ReadValuation(s) \/ ReadEstimate(s)
             \/ Decide(s) \/ FinishAdvice(s)
    BY <2>3, UniverseKeeps, ReadThesisKeeps, ReadValuationKeeps, ReadEstimateKeeps,
       DecideKeeps, FinishAdviceKeeps
  <2>4. CASE DraftRule(s) \/ DraftProposal(s) \/ AllDrafted(s) \/ ReviewRule(s)
    BY <2>4, DraftRuleKeeps, DraftProposalKeeps, AllDraftedKeeps, ReviewRuleKeeps
  <2>5. CASE FinishOther(s)
    BY <2>5, FinishOtherKeeps
  <2> QED  BY <1>3, <2>1, <2>2, <2>3, <2>4, <2>5 DEF Proceed
<1>4. CASE DeadlockVictim(s) \/ Crash(s)
  BY <1>4, RollbackKeeps DEF DeadlockVictim, Crash
<1> QED  BY <1>1, <1>2, <1>3, <1>4

LEMMA StutterKeeps ==
  ASSUME IInv, UNCHANGED txvars
  PROVE  Keeps
<1>1. db' = db /\ draft' = draft /\ sess' = sess /\ started' = started
  BY DEF txvars
<1>2. \A s \in Sessions : View(s)' = View(s)
  BY <1>1 DEF View
<1>3. DraftsDisjoint'
  BY <1>1 DEF IInv, DraftsDisjoint
<1>4. IInv'
  BY <1>1, <1>2, <1>3 DEF IInv
<1>5. RecordsStandStep
  BY <1>1, NothingRewritten
<1> QED  BY <1>4, <1>5 DEF Keeps

LEMMA InitIInv ==
  ASSUME Init, AdviceAssumption
  PROVE  IInv
<1>1. PICK rows \in Past : InitTransactions(rows)
  BY DEF Init
<1>2. /\ db = rows /\ started = 0 /\ Consistent(rows)
      /\ \A k \in Of(rows, "rule") : rows[k].approved \in {NONE, 0}
      /\ draft = [s \in Sessions |-> Nothing] /\ sess = [s \in Sessions |-> Idle]
  BY <1>1 DEF InitTransactions, AdviceAssumption
<1>3. DOMAIN Nothing = {} /\ Idle.pc = "idle"
  BY DEF Nothing, Idle
<1>4. DraftsDisjoint
  BY <1>2, <1>3 DEF DraftsDisjoint
<1>5. \A k \in Of(db, "rule") : StampOk(db[k], started)
  BY <1>2 DEF Consistent, Stamped, StampOk
<1>6. ASSUME NEW s \in Sessions
      PROVE  Ok(sess[s], draft[s], View(s), db, started) /\ Sound(draft[s], View(s), db)
  <2>1. sess[s] = Idle /\ draft[s] = Nothing
    BY <1>2
  <2>2. Sound(draft[s], View(s), db)
    BY <1>2, <1>3, <2>1, EmptyIsSound, ViewIs DEF Consistent
  <2> QED  BY <1>3, <2>1, <2>2 DEF Ok
<1>7. \A s, t \in Sessions : Answers(sess[s], draft[t], db)
  BY <1>2, <1>3 DEF Answers
<1> QED  BY <1>2, <1>4, <1>5, <1>6, <1>7 DEF IInv

LEMMA Invariance == Spec => []IInv
<1>1. Init => IInv
  BY InitIInv, AdviceAssumption
<1>2. IInv /\ [Next]_txvars => IInv'
  BY StepKeeps, StutterKeeps, ForecastsAssumption, AdviceAssumption DEF Keeps
<1> QED  BY <1>1, <1>2, PTL DEF Spec

\* Every command of research and advice, and every import, verification and sync that
\* commits meanwhile, leaves a database that the next commands may start from.
THEOREM ResearchStaysConsistent == Spec => []Consistent(db)
<1>1. IInv => Consistent(db)
  BY DEF IInv
<1> QED  BY <1>1, Invariance, PTL

\* An earlier instant is of no later day, and an earlier day ends no later.
LEMMA DaysInOrder ==
  ASSUME NEW a \in Nat, NEW b \in Nat, a <= b, ForecastsAssumption
  PROVE  /\ Day(a) \in Nat /\ Day(b) \in Nat /\ Day(a) <= Day(b)
         /\ \A d \in 0..Day(b) : DayEnd(d) \in Int /\ DayEnd(d) <= DayEnd(Day(b))
<1> DEFINE n == DayLength
<1>1. n \in Nat /\ n >= 1
  BY DEF ForecastsAssumption
<1> HIDE DEF n
<1>2. \A x \in Nat : x \div n \in Nat /\ n * (x \div n) <= x /\ x < n * (x \div n) + n
  BY <1>1
<1>3. ASSUME NEW d \in Nat, NEW e \in Nat, d <= e PROVE n * d <= n * e
  BY <1>1, <1>3
<1>4. a \div n <= b \div n
  <2> SUFFICES ASSUME (b \div n) + 1 <= a \div n PROVE FALSE
    BY <1>2
  <2>1. n * ((b \div n) + 1) <= n * (a \div n)
    BY <1>2, <1>3
  <2>2. n * ((b \div n) + 1) = n * (b \div n) + n
    BY <1>1, <1>2
  <2> QED  BY <1>1, <1>2, <2>1, <2>2
<1>5. ASSUME NEW d \in 0..Day(b)
      PROVE  DayEnd(d) \in Int /\ DayEnd(d) <= DayEnd(Day(b))
  <2> DEFINE last == Day(b)
  <2>1. last \in Nat
    BY <1>2 DEF Day, n
  <2>2. d \in 0..last
    BY <1>5
  <2> HIDE DEF last
  <2>3. d \in Nat /\ d + 1 \in Nat /\ last + 1 \in Nat /\ d + 1 <= last + 1
    BY <2>1, <2>2
  <2>4. n * (d + 1) <= n * (last + 1)
    BY <1>3, <2>3
  <2>5. n * (d + 1) = (d + 1) * n /\ n * (last + 1) = (last + 1) * n
    BY <1>1, <2>3
  <2>6. DayEnd(d) = (d + 1) * n - 1 /\ DayEnd(Day(b)) = (last + 1) * n - 1
    BY DEF DayEnd, n, last
  <2>7. n * (d + 1) \in Int /\ n * (last + 1) \in Int
    BY <1>1, <2>3
  <2> QED  BY <2>4, <2>5, <2>6, <2>7
<1> QED  BY <1>2, <1>4, <1>5 DEF Day, n

\* No estimate or valuation that was committed rests on anything later than its
\* instant, closes and what a multiple was measured by than its day: what
\* list_by_company_as_of, get_matching, historical-pe-band-run and valuation-run read
\* is bounded by it, in a reused snapshot as in a new one, and through the band that
\* made a multiple, whatever is published or dated anew while they read.
THEOREM NothingFromTheFuture == Spec => []PointInTime
<1>1. ASSUME Consistent(db) PROVE PointInTime
  <2>1. Timely(db) /\ \A k \in Of(db, "result") : db[k].available \in Nat
    BY <1>1 DEF Consistent
  <2>2. ASSUME NEW e \in Of(db, "estimate"), NEW u \in db[db[e].features].points
        PROVE  u.result[2] < db[e].period /\ u.available <= db[e].cutoff
    BY <2>1 DEF Timely
  <2>3. ASSUME NEW v \in Of(db, "valuation")
        PROVE  LET at == db[v].as_of
                   multiple == db[db[v].multiple]
               IN  /\ \A t, u \in db[v].results : t.result[3] = u.result[3] /\ u.available <= at
                   /\ multiple.available <= at
                   /\ db[v].day <= Day(at)
                   /\ \A u \in multiple.used :
                         u[1] <= Day(at) /\ u[2].available <= DayEnd(Day(at))
    <3> DEFINE at == db[v].as_of
               m == db[v].multiple
    <3>1. /\ at \in Nat /\ db[v].day <= Day(at)
          /\ \A t, u \in db[v].results : t.result[3] = u.result[3] /\ u.available <= at
          /\ m \in Of(db, "multiple") /\ db[m].effective <= at /\ db[m].available <= at
      BY <2>1 DEF Timely
    <3>2. /\ db[m].effective \in Nat
          /\ \A u \in db[m].used :
                /\ u[1] \in 0..Day(db[m].effective)
                /\ u[2].available \in Nat /\ u[2].available <= DayEnd(u[1])
      BY <2>1, <3>1 DEF Timely
    <3> HIDE DEF at, m
    <3>3. ASSUME NEW u \in db[m].used
          PROVE  u[1] <= Day(at) /\ u[2].available <= DayEnd(Day(at))
      <4>1. /\ Day(db[m].effective) \in Nat /\ Day(at) \in Nat
            /\ Day(db[m].effective) <= Day(at)
            /\ \A d \in 0..Day(at) : DayEnd(d) \in Int /\ DayEnd(d) <= DayEnd(Day(at))
        BY <3>1, <3>2, DaysInOrder, ForecastsAssumption
      <4>2. u[1] \in 0..Day(at) /\ u[2].available \in Nat /\ u[2].available <= DayEnd(u[1])
        BY <3>2, <4>1
      <4>3. /\ DayEnd(u[1]) \in Int /\ DayEnd(u[1]) <= DayEnd(Day(at))
            /\ DayEnd(Day(at)) \in Int
        BY <4>1, <4>2
      <4> QED  BY <4>1, <4>2, <4>3
    <3> QED  BY <3>1, <3>3 DEF at, m
  <2> QED  BY <2>2, <2>3 DEF PointInTime
<1> QED  BY <1>1, ResearchStaysConsistent, PTL

\* run-backtest cuts each estimate off before anything of its quarter was available, of
\* what stood when it began and stands still; and get_matching gives an estimate no
\* snapshot but one of the results that were found for it.
THEOREM BacktestsAreBlind == Spec => []ScoredBlind
<1>1. IInv => ScoredBlind
  <2> SUFFICES ASSUME IInv, NEW s \in Sessions,
                      At(s, "score") \/ (At(s, "commit") /\ sess[s].kind = "estimate")
               PROVE  /\ Cites(View(s)[sess[s].features].points) \in Cited(sess[s].fingerprint)
                      /\ \A k \in sess[s].untouched :
                            k[2] = sess[s].period => db[k].available > sess[s].cutoff
    BY DEF ScoredBlind
  <2> DEFINE r == sess[s]
             V == View(s)
             key == Features(r.period, r.cutoff, r.fingerprint)
  <2>1. r.pc = "score" \/ (r.pc = "commit" /\ r.kind = "estimate")
    BY DEF At
  <2>2. Ok(r, draft[s], V, db, started) /\ Timely(V)
    BY DEF IInv, Sound
  <2> HIDE DEF r, V
  <2>3. EstimateOk(r, draft[s], V, db)
    BY <2>1, <2>2, StepsOf DEF Ok
  <2>4. Chosen(r) /\ r.features = key /\ key \in DOMAIN V
    BY <2>1, <2>3 DEF EstimateOk, Snapped
  <2>5. key[1] = "features" /\ key[4] = r.fingerprint
    BY DEF Features
  <2> HIDE DEF key
  <2>6. Cites(V[r.features].points) \in Cited(r.fingerprint)
    <3>1. key \in Of(V, "features")
      BY <2>4, <2>5 DEF Of
    <3>2. Cites(V[key].points) \in Cited(key[4])
      BY <2>2, <3>1 DEF Timely
    <3> QED  BY <2>4, <2>5, <3>2
  <2>7. \A k \in r.untouched : k[2] = r.period => db[k].available > r.cutoff
    BY <2>1, <2>3 DEF EstimateOk, Blind
  <2> QED  BY <2>6, <2>7 DEF r, V
<1> QED  BY <1>1, Invariance, PTL

\* current_recommendations decides on every symbol of a run that is kept, to buy, add,
\* reduce or avoid only on evidence that supports it, whatever theses, valuations and
\* risks are committed between its reads.
THEOREM AdviceStaysSupported == Spec => []AdviceIsSupported
<1>1. Consistent(db) => AdviceIsSupported
  BY DEF Consistent, AdviceIsSupported
<1> QED  BY <1>1, ResearchStaysConsistent, PTL

\* No theses, snapshots, estimates, scores, multiples, valuations, decisions or reviews
\* are ever rewritten, and a rerun of the candidate rules (create_or_replace_draft)
\* writes over no approval that it found and that still stands when it commits.
THEOREM RecordsAreKept == Spec => RecordsStand
<1>1. IInv /\ [Next]_txvars => [RecordsStandStep]_txvars
  BY StepKeeps, ForecastsAssumption, AdviceAssumption DEF Keeps
<1> QED  BY <1>1, Invariance, PTL DEF Spec, RecordsStand

=============================================================================
