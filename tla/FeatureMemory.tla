---------------------------- MODULE FeatureMemory ------------------------------
(***************************************************************************)
(* What IdleProof remembers of one feature: src/src/feature-memory.mjs,    *)
(* feature-observations.mjs, feature-history.mjs and feature-review.mjs,   *)
(* with the hook, the local server and `idleproof review` that use them.   *)
(* The source takes the versions 1, 2, ... in turn; a version stands for   *)
(* the model built from it: its fingerprint, its snapshot, its observation.*)
(***************************************************************************)
EXTENDS FiniteSetsExt, Naturals, Sequences, SequencesExt

CONSTANTS Contents,   \* the snapshot of each version, a set of names per group
          Unparsed,   \* the versions whose entry file could not be parsed
          Window,     \* OBSERVATION_LIMIT
          Picks,      \* the answers the user gives: "right", "wrong"
          Vias,       \* where reviews are answered: "api", "cli"
          Overlap     \* whether a hook may save while the server answers

Versions == 1..Len(Contents)
Groups == {"story", "routes", "tables", "technologies", "tests"}
FeatureMemoryAssumption ==
  /\ \A v \in Versions : DOMAIN Contents[v] = Groups
  /\ Unparsed \subseteq Versions /\ Window \in Nat \ {0} /\ Window < Len(Contents)
  /\ Picks \subseteq {"right", "wrong"} /\ Vias \subseteq {"api", "cli"} /\ Overlap \in BOOLEAN

VARIABLES code,       \* the version of the source
          memory,     \* the row of the feature in the state file, a sequence of at most one
          archive,    \* the observations that have a file of their own
          held,       \* observations the server keeps from a save that failed
          seen,       \* every version a saved row was observed at
          shown,      \* the question on the screen, and what the user picked
          answering   \* the version of a feature check the server is answering, and its verdict
vars == <<code, memory, archive, held, seen, shown, answering>>

\* -------------------------------------------------- compareFeatureSnapshots
Added(a, b, g) == Contents[b][g] \ Contents[a][g]
Weight == [story |-> 1, routes |-> 4, tables |-> 3, technologies |-> 4, tests |-> 1]
Differences(a, b, g) == Cardinality(Added(a, b, g)) + Cardinality(Added(b, a, g))
Score(a, b) == MapThenSumSet(LAMBDA g : Weight[g] * Differences(a, b, g), Groups)
Level(a, b) ==
  IF Score(a, b) = 0 THEN "none"
  ELSE IF Score(a, b) >= 6 \/ \E g \in {"routes", "tables", "technologies"} : Differences(a, b, g) > 0
  THEN "material" ELSE "minor"

\* --------------------------------------------- rememberFeature, observeFeature
Observed(rows, v) == IF v \in Unparsed \cup ToSet(rows) THEN rows
                     ELSE LET all == Append(rows, v) IN SubSeq(all, IF Len(all) > Window THEN 2 ELSE 1, Len(all))
Base(v) == [at |-> v, from |-> 0, needsRefresh |-> FALSE, confidence |-> 0, answered |-> "never",
            last |-> "none", rows |-> <<>>, archived |-> FALSE]
Row(v) == IF memory = <<>> THEN Base(v) ELSE memory[1]
Remember(row, v) ==
  LET level == Level(row.at, v)
      kept == [row EXCEPT !.at = v, !.rows = Observed(@, v)]
  IN IF level = "none" THEN kept
     ELSE [kept EXCEPT !.from = row.at, !.needsRefresh = TRUE,
                       !.confidence = Min({@, IF level = "material" THEN 65 ELSE 85})]
Staged(row, next) == ToSet(next.rows) \cup (IF row.archived THEN {} ELSE ToSet(row.rows))

\* The observations are written first, then the state: a save may fail after some of them.
Save(next, staged) ==
  /\ archive' = archive \cup staged \cup ToSet(next.rows)
  /\ memory' = <<[next EXCEPT !.archived = TRUE]>>
  /\ seen' = seen \cup ToSet(next.rows)
SaveFails(staged) == \E s \in SUBSET staged : archive' = archive \cup s /\ UNCHANGED <<memory, seen>>

\* ------------------------------------------------------------- the challenges
Nothing == [kind |-> "none", at |-> 0, asks |-> "none", correct |-> "none", resolves |-> FALSE, via |-> "none", pick |-> "none"]
First(s) == CHOOSE x \in s : TRUE
Order == <<"technologies", "routes", "tables", "story">>
DriftTarget(row) == SelectInSeq(Order, LAMBDA g : row.from # 0 /\ Added(row.from, row.at, g) # {})
Boundary(row) == SelectInSeq(Order, LAMBDA g : Contents[row.at][g] # {})
Recall(row, asks, correct, resolves) ==
  [Nothing EXCEPT !.kind = "review", !.at = row.at, !.asks = asks, !.correct = correct, !.resolves = resolves]
\* challengeMaterial: what was added last, while the row needs a refresh; else the first boundary.
Challenge(row) ==
  LET d == IF row.needsRefresh THEN DriftTarget(row) ELSE 0
  IN IF d # 0 THEN Recall(row, "drift", First(Added(row.from, row.at, Order[d])), TRUE)
     ELSE IF Boundary(row) = 0 THEN Nothing
     ELSE Recall(row, Order[Boundary(row)], First(Contents[row.at][Order[Boundary(row)]]), FALSE)
Due(row) == row.needsRefresh \/ row.answered # "lately"
Question(q) == [q EXCEPT !.via = "none", !.pick = "none"]
\* A verdict on the question shown follows the pick; on another, the position of its answer decides.
Verdicts(judged) == IF judged = Question(shown) THEN {shown.pick} ELSE {"right", "wrong"}

Raised(c, low, much, less) == Min({100, c + (IF c < low THEN much ELSE less)})
Lowered(c) == IF c < 8 THEN 0 ELSE c - 8
Scored(row, verdict, raised, resolves) ==
  [row EXCEPT !.confidence = IF verdict = "right" THEN raised ELSE Lowered(@),
              !.needsRefresh = @ /\ ~(verdict = "right" /\ resolves),
              !.answered = "lately", !.last = verdict]
ScoredCheck(row, verdict) == Scored(row, verdict, Raised(row.confidence, 50, 32, 16), TRUE)
ScoredReview(row, verdict) == Scored(row, verdict, Raised(row.confidence, 60, 22, 12), Challenge(row).resolves)

\* ----------------------------------------------------------------- the hook
Free == answering.at = 0
Stop ==
  /\ Overlap \/ Free
  /\ LET next == Remember(Row(code), code) IN Save(next, Staged(Row(code), next))
  /\ UNCHANGED <<code, held, shown, answering>>
StopFails ==
  /\ Overlap \/ Free
  /\ SaveFails(Staged(Row(code), Remember(Row(code), code)))
  /\ UNCHANGED <<code, held, shown, answering>>
Edit == code < Len(Contents) /\ code' = code + 1 /\ UNCHANGED <<memory, archive, held, seen, shown, answering>>

\* ------------------------------------------------- the local server and the CLI
Check(v) == [Nothing EXCEPT !.kind = "check", !.at = v]
Show(q) == shown.pick = "none" /\ shown' = q /\ UNCHANGED <<code, memory, archive, held, seen, answering>>
ShowCheck == Show(Check(code))
ShowReview(via) ==
  /\ memory # <<>> /\ Due(memory[1]) /\ Challenge(memory[1]).kind = "review"
  /\ Show([Challenge(memory[1]) EXCEPT !.via = via])
Pick(pick) ==
  /\ shown.kind # "none" /\ shown.pick = "none" /\ shown' = [shown EXCEPT !.pick = pick]
  /\ UNCHANGED <<code, memory, archive, held, seen, answering>>
Picked(kind) == shown.kind = kind /\ shown.pick # "none"
Done == shown' = Nothing
Refused == Done /\ UNCHANGED <<code, memory, archive, held, seen, answering>>

SameModel == shown.at = code
\* /api/feature-answer builds the model, judges the choice, and only then takes the lock.
CheckRefused == Picked("check") /\ Free /\ ~SameModel /\ Refused
Judge ==
  /\ Picked("check") /\ Free /\ SameModel
  /\ \E verdict \in Verdicts(Check(code)) : answering' = [at |-> code, verdict |-> verdict]
  /\ UNCHANGED <<code, memory, archive, held, seen, shown>>
Remembered == Remember(Row(answering.at), answering.at)
AnswerCheck ==
  /\ ~Free /\ Save(ScoredCheck(Remembered, answering.verdict), held \cup Staged(Row(answering.at), Remembered))
  /\ held' = {} /\ answering' = [at |-> 0, verdict |-> "none"] /\ Done /\ UNCHANGED code
AnswerFails ==
  /\ ~Free /\ LET staged == held \cup Staged(Row(answering.at), Remembered) IN SaveFails(staged) /\ held' = staged
  /\ answering' = [at |-> 0, verdict |-> "none"] /\ Done /\ UNCHANGED code

\* mutant: the identity of the challenge is not compared
AnyChallenge(row) == TRUE
SameChallenge(row) == Challenge(row) = Question(shown)
\* /api/feature-review-answer answers the challenge it is given, `idleproof review --answer` the one due now.
MayAnswer(row) == IF shown.via = "cli" THEN Due(row) /\ Challenge(row).kind = "review" ELSE SameChallenge(row)
ReviewRefused == Picked("review") /\ ~MayAnswer(memory[1]) /\ Refused
AnswerReview ==
  /\ Picked("review") /\ MayAnswer(memory[1])
  /\ \E verdict \in Verdicts(Challenge(memory[1])) :
       LET next == ScoredReview(memory[1], verdict) IN Save(next, IF shown.via = "cli" THEN {} ELSE held)
  /\ held' = (IF shown.via = "cli" THEN held ELSE {}) /\ Done /\ UNCHANGED <<code, answering>>

\* nextFeatureReviewMinutes have passed since the last answer.
Later ==
  /\ memory # <<>> /\ memory[1].answered = "lately" /\ memory' = <<[memory[1] EXCEPT !.answered = "long ago"]>>
  /\ UNCHANGED <<code, archive, held, seen, shown, answering>>

\* A project without memory, or with the rows of a release that had no archive.
Legacy == [Base(Window) EXCEPT !.rows = [i \in 1..Window |-> i]]
Init ==
  /\ \/ memory = <<>> /\ code = 1 /\ seen = {}
     \/ memory = <<Legacy>> /\ code = Window /\ seen = 1..Window
  /\ archive = {} /\ held = {} /\ shown = Nothing /\ answering = [at |-> 0, verdict |-> "none"]
Next ==
  \/ Stop \/ StopFails \/ Edit \/ ShowCheck \/ (\E via \in Vias : ShowReview(via))
  \/ (\E pick \in Picks : Pick(pick)) \/ CheckRefused \/ Judge \/ AnswerCheck \/ AnswerFails
  \/ ReviewRefused \/ AnswerReview \/ Later
Spec == Init /\ [][Next]_vars

\* The user answers what is asked, the commands that were given run, and no disk
\* refuses every save.
Fairness ==
  /\ \A via \in Vias : SF_vars(ShowReview(via))
  /\ \A pick \in Picks : SF_vars(Pick(pick))
  /\ WF_vars(CheckRefused) /\ WF_vars(Judge) /\ SF_vars(AnswerCheck) /\ WF_vars(ReviewRefused) /\ WF_vars(AnswerReview)

\* The row is well formed: at most Window distinct observations, and a confidence
\* of 0 to 100 percent.
TypeOK ==
  /\ code \in Versions /\ Len(memory) <= 1 /\ UNION {archive, held, seen} \subseteq Versions
  /\ \A i \in DOMAIN memory :
       /\ memory[i].at \in Versions /\ memory[i].from \in Versions \cup {0} /\ memory[i].confidence \in 0..100
       /\ Len(memory[i].rows) <= Window /\ IsInjective(memory[i].rows) /\ ToSet(memory[i].rows) \subseteq seen

\* An observation that leaves the window of the state file is in the archive,
\* those of a release without archive included, whichever save failed before
\* (feature-history.mjs: "Preserve those exact pre-mutation records").
ObservationsKept == \A v \in seen : v \in archive \/ (memory # <<>> /\ v \in ToSet(memory[1].rows))

\* A row needs no refresh any more only when the question that was answered is
\* about the recorded model, and no newer model has been recorded.
RefreshEarned ==
  (memory # <<>> /\ memory[1].needsRefresh /\ ~memory'[1].needsRefresh)
       => shown.at = memory'[1].at /\ \A v \in seen : v <= memory'[1].at

\* A right answer to the question on the screen never counts as a wrong one, and
\* a wrong answer never as a right one.
ScoredAsPicked ==
  (shown.pick # "none" /\ shown' = Nothing /\ memory' # memory) => memory'[1].last = shown.pick

\* Whoever answers the reviews of a changed feature right is not asked for ever.
Refreshed == (memory # <<>> /\ memory[1].needsRefresh) ~> (memory # <<>> /\ ~memory[1].needsRefresh)
=============================================================================
