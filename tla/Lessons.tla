------------------------------- MODULE Lessons --------------------------------
(***************************************************************************)
(* The lessons of the cockpit: which concept the server asks about         *)
(* (src/src/learning.mjs, snooze.mjs, server.mjs), what an answer or a     *)
(* "not now" changes, and the Knowledge Debt it amounts to (state.mjs).    *)
(* Hooks expose concepts meanwhile.  Confidence is in hundredths; the time *)
(* since an answer is known by the limits it is compared with; a card is   *)
(* the concept it asks about.                                              *)
(***************************************************************************)
EXTENDS Integers, Sequences, FiniteSets, FiniteSetsExt, SequencesExt

CONSTANTS Catalog,     \* the concepts, in the order of the catalog
          Risk,        \* the risk of each, 1 to 5
          Fallback,    \* 'testing'
          Missing,     \* null
          Snoozes,     \* whether the user says "not now"
          Early,       \* whether the user answers before any concept was exposed
          MaxEvidence, \* 8: the answers to a concept that weigh on its debt
          MaxWrong,    \* bound of the wrong answers to a concept
          MaxSessions  \* bound of the sessions of the project

Concepts == ToSet(Catalog)
LessonsAssumption ==
  /\ IsInjective(Catalog) /\ Risk \in [Concepts -> 1..5] /\ Fallback \in Concepts /\ Missing \notin Concepts
  /\ {Snoozes, Early} \subseteq BOOLEAN /\ {MaxEvidence, MaxWrong, MaxSessions} \subseteq Nat

VARIABLES entry,    \* state.ledger
          events,   \* events of each concept in the latest session, counted to 4
          order,    \* its concepts, first seen first
          sessions, \* how many sessions there were
          shown     \* the card in the browser
vars == <<entry, events, order, sessions, shown>>

Limits == <<0, 2, 5, 10, 30, 360, 1440>>   \* minutes
Never == Len(Limits) + 1                   \* minutesSince: Infinity
Minutes(age) == IF age = Never THEN 100000 ELSE Limits[age]
Unseen == [exposed |-> FALSE, correct |-> 0, wrong |-> 0, confidence |-> 0, age |-> Never, snoozed |-> FALSE]
Checks(e) == Min({MaxEvidence, e.correct + e.wrong})

-----------------------------------------------------------------------------
(* selectLearningCard                                                      *)

NextReview(confidence) == CASE confidence < 35 -> 5 [] confidence \in 35..64 -> 30
                            [] confidence \in 65..84 -> 360 [] confidence > 84 -> 1440
Due(e) == Minutes(e.age) >= NextReview(e.confidence)
Penalty(e) == CASE Minutes(e.age) < 2 -> 800 [] Minutes(e.age) \in 2..9 -> 300 [] OTHER -> 0
Score(c) ==
  LET e == entry[c]
  IN Risk[c] * (100 + 2 * (100 - e.confidence)) + (IF events[c] > 0 THEN 800 ELSE 0) + 100 * events[c]
     + (IF Due(e) THEN 200 ELSE -200) - Penalty(e)
\* The sort is stable: of equal scores the first in the pool.
Best(pool) == pool[CHOOSE i \in DOMAIN pool :
  /\ \A j \in DOMAIN pool : Score(pool[j]) <= Score(pool[i])
  /\ \A j \in 1..(i - 1) : Score(pool[j]) < Score(pool[i])]
Selected(pool) == IF pool = <<>> THEN Fallback ELSE Best(pool)

\* taskConceptAvailability, learningForState
Available == SelectSeq(order, LAMBDA c : ~entry[c].snoozed)
Known == SelectSeq(Catalog, LAMBDA c : entry[c].exposed)
Paused == order # <<>> /\ Available = <<>>
Card == IF Paused THEN Missing ELSE Selected(IF order = <<>> THEN Known ELSE Available)

\* computeMetrics
DebtOf(c) == IF entry[c].exposed THEN (Checks(entry[c]) * Risk[c] * (100 - entry[c].confidence) + 50) \div 100 ELSE 0
Debt == MapThenSumSet(DebtOf, Concepts)

-----------------------------------------------------------------------------
\* A hook event of the latest session, or of a new one, exposes a concept.
Expose(c) ==
  /\ events' = [events EXCEPT ![c] = Min({4, @ + 1})]
  /\ order' = IF events[c] = 0 THEN Append(order, c) ELSE order
  /\ entry' = [entry EXCEPT ![c].exposed = TRUE]
  /\ UNCHANGED <<sessions, shown>>
NewSession ==
  /\ sessions < MaxSessions /\ sessions' = sessions + 1
  /\ events' = [c \in Concepts |-> 0] /\ order' = <<>> /\ UNCHANGED <<entry, shown>>

Poll == shown' = Card /\ UNCHANGED <<entry, events, order, sessions>>
Right(e) == [e EXCEPT !.correct = Min({MaxEvidence, @ + 1}), !.age = 1, !.snoozed = FALSE,
                      !.confidence = Min({100, @ + (IF @ < 50 THEN 34 ELSE 18)})]
Wrong(e) == [e EXCEPT !.wrong = @ + 1, !.age = 1, !.snoozed = FALSE, !.confidence = Max({0, @ - 8})]
MayAnswer == shown # Missing /\ (Early \/ entry[shown].exposed)
AnswerRight == MayAnswer /\ entry' = [entry EXCEPT ![shown] = Right(@)] /\ UNCHANGED <<events, order, sessions, shown>>
AnswerWrong == /\ MayAnswer /\ entry[shown].wrong < MaxWrong
               /\ entry' = [entry EXCEPT ![shown] = Wrong(@)] /\ UNCHANGED <<events, order, sessions, shown>>
PutOff(e, on) == [e EXCEPT !.snoozed = on]
Snooze(c, on) == /\ Snoozes /\ entry[c].snoozed # on /\ (on => c = shown)
                 /\ entry' = [entry EXCEPT ![c] = PutOff(@, on)] /\ shown' = Missing /\ UNCHANGED <<events, order, sessions>>
Expire(c) == entry[c].snoozed /\ entry' = [entry EXCEPT ![c].snoozed = FALSE] /\ UNCHANGED <<events, order, sessions, shown>>
Age(c) == entry[c].age < Len(Limits) /\ entry' = [entry EXCEPT ![c].age = @ + 1] /\ UNCHANGED <<events, order, sessions, shown>>

Init == /\ entry = [c \in Concepts |-> Unseen] /\ events = [c \in Concepts |-> 0]
        /\ order = <<>> /\ sessions = 1 /\ shown = Missing
Next == \/ NewSession \/ Poll \/ AnswerRight \/ AnswerWrong
        \/ \E c \in Concepts : Expose(c) \/ Expire(c) \/ Age(c) \/ \E on \in BOOLEAN : Snooze(c, on)
Spec == Init /\ [][Next]_vars

\* The browser polls, and the user answers what is shown.
Fairness == WF_vars(Poll) /\ WF_vars(AnswerRight)

-----------------------------------------------------------------------------
\* The type of every variable; the concepts of a session are those with events.
TypeOK ==
  /\ \A c \in Concepts : /\ entry[c].confidence \in 0..100 /\ entry[c].age \in 1..Never
                         /\ entry[c].age = Never <=> Checks(entry[c]) = 0
  /\ events \in [Concepts -> 0..4] /\ ToSet(order) = {c \in Concepts : events[c] > 0} /\ IsInjective(order)
  /\ shown \in Concepts \cup {Missing}

\* A concept answered less than two minutes ago is not asked about again while the
\* task has one that was never checked.
AsksAnother == \A c, d \in Concepts :
  events[c] > 0 /\ events[d] > 0 /\ entry[c].age = 1 /\ entry[d].age = Never /\ ~entry[d].snoozed => Card # c

\* Knowledge Debt changes by answers about concepts the work has exposed: neither an
\* exposure nor a lesson put off changes it.
OnlyAnswersMoveDebt ==
  Debt' # Debt => AnswerRight \/ AnswerWrong

\* A wrong answer never lowers Knowledge Debt.
WrongCosts ==
  AnswerWrong => Debt' >= Debt

\* Every concept of the task is asked about in the end, to a user who answers right
\* whenever it suits him: none is left behind by the others for good.
EachChecked == \A c \in Concepts : (events[c] > 0) ~> (Checks(entry[c]) > 0)
=============================================================================
