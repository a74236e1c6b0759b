------------------------------- MODULE Reports -------------------------------
(***************************************************************************)
(* The reports of the dashboard that read more than once or compute with    *)
(* what they read: the summary of a period beside the one before it and the *)
(* impact of recommendations (analytics_handlers.go, utils/analytics.go),   *)
(* the usage of the month and of the last twelve (dashboard_handler.go).   *)
(*                                                                         *)
(* A number that counts interactions is the set it counts.  Percentages are *)
(* whole numbers of tenths, computed exactly.                              *)
(***************************************************************************)
EXTENDS Tables

CONSTANTS
    Period,       \* days of the period, 7, 30 or 90 in the code
    MinRecs,      \* recommendations an impact needs, 10 in the code
    Dates         \* days on which the history is asked for: month and day

ASSUME ReportsAssumption ==
    /\ Period \in Nat /\ MinRecs \in Nat /\ StartTime >= 2 * Period
    /\ \A p \in DOMAIN Limits : Limits[p] \in Nat \ {0} \/ Limits[p] = Unlimited
    /\ \A d \in Dates : d.month \in Nat /\ d.day \in 1 .. 31

Between(n, since, until) == interactions[n].at \in since .. until
Good(S) == Cardinality({n \in S : interactions[n].good})

(* A handler goes on when a statement fails whose error it does not look at; *)
(* the answer to any other failure is 500.                                  *)
ReportFails ==
    /\ Reading /\ read.kind \in {"summary", "impact"} /\ read.pc \notin {"accuracy", "previous"}
    /\ Answer("error")
    /\ UNCHANGED <<now, data, changes>>

-----------------------------------------------------------------------------
(* AnalyticsPeriodRange: the days up to now, or everything. *)
PeriodStart(period) == IF period = "all" THEN 0 ELSE now - Period

(* Mutant: the period before the one before. *)
PreviousButOne == [since |-> now - 3 * Period, until |-> now - 2 * Period]

(* PreviousPeriodRange, which asks the clock anew. *)
PreviousPeriodRange == [since |-> now - 2 * Period, until |-> now - Period]

StartReport(kind, period, compare) ==
    read' = [pc |-> "plan", kind |-> kind, status |-> "none", period |-> period,
             compare |-> compare /\ period # "all",
             since |-> PeriodStart(period), until |-> now,
             known |-> RowIds, counted |-> {}, accuracy |-> {},
             previous |-> {}, previousSince |-> 0, named |-> {},
             with |-> <<>>, without |-> {}]

(* GetAnalyticsSummaryHandler: the query, *)
StartSummary ==
    /\ read = Idle
    /\ \E period \in {"days", "all", "other"}, compare \in BOOLEAN :
          IF period = "other" THEN Answer("bad_request")
          ELSE StartReport("summary", period, compare)
    /\ UNCHANGED <<now, data, changes>>

(* what the plan of the row shows, *)
SummaryPlan ==
    /\ read.pc = "plan" /\ read.kind = "summary"
    /\ read' = [read EXCEPT !.pc = IF plan = "free" THEN "current" ELSE "current_builder"]
    /\ UNCHANGED <<now, data, changes>>

AfterCurrent  == IF read.pc = "current_builder" THEN "accuracy"
                 ELSE IF read.compare THEN "previous" ELSE "done"
AfterAccuracy == IF read.compare THEN "previous" ELSE "done"

Proceed(r, phase) ==
    read' = IF phase = "done" THEN Answered(r, "ok") ELSE [r EXCEPT !.pc = phase]

(* For all time the totals are summed that the entities carry, and those of  *)
(* the erased are gone; merges recompute and a trigger keeps them.           *)
CountsOfLiving == {n \in RowIds : interactions[n].entity \in LiveEntities}

CurrentPeriod ==
    /\ read.pc \in {"current", "current_builder"}
    /\ Proceed([read EXCEPT !.counted =
                   IF read.period = "all" THEN CountsOfLiving
                   ELSE {n \in RowIds : Between(n, read.since, read.until)}], AfterCurrent)
    /\ UNCHANGED <<now, data, changes>>

(* Recommendations of the period that were followed; an error leaves none. *)
RecommendationAccuracy ==
    /\ read.pc = "accuracy"
    /\ \E accuracy \in {{}, {q \in Recs : /\ recommendations[q].at \in read.since .. read.until
                                          /\ recommendations[q].followed = "yes"
                                          /\ recommendations[q].outcome # 0}} :
          Proceed([read EXCEPT !.accuracy = accuracy], AfterAccuracy)
    /\ UNCHANGED <<now, data, changes>>

(* An error leaves the period before empty. *)
PreviousPeriod ==
    /\ read.pc = "previous"
    /\ \/ LET range == PreviousPeriodRange IN
          read' = Answered([read EXCEPT !.previousSince = range.since,
                     !.previous = {n \in RowIds : Between(n, range.since, range.until)}], "ok")
       \/ Answer("not_compared")
    /\ UNCHANGED <<now, data, changes>>

-----------------------------------------------------------------------------
(* GetRecommendationImpactHandler: not for the free plan. *)
StartImpact ==
    /\ read = Idle
    /\ \E period \in {"days", "all", "other"} :
          IF period = "other" THEN Answer("bad_request")
          ELSE StartReport("impact", period, FALSE)
    /\ UNCHANGED <<now, data, changes>>

ImpactPlan ==
    /\ read.pc = "plan" /\ read.kind = "impact"
    /\ IF plan = "free" THEN Answer("unavailable")
       ELSE read' = [read EXCEPT !.pc = "enough", !.since = PeriodStart(read.period),
                                 !.until = now]
    /\ UNCHANGED <<now, data, changes>>

(* Are there enough recommendations?  An error counts none. *)
EnoughRecommendations ==
    /\ read.pc = "enough"
    /\ LET count == Cardinality({q \in Recs :
                        recommendations[q].at \in read.since .. read.until}) IN
       \/ Answer("insufficient")
       \/ count >= MinRecs /\ read' = [read EXCEPT !.pc = "with"]
    /\ UNCHANGED <<now, data, changes>>

(* The join has an interaction as often as a followed recommendation names it. *)
WithRecommendations ==
    /\ read.pc = "with"
    /\ LET named == {q \in Recs : recommendations[q].followed = "yes"
                                  /\ recommendations[q].outcome # 0} IN
       read' = [read EXCEPT !.pc = "without",
                !.named = {recommendations[q].outcome : q \in named},
                !.with = [q \in {x \in named : Between(recommendations[x].outcome,
                                                       read.since, read.until)}
                              |-> recommendations[q].outcome]]
    /\ UNCHANGED <<now, data, changes>>

(* Mutant: recommendations that were not followed name their outcome, too. *)
NamedByAny == {recommendations[q].outcome : q \in Recs}

NamedByFollowed ==
    {recommendations[q].outcome : q \in {x \in Recs : recommendations[x].followed = "yes"}}

WithoutRecommendations ==
    /\ read.pc = "without"
    /\ read' = Answered([read EXCEPT !.without =
                  {n \in RowIds : Between(n, read.since, read.until)} \ NamedByFollowed], "ok")
    /\ UNCHANGED <<now, data, changes>>

(* Round1 of a percentage. *)
Rate(good, all) == IF all = 0 THEN 0 ELSE (2000 * good + all) \div (2 * all)

(* Mutant: what the others would have had is not rounded down at zero. *)
AdditionalUnclamped(good, all, rate) ==
    IF all > 0 /\ rate > 0 THEN good - (all * rate) \div 1000 ELSE 0

AdditionalSuccesses(good, all, rate) ==
    LET more == good - (all * rate) \div 1000
    IN  IF all > 0 /\ rate > 0 /\ more > 0 THEN more ELSE 0

Impact(r) ==
    LET all     == Cardinality(DOMAIN r.with)
        good    == Cardinality({q \in DOMAIN r.with : interactions[r.with[q]].good})
        without == Rate(Good(r.without), Cardinality(r.without))
    IN  [successes |-> good, improvement |-> Rate(good, all) - without,
         additional |-> AdditionalSuccesses(good, all, without)]

-----------------------------------------------------------------------------
(* Mutant: the percentage is rounded. *)
PercentRounded(count, limit) == IF limit > 0 THEN (2000 * count + limit) \div (2 * limit) ELSE 0

PercentageUsed(count, limit) == IF limit > 0 THEN (1000 * count) \div limit ELSE 0

(* GetMonthlyUsageHandler: one statement. *)
GetMonthlyUsage ==
    /\ read = Idle
    /\ read' = [pc |-> "done", kind |-> "usage", status |-> "ok",
                percent |-> PercentageUsed(resolutions, Limits[plan])]
    /\ UNCHANGED <<now, data, changes>>

(* A month is its number since the year 0. *)
LeapYear(y) == y % 4 = 0 /\ (y % 100 # 0 \/ y % 400 = 0)
DaysIn(m)   == CASE m % 12 = 1 -> IF LeapYear(m \div 12) THEN 29 ELSE 28
                 [] m % 12 \in {3, 5, 8, 10} -> 30
                 [] OTHER -> 31

(* AddDate(0, -i, 0): a day the month does not have is one of the next.      *)
MonthBefore(d, i) == IF d.day > DaysIn(d.month - i) THEN d.month - i + 1 ELSE d.month - i

(* Mutant: the twelve months before this one. *)
MonthsBefore(d) == [k \in 1 .. 12 |-> MonthBefore(d, 13 - k)]

HistoryMonths(d) == [k \in 1 .. 12 |-> MonthBefore(d, 12 - k)]

(* GetHistoricalUsageHandler: the plan decides whether there is an answer; of *)
(* the rows from the first of the months on those are shown that are of one. *)
GetHistoricalUsage ==
    /\ read = Idle
    /\ IF plan = "free" THEN Answer("forbidden")
       ELSE \E d \in Dates : read' = [pc |-> "done", kind |-> "history", status |-> "ok",
                                      today |-> d, months |-> HistoryMonths(d)]
    /\ UNCHANGED <<now, data, changes>>

NextReports ==
    \/ StartSummary \/ SummaryPlan \/ CurrentPeriod \/ RecommendationAccuracy \/ PreviousPeriod
    \/ StartImpact \/ ImpactPlan \/ EnoughRecommendations \/ WithRecommendations \/ WithoutRecommendations
    \/ GetMonthlyUsage \/ GetHistoricalUsage \/ ReportFails

-----------------------------------------------------------------------------
(***************************************************************************)
(* Properties                                                              *)
(***************************************************************************)

(* The two periods of a summary are computed from two readings of the clock  *)
(* and counted at two times: no interaction that was there when the request  *)
(* came falls between them, and for all time only the erased are left out.   *)
SummaryHasNoGap ==
    Finished("summary", "ok") =>
        \A n \in read.known :
            IF read.period = "all"
            THEN n \in read.counted \/ entities[interactions[n].entity].state = "erased"
            ELSE read.compare /\ Between(n, read.previousSince, read.until)
                    => n \in read.counted \cup read.previous

(* Of the interactions of the period, one whose recommendations were not     *)
(* changed between the two statements is counted on exactly one side.       *)
ImpactCountsEach ==
    Finished("impact", "ok") =>
        LET with        == {read.with[q] : q \in DOMAIN read.with}
            Followed(n) == \E q \in Recs : /\ recommendations[q].followed = "yes"
                                           /\ recommendations[q].outcome = n
        IN  \A n \in read.known : Between(n, read.since, read.until)
                                  /\ (n \in read.named <=> Followed(n))
                => (n \in with <=> n \notin read.without)

(* The additional successes reported are among those there were, and none is *)
(* claimed when following recommendations did worse.                        *)
ImpactAgrees ==
    Finished("impact", "ok") =>
        LET impact == Impact(read) IN
        /\ impact.additional \in 0 .. impact.successes
        /\ impact.additional > 0 => impact.improvement >= 0

(* The dashboard says 100 % exactly when the next resolve is refused          *)
(* (core_handlers.go:117).                                                  *)
FullMeansRefused ==
    Finished("usage", "ok") =>
        (read.percent >= 1000 <=> Limits[plan] # Unlimited /\ resolutions >= Limits[plan])

(* dashboard_handler.go:297: on whatever day it is asked for, the history has *)
(* each of the last twelve months that has such a day, in order.             *)
HistoryInOrder ==
    Finished("history", "ok") =>
        /\ \A i \in 0 .. 11 : read.today.day <= DaysIn(read.today.month - i)
              => \E k \in 1 .. 12 : read.months[k] = read.today.month - i
        /\ \A k \in 1 .. 11 : read.months[k] <= read.months[k + 1]
=============================================================================
