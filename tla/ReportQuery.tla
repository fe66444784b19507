---------------------------- MODULE ReportQuery ----------------------------
(***************************************************************************)
(* A report's query as models/report.js describes it while it is built: how *)
(* complex it is, how fast it is expected to be, and its conditions, which  *)
(* nest in groups.  Every step adds to the query; columns are added eight  *)
(* at a time, so that scores of 10 and 25 are met in a few steps.  A step    *)
(* sets query_config anew, on which all of the model's @computed values      *)
(* depend: what they would still hold after a group of conditions, or the    *)
(* columns of a join, were changed in place, is not modelled.                *)
(***************************************************************************)
EXTENDS Naturals, SequencesExt

CONSTANTS MaxColumns, MaxJoins, MaxConditions

VARIABLE query

vars == <<query>>

Empty == [columns |-> 0, joins |-> <<>>, conditions |-> <<>>, groupBy |-> FALSE]

(* A condition in the making has no field or no operator yet. *)
Condition(id, complete) == [id |-> id, complete |-> complete, group |-> FALSE, conditions |-> <<>>]
Group(id) == [id |-> id, complete |-> FALSE, group |-> TRUE, conditions |-> <<>>]

-----------------------------------------------------------------------------
SumOf(seq) == FoldLeft(LAMBDA a, b : a + b, 0, seq)

TotalSelectedColumns == query.columns + SumOf(query.joins)

HasConditions == query.conditions # <<>>

(* The lists of conditions to be walked: groups nest in groups, no deeper. *)
Within(lists) == lists \cup UNION {{c.conditions : c \in ToSet(list)} : list \in lists}
Lists(conditions) == Within(Within(Within({conditions})))

(* Mutant: a group counts as one condition. *)
CountConditions_Flat(conditions) == Len(conditions)

CountConditions(conditions) ==
    LET count[list \in Lists(conditions)] ==
            SumOf([i \in DOMAIN list |-> IF list[i].group THEN count[list[i].conditions] ELSE 1])
    IN count[conditions]

ConditionsCount == IF HasConditions THEN CountConditions(query.conditions) ELSE 0

(* extractConditionsSummary: the groups are walked in place. *)
ConditionsSummary(conditions) ==
    LET summary[list \in Lists(conditions)] ==
            FoldLeft(LAMBDA before, c :
                         before \o (IF c.group THEN summary[c.conditions]
                                    ELSE IF c.complete THEN <<c.id>> ELSE <<>>),
                     <<>>, list)
    IN summary[conditions]

Score ==
    TotalSelectedColumns + 3 * Len(query.joins) + 2 * ConditionsCount + (IF query.groupBy THEN 5 ELSE 0)

Complexity == IF Score < 10 THEN "simple" ELSE IF Score < 25 THEN "moderate" ELSE "complex"

(* Mutant: a simple query of few columns is fast, and any other one with few joins moderate. *)
EstimatedPerformance_ByJoins ==
    IF Complexity = "simple" /\ TotalSelectedColumns <= 5 THEN "fast"
    ELSE IF Len(query.joins) <= 2 /\ Complexity # "simple" THEN "moderate"
    ELSE "slow"

EstimatedPerformance ==
    IF Complexity = "simple" /\ TotalSelectedColumns <= 10 THEN "fast"
    ELSE IF Complexity = "moderate" /\ Len(query.joins) <= 2 THEN "moderate"
    ELSE "slow"

-----------------------------------------------------------------------------
(* The query builder. *)
Size(conditions) ==
    LET size[list \in Lists(conditions)] ==
            SumOf([i \in DOMAIN list |-> 1 + size[list[i].conditions]])
    IN size[conditions]

Items == Size(query.conditions)

AddColumns(n) == query.columns + n <= MaxColumns /\ query' = [query EXCEPT !.columns = @ + n]

AddJoin(n) == Len(query.joins) < MaxJoins /\ query' = [query EXCEPT !.joins = Append(@, n)]

AddCondition(new) == Items < MaxConditions /\ query' = [query EXCEPT !.conditions = Append(@, new)]

AddToGroup(i, new) ==
    /\ Items < MaxConditions /\ query.conditions[i].group
    /\ query' = [query EXCEPT !.conditions[i].conditions = Append(@, new)]

AddToInnerGroup(i, j, new) ==
    /\ Items < MaxConditions /\ query.conditions[i].conditions[j].group
    /\ query' = [query EXCEPT !.conditions[i].conditions[j].conditions = Append(@, new)]

GroupBy == ~query.groupBy /\ query' = [query EXCEPT !.groupBy = TRUE]

Init == query = Empty

Next ==
    \/ GroupBy
    \/ AddColumns(8)
    \/ \E n \in {0, 3} : AddJoin(n)
    \/ \E new \in {Condition(Items, TRUE), Condition(Items, FALSE), Group(Items)} :
           \/ AddCondition(new)
           \/ \E i \in DOMAIN query.conditions :
                  \/ AddToGroup(i, new)
                  \/ \E j \in DOMAIN query.conditions[i].conditions : AddToInnerGroup(i, j, new)

-----------------------------------------------------------------------------
TypeOK ==
    /\ query.columns \in 0 .. MaxColumns /\ query.joins \in Seq(Nat) /\ Items <= MaxConditions

Ranks == [simple |-> 0, moderate |-> 1, complex |-> 2, fast |-> 0, slow |-> 2]

(* Adding to a query never makes it look simpler, nor faster (complexity,    *)
(* estimatedPerformance).                                                    *)
MoreIsNoSimpler ==
    /\ Ranks[Complexity'] >= Ranks[Complexity]
    /\ Ranks[EstimatedPerformance'] >= Ranks[EstimatedPerformance]

(* All the conditions there are, each with the number it was added as. *)
AllConditions ==
    LET inner(c) == {c} \cup ToSet(c.conditions)
        outer == UNION {inner(c) : c \in ToSet(query.conditions)}
    IN {c \in outer \cup UNION {ToSet(c.conditions) : c \in outer} : ~c.group}

(* However deep they are nested, every condition counts once, and every      *)
(* complete one is in the summary, once (countConditionsRecursively,         *)
(* extractConditionsSummary).                                                *)
EveryConditionCounts ==
    LET summary == ConditionsSummary(query.conditions)
    IN /\ ConditionsCount = Cardinality(AllConditions)
       /\ IsInjective(summary)
       /\ ToSet(summary) = {c.id : c \in {x \in AllConditions : x.complete}}
=============================================================================
