------------------------------- MODULE BoardView -------------------------------
(***************************************************************************)
(* BoardBag#column_issues: what a column shows, computed from the cached   *)
(* issues, the rows of issue_stats and the manual order column.issues.     *)
(***************************************************************************)
EXTENDS IssueLifecycle

\* BoardBag#issues_by_columns, over a cache that has just been fetched.
IssuesByColumn(c) == {n \in Listed \cap tracked : column[n] = c}

\* Array#uniq: of equal elements the first stays.
WithNew(shown, n) == IF Contains(shown, n) THEN shown ELSE Append(shown, n)

\* The numbers that are in T, each once, in the order they are given in.
Picked(numbers, T) ==
    FoldLeft(LAMBDA shown, n : IF n \in T THEN WithNew(shown, n) ELSE shown,
             <<>>, numbers)

\* BoardBag#ordered_issues: numbers that are not in the column, or archived,
\* are dropped.
OrderedIssues(c, numbers) == Picked(numbers, IssuesByColumn(c) \ archived)

\* BoardBag#missing_issue_numbers; their order is that of the cache.
EveryIssueNumber(c) == SetToSeq(IssuesByColumn(c))                \* mutant
MissingIssueNumbers(c) == SetToSeq(IssuesByColumn(c) \ ToSet(order[c]))

ColumnIssues(c) ==
    OrderedIssues(c, order[c]) \o OrderedIssues(c, MissingIssueNumbers(c))

-----------------------------------------------------------------------------
\* A column shows each of its visible cards exactly once and nothing else,
\* whatever the manual order holds: numbers of cards that left the column,
\* numbers of archived cards, or none of the cards that are there.
ColumnShowsItsCards ==
    \A c \in Columns :
        /\ IsInjective(ColumnIssues(c))
        /\ ToSet(ColumnIssues(c)) = IssuesByColumn(c) \ archived

\* A card moved from its window (move_to/force) comes first in its column,
\* and the other cards of the column keep their manual order.
ForcedMoveComesFirst ==
    [][\A n \in Numbers, c \in Columns :
           Move(n, c, TRUE) /\ n \in (Listed \ archived)'
               => /\ Head(ColumnIssues(c)') = n
                  /\ RemoveFirst(OrderedIssues(c, order[c])', n)
                         = RemoveFirst(OrderedIssues(c, order[c]), n)]_vars
=============================================================================
