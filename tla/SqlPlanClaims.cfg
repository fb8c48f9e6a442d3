SPECIFICATION PlanSpec
CONSTANTS
  MaxDepth = 2
  Settings <- ClaimHash
  Changes <- MCChanges
CHECK_DEADLOCK FALSE
INVARIANT CommentsAreSeenThrough
\* The other claims, one at a time, each with what changes above:
\*   INVARIANT CommentsAreSeenThrough   with   Settings <- ClaimNested
\*   INVARIANT RoutineBodiesWhole   with   Settings <- ClaimTrigger
\*   INVARIANT CommentsAsServer   with   Settings <- ClaimDashes
\*   INVARIANT ConstantTrueFlagged   with   Settings <- ClaimChanges, Changes <- OtherChanges
\*   INVARIANT QueriesSeenThrough   with   Settings <- ClaimChanges
\*   INVARIANT UnflaggedIsSafe   with   Settings <- ClaimChanges
\*   INVARIANT JoinsFlagged   with   Settings <- ClaimChanges, Changes <- Joins
