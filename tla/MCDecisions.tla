------------------------------ MODULE MCDecisions ------------------------------
EXTENDS Decisions, FiniteSets
AllMessages == {{}, {"cancel"}, {"damage"}, {"late"}, {"refund"}, {"damage", "replace"}, {"cancel", "refund"}}
AIAnswers == {"DAMAGED_ITEM", "CANCELLATION"}
\* The policies the database is seeded with, and an approval of cancellations.
Threshold == [issue |-> "DAMAGED", action |-> "REFUND", limit |-> 10, approval |-> TRUE, recentOnly |-> FALSE, priority |-> 1]
Preference == [issue |-> "DAMAGED", action |-> "REPLACEMENT", limit |-> 0, approval |-> FALSE, recentOnly |-> TRUE, priority |-> 2]
Cancelling == [issue |-> "CANCEL_REQUEST", action |-> "CANCELLATION", limit |-> 0, approval |-> TRUE, recentOnly |-> FALSE, priority |-> 1]
\* Of the first priority, as a refund's default is.
Tied == [Preference EXCEPT !.priority = 1]
Sets == {{}, {Threshold, Preference, Cancelling}, {Tied}}
=============================================================================
