------------------------------- MODULE MCBackup -------------------------------
\* One event type, three hours of two milliseconds, and the command lines that
\* differ: the weekly one, one by hand that is bounded, and a forced one.
EXTENDS Backup

CONSTANT Transaction

Weekly == [types |-> {Transaction}, since |-> 0, until |-> None, force |-> FALSE, s3 |-> TRUE]
MCRequests == {Weekly, [Weekly EXCEPT !.s3 = FALSE, !.until = 1],
               [Weekly EXCEPT !.force = TRUE, !.since = 1]}
==============================================================================
