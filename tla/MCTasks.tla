------------------------------ MODULE MCTasks ------------------------------
EXTENDS Tasks

\* The timer, and the first line of the second controller.
MCLines == {0, 8}
=============================================================================
