-------------------------- MODULE MCScheduledTasks --------------------------
EXTENDS ScheduledTasks, TLC

Symmetry == Permutations(Servers)

\* Times of day: the research task, the preflight and the intervals at 1, a
\* cancellation at 2, the end of the day at 3.
SlotOf == [type \in AllTypes |->
             CASE type = "EOD" -> 3 [] type = "CANCEL" -> 2 [] OTHER -> 1]

\* OPENLIST at the start of the day, then one reading later, then in the middle.
OpenSlotOf == [v \in Versions |-> CASE v = 1 -> 0 [] v = 2 -> 1 [] OTHER -> 2]
=============================================================================
