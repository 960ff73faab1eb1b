---------------------------- MODULE MCTaskManager ----------------------------
(* Constants of TaskManager for TLC: two tasks of one agent.               *)
EXTENDS TaskManager

CONSTANTS t1, t2, agent, k

OneAgent  == [t \in Tasks |-> agent]
NoKeys    == [t \in Tasks |-> NoKey]
SameKey   == [t \in Tasks |-> k]
SameRank  == [t \in Tasks |-> 1]
FirstHigh == [t \in Tasks |-> IF t = t1 THEN 2 ELSE 1]
=============================================================================
