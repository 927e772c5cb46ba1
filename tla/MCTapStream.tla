---------------------------- MODULE MCTapStream ----------------------------
(* Instances of TapStream for TLC. *)
EXTENDS TapStream

Item(o, i) == [op |-> o, id |-> i]

\* A checkpoint that is closed in the course of the run, and the next one.
TwoCheckpoints == <<Item("start", 1), Item("set", 1), Item("set", 1), Item("set", 1),
                    Item("end", 1), Item("start", 2), Item("set", 2)>>
=============================================================================
