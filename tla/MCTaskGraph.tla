----------------------------- MODULE MCTaskGraph -----------------------------
(* Small instances of TaskGraph for TLC.                                   *)
EXTENDS TaskGraph, TLC

CONSTANTS join, gather, relay, pass, num, text, b1, b2, b3

Value(T) == [kind |-> "value", type |-> T]
Db(T) == [kind |-> "db", type |-> T]
List(T) == [kind |-> "list", type |-> T]

\* join takes two datablocks and returns one; gather has a value that is no
\* datablock, one datablock and a list; relay takes one and returns one; pass takes
\* a list only and hands it on.
MCSig ==
    [f \in Fns |->
        CASE f = join   -> [params |-> << Db(num), Db(num) >>, returns |-> num]
          [] f = gather -> [params |-> << Value(text), Db(num), List(num) >>, returns |-> Void]
          [] f = pass   -> [params |-> << List(num) >>, returns |-> Void]
          [] f = relay  -> [params |-> << Db(num) >>, returns |-> num]]

\* b3 has a type of its own.
MCBlockType == [b \in Blocks |-> IF b = b3 THEN text ELSE num]

\* How the tests create events with labels, and two mistakes.
MCLabelFlags == { {"labeled"}, {"labeled", "check"}, {"labeled", "block"}, {"block"} }

None == {}

Symmetric ==
    Permutations(Tasks \ {Main}) \cup Permutations(Blocks \ {b3})
        \cup Permutations(Labels) \cup Permutations(EventIds \ Labels)
=============================================================================
