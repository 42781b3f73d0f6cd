------------------------------- MODULE Dataflow -------------------------------
(***************************************************************************)
(* What a program may take tasks and events for: a graph of tasks with     *)
(* named inputs.  An input is a datum or a place.  A place holds at most   *)
(* one datum, for good.  A task runs once it has all its inputs and all    *)
(* their places hold something, on exactly these data; so what it gets     *)
(* does not depend on when it runs.                                        *)
(*                                                                         *)
(* There are no slots, guids, events or lists here.                        *)
(***************************************************************************)
CONSTANTS
    Tasks,
    Main,       \* the task that runs at the start
    Places,
    Data

VARIABLES
    phase,      \* phase[t]
    needs,      \* needs[t], the inputs of t
    inputs,     \* inputs[t], for those that have been connected
    args,       \* args[t], what t has been started with
    value       \* value[p], for the places p that hold a datum

vars == << phase, needs, inputs, args, value >>

Available(x) == x \in Data \/ x \in DOMAIN value

Datum(x) == IF x \in Data THEN x ELSE value[x]

Init ==
    /\ phase = [t \in Tasks |-> IF t = Main THEN "running" ELSE "absent"]
    /\ needs = [t \in Tasks |-> {}]
    /\ inputs = [t \in Tasks |-> << >>]
    /\ args = [t \in Tasks |-> << >>]
    /\ value = << >>

Create(t, names, given) ==
    /\ phase[t] = "absent"
    /\ DOMAIN given \subseteq names
    /\ phase' = [phase EXCEPT ![t] = "created"]
    /\ needs' = [needs EXCEPT ![t] = names]
    /\ inputs' = [inputs EXCEPT ![t] = given]
    /\ UNCHANGED << args, value >>

\* More inputs of t are connected; those that are stay.
Connect(t, given) ==
    /\ phase[t] = "created"
    /\ DOMAIN given \subseteq needs[t]
    /\ \A n \in DOMAIN inputs[t] : n \in DOMAIN given /\ given[n] = inputs[t][n]
    /\ inputs' = [inputs EXCEPT ![t] = given]
    /\ UNCHANGED << phase, needs, args, value >>

Cancel(t) ==
    /\ phase[t] = "created"
    /\ DOMAIN inputs[t] # needs[t]
    /\ phase' = [phase EXCEPT ![t] = "destroyed"]
    /\ UNCHANGED << needs, inputs, args, value >>

Put(p, d) ==
    /\ p \notin DOMAIN value
    /\ value' = [q \in DOMAIN value \cup {p} |-> IF q = p THEN d ELSE value[q]]

Run(t) ==
    /\ phase[t] = "created"
    /\ DOMAIN inputs[t] = needs[t]
    /\ \A n \in needs[t] : Available(inputs[t][n])
    /\ phase' = [phase EXCEPT ![t] = "running"]
    /\ args' = [args EXCEPT ![t] = [n \in needs[t] |-> Datum(inputs[t][n])]]
    /\ UNCHANGED << needs, inputs, value >>

End(t) ==
    /\ phase[t] = "running"
    /\ phase' = [phase EXCEPT ![t] = "ended"]
    /\ \/ UNCHANGED value
       \/ \E p \in Places, d \in Data : Put(p, d)
    /\ UNCHANGED << needs, inputs, args >>

Next ==
    \/ \E t \in Tasks :
          \/ Create(t, needs'[t], inputs'[t])
          \/ Connect(t, inputs'[t])
          \/ Cancel(t)
          \/ Run(t)
          \/ End(t)
    \/ /\ \E p \in Places, d \in Data : Put(p, d)
       /\ UNCHANGED << phase, needs, inputs, args >>

Spec == Init /\ [][Next]_vars

=============================================================================
