-------------------------------- MODULE Events --------------------------------
(***************************************************************************)
(* The OCR events behind the event classes of ocxxr (OnceEvent,            *)
(* IdempotentEvent, StickyEvent, LatchEvent, CountedEvent, ChannelEvent).  *)
(* The runtime is not part of the repository: how an event behaves is      *)
(* modelled from the programs that use it; which event a class asks for,   *)
(* with which parameters and slots, is translated from the classes.        *)
(*                                                                         *)
(* An event is a record: its type; data, the T of Event<T>; count, the     *)
(* number its class was given; counter, what became of that number in the  *)
(* runtime; payloads, all it was ever triggered with, of which the first   *)
(* base belong to earlier events with the same label; dependents, how many *)
(* slots have been attached to it, of a type that counts them; source,     *)
(* what it depends on itself; ups and downs, the calls of Up and Down.     *)
(***************************************************************************)
EXTENDS Integers, Sequences

CONSTANTS
    NullGuid,       \* NULL_GUID
    Hole,           \* UNINITIALIZED_GUID
    Void            \* the T of control-only events

Types == {"once", "idempotent", "sticky", "latch", "counted", "channel"}

Absent ==
    [type |-> "absent", data |-> Void, count |-> 0, counter |-> 0, base |-> 0,
     payloads |-> << >>, dependents |-> 0, source |-> Hole, ups |-> 0, downs |-> 0]

\* Mutant of Created: MakeParams leaves the count out.
CreatedWithoutCount(old, type, data, count) ==
    [Absent EXCEPT !.type = type, !.data = data, !.count = count,
                   !.base = Len(old.payloads), !.payloads = old.payloads]

\* Event::Init with the parameters of the class, where old is what had the label
\* before: LatchEvent's counter, CountedEvent's nbDeps and ChannelEvent's maxGen.
\* A latch made without a count starts at zero.
Created(old, type, data, count) ==
    [Absent EXCEPT !.type = type,
                   !.data = data,
                   !.count = count,
                   !.counter = IF type \in {"latch", "counted", "channel"} THEN count ELSE 0,
                   !.base = Len(old.payloads),
                   !.payloads = old.payloads]

\* Mutant of ChannelNbDeps: the size of the buffer in its place.
ChannelNbDepsTwo == 2

\* ChannelEvent's nbDeps: each of its payloads is for so many dependents.
ChannelNbDeps == 1

Exists(ev) == ev.type \notin {"absent", "destroyed"}

\* How often it has been triggered.
Triggers(ev) == Len(ev.payloads) - ev.base

Triggered(ev) == Triggers(ev) > 0

\* Which payload a slot gets that is attached to ev now.
Turn(ev) ==
    ev.base + 1 + IF ev.type = "channel" THEN ev.dependents \div ChannelNbDeps ELSE 0

\* The runtime has destroyed the event: it has done its work.
Spent(ev) ==
    \/ ev.type \in {"once", "latch"} /\ Triggered(ev)
    \/ ev.type = "counted" /\ Triggered(ev) /\ ev.dependents >= ev.counter

Live(ev) == Exists(ev) /\ ~ Spent(ev)

Trigger(ev, payload) == [ev EXCEPT !.payloads = Append(@, payload)]

\* A latch whose counter has got to n.
AtCount(ev, n) ==
    LET counted == [ev EXCEPT !.counter = n]
    IN  IF n = 0 THEN Trigger(counted, NullGuid) ELSE counted

\* Mutant of Up: the decrement slot.
UpOnDecrementSlot(ev) == [AtCount(ev, ev.counter - 1) EXCEPT !.ups = @ + 1]

\* LatchEvent::Up and LatchEvent::Down.
Up(ev) == [AtCount(ev, ev.counter + 1) EXCEPT !.ups = @ + 1]

Down(ev) == [AtCount(ev, ev.counter - 1) EXCEPT !.downs = @ + 1]

\* A program may trigger ev: a second trigger is an error, other than for the
\* types made for it, and a channel holds back no more than maxGen payloads.
MayTrigger(ev) ==
    /\ Live(ev)
    /\ \/ ev.type \in {"idempotent", "latch"}
       \/ ev.type = "channel" /\ Triggers(ev) - ev.dependents < ev.counter
       \/ ~ Triggered(ev) /\ ev.source = Hole

\* A program may wait for ev: a once event or a latch may go any time, and counted
\* events and channels are made for a number of waiting slots.
MayAwait(ev) ==
    /\ Exists(ev)
    /\ ev.type \in {"once", "latch"} => ~ Triggered(ev) /\ ev.source = Hole
    /\ ev.type = "counted" => ev.dependents < ev.count
    /\ ev.type = "channel" => ev.dependents - Triggers(ev) < ev.count

\* Slot 0 of an event is triggered: ocrEventSatisfy, or what it depends on has
\* been.  It is the decrement slot of a latch.
Satisfied(ev, payload) ==
    CASE ev.type = "latch" -> IF Triggered(ev) THEN ev ELSE Down(ev)
      [] ev.type = "channel" -> Trigger(ev, payload)
      [] OTHER -> IF Triggered(ev) THEN ev ELSE Trigger(ev, payload)

=============================================================================
