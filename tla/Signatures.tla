------------------------------ MODULE Signatures ------------------------------
(***************************************************************************)
(* What TaskArgInfo, VarArgsInfoHelp, FnInfo and CountMissingDeps of       *)
(* ocxxr-core.hpp compute from the type of a task function.                *)
(*                                                                         *)
(* A signature is the sequence of the function's parameters, each with its *)
(* kind: "value" is any type that is not AcquiredData, "db" a Datablock or *)
(* an Arena, "list" a DatablockList, and with its type: the T of the last  *)
(* two.  Positions count from 0 as in the code.                            *)
(***************************************************************************)
EXTENDS Integers, Sequences

Kinds == {"value", "db", "list"}

\* What the static assertions let through: at most one value, in front, then
\* datablocks, and at most one list, behind.
Legal(sig) ==
    /\ sig \in Seq([kind : Kinds, type : { sig[i].type : i \in DOMAIN sig }])
    /\ \A i \in DOMAIN sig :
          /\ sig[i].kind = "value" => i = 1
          /\ sig[i].kind = "list" => i = Len(sig)

\* kHasParam: the first parameter is no AcquiredData.
HasParam(sig) == sig # << >> /\ sig[1].kind = "value"

\* Mutant of DepStart: it counts dependences, not parameters.
DepStartIgnoringParam(sig) == 0

\* kDepStart: the parameter of the first dependence.
DepStart(sig) == IF HasParam(sig) THEN 1 ELSE 0

HasVarArgs(sig) == sig # << >> /\ sig[Len(sig)].kind = "list"

\* As..., the parameters that VarArgsInfoHelp goes through.
AfterParam(sig) == IF HasParam(sig) THEN Tail(sig) ELSE sig

\* DepsFn: those before the list, kDepCount of them.
DepsFn(sig) ==
    LET args == AfterParam(sig)
    IN  IF HasVarArgs(sig) THEN SubSeq(args, 1, Len(args) - 1) ELSE args

DepCount(sig) == Len(DepsFn(sig))

VarArgsType(sig) == sig[Len(sig)].type

\* FnInfo::Arg<i>.
Arg(sig, i) == sig[i + 1]

\* What Task::DependOn<slot> checks the type of its source against.
ExpectedType(sig, slot) == Arg(sig, slot + DepStart(sig)).type

\* CountMissingDeps for n given dependences: how many holes to add.
MissingDeps(sig, n) == DepCount(sig) - n

\* The number of slots a template fixes, in a set: with variable arguments none.
TemplateDepc(sig, any) == IF HasVarArgs(sig) THEN any ELSE {DepCount(sig)}

=============================================================================
