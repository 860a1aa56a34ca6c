------------------------ MODULE OrderSessionRefinement ------------------------
(***************************************************************************)
(* OrderSession keeps the promise of OrderPromise, against an exchange     *)
(* that refuses to cancel an order that is not open.                       *)
(***************************************************************************)
EXTENDS OrderSession

PhaseOf(v) ==
    CASE v = "none" -> "idle"
      [] v = "running" -> "live"
      [] v \in {"crashed", "invalid"} -> "adrift"
      [] OTHER -> "settled"

KindOf(k) ==
    CASE k = "none" -> "none"
      [] k = "place" -> "open"
      [] k = "cancel" -> "close"
      [] k = "modify" -> "replace"
      [] OTHER -> "look"

TargetOf(cmd) ==
    IF cmd.kind \in {"cancel", "modify"} THEN {cmd.target} ELSE {}

Promise == INSTANCE OrderPromise WITH
    Cmds <- CmdIds,
    phase <- [c \in CmdIds |-> PhaseOf(cmds[c].verdict)],
    kind <- [c \in CmdIds |-> KindOf(cmds[c].kind)],
    target <- [c \in CmdIds |-> TargetOf(cmds[c])],
    opened <- [c \in CmdIds |-> Opened(c)],
    closed <- [c \in CmdIds |-> ClosedBy(c)]

\* Every step of the program, the network and the exchange is one effect of
\* one command, in the order the command promises its effects, or none: no
\* command acts twice, none acts after it was settled, and a modify opens its
\* replacement only after it closed the order it replaces.
KeepsPromise == Promise!Spec
=============================================================================
