----------------------------- MODULE OrderPromise -----------------------------
(***************************************************************************)
(* What the order desk promises, without its calls, answers and crashes.   *)
(* The user's commands run one at a time.  A command may close the order   *)
(* it names and may open one order, each at most once; a command that      *)
(* replaces an order opens the new one only after it closed the old one.   *)
(* It ends either settled, and then it has had all its effects, or adrift, *)
(* and then the user was told that its outcome is not known.               *)
(***************************************************************************)
CONSTANTS Cmds, OrderIds

VARIABLES
    phase,      \* "idle", "live", "settled" or "adrift", for each command
    kind,       \* what each command is for
    target,     \* the orders each command may close: none or one
    opened,     \* the orders each command opened
    closed      \* the orders each command closed

vars == <<phase, kind, target, opened, closed>>

Kinds == {"open", "close", "replace", "look"}

Init ==
    /\ phase = [c \in Cmds |-> "idle"]
    /\ kind = [c \in Cmds |-> "none"]
    /\ target = [c \in Cmds |-> {}]
    /\ opened = [c \in Cmds |-> {}]
    /\ closed = [c \in Cmds |-> {}]

Targets(k) ==
    IF k \in {"close", "replace"} THEN {{o} : o \in OrderIds} ELSE {{}}

Begin(c) ==
    /\ phase[c] = "idle"
    /\ \A d \in Cmds : phase[d] # "live"
    /\ \E k \in Kinds :
          /\ kind' = [kind EXCEPT ![c] = k]
          /\ \E t \in Targets(k) : target' = [target EXCEPT ![c] = t]
    /\ phase' = [phase EXCEPT ![c] = "live"]
    /\ UNCHANGED <<opened, closed>>

Close(c, o) ==
    /\ phase[c] \in {"live", "adrift"}
    /\ closed[c] = {}
    /\ o \in target[c]
    /\ \E d \in Cmds : o \in opened[d]
    /\ \A d \in Cmds : o \notin closed[d]
    /\ closed' = [closed EXCEPT ![c] = {o}]
    /\ UNCHANGED <<phase, kind, target, opened>>

Open(c, o) ==
    /\ phase[c] \in {"live", "adrift"}
    /\ kind[c] \in {"open", "replace"}
    /\ closed[c] = target[c]
    /\ opened[c] = {}
    /\ \A d \in Cmds : o \notin opened[d]
    /\ opened' = [opened EXCEPT ![c] = {o}]
    /\ UNCHANGED <<phase, kind, target, closed>>

End(c) ==
    /\ phase[c] = "live"
    /\ \E p \in {"settled", "adrift"} : phase' = [phase EXCEPT ![c] = p]
    /\ UNCHANGED <<kind, target, opened, closed>>

Next ==
    \E c \in Cmds :
        \/ Begin(c)
        \/ End(c)
        \/ \E o \in OrderIds : Close(c, o) \/ Open(c, o)

Spec == Init /\ [][Next]_vars
=============================================================================
