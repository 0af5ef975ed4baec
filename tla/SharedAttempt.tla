--------------------------- MODULE SharedAttempt ---------------------------
(***************************************************************************)
(* What callers that share their attempts are promised: of those that want *)
(* the same thing at the same time one makes the attempt, the others get   *)
(* its result, all of them and no other result.  The ConnectionManager     *)
(* implements it for connections to a peer; the wallet syncs follow the    *)
(* same pattern.                                                           *)
(*                                                                         *)
(* A caller may drop out at any time.  An attempt whose maker dropped out  *)
(* is lost: it has no result, and there is no other attempt at the same    *)
(* thing.                                                                  *)
(***************************************************************************)
CONSTANTS
    Callers,
    Things,       \* what can be attempted
    Outcomes,
    Droppable,    \* the callers that may drop out
    None

VARIABLES
    want,         \* what each caller takes part in an attempt at, or None
    makers,       \* the callers that make an attempt
    answer,       \* the result a caller was given and has not taken yet, or None
    lost          \* the things whose attempt was lost

shared == <<want, makers, answer, lost>>

Init ==
    /\ want = [c \in Callers |-> None]
    /\ makers = {}
    /\ answer = [c \in Callers |-> None]
    /\ lost = {}

UnderWay(x) == x \in lost \/ \E c \in makers : want[c] = x

Join(c, x) ==
    /\ want[c] = None
    /\ want' = [want EXCEPT ![c] = x]
    /\ makers' = IF UnderWay(x) THEN makers ELSE makers \cup {c}
    /\ UNCHANGED <<answer, lost>>

Waits(c, x) == c \notin makers /\ want[c] = x /\ answer[c] = None

\* The attempt ends: its maker returns, and all who wait have the result.
Finish(c, result) ==
    /\ c \in makers
    /\ makers' = makers \ {c}
    /\ want' = [want EXCEPT ![c] = None]
    /\ answer' = [d \in Callers |-> IF Waits(d, want[c]) THEN result ELSE answer[d]]
    /\ UNCHANGED lost

Take(c) ==
    /\ answer[c] # None
    /\ answer' = [answer EXCEPT ![c] = None]
    /\ want' = [want EXCEPT ![c] = None]
    /\ UNCHANGED <<makers, lost>>

DropOut(c) ==
    /\ c \in Droppable /\ want[c] # None
    /\ want' = [want EXCEPT ![c] = None]
    /\ answer' = [answer EXCEPT ![c] = None]
    /\ makers' = makers \ {c}
    /\ lost' = IF c \in makers THEN lost \cup {want[c]} ELSE lost

Next ==
    \E c \in Callers :
        \/ \E x \in Things : Join(c, x)
        \/ \E result \in Outcomes : Finish(c, result)
        \/ Take(c) \/ DropOut(c)

Spec == Init /\ [][Next]_shared
=============================================================================
