-------------------------- MODULE LifecycleContract --------------------------
(***************************************************************************)
(* What the provider promises ubx core, without saying how: core asks, the *)
(* world changes, an answer comes back.  Objects appear only while a       *)
(* create is outstanding; core is told that an object is gone only when it *)
(* is, and is handed the state of an object only when the API made it.     *)
(* A failure promises nothing, which is why core reads after one.          *)
(*                                                                         *)
(* The answers are those of internal/dynserver's RPCs (server.go); the     *)
(* world is the API behind them.                                           *)
(***************************************************************************)
EXTENDS Naturals

VARIABLES
    live,         \* the objects that exist
    made,         \* how many were ever created
    held,         \* the object core has a state for, 0 if none
    busy,         \* the request being served, "none" between requests
    outstanding   \* a create may still take effect

contractVars == <<live, made, held, busy, outstanding>>

Asks == {"create", "update", "destroy", "read", "import"}

Init ==
    /\ live = {}
    /\ made = 0
    /\ held = 0
    /\ busy = "none"
    /\ outstanding = FALSE

\* A create is outstanding from the time it is asked for; once answered it
\* may be over or not, and nobody but the API knows.
Outstanding ==
    /\ busy' = "create" => outstanding'
    /\ outstanding' => outstanding \/ busy' = "create"

Ask(kind) ==
    /\ busy = "none"
    /\ (held = 0) <=> (kind \in {"create", "import"})
    /\ busy' = kind
    /\ Outstanding
    /\ UNCHANGED <<live, made, held>>

ObjectAppears ==
    /\ outstanding
    /\ made' = made + 1
    /\ live' = live \cup {made + 1}
    /\ Outstanding
    /\ UNCHANGED <<held, busy>>

\* A destroy deletes, and so may anybody else.
ObjectGoes ==
    /\ \E i \in live : live' = live \ {i}
    /\ Outstanding
    /\ UNCHANGED <<made, held, busy>>

AnswerState ==
    /\ busy \in Asks \ {"destroy"}
    /\ held' \in 1..made
    /\ busy' = "none"
    /\ Outstanding
    /\ UNCHANGED <<live, made>>

AnswerGone ==
    /\ busy \in {"destroy", "read"}
    /\ held \notin live
    /\ held' = 0
    /\ busy' = "none"
    /\ Outstanding
    /\ UNCHANGED <<live, made>>

AnswerFailure ==
    /\ busy # "none"
    /\ busy' = "none"
    /\ Outstanding
    /\ UNCHANGED <<live, made, held>>

\* An outstanding create turns out to be over.
Settles ==
    /\ Outstanding
    /\ UNCHANGED <<live, made, held, busy>>

Next ==
    \/ \E kind \in Asks : Ask(kind)
    \/ ObjectAppears
    \/ ObjectGoes
    \/ AnswerState
    \/ AnswerGone
    \/ AnswerFailure
    \/ Settles

Spec == Init /\ [][Next]_contractVars
=============================================================================
