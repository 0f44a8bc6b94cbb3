------------------------------- MODULE RestAPI -------------------------------
(***************************************************************************)
(* The REST API one resource type lives behind, as internal/restexec and   *)
(* internal/dynserver use it.  It is outside the repository: nothing is    *)
(* assumed of it but what the provider's code relies on.                   *)
(*                                                                         *)
(* An object is known by the serial number of its creation, so a name that *)
(* is created, deleted and created again stands for two objects.  An API   *)
(* addresses objects either by a name the user chose (Named, GitHub's      *)
(* /repos/{owner}/{repo}) or by an identifier it assigned itself.          *)
(***************************************************************************)
EXTENDS Naturals

CONSTANTS
    MaxObjs,        \* bound: how many objects the API ever creates
    Named,          \* objects are addressed by a unique, user-chosen name
    Async,          \* writes are accepted with a job that finishes later
    ErrorStatuses,  \* the HTTP error statuses the API may answer with
    OddBodies       \* how a body may disappoint: subset of OddBody

OddBody == {"nil", "cut", "mistyped"}

ASSUME APIAssumption ==
    /\ MaxObjs \in Nat
    /\ Named \in BOOLEAN
    /\ Async \in BOOLEAN
    /\ Async => Named
    /\ ErrorStatuses \subseteq 400..599
    /\ OddBodies \subseteq OddBody

VARIABLES
    live,   \* the objects that exist
    made,   \* how many were ever created
    job     \* the last accepted asynchronous write

apiVars == <<live, made, job>>

Ids == 1..MaxObjs

\* "none" is the identifier no object has: 0.
IdOrNone == 0..MaxObjs

Writes == {"POST", "PATCH", "DELETE"}

Methods == Writes \cup {"GET", "POLL"}

Jobs == {"none", "creating", "updating", "succeeded", "failed"}

\* What a response body says: a representation of the object, the state of a
\* job, nothing, bytes that cannot be read or parsed, or JSON of another shape.
Bodies == OddBody \cup {"json", "pending", "succeeded", "failed"}

Reply == [status : {200} \cup ErrorStatuses, body : Bodies, id : IdOrNone]

APITypeOK ==
    /\ live \subseteq 1..made
    /\ made \in IdOrNone
    /\ job \in Jobs

APIInit ==
    /\ live = {}
    /\ made = 0
    /\ job = "none"

\* The objects a request addressed to id reaches.
Target(id) == IF Named THEN live ELSE live \cap {id}

JobRunning == job \in {"creating", "updating"}

\* Whether the API is able to carry out request m on id.
Admits(m, id) ==
    CASE m = "POST"  -> made < MaxObjs /\ (Named => live = {}) /\ ~JobRunning
      [] m = "PATCH" -> Target(id) # {} /\ ~JobRunning
      [] m = "POLL"  -> job # "none"
      [] OTHER       -> Target(id) # {}

MakeObject ==
    /\ made' = made + 1
    /\ live' = live \cup {made + 1}

\* The effect of an accepted write.
Effect(m, id) ==
    \/ /\ m = "POST" /\ ~Async
       /\ MakeObject
       /\ UNCHANGED job
    \/ /\ m = "POST" /\ Async
       /\ job' = "creating"
       /\ UNCHANGED <<live, made>>
    \/ /\ m = "PATCH"
       /\ job' = IF Async THEN "updating" ELSE job
       /\ UNCHANGED <<live, made>>
    \/ /\ m = "DELETE"
       /\ live' = live \ Target(id)
       /\ UNCHANGED <<made, job>>

\* The body of a successful answer to m.
SaysOf(m) ==
    IF m = "POLL" THEN IF JobRunning THEN "pending" ELSE job ELSE "json"

\* The object a successful answer to m describes, 0 when it describes none.
Described(m, id) ==
    IF m = "POST" /\ ~Async THEN {made + 1}
    ELSE IF m \in {"GET", "PATCH"} THEN Target(id) ELSE {0}

\* What an honest 404 says: the thing addressed does not exist.  (A POST
\* addresses the parent collection, which is not modelled.)
Missing(m, id) ==
    /\ m \in {"GET", "PATCH", "DELETE"} => Target(id) = {}
    /\ m = "POLL" => job = "none"

\* The API answers request m on id with r; effect tells whether the request
\* was carried out.  A refusal (4xx) changes nothing; a 5xx may hide an
\* effect: a gateway that gave up on a backend that did not.
Answers(m, id, r, effect) ==
    /\ \/ /\ effect
          /\ m \in Writes
          /\ Admits(m, id)
          /\ Effect(m, id)
       \/ /\ ~effect
          /\ UNCHANGED apiVars
    /\ \/ /\ r.status = 200
          /\ Admits(m, id)
          /\ m \in Writes => effect
          /\ r.body \in OddBodies \cup {SaysOf(m)}
          /\ r.id \in Described(m, id)
       \/ /\ r.status # 200
          /\ r.id = 0
          /\ r.body \in {"json"} \cup (OddBodies \cap {"cut"})
    /\ r.status \in 400..499 => ~effect
    /\ r.status = 404 => Missing(m, id)

\* A running job finishes, with or without its object.
JobEnds ==
    \/ /\ job = "creating" /\ made < MaxObjs /\ live = {}
       /\ job' = "succeeded"
       /\ MakeObject
    \/ /\ JobRunning
       /\ job' = "failed"
       /\ UNCHANGED <<live, made>>
    \/ /\ job = "updating"
       /\ job' = "succeeded"
       /\ UNCHANGED <<live, made>>

\* Somebody else deletes an object.
OutOfBandDelete ==
    /\ \E i \in live : live' = live \ {i}
    /\ UNCHANGED <<made, job>>

=============================================================================
