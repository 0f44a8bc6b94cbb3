------------------------------ MODULE DynServer ------------------------------
(***************************************************************************)
(* internal/dynserver: the tfplugin server's life-cycle RPCs for one       *)
(* resource, on top of restexec's client (RestExec) and the API (RestAPI). *)
(*                                                                         *)
(* An RPC answers ubx core in one of four ways: a new state, an empty      *)
(* response (the object is gone), a terminal diagnostic (core marks the    *)
(* resource failed and never looks again) or a plain error (core verifies  *)
(* by reading).  Core runs one RPC per resource at a time; what is         *)
(* concurrent with it are the API, the requests earlier RPCs left behind,  *)
(* other users of the API, the timers and core's own cancellation.         *)
(***************************************************************************)
EXTENDS RestExec

VARIABLES
    rpc,        \* the RPC in progress, or the last one with its response
    held,       \* the object ubx core has a state for
    cancelled,  \* core cancelled the RPC's context
    pollOver,   \* awaitAsyncOperation's own deadline passed
    doubt       \* history: a create ended otherwise than by a plain first answer

serverVars == <<rpc, held, cancelled, pollOver, doubt>>

allVars == <<apiVars, execVars, serverVars>>

Kinds == {"create", "update", "destroy", "read", "import"}

\* What a running RPC waits for: its write, a poll, the pause between two
\* polls, a read.
Steps == {"idle", "write", "poll", "pause", "read"}

Outcomes == {"none", "state", "empty", "diag", "error"}

\* Why a diagnostic was produced.  "local": before anything was sent.
Causes == {"none", "local", "rejected", "decode", "jobFailed", "vanished"}

\* acted, astray and tries: the RPC's write was carried out, was abandoned on
\* its way, took so many attempts.
Rpcs == [kind : Kinds, step : Steps, id : IdOrNone, acted : BOOLEAN,
         astray : BOOLEAN, tries : 0..MaxAttempts, outcome : Outcomes,
         cause : Causes, rid : IdOrNone]

NoRpc == [kind |-> "read", step |-> "idle", id |-> 0, acted |-> FALSE,
          astray |-> FALSE, tries |-> 0, outcome |-> "none",
          cause |-> "none", rid |-> 0]

ServerTypeOK ==
    /\ rpc \in Rpcs
    /\ held \in IdOrNone
    /\ cancelled \in BOOLEAN
    /\ pollOver \in BOOLEAN
    /\ doubt \in BOOLEAN

ServerInit ==
    /\ rpc = NoRpc
    /\ held = 0
    /\ cancelled = FALSE
    /\ pollOver = FALSE
    /\ doubt = FALSE

DynInit == Init /\ ServerInit

Idle == rpc.step = "idle"

(***************************************************************************)
(* Core calls.                                                             *)
(***************************************************************************)

\* Core has a state exactly when it asks for something other than a create or
\* an import.  ApplyResourceChange tells the three applies apart by which of
\* prior and planned state is null.
MayAsk(kind, id) ==
    /\ Idle
    /\ IF kind = "create" THEN held = 0 /\ id = 0
       ELSE IF kind = "import" THEN held = 0 /\ id \in 1..made
       ELSE held # 0 /\ id = held

FirstCall(kind) ==
    CASE kind = "create"  -> "POST"
      [] kind = "update"  -> "PATCH"
      [] kind = "destroy" -> "DELETE"
      [] OTHER            -> "GET"

FirstStep(kind) == IF kind \in {"read", "import"} THEN "read" ELSE "write"

\* The handler gets as far as Client.Do.
Start(kind, id) ==
    /\ MayAsk(kind, id)
    /\ Begin(FirstCall(kind), id, FALSE)
    /\ rpc' = [NoRpc EXCEPT !.kind = kind, !.step = FirstStep(kind), !.id = id]
    /\ cancelled' = FALSE
    /\ pollOver' = FALSE
    /\ UNCHANGED <<held, doubt>>

\* An early return, before anything is sent: an unknown type, a state that
\* does not decode, a null path parameter, no client, no update or delete
\* operation, a destroy that no PlanResourceChange announced.  A read without
\* a client is the one that answers with an error.
RefuseUnsent(kind, id) ==
    /\ MayAsk(kind, id)
    /\ \E o \in {"diag", "error"} :
          /\ o = "error" => kind \in {"read", "import"}
          /\ rpc' = [NoRpc EXCEPT !.kind = kind, !.id = id, !.outcome = o,
                                  !.cause = "local"]
    /\ cancelled' = FALSE
    /\ UNCHANGED <<held, pollOver, doubt, apiVars, execVars>>

(***************************************************************************)
(* The handler answers.                                                    *)
(***************************************************************************)
Returned(step) == rpc.step = step /\ call.phase = "done"

\* The record of the RPC after its write came back.
Written ==
    IF rpc.step = "write"
    THEN [rpc EXCEPT !.acted = took, !.astray = loose, !.tries = call.attempt + 1]
    ELSE rpc

\* A create settled by the answer to its first attempt: a state, or a refusal.
Settled(outcome, cause) ==
    /\ Written.tries = 1
    /\ outcome = "state" \/ cause = "rejected"

\* The response leaves; core records what it says.
Respond(outcome, cause, rid) ==
    /\ rpc' = [Written EXCEPT !.step = "idle", !.outcome = outcome,
                              !.cause = cause, !.rid = rid]
    /\ held' = CASE outcome = "state" -> rid
                 [] outcome = "empty" -> 0
                 [] OTHER             -> held
    /\ doubt' = (doubt \/ (rpc.kind = "create" /\ ~Settled(outcome, cause)))
    /\ UNCHANGED <<cancelled, pollOver, apiVars, execVars>>

\* Bug: every failure is reported as a terminal diagnostic.
ClassifyAllTerminal == Respond("diag", "rejected", 0)

\* classifyRESTError.
ClassifyRESTError ==
    IF IsTerminal(call.err, call.status)
    THEN Respond("diag", "rejected", 0)
    ELSE Respond("error", "none", 0)

(***************************************************************************)
(* applyCreate, applyUpdate, applyDestroy after Client.Do.                 *)
(***************************************************************************)
WriteFails ==
    /\ Returned("write")
    /\ call.err # "none"
    /\ ~(rpc.kind = "destroy" /\ IsNotFound(call.err, call.status))
    /\ ClassifyRESTError

\* Done, or already gone.
DestroyReturns ==
    /\ Returned("write")
    /\ rpc.kind = "destroy"
    /\ call.err = "none" \/ IsNotFound(call.err, call.status)
    /\ Respond("empty", "none", 0)

\* The write was carried out, but its response is empty or does not decode
\* into the resource's type (valueFromResponse, applyNormalizers).
WriteUndecodable ==
    /\ Returned("write")
    /\ rpc.kind # "destroy"
    /\ call.err = "none"
    /\ call.body # "json"
    /\ Respond("diag", "decode", 0)

WriteDone ==
    /\ Returned("write")
    /\ rpc.kind # "destroy"
    /\ call.err = "none"
    /\ call.body = "json"
    /\ ~Async
    /\ Respond("state", "none", call.rid)

\* Bug: the answer that accepts the job is taken for the finished object.
WriteAcceptedIsDone ==
    /\ Returned("write")
    /\ rpc.kind # "destroy"
    /\ call.err = "none"
    /\ call.body = "json"
    /\ Async
    /\ Respond("state", "none", call.rid)

\* finalizeAfterWrite, asynchronous: the job's identifier is resolved and the
\* first poll made, or it is not to be found in the response.
WriteAccepted ==
    /\ Returned("write")
    /\ rpc.kind # "destroy"
    /\ call.err = "none"
    /\ call.body = "json"
    /\ Async
    /\ \/ Respond("error", "none", 0)
       \/ /\ Begin("POLL", 0, cancelled)
          /\ rpc' = [Written EXCEPT !.step = "poll"]
          /\ pollOver' = FALSE
          /\ UNCHANGED <<held, cancelled, doubt>>

(***************************************************************************)
(* awaitAsyncOperation.                                                    *)
(***************************************************************************)
PollFails ==
    /\ Returned("poll")
    /\ call.err # "none"
    /\ ClassifyRESTError

\* The status field is not there.
PollUndecodable ==
    /\ Returned("poll")
    /\ call.err = "none"
    /\ call.body \in {"nil", "mistyped"}
    /\ Respond("error", "none", 0)

\* Bug: the poll loop does not look at its deadline.
PollPendingForever ==
    /\ Returned("poll")
    /\ call.err = "none"
    /\ call.body = "pending"
    /\ rpc' = [rpc EXCEPT !.step = "pause"]
    /\ UNCHANGED <<held, cancelled, pollOver, doubt, apiVars, execVars>>

\* Still running, or a status that is not a string and is taken for "": give
\* up at the deadline, or pause.
PollPending ==
    /\ Returned("poll")
    /\ call.err = "none"
    /\ call.body \in {"pending", "mistyped"}
    /\ \/ /\ pollOver
          /\ Respond("error", "none", 0)
       \/ /\ ~pollOver
          /\ rpc' = [rpc EXCEPT !.step = "pause"]
          /\ UNCHANGED <<held, cancelled, pollOver, doubt, apiVars, execVars>>

PauseEnds ==
    /\ rpc.step = "pause"
    /\ \/ /\ Begin("POLL", 0, cancelled)
          /\ rpc' = [rpc EXCEPT !.step = "poll"]
          /\ UNCHANGED <<held, cancelled, pollOver, doubt>>
       \/ /\ cancelled
          /\ Respond("error", "none", 0)

JobFailed ==
    /\ Returned("poll")
    /\ call.err = "none"
    /\ call.body = "failed"
    /\ Respond("diag", "jobFailed", 0)

\* The job succeeded: read the object itself, if its path is known.
JobSucceeded ==
    /\ Returned("poll")
    /\ call.err = "none"
    /\ call.body = "succeeded"
    /\ \/ /\ Begin("GET", rpc.id, cancelled)
          /\ rpc' = [rpc EXCEPT !.step = "read"]
          /\ UNCHANGED <<held, cancelled, pollOver, doubt>>
       \/ Respond("diag", "decode", 0)

(***************************************************************************)
(* readFromAPI and its callers.                                            *)
(***************************************************************************)
ReadFails ==
    /\ Returned("read")
    /\ call.err # "none"
    /\ ~IsNotFound(call.err, call.status)
    /\ ClassifyRESTError

ReadUndecodable ==
    /\ Returned("read")
    /\ call.err = "none"
    /\ call.body # "json"
    /\ Respond("diag", "decode", 0)

\* Bug: a read that fails for any reason is taken for a missing object.
ReadFindsNothingBlindly ==
    /\ Returned("read")
    /\ call.err # "none"
    /\ IF rpc.kind = "read"
       THEN Respond("empty", "none", 0)
       ELSE Respond("diag", "vanished", 0)

\* Not found is ReadResource's empty answer; nobody else expects it.
ReadFindsNothing ==
    /\ Returned("read")
    /\ IsNotFound(call.err, call.status)
    /\ IF rpc.kind = "read"
       THEN Respond("empty", "none", 0)
       ELSE Respond("diag", "vanished", 0)

ReadDone ==
    /\ Returned("read")
    /\ call.err = "none"
    /\ call.body = "json"
    /\ Respond("state", "none", call.rid)

(***************************************************************************)
(* Timers and core's cancellation.                                         *)
(***************************************************************************)
PollDeadline ==
    /\ rpc.step \in {"poll", "pause"}
    /\ ~pollOver
    /\ pollOver' = TRUE
    /\ UNCHANGED <<rpc, held, cancelled, doubt, apiVars, execVars>>

CoreCancels ==
    /\ ~Idle
    /\ ~cancelled
    /\ cancelled' = TRUE
    /\ expired' = TRUE
    /\ UNCHANGED <<rpc, held, pollOver, doubt, apiVars, call, wire, strays, took, loose>>

HandlerStep ==
    \/ WriteFails \/ DestroyReturns \/ WriteUndecodable \/ WriteDone \/ WriteAccepted
    \/ PollFails \/ PollUndecodable \/ PollPending \/ PauseEnds
    \/ JobFailed \/ JobSucceeded
    \/ ReadFails \/ ReadUndecodable \/ ReadFindsNothing \/ ReadDone

\* A step of the client, the network or the API while an RPC runs or between
\* two RPCs.
Beneath == CallStep /\ UNCHANGED serverVars

CoreCalls ==
    \E kind \in Kinds, id \in IdOrNone : Start(kind, id) \/ RefuseUnsent(kind, id)

DynNext ==
    \/ CoreCalls
    \/ HandlerStep
    \/ PollDeadline
    \/ CoreCancels
    \/ Beneath

DynSpec == DynInit /\ [][DynNext]_allVars

\* On top of the client's: the handlers run, and the poll loop's clock does.
DynFairness ==
    /\ WF_allVars((Send \/ NeverSent) /\ UNCHANGED serverVars)
    /\ WF_allVars(Receive /\ UNCHANGED serverVars)
    /\ WF_allVars((BackoffOver \/ BackoffCancelled) /\ UNCHANGED serverVars)
    /\ WF_allVars(Deadline /\ UNCHANGED serverVars)
    /\ WF_allVars(expired /\ GiveUp /\ UNCHANGED serverVars)
    /\ WF_allVars(HandlerStep)
    /\ WF_allVars(PollDeadline)

DynFairSpec == DynSpec /\ DynFairness

(***************************************************************************)
(* Properties                                                              *)
(***************************************************************************)
DynTypeOK == TypeOK /\ ServerTypeOK

\* Core is never told that an object is gone while it exists: the empty
\* response of a destroy (the lying destroy of UBI-44) and of a read is only
\* given on the API's word, at whatever attempt of whatever retried call.
GoneMeansGone == rpc.outcome = "empty" => rpc.id \notin live

\* A create or update answered with a state was carried out by this very RPC,
\* and the state is of an object the API made: never of a job that has not
\* finished, never the echo of a plan.
CleanWriteIsReal ==
    /\ rpc.outcome = "state"
    /\ rpc.kind \in {"create", "update"}
    => rpc.acted /\ rpc.rid \in 1..made

\* A synchronous write refused at its first attempt is certain to have had
\* no effect, now or later.
FirstRefusalIsCertain ==
    /\ rpc.outcome = "diag"
    /\ rpc.cause = "rejected"
    /\ rpc.tries = 1
    /\ ~Async
    => ~rpc.acted /\ ~rpc.astray

\* As long as every create was settled by the answer to its first attempt, core
\* holds everything that exists: what is lost is lost to a retry, to an error
\* or to a body that does not decode, never to anything else core asks for in
\* between.
NothingLostSilently == Idle /\ ~doubt => live \subseteq {held}

\* Every RPC is answered.
RpcTerminates == ~Idle ~> Idle

\* The provider keeps its promise to core.
CreateOutstanding ==
    \/ ~Idle /\ rpc.kind = "create"
    \/ \E s \in strays : s.method = "POST"
    \/ job = "creating"

Contract == INSTANCE LifecycleContract WITH
    busy        <- IF Idle THEN "none" ELSE rpc.kind,
    outstanding <- CreateOutstanding

KeepsContract == Contract!Spec

(***************************************************************************)
(* Why the safety properties hold: the inductive invariant.                *)
(***************************************************************************)

\* Only objects that were made are held, served or answered with.
HeldIsKnown == held <= made /\ rpc.id <= made /\ rpc.rid <= made

\* The call in progress is the one the RPC's step waits for.
CallServesStep ==
    /\ Idle => call.phase \in {"idle", "done"}
    /\ ~Idle => rpc.outcome = "none" /\ call.phase # "idle"
    /\ rpc.step = "write" => call.method = FirstCall(rpc.kind) /\ call.id = rpc.id
    /\ rpc.step = "poll" => call.method = "POLL"
    /\ rpc.step = "pause" => call.phase = "done"
    /\ rpc.step = "read" => call.method = "GET" /\ call.id = rpc.id

\* How far an RPC of each kind can have come.
StepFitsKind ==
    /\ rpc.step = "write" => rpc.kind \in {"create", "update", "destroy"}
    /\ rpc.step \in {"poll", "pause"} => rpc.kind \in {"create", "update"} /\ Async /\ rpc.acted
    /\ rpc.step = "read" =>
          \/ rpc.kind \in {"read", "import"} /\ rpc.tries = 0
          \/ rpc.kind \in {"create", "update"} /\ Async /\ rpc.acted

\* An RPC is about the object core holds, if it holds one.
ServesHeld ==
    ~Idle => IF rpc.kind \in {"create", "import"} THEN held = 0
             ELSE held # 0 /\ rpc.id = held

\* A user-chosen name belongs to one object at a time.
NamesAreUnique == Named => \A i, j \in live : i = j

DynInv ==
    /\ ExecInv
    /\ ServerTypeOK
    /\ HeldIsKnown
    /\ CallServesStep
    /\ StepFitsKind
    /\ ServesHeld
    /\ NamesAreUnique
    /\ GoneMeansGone
    /\ CleanWriteIsReal
    /\ FirstRefusalIsCertain
=============================================================================
