------------------------------- MODULE CCServer -------------------------------
(***************************************************************************)
(* internal/cloudformation/server and .../ccapi: the life-cycle RPCs of    *)
(* one resource over AWS Cloud Control.  Every write is a job: the API     *)
(* answers with a token, the server polls the token, then reads.           *)
(*                                                                         *)
(* A client call is restexec's DoWithCodec, whose loop is that of RestExec;*)
(* here an attempt is answered, lost, or left behind on its way, and the   *)
(* call ends in one of the classes the handlers tell apart.  A repeated    *)
(* CreateResource carries no client token, so it is another job.           *)
(***************************************************************************)
EXTENDS Naturals, FiniteSets

CONSTANTS
    MaxObjs,     \* bound: how many objects the API ever creates
    MaxJobs,     \* bound: how many jobs it ever accepts
    MaxAttempts, \* RetryPolicy.maxAttempts(): attempts of one call
    MaxStrays,   \* bound: abandoned requests on their way at one time
    MayCancel,   \* somebody may cancel a running job
    OddAnswers   \* subset of {"noEvent", "noToken"}: what a 2xx may lack

ASSUME CCAssumption ==
    /\ MaxObjs \in Nat
    /\ MaxJobs \in Nat
    /\ MaxAttempts \in Nat \ {0}
    /\ MaxStrays \in Nat
    /\ MayCancel \in BOOLEAN
    /\ OddAnswers \subseteq {"noEvent", "noToken"}

VARIABLES
    live,      \* the objects that exist
    made,      \* how many were ever created
    jobs,      \* the jobs accepted so far, by token
    accepted,  \* how many
    irregular, \* history: a job was cancelled, or a 2xx lacked its event or token
    strays,    \* abandoned requests on their way
    reply,     \* the answer to the call in progress
    rpc,       \* the RPC in progress, or the last one with its response
    held,      \* the object ubx core has a state for
    pollOver   \* AwaitTerminal's deadline passed

apiVars == <<live, made, jobs, accepted, irregular>>

vars == <<apiVars, strays, reply, rpc, held, pollOver>>

Ids == 1..MaxObjs

IdOrNone == 0..MaxObjs

Tokens == 1..MaxJobs

TokenOrNone == 0..MaxJobs

(***************************************************************************)
(* The API                                                                 *)
(***************************************************************************)
Writes == {"create", "update", "destroy"}

JobStates == {"unused", "running", "done", "failed", "cancelled"}

Jobs == [op : Writes, obj : IdOrNone, state : JobStates,
         why : {"none", "NotFound", "other"}]

NoJob == [op |-> "create", obj |-> 0, state |-> "unused", why |-> "none"]

APIInit ==
    /\ live = {}
    /\ made = 0
    /\ jobs = [t \in Tokens |-> NoJob]
    /\ accepted = 0
    /\ irregular = FALSE

\* A write request is accepted: a new job.
Accept(op, id) ==
    /\ accepted < MaxJobs
    /\ accepted' = accepted + 1
    /\ jobs' = [jobs EXCEPT ![accepted + 1] =
                  [NoJob EXCEPT !.op = op, !.obj = id, !.state = "running"]]
    /\ UNCHANGED <<live, made>>

JobDone(t) ==
    \/ /\ jobs[t].op = "create"
       /\ made < MaxObjs
       /\ made' = made + 1
       /\ live' = live \cup {made + 1}
       /\ jobs' = [jobs EXCEPT ![t].state = "done", ![t].obj = made + 1]
       /\ UNCHANGED irregular
    \/ /\ jobs[t].op # "create"
       /\ jobs[t].obj \in live
       /\ live' = IF jobs[t].op = "destroy" THEN live \ {jobs[t].obj} ELSE live
       /\ jobs' = [jobs EXCEPT ![t].state = "done"]
       /\ UNCHANGED <<made, irregular>>

JobFails(t) ==
    /\ jobs' = [jobs EXCEPT ![t].state = "failed",
                  ![t].why = IF jobs[t].op # "create" /\ jobs[t].obj \notin live
                             THEN "NotFound" ELSE "other"]
    /\ UNCHANGED <<live, made, irregular>>

JobCancelled(t) ==
    /\ MayCancel
    /\ jobs' = [jobs EXCEPT ![t].state = "cancelled"]
    /\ irregular' = TRUE
    /\ UNCHANGED <<live, made>>

JobEnds ==
    /\ \E t \in Tokens :
          /\ jobs[t].state = "running"
          /\ JobDone(t) \/ JobFails(t) \/ JobCancelled(t)
    /\ UNCHANGED <<accepted, strays, reply, rpc, held, pollOver>>

OutOfBandDelete ==
    /\ \E i \in live : live' = live \ {i}
    /\ UNCHANGED <<made, jobs, accepted, irregular, strays, reply, rpc, held, pollOver>>

(***************************************************************************)
(* State of the client and the server                                      *)
(***************************************************************************)

\* What a call comes back with: an answer, ResourceNotFoundException, another
\* refusal, or an error that tells nothing.
Classes == {"none", "ok", "missing", "refused", "unclear"}

\* event: the body holds a ProgressEvent, with this token and status.
Replies == [class : Classes, event : BOOLEAN, token : TokenOrNone, says : JobStates]

NoReply == [class |-> "none", event |-> FALSE, token |-> 0, says |-> "unused"]

Ok(event, token, says) == [class |-> "ok", event |-> event, token |-> token, says |-> says]

Requests == [op : Writes, id : IdOrNone]

Kinds == Writes \cup {"read", "import"}

Steps == {"idle", "write", "poll", "pause", "read"}

Outcomes == {"none", "state", "empty", "diag", "error", "panic"}

\* Why a diagnostic was produced.
Causes == {"none", "local", "rejected", "jobFailed", "unread", "decode", "vanished"}

\* reads: the object the last call reads.  mine, loose: the jobs this RPC's
\* write was accepted as, and whether one of its requests was left behind.
\* attempts: how many the write took.
Rpcs == [kind : Kinds, step : Steps, id : IdOrNone, tries : 0..MaxAttempts,
         token : TokenOrNone, reads : IdOrNone, mine : SUBSET Tokens,
         loose : BOOLEAN, outcome : Outcomes, cause : Causes, rid : IdOrNone,
         attempts : 0..MaxAttempts]

NoRpc == [kind |-> "read", step |-> "idle", id |-> 0, tries |-> 0, token |-> 0,
          reads |-> 0, mine |-> {}, loose |-> FALSE, outcome |-> "none",
          cause |-> "none", rid |-> 0, attempts |-> 0]

TypeOK ==
    /\ live \subseteq 1..made
    /\ made \in IdOrNone
    /\ jobs \in [Tokens -> Jobs]
    /\ accepted \in TokenOrNone
    /\ irregular \in BOOLEAN
    /\ strays \subseteq Requests
    /\ reply \in Replies
    /\ rpc \in Rpcs
    /\ held \in IdOrNone
    /\ pollOver \in BOOLEAN

Init ==
    /\ APIInit
    /\ strays = {}
    /\ reply = NoReply
    /\ rpc = NoRpc
    /\ held = 0
    /\ pollOver = FALSE

Idle == rpc.step = "idle"

(***************************************************************************)
(* One client call: DoWithCodec and the decoding in ccapi.Client.call      *)
(***************************************************************************)
Calling == rpc.step \in {"write", "poll", "read"} /\ reply.class = "none"

\* The attempt told nothing: try again, or give up, because the attempts are
\* spent, the context is done, or a 2xx arrived that cannot be read.
Inconclusive(mine, loose) ==
    \/ /\ rpc.tries < MaxAttempts
       /\ rpc' = [rpc EXCEPT !.mine = mine, !.loose = loose, !.tries = @ + 1]
       /\ UNCHANGED reply
    \/ /\ rpc' = [rpc EXCEPT !.mine = mine, !.loose = loose]
       /\ reply' = [NoReply EXCEPT !.class = "unclear"]

\* The API carries out the write; its answer may still get lost.
WriteReaches ==
    /\ Calling
    /\ rpc.step = "write"
    /\ Accept(rpc.kind, rpc.id)
    /\ LET mine == rpc.mine \cup {accepted + 1} IN
         \/ Inconclusive(mine, rpc.loose) /\ UNCHANGED irregular
         \/ /\ rpc' = [rpc EXCEPT !.mine = mine]
            /\ reply' = Ok(TRUE, accepted + 1, "running")
            /\ UNCHANGED irregular
         \/ /\ rpc' = [rpc EXCEPT !.mine = mine]
            /\ reply' \in {Ok(odd = "noToken", 0, "running") : odd \in OddAnswers}
            /\ irregular' = TRUE
    /\ UNCHANGED <<strays, held, pollOver>>

\* The API answers without having done anything.
Refused ==
    /\ Calling
    /\ \/ reply' = [NoReply EXCEPT !.class = "refused"]
       \/ /\ rpc.step = "write" /\ rpc.kind # "create" /\ rpc.id \notin live
          /\ reply' = [NoReply EXCEPT !.class = "missing"]
       \/ /\ rpc.step = "read" /\ rpc.reads \notin live
          /\ reply' = [NoReply EXCEPT !.class = "missing"]
    /\ UNCHANGED <<apiVars, strays, rpc, held, pollOver>>

StatusReaches ==
    /\ Calling
    /\ rpc.step = "poll"
    /\ LET says == jobs[rpc.token].state IN
         \/ /\ reply' = Ok(TRUE, rpc.token, says)
            /\ UNCHANGED irregular
         \/ /\ "noEvent" \in OddAnswers
            /\ reply' = Ok(FALSE, 0, says)
            /\ irregular' = TRUE
    /\ UNCHANGED <<live, made, jobs, accepted, strays, rpc, held, pollOver>>

ReadReaches ==
    /\ Calling
    /\ rpc.step = "read"
    /\ rpc.reads \in live
    /\ reply' = Ok(FALSE, 0, "unused")
    /\ UNCHANGED <<apiVars, strays, rpc, held, pollOver>>

\* Nothing comes back: the connection broke, a 5xx, a body that does not
\* parse, a context that is done.  A write may be left on its way.
Lost ==
    /\ Calling
    /\ \/ /\ Inconclusive(rpc.mine, rpc.loose)
          /\ UNCHANGED strays
       \/ /\ rpc.step = "write"
          /\ Cardinality(strays) < MaxStrays
          /\ Inconclusive(rpc.mine, TRUE)
          /\ strays' = strays \cup {[op |-> rpc.kind, id |-> rpc.id]}
    /\ UNCHANGED <<apiVars, held, pollOver>>

\* A request that was left behind arrives after all.
StrayLands ==
    /\ \E s \in strays :
          /\ strays' = strays \ {s}
          /\ Accept(s.op, s.id) \/ UNCHANGED <<live, made, jobs, accepted>>
    /\ UNCHANGED <<irregular, reply, rpc, held, pollOver>>

(***************************************************************************)
(* Core calls, the server answers                                          *)
(***************************************************************************)
MayAsk(kind, id) ==
    /\ Idle
    /\ IF kind = "create" THEN held = 0 /\ id = 0
       ELSE IF kind = "import" THEN held = 0 /\ id \in 1..made
       ELSE held # 0 /\ id = held

Start(kind, id) ==
    /\ MayAsk(kind, id)
    /\ rpc' = [NoRpc EXCEPT !.kind = kind, !.id = id, !.reads = id, !.tries = 1,
                            !.step = IF kind \in Writes THEN "write" ELSE "read"]
    /\ reply' = NoReply
    /\ pollOver' = FALSE
    /\ UNCHANGED <<apiVars, strays, held>>

\* An early return before anything is sent: unknown type, a state that does
\* not decode or has no identifier, a destroy nobody planned.
RefuseUnsent(kind, id) ==
    /\ MayAsk(kind, id)
    /\ rpc' = [NoRpc EXCEPT !.kind = kind, !.id = id, !.outcome = "diag", !.cause = "local"]
    /\ UNCHANGED <<apiVars, strays, reply, held, pollOver>>

Respond(outcome, cause, rid) ==
    /\ rpc' = [rpc EXCEPT !.step = "idle", !.outcome = outcome, !.cause = cause,
                          !.rid = rid,
                          !.attempts = IF rpc.step = "write" THEN rpc.tries ELSE @]
    /\ held' = CASE outcome = "state" -> rid
                 [] outcome = "empty" -> 0
                 [] OTHER             -> held
    /\ reply' = NoReply
    /\ UNCHANGED <<apiVars, strays, pollOver>>

\* The handler makes its next call.
CallNext(step, token, reads) ==
    /\ rpc' = [rpc EXCEPT !.step = step, !.token = token, !.reads = reads, !.tries = 1,
                          !.attempts = IF rpc.step = "write" THEN rpc.tries ELSE @]
    /\ reply' = NoReply
    /\ UNCHANGED <<apiVars, strays, held>>

\* classifyError, on the class of the failure: ResourceNotFoundException is
\* an HTTP 400 like any other refusal.
Classify(cause) ==
    \/ /\ reply.class \in {"refused", "missing"}
       /\ Respond("diag", cause, 0)
    \/ /\ reply.class = "unclear"
       /\ Respond("error", "none", 0)

WriteFails ==
    /\ rpc.step = "write"
    /\ ~(rpc.kind = "destroy" /\ reply.class = "missing")
    /\ Classify("rejected")

DestroyFindsNothing ==
    /\ rpc.step = "write"
    /\ rpc.kind = "destroy"
    /\ reply.class = "missing"
    /\ Respond("empty", "none", 0)

\* Bug: an accepted job is taken for a finished one.
WriteAcceptedIsDone ==
    /\ rpc.step = "write"
    /\ reply.class = "ok"
    /\ IF rpc.kind = "destroy" THEN Respond("empty", "none", 0)
       ELSE \E i \in 1..made : Respond("state", "none", i)

\* No event, or one without a token, is taken for a write that is done: the
\* planned state is the answer.  Otherwise poll.
WriteAccepted ==
    /\ rpc.step = "write"
    /\ reply.class = "ok"
    /\ IF reply.token # 0
       THEN CallNext("poll", reply.token, 0) /\ pollOver' = FALSE
       ELSE Respond(IF rpc.kind = "destroy" THEN "empty" ELSE "state", "none",
                    IF rpc.kind = "update" THEN rpc.id ELSE 0)

(***************************************************************************)
(* AwaitTerminal and what follows it                                       *)
(***************************************************************************)
\* Bug: a refused poll is reported as a certain rejection, as in dynserver.
PollFailsTerminally ==
    /\ rpc.step = "poll"
    /\ reply.class \in {"refused", "missing", "unclear"}
    /\ Classify("rejected")

PollFails ==
    /\ rpc.step = "poll"
    /\ reply.class \in {"refused", "missing", "unclear"}
    /\ Respond("error", "none", 0)

\* pe.OperationStatus with a nil pe.
PollPanics ==
    /\ rpc.step = "poll"
    /\ reply.class = "ok"
    /\ ~reply.event
    /\ Respond("panic", "none", 0)

Polled(states) ==
    /\ rpc.step = "poll"
    /\ reply.class = "ok"
    /\ reply.event
    /\ reply.says \in states

\* Bug: the deadline is not looked at.
PollPendingForever ==
    /\ Polled({"running"})
    /\ rpc' = [rpc EXCEPT !.step = "pause"]
    /\ reply' = NoReply
    /\ UNCHANGED <<apiVars, strays, held, pollOver>>

PollPending ==
    /\ Polled({"running"})
    /\ \/ /\ pollOver
          /\ Respond("error", "none", 0)
       \/ /\ ~pollOver
          /\ rpc' = [rpc EXCEPT !.step = "pause"]
          /\ reply' = NoReply
          /\ UNCHANGED <<apiVars, strays, held, pollOver>>

\* The timer, or a context that is done.
PauseEnds ==
    /\ rpc.step = "pause"
    /\ \/ CallNext("poll", rpc.token, 0) /\ UNCHANGED pollOver
       \/ Respond("error", "none", 0)

PollDeadline ==
    /\ rpc.step \in {"poll", "pause"}
    /\ ~pollOver
    /\ pollOver' = TRUE
    /\ UNCHANGED <<apiVars, strays, reply, rpc, held>>

JobFailed ==
    /\ Polled({"failed"})
    /\ Respond("diag", "jobFailed", 0)

DestroyEnds ==
    /\ Polled({"done", "cancelled"})
    /\ rpc.kind = "destroy"
    /\ Respond("empty", "none", 0)

\* The identifier is the event's, or else the planned state's; a create whose
\* identifier the API assigns has neither when the event has none.
WriteEnds ==
    /\ Polled({"done", "cancelled"})
    /\ rpc.kind # "destroy"
    /\ LET id == IF jobs[rpc.token].obj # 0 THEN jobs[rpc.token].obj ELSE rpc.id IN
         IF id # 0 THEN CallNext("read", rpc.token, id) /\ UNCHANGED pollOver
         ELSE Respond("diag", "decode", 0)

ReadFails ==
    /\ rpc.step = "read"
    /\ reply.class # "missing"
    /\ Classify("unread")

\* Bug: any refusal of a read is taken for a missing object.
ReadFindsNothingEver ==
    /\ rpc.step = "read"
    /\ reply.class \in {"missing", "refused"}
    /\ IF rpc.kind = "read" THEN Respond("empty", "none", 0)
       ELSE Respond("diag", "vanished", 0)

ReadFindsNothing ==
    /\ rpc.step = "read"
    /\ reply.class = "missing"
    /\ IF rpc.kind = "read" THEN Respond("empty", "none", 0)
       ELSE Respond("diag", "vanished", 0)

\* The properties decode into the schema, or they do not.
ReadDone ==
    /\ rpc.step = "read"
    /\ reply.class = "ok"
    /\ Respond("state", "none", rpc.reads) \/ Respond("diag", "decode", 0)

HandlerStep ==
    \/ WriteFails \/ DestroyFindsNothing \/ WriteAccepted
    \/ PollFails \/ PollPanics \/ PollPending \/ PauseEnds
    \/ JobFailed \/ DestroyEnds \/ WriteEnds
    \/ ReadFails \/ ReadFindsNothing \/ ReadDone

CallStep == WriteReaches \/ Refused \/ StatusReaches \/ ReadReaches \/ Lost

CoreCalls ==
    \E kind \in Kinds, id \in IdOrNone : Start(kind, id) \/ RefuseUnsent(kind, id)

Next ==
    \/ CoreCalls
    \/ CallStep
    \/ HandlerStep
    \/ PollDeadline
    \/ StrayLands
    \/ JobEnds
    \/ OutOfBandDelete

Spec == Init /\ [][Next]_vars

\* The handlers run, AwaitTerminal's clock does, and a call comes back: the
\* last is the network's doing, for this server sets no deadline of its own.
FairSpec ==
    /\ Spec
    /\ WF_vars(CallStep)
    /\ WF_vars(HandlerStep)
    /\ WF_vars(PollDeadline)

(***************************************************************************)
(* Properties                                                              *)
(***************************************************************************)

\* Core is never told that an object is gone while it exists, as long as jobs
\* are left to end by themselves and answers are complete.
GoneMeansGone == rpc.outcome = "empty" /\ ~irregular => rpc.id \notin live

\* A create or update answered with a state was carried out: the job whose
\* token the API gave to this RPC succeeded, and the state is that of the
\* object the job made or changed.
CleanWriteIsReal ==
    /\ ~irregular
    /\ rpc.outcome = "state"
    /\ rpc.kind \in {"create", "update"}
    => /\ rpc.token \in rpc.mine
       /\ jobs[rpc.token].state = "done"
       /\ jobs[rpc.token].obj = rpc.rid

\* A write rejected, or failed as a job, at its first attempt had no effect
\* and will have none: no job of this RPC is running or done, no request of
\* it on its way.
FirstFailureIsCertain ==
    /\ rpc.outcome = "diag"
    /\ rpc.cause \in {"rejected", "jobFailed"}
    /\ rpc.attempts = 1
    => ~rpc.loose /\ \A t \in rpc.mine : jobs[t].state \in {"failed", "cancelled"}

\* Every RPC is answered, if every call is.
RpcTerminates == ~Idle ~> Idle

\* The server keeps the same promise to core as dynserver does: every step is
\* a step of LifecycleContract until something irregular has happened.
CreateOutstanding ==
    \/ ~Idle /\ rpc.kind = "create"
    \/ \E s \in strays : s.op = "create"
    \/ \E t \in Tokens : jobs[t].op = "create" /\ jobs[t].state = "running"

Contract == INSTANCE LifecycleContract WITH
    busy        <- IF Idle THEN "none" ELSE rpc.kind,
    outstanding <- CreateOutstanding

KeepsContract ==
    /\ Contract!Init
    /\ [][~irregular' => Contract!Next \/ UNCHANGED Contract!contractVars]_vars

=============================================================================
