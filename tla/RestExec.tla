------------------------------ MODULE RestExec ------------------------------
(***************************************************************************)
(* internal/restexec: Client.Do, one logical HTTP call made of up to       *)
(* MaxAttempts attempts, against an API and a network that lose, delay and *)
(* garble.  DoWithCodec, the twin the cloudformation and smithy clients    *)
(* use, has the same loop.                                                 *)
(*                                                                         *)
(* An attempt that is given up while its request is on its way leaves the  *)
(* request behind: it may still reach the API, after the caller has been   *)
(* told that the call failed.                                              *)
(***************************************************************************)
EXTENDS RestAPI, FiniteSets

CONSTANTS
    MaxAttempts,  \* RetryPolicy.maxAttempts(): attempts of one call
    Bounded,      \* the call's context carries a deadline
    MaxStrays     \* bound: abandoned requests on their way at one time

ASSUME ExecAssumption ==
    /\ MaxAttempts \in Nat \ {0}
    /\ Bounded \in BOOLEAN
    /\ MaxStrays \in Nat

VARIABLES
    call,     \* the call in progress, or the last one
    wire,     \* the current attempt's request
    expired,  \* the context is done
    strays,   \* abandoned requests on their way
    took,     \* a request of this call was carried out
    loose     \* a request of this call was abandoned on its way

execVars == <<call, wire, expired, strays, took, loose>>

(***************************************************************************)
(* Classification of statuses and errors (classify.go).                    *)
(***************************************************************************)
TerminalStatusCodes ==
    {400, 401, 403, 404, 405, 406, 409, 410, 411, 412, 413, 414, 415, 422, 451}

IsRetryableStatus(status) == status = 408 \/ status = 429 \/ status >= 500

\* An error is "api" (an *APIError, which carries the status), "plain" (any
\* other error) or "none" (nil).
IsTerminal(err, status) == err = "api" /\ status \in TerminalStatusCodes

IsAmbiguous(err, status) == err # "none" /\ ~IsTerminal(err, status)

\* Bug: a conflict is taken for a missing object.
IsNotFoundOrBusy(err, status) == err = "api" /\ status \in {404, 409}

IsNotFound(err, status) == err = "api" /\ status = 404

(***************************************************************************)
(* State                                                                   *)
(***************************************************************************)
Phases == {"idle", "ready", "waiting", "backoff", "done"}

Statuses == {0, 200} \cup ErrorStatuses

Errors == {"none", "api", "plain"}

Calls == [phase : Phases, method : Methods, id : IdOrNone,
          attempt : 0..(MaxAttempts - 1), status : Statuses, err : Errors,
          body : Bodies, rid : IdOrNone]

NoReply == [status |-> 200, body |-> "nil", id |-> 0]

Wires == [state : {"none", "sent", "answered"}, reply : Reply]

NoWire == [state |-> "none", reply |-> NoReply]

Requests == [method : Writes, id : IdOrNone, attempt : 0..(MaxAttempts - 1)]

ExecTypeOK ==
    /\ call \in Calls
    /\ wire \in Wires
    /\ expired \in BOOLEAN
    /\ strays \subseteq Requests
    /\ took \in BOOLEAN
    /\ loose \in BOOLEAN

NoCall == [phase |-> "idle", method |-> "GET", id |-> 0, attempt |-> 0,
           status |-> 0, err |-> "none", body |-> "nil", rid |-> 0]

ExecInit ==
    /\ call = NoCall
    /\ wire = NoWire
    /\ expired = FALSE
    /\ strays = {}
    /\ took = FALSE
    /\ loose = FALSE

(***************************************************************************)
(* The loop of Do.                                                         *)
(***************************************************************************)

\* The caller enters Do; a context that is already done stays so.
Begin(m, id, ctxDone) ==
    /\ call.phase \in {"idle", "done"}
    /\ call' = [NoCall EXCEPT !.phase = "ready", !.method = m, !.id = id]
    /\ wire' = NoWire
    /\ expired' = ctxDone
    /\ took' = FALSE
    /\ loose' = FALSE
    /\ UNCHANGED <<strays, apiVars>>

\* Bug: only an attempt that got a status is tried again.
TriesOnlyStatuses(status, err) ==
    /\ err # "none"
    /\ IsRetryableStatus(status)
    /\ call.attempt + 1 < MaxAttempts

\* Do goes round again: the attempt failed without a status, or with one
\* that is worth another try, and the budget is not spent.
TriesAgain(status, err) ==
    /\ err # "none"
    /\ status = 0 \/ IsRetryableStatus(status)
    /\ call.attempt + 1 < MaxAttempts

\* doOnce returned.
AttemptReturns(status, err, body, rid) ==
    /\ call' = [call EXCEPT
                  !.phase = IF TriesAgain(status, err) THEN "backoff" ELSE "done",
                  !.attempt = IF TriesAgain(status, err) THEN @ + 1 ELSE @,
                  !.status = status, !.err = err, !.body = body, !.rid = rid]
    /\ wire' = NoWire

\* The request goes out.
Send ==
    /\ call.phase = "ready"
    /\ ~expired
    /\ call' = [call EXCEPT !.phase = "waiting"]
    /\ wire' = [state |-> "sent", reply |-> NoReply]
    /\ UNCHANGED <<expired, strays, took, loose, apiVars>>

\* The request never goes out: Authenticator.Apply refuses, the dial fails, or
\* the context is already done.  All of them are errors without a status.
NeverSent ==
    /\ call.phase = "ready"
    /\ AttemptReturns(0, "plain", "nil", 0)
    /\ UNCHANGED <<expired, strays, took, loose, apiVars>>

\* The API receives the request and answers.
Answer ==
    /\ wire.state = "sent"
    /\ \E r \in Reply, effect \in BOOLEAN :
          /\ Answers(call.method, call.id, r, effect)
          /\ wire' = [state |-> "answered", reply |-> r]
          /\ took' = (took \/ effect)
    /\ UNCHANGED <<call, expired, strays, loose>>

\* Bug: an error status is only looked for above 500.
ReceiveServerErrorsOnly ==
    /\ call.phase = "waiting"
    /\ wire.state = "answered"
    /\ LET r == wire.reply IN
         \/ /\ r.body = "cut"
            /\ AttemptReturns(r.status, "plain", "nil", 0)
         \/ /\ r.body # "cut"
            /\ r.status > 500
            /\ AttemptReturns(r.status, "api", "nil", 0)
         \/ /\ r.body # "cut"
            /\ r.status <= 500
            /\ AttemptReturns(r.status, "none", r.body, r.id)
    /\ UNCHANGED <<expired, strays, took, loose, apiVars>>

\* The response arrives and doOnce reads it: a body that cannot be read or
\* parsed is a plain error that keeps the status, a status of 400 or more an
\* *APIError.
Receive ==
    /\ call.phase = "waiting"
    /\ wire.state = "answered"
    /\ LET r == wire.reply IN
         \/ /\ r.body = "cut"
            /\ AttemptReturns(r.status, "plain", "nil", 0)
         \/ /\ r.body # "cut"
            /\ r.status >= 400
            /\ AttemptReturns(r.status, "api", "nil", 0)
         \/ /\ r.body # "cut"
            /\ r.status < 400
            /\ AttemptReturns(r.status, "none", r.body, r.id)
    /\ UNCHANGED <<expired, strays, took, loose, apiVars>>

\* Bug: the request is built without the context, which cannot abort it.
GiveUpNotOnContext ==
    /\ call.phase = "waiting"
    /\ ~expired
    /\ AttemptReturns(0, "plain", "nil", 0)
    /\ UNCHANGED <<expired, strays, took, loose, apiVars>>

\* The connection breaks, or the context ends, before the response arrives.
\* A write that was on its way is lost, or left behind.
GiveUp ==
    /\ call.phase = "waiting"
    /\ AttemptReturns(0, "plain", "nil", 0)
    /\ \/ UNCHANGED <<strays, loose>>
       \/ /\ wire.state = "sent"
          /\ call.method \in Writes
          /\ Cardinality(strays) < MaxStrays
          /\ strays' = strays \cup
               {[method |-> call.method, id |-> call.id, attempt |-> call.attempt]}
          /\ loose' = TRUE
    /\ UNCHANGED <<expired, took, apiVars>>

\* The select before the next attempt: the timer, or the context.  When both
\* are ready Go picks either.
BackoffOver ==
    /\ call.phase = "backoff"
    /\ call' = [call EXCEPT !.phase = "ready"]
    /\ UNCHANGED <<wire, expired, strays, took, loose, apiVars>>

BackoffCancelled ==
    /\ call.phase = "backoff"
    /\ expired
    /\ call' = [call EXCEPT !.phase = "done", !.status = 0, !.err = "plain",
                            !.body = "nil", !.rid = 0]
    /\ UNCHANGED <<wire, expired, strays, took, loose, apiVars>>

\* The deadline withOperationTimeout set passes.
Deadline ==
    /\ Bounded
    /\ call.phase \notin {"idle", "done"}
    /\ ~expired
    /\ expired' = TRUE
    /\ UNCHANGED <<call, wire, strays, took, loose, apiVars>>

\* An abandoned request reaches the API after all; nobody reads the answer.
StrayLands ==
    /\ \E s \in strays :
          /\ strays' = strays \ {s}
          /\ \E r \in Reply, effect \in BOOLEAN : Answers(s.method, s.id, r, effect)
    /\ UNCHANGED <<call, wire, expired, took, loose>>

\* The world outside: jobs finish, others delete.
APIMoves ==
    /\ JobEnds \/ OutOfBandDelete
    /\ UNCHANGED execVars

\* What happens to a call between Begin and its return.
CallStep ==
    \/ Send
    \/ NeverSent
    \/ Answer
    \/ Receive
    \/ GiveUp
    \/ BackoffOver
    \/ BackoffCancelled
    \/ Deadline
    \/ StrayLands
    \/ APIMoves

(***************************************************************************)
(* The client on its own, with a caller that makes any call it can.        *)
(***************************************************************************)
Init == APIInit /\ ExecInit

\* The calls dynserver makes: a create or a poll addresses no object, every
\* other call one that existed.
CallerBegins ==
    \E m \in Methods, id \in IdOrNone :
        /\ IF m \in {"POST", "POLL"} THEN id = 0 ELSE id \in 1..made
        /\ Begin(m, id, FALSE)

Next == CallerBegins \/ CallStep

vars == <<apiVars, execVars>>

Spec == Init /\ [][Next]_vars

\* The process is scheduled and its timers fire: an attempt that is ready is
\* made, a response that arrived is read, a wait that is over ends, a deadline
\* passes, a context that is done aborts the attempt.  Nothing is assumed of
\* the API or the network.
ClientFairness ==
    /\ WF_vars(Send \/ NeverSent)
    /\ WF_vars(Receive)
    /\ WF_vars(BackoffOver \/ BackoffCancelled)
    /\ WF_vars(Deadline)
    /\ WF_vars(expired /\ GiveUp)

FairSpec == Spec /\ ClientFairness

(***************************************************************************)
(* Properties                                                              *)
(***************************************************************************)
TypeOK == APITypeOK /\ ExecTypeOK

\* A write that Do reports without an error was carried out: no retry, no
\* classification and no lost answer ever turns a refusal or a silence into a
\* success.
SuccessIsEffect ==
    call.phase = "done" /\ call.err = "none" /\ call.method \in Writes => took

\* A call refused at its first attempt with a terminal status left nothing
\* behind, neither done nor on its way.  This is what makes IsTerminal safe
\* to report; it needs the retryable and the terminal statuses to be disjoint.
FirstRefusalIsFinal ==
    /\ call.phase = "done"
    /\ call.attempt = 0
    /\ IsTerminal(call.err, call.status)
    => ~took /\ ~loose

\* Do surfaces a transient failure only when its budget is spent or its
\* context is over.
GivesUpOnlyWhenSpent ==
    /\ call.phase = "done"
    /\ call.err # "none"
    /\ call.status = 0 \/ IsRetryableStatus(call.status)
    => call.attempt + 1 = MaxAttempts \/ expired

\* A delete that Do reports as done, and any call about an object that it
\* reports as not found, leave the object gone, whatever attempts came before
\* and whatever lands later.
GoneIsHonest ==
    /\ call.phase = "done"
    /\ \/ call.method = "DELETE" /\ call.err = "none"
       \/ call.method \in {"GET", "PATCH", "DELETE"} /\ IsNotFound(call.err, call.status)
    => call.id \notin live

\* Every call returns: a deadline ends the call whatever the API does.
CallTerminates == (call.phase # "idle") ~> (call.phase = "done")

(***************************************************************************)
(* Why the safety properties hold: the inductive invariant.                *)
(***************************************************************************)

\* Only objects that were made are asked for, or described.
KnownObjects == call.id <= made /\ call.rid <= made /\ wire.reply.id <= made

\* There is a request on the wire exactly while its call waits.
WireInUse == wire.state # "none" <=> call.phase = "waiting"

\* Whether a successful answer to m describes an object.
Describes(m) == m \in {"GET", "PATCH"} \/ (m = "POST" /\ ~Async)

\* What the answer on the wire says is so.
AnswerIsTrue ==
    wire.state = "answered" =>
        /\ wire.reply.status = 200 =>
              /\ call.method \in Writes => took
              /\ call.method = "DELETE" => call.id \notin live
              /\ Describes(call.method) => wire.reply.id # 0
        /\ wire.reply.status = 404 /\ call.method \in {"GET", "PATCH", "DELETE"} =>
              call.id \notin live

\* At its first attempt a call has left nothing behind, and has had an effect
\* only if an answer other than a refusal is on its way back.
FirstAttempt ==
    /\ call.phase = "backoff" => call.attempt > 0
    /\ call.attempt = 0 /\ call.phase \in {"ready", "waiting"} =>
          /\ ~loose
          /\ took => wire.state = "answered" /\ wire.reply.status \notin 400..499

\* A call that succeeded returns the object it was about.
SuccessDescribes ==
    call.phase = "done" /\ call.err = "none" /\ Describes(call.method) => call.rid # 0

ExecInv ==
    /\ TypeOK
    /\ KnownObjects
    /\ WireInUse
    /\ AnswerIsTrue
    /\ FirstAttempt
    /\ SuccessDescribes
    /\ SuccessIsEffect
    /\ FirstRefusalIsFinal
    /\ GivesUpOnlyWhenSpent
    /\ GoneIsHonest
=============================================================================
