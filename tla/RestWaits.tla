------------------------------ MODULE RestWaits ------------------------------
(***************************************************************************)
(* RestExec with the waits of Backoff between the attempts: before every   *)
(* attempt but the first, Client.Do asks RetryPolicy.backoff how long to   *)
(* wait, with the number of the attempt that failed and what it brought    *)
(* back.                                                                   *)
(***************************************************************************)
EXTENDS RestExec, Backoff

CONSTANTS
    Policies,  \* the retry policies a client may be configured with
    Headers    \* what a header may say of when to come back

ASSUME WaitsAssumption ==
    /\ Policies \subseteq RetryPolicies
    /\ Headers \subseteq Signals

NoHeader == [form |-> "none", value |-> 0]

\* What an attempt with this status leaves in lastHeader: an attempt that got
\* no response leaves none.
LastHeader(status) == IF status = 0 THEN {NoHeader} ELSE Headers

\* Where the schedule is sound under every policy.
SoundWaits ==
    [n \in 0..MaxAttempts |-> [status \in Statuses |->
        \A p \in Policies :
            /\ GuessIsBounded(p, n)
            /\ \A s, r \in LastHeader(status) : SignalIsKept(p, n, status, s, r)]]

\* Before every repeated attempt the client waits no longer than the maximum
\* and not much shorter than the first wait, or exactly as long as the API
\* asked: retry.go's schedule, where Do has got to.
WaitsAsAsked == call.phase = "backoff" => SoundWaits[call.attempt - 1][call.status]
=============================================================================
