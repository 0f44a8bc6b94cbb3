----------------------------- MODULE MCRestExec -----------------------------
(***************************************************************************)
(* Instances of RestExec for TLC, with the waits between the attempts.     *)
(***************************************************************************)
EXTENDS RestWaits

\* A missing object, a conflict, a status no table knows, too many requests,
\* a server error.
MCErrorStatuses == {404, 409, 418, 429, 503}

\* Policies from unset to beyond what fits, signals likewise.
MCPolicies ==
    {p \in RetryPolicies :
        p.InitialBackoff \in {0, 1, 4, 9} /\ p.MaxBackoff \in {0, 5, 16}}

MCSignals ==
    {s \in [form : {"none", "seconds", "date"}, value : {-1, 0, 3, 40}] :
        s.form = "none" => s.value = 0}
=============================================================================
