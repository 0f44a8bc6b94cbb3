--------------------------- MODULE DynServerProofs ---------------------------
(***************************************************************************)
(* Proofs about RestExec, RestWaits and DynServer: for every size of the   *)
(* API, every set of error statuses, any number of objects, attempts and   *)
(* abandoned requests.                                                     *)
(*                                                                         *)
(* First the executor alone.  ExecInv is inductive.  Each action has a     *)
(* lemma of its own, which assumes the invariant and the action only, so   *)
(* that the same lemmas serve below the server.                            *)
(*                                                                         *)
(* Then the server: what core is told is so, and the provider keeps the    *)
(* contract of LifecycleContract.  DynInv is inductive.  An RPC ends in    *)
(* one place, Respond, so what has to be shown of a handler step is what   *)
(* RespondKeeps assumes of the response.  LostInv is inductive relative to *)
(* DynInv when writes are synchronous.                                     *)
(***************************************************************************)
EXTENDS DynServer, RestWaits, TLAPS, WellFoundedInduction

(***************************************************************************)
(* The API                                                                 *)
(***************************************************************************)

\* What is not there does not come back: an identifier is used once.
NeverReused == \A i \in 0..made : i \notin live => i \notin live'

LEMMA EffectFacts ==
    ASSUME APITypeOK, NEW m \in Methods, NEW id \in IdOrNone,
           Admits(m, id), Effect(m, id)
    PROVE  /\ APITypeOK'
           /\ made <= made'
           /\ NeverReused
           /\ m = "DELETE" => id \notin live'
           /\ m = "POST" /\ ~Async => made' = made + 1
           /\ m # "POST" => made' = made
  <1> USE APIAssumption DEF APITypeOK, IdOrNone, Methods, Writes
  <1>1. CASE m = "POST" /\ ~Async
    BY <1>1 DEF Admits, Effect, MakeObject, NeverReused, Jobs
  <1>2. CASE m = "POST" /\ Async
    BY <1>2 DEF Admits, Effect, NeverReused, Jobs
  <1>3. CASE m = "PATCH"
    BY <1>3 DEF Admits, Effect, NeverReused, Jobs
  <1>4. CASE m = "DELETE"
    BY <1>4 DEF Admits, Effect, NeverReused, Jobs, Target
  <1>5. m \in {"POST", "PATCH", "DELETE"}
    BY DEF Effect
  <1> QED BY <1>1, <1>2, <1>3, <1>4, <1>5

\* What an answer says is so when it is given.
LEMMA AnswersFacts ==
    ASSUME APITypeOK, NEW m \in Methods, NEW id \in IdOrNone,
           NEW r \in Reply, NEW effect \in BOOLEAN, Answers(m, id, r, effect)
    PROVE  /\ APITypeOK'
           /\ made <= made'
           /\ NeverReused
           /\ r.id <= made'
           /\ r.status = 200 /\ m \in Writes => effect
           /\ r.status = 200 /\ m = "DELETE" => id \notin live'
           /\ r.status = 200 /\ Describes(m) => r.id # 0
           /\ r.status = 404 /\ m \in {"GET", "PATCH", "DELETE"} => id \notin live'
           /\ r.status \in 400..499 => ~effect
  <1> USE APIAssumption
  <1>1. r.status \in 400..499 => ~effect
    BY DEF Answers
  <1>2. r.status = 200 /\ m \in Writes => effect
    BY DEF Answers
  <1>3. /\ r \in [status : {200} \cup ErrorStatuses, body : Bodies, id : IdOrNone]
        /\ made \in Nat /\ live \subseteq 1..made
        /\ IdOrNone \subseteq Nat
    BY DEF Reply, APITypeOK, IdOrNone
  <1>4. CASE effect
    <2>1. Admits(m, id) /\ Effect(m, id) /\ m \in Writes
      BY <1>4 DEF Answers
    <2>2. /\ APITypeOK'
          /\ made <= made' /\ made' \in Nat
          /\ NeverReused
          /\ m = "DELETE" => id \notin live'
          /\ m = "POST" /\ ~Async => made' = made + 1
          /\ m # "POST" => made' = made
      BY <2>1, EffectFacts DEF APITypeOK, IdOrNone
    <2>3. r.status # 404
      BY <1>1, <1>4
    <2>4. r.status = 200 => r.id \in Described(m, id)
      BY DEF Answers
    <2>5. r.status # 200 => r.id = 0
      BY DEF Answers
    <2>6. Described(m, id) \subseteq 0..made' /\ (Describes(m) => 0 \notin Described(m, id))
      BY <1>3, <2>1, <2>2 DEF Described, Describes, Target, Writes
    <2>7. r.id <= made' /\ (r.status = 200 /\ Describes(m) => r.id # 0)
      BY <1>3, <2>2, <2>4, <2>5, <2>6
    <2> QED BY <1>1, <1>2, <2>2, <2>3, <2>7
  <1>5. CASE ~effect
    <2>1. UNCHANGED <<live, made, job>>
      BY <1>5 DEF Answers, apiVars
    <2>2. APITypeOK' /\ made <= made' /\ NeverReused /\ made' = made /\ live' = live
      BY <2>1, <1>3 DEF APITypeOK, NeverReused
    <2>3. r.status = 200 => r.id \in Described(m, id) /\ ~(m \in Writes)
      BY <1>5 DEF Answers
    <2>4. r.status # 200 => r.id = 0
      BY DEF Answers
    <2>5. m \notin Writes => /\ Described(m, id) \subseteq 0..made
                             /\ Describes(m) => 0 \notin Described(m, id)
      BY <1>3 DEF Described, Describes, Target, Writes
    <2>6. r.id <= made' /\ (r.status = 200 /\ Describes(m) => r.id # 0)
      BY <1>3, <2>2, <2>3, <2>4, <2>5
    <2>7. r.status = 404 => Missing(m, id)
      BY DEF Answers
    <2>8. r.status = 404 /\ m \in {"GET", "PATCH", "DELETE"} => id \notin live'
      BY <1>3, <2>2, <2>7 DEF Missing, Target
    <2>9. r.status = 200 /\ m = "DELETE" => id \notin live'
      BY <2>3 DEF Writes
    <2> QED BY <1>1, <1>2, <2>2, <2>6, <2>8, <2>9
  <1> QED BY <1>4, <1>5

\* Jobs and other users do not resurrect an object either.
LEMMA OthersFacts ==
    ASSUME APITypeOK, JobEnds \/ OutOfBandDelete
    PROVE  APITypeOK' /\ made <= made' /\ NeverReused
  <1> USE APIAssumption DEF APITypeOK, IdOrNone, NeverReused, Jobs
  <1>1. CASE JobEnds
    <2>1. CASE job = "creating" /\ made < MaxObjs /\ job' = "succeeded" /\ MakeObject
      BY <2>1 DEF MakeObject
    <2>2. CASE job' \in {"succeeded", "failed"} /\ UNCHANGED <<live, made>>
      BY <2>2
    <2> QED BY <1>1, <2>1, <2>2 DEF JobEnds
  <1>2. CASE OutOfBandDelete
    BY <1>2 DEF OutOfBandDelete
  <1> QED BY <1>1, <1>2

(***************************************************************************)
(* The loop of Do                                                          *)
(***************************************************************************)

\* The values the code writes are of their types.
LEMMA Members ==
    /\ "ready" \in Phases /\ "waiting" \in Phases /\ "backoff" \in Phases /\ "done" \in Phases
    /\ 0 \in Statuses /\ 200 \in Statuses
    /\ "none" \in Errors /\ "api" \in Errors /\ "plain" \in Errors
    /\ "nil" \in Bodies
    /\ 0 \in IdOrNone
    /\ "GET" \in Methods /\ "POLL" \in Methods /\ Writes \subseteq Methods
    /\ 0 \in 0..(MaxAttempts - 1)
    /\ NoReply \in Reply
  BY APIAssumption, ExecAssumption
     DEF Phases, Statuses, Errors, Bodies, OddBody, IdOrNone, Methods, Writes, NoReply, Reply

\* The invariant survives whatever happens to the API behind the client.
LEMMA APIChangeKeeps ==
    ASSUME ExecInv, APITypeOK', made <= made', NeverReused,
           UNCHANGED <<call, wire, expired, took, loose>>, strays' \subseteq Requests
    PROVE  ExecInv'
  <1> USE APIAssumption, ExecAssumption
  <1>1. TypeOK /\ KnownObjects /\ call.id \in Nat /\ call.rid \in Nat /\ wire.reply.id \in Nat
        /\ made \in Nat /\ made' \in Nat
    BY DEF ExecInv, TypeOK, ExecTypeOK, APITypeOK, Calls, Wires, Reply, IdOrNone
  <1>2. TypeOK'
    BY DEF ExecInv, TypeOK, ExecTypeOK
  <1>3. KnownObjects'
    BY <1>1 DEF KnownObjects
  <1>4. call.id \notin live => call.id \notin live'
    BY <1>1 DEF NeverReused, KnownObjects
  <1>5. AnswerIsTrue' /\ GoneIsHonest'
    BY <1>4 DEF ExecInv, AnswerIsTrue, GoneIsHonest
  <1>6. /\ WireInUse' /\ FirstAttempt' /\ SuccessDescribes'
        /\ SuccessIsEffect' /\ FirstRefusalIsFinal' /\ GivesUpOnlyWhenSpent'
    BY DEF ExecInv, WireInUse, FirstAttempt, SuccessDescribes, SuccessIsEffect,
           FirstRefusalIsFinal, GivesUpOnlyWhenSpent
  <1> QED BY <1>2, <1>3, <1>5, <1>6 DEF ExecInv

\* What an attempt leaves in the call.
LEMMA AttemptReturnsFacts ==
    ASSUME ExecTypeOK, NEW status \in Statuses, NEW err \in Errors, NEW body \in Bodies,
           NEW rid \in IdOrNone, AttemptReturns(status, err, body, rid)
    PROVE  /\ call' \in Calls
           /\ wire' = NoWire
           /\ call'.method = call.method /\ call'.id = call.id
           /\ call'.status = status /\ call'.err = err /\ call'.body = body /\ call'.rid = rid
           /\ \/ /\ TriesAgain(status, err)
                 /\ call'.phase = "backoff"
                 /\ call'.attempt = call.attempt + 1
              \/ /\ ~TriesAgain(status, err)
                 /\ call'.phase = "done"
                 /\ call'.attempt = call.attempt
  <1> USE ExecAssumption
  <1>1. /\ call \in [phase : Phases, method : Methods, id : IdOrNone,
                    attempt : 0..(MaxAttempts - 1), status : Statuses, err : Errors,
                    body : Bodies, rid : IdOrNone]
        /\ call.attempt \in 0..(MaxAttempts - 1)
    BY DEF ExecTypeOK, Calls
  <1>2. CASE TriesAgain(status, err)
    <2>1. /\ call' = [call EXCEPT !.phase = "backoff", !.attempt = @ + 1, !.status = status,
                               !.err = err, !.body = body, !.rid = rid]
          /\ wire' = NoWire
      BY <1>2 DEF AttemptReturns
    <2>2. call.attempt + 1 \in 0..(MaxAttempts - 1)
      BY <1>1, <1>2 DEF TriesAgain
    <2> QED BY <1>1, <1>2, <2>1, <2>2 DEF Calls, Phases
  <1>3. CASE ~TriesAgain(status, err)
    <2>1. /\ call' = [call EXCEPT !.phase = "done", !.attempt = @, !.status = status,
                               !.err = err, !.body = body, !.rid = rid]
          /\ wire' = NoWire
      BY <1>3 DEF AttemptReturns
    <2> QED BY <1>1, <1>3, <2>1 DEF Calls, Phases
  <1> QED BY <1>2, <1>3

\* An attempt whose verdict is true keeps the invariant.
LEMMA AttemptKeeps ==
    ASSUME ExecInv, NEW status \in Statuses, NEW err \in Errors, NEW body \in Bodies,
           NEW rid \in IdOrNone, AttemptReturns(status, err, body, rid),
           UNCHANGED <<expired, took, apiVars>>,
           strays' \subseteq Requests, loose' \in BOOLEAN,
           rid <= made,
           err = "none" =>
              /\ call.method \in Writes => took
              /\ call.method = "DELETE" => call.id \notin live
              /\ Describes(call.method) => rid # 0,
           IsNotFound(err, status) /\ call.method \in {"GET", "PATCH", "DELETE"} =>
              call.id \notin live,
           call.attempt = 0 /\ IsTerminal(err, status) => ~took /\ ~loose'
    PROVE  ExecInv'
  <1> USE APIAssumption, ExecAssumption
  <1> ExecTypeOK /\ APITypeOK /\ call \in Calls
    BY DEF ExecInv, TypeOK, ExecTypeOK
  <1> UNCHANGED <<live, made, job, expired, took>>
    BY DEF apiVars
  <1>1. /\ call' \in Calls
        /\ wire' = NoWire
        /\ call'.method = call.method /\ call'.id = call.id
        /\ call'.status = status /\ call'.err = err /\ call'.body = body /\ call'.rid = rid
        /\ \/ /\ TriesAgain(status, err)
              /\ call'.phase = "backoff"
              /\ call'.attempt = call.attempt + 1
           \/ /\ ~TriesAgain(status, err)
              /\ call'.phase = "done"
              /\ call'.attempt = call.attempt
    BY AttemptReturnsFacts
  <1>2. wire' \in Wires /\ wire'.state = "none" /\ wire'.reply.id = 0
    BY <1>1 DEF NoWire, NoReply, Wires, Reply, Bodies, OddBody, IdOrNone
  <1>3. TypeOK'
    BY <1>1, <1>2 DEF TypeOK, APITypeOK, ExecTypeOK
  <1>4. KnownObjects'
    BY <1>1, <1>2 DEF ExecInv, KnownObjects, APITypeOK, IdOrNone
  <1>5. WireInUse' /\ AnswerIsTrue'
    BY <1>1, <1>2 DEF WireInUse, AnswerIsTrue
  <1>6. FirstAttempt'
    <2>1. call.attempt \in Nat
      BY DEF Calls
    <2> QED BY <1>1, <2>1 DEF FirstAttempt
  <1>7. call'.phase = "done" /\ err # "none" /\ (status = 0 \/ IsRetryableStatus(status)) =>
           call'.attempt + 1 = MaxAttempts
    <2>1. call.attempt \in 0..(MaxAttempts - 1)
      BY DEF Calls
    <2> QED BY <1>1, <2>1 DEF TriesAgain
  <1>8. GivesUpOnlyWhenSpent'
    BY <1>1, <1>7 DEF GivesUpOnlyWhenSpent
  <1>9. SuccessDescribes' /\ SuccessIsEffect' /\ GoneIsHonest'
    BY <1>1 DEF SuccessDescribes, SuccessIsEffect, GoneIsHonest
  <1>10. FirstRefusalIsFinal'
    BY <1>1 DEF FirstRefusalIsFinal
  <1> QED BY <1>3, <1>4, <1>5, <1>6, <1>8, <1>9, <1>10 DEF ExecInv

LEMMA NoCallIsCall == NoCall \in Calls
  BY APIAssumption, ExecAssumption, Members DEF NoCall, Calls, Phases

\* A call with another phase, method and object is a call.
LEMMA BegunCalls ==
    ASSUME NEW c \in Calls, NEW p \in Phases, NEW m \in Methods, NEW id \in IdOrNone
    PROVE  [c EXCEPT !.phase = p, !.method = m, !.id = id] \in Calls
  BY DEF Calls

LEMMA BeginKeeps ==
    ASSUME ExecInv, NEW m \in Methods, NEW id \in IdOrNone, id <= made,
           NEW ctxDone \in BOOLEAN, Begin(m, id, ctxDone)
    PROVE  ExecInv'
  <1> USE APIAssumption, ExecAssumption
  <1> UNCHANGED <<live, made, job, strays>>
    BY DEF Begin, apiVars
  <1>1. /\ call' \in Calls
        /\ call'.phase = "ready" /\ call'.method = m /\ call'.id = id
        /\ call'.attempt = 0 /\ call'.rid = 0
    <2>1. call' = [NoCall EXCEPT !.phase = "ready", !.method = m, !.id = id]
      BY DEF Begin
    <2>2. call' \in Calls
      <3>1. "ready" \in Phases
        BY Members
      <3> QED BY <2>1, <3>1, NoCallIsCall, BegunCalls
    <2> QED BY <2>1, <2>2 DEF NoCall
  <1>2. wire' \in Wires /\ wire'.state = "none" /\ wire'.reply.id = 0
    BY DEF Begin, NoWire, NoReply, Wires, Reply, Bodies, OddBody, IdOrNone
  <1>3. expired' \in BOOLEAN /\ took' = FALSE /\ loose' = FALSE
    BY DEF Begin
  <1>4. TypeOK'
    BY <1>1, <1>2, <1>3 DEF ExecInv, TypeOK, APITypeOK, ExecTypeOK
  <1>5. KnownObjects'
    BY <1>1, <1>2 DEF ExecInv, TypeOK, APITypeOK, IdOrNone, KnownObjects
  <1>6. WireInUse' /\ AnswerIsTrue' /\ FirstAttempt'
    BY <1>1, <1>2, <1>3 DEF WireInUse, AnswerIsTrue, FirstAttempt
  <1>7. /\ SuccessDescribes' /\ SuccessIsEffect' /\ GoneIsHonest'
        /\ FirstRefusalIsFinal' /\ GivesUpOnlyWhenSpent'
    BY <1>1 DEF SuccessDescribes, SuccessIsEffect, GoneIsHonest, FirstRefusalIsFinal,
                GivesUpOnlyWhenSpent
  <1> QED BY <1>4, <1>5, <1>6, <1>7 DEF ExecInv

\* The steps that only move the call from one phase to the next.
LEMMA SendKeeps ==
    ASSUME ExecInv, Send
    PROVE  ExecInv'
  <1> USE APIAssumption, ExecAssumption
  <1> UNCHANGED <<live, made, job, expired, strays, took, loose>>
    BY DEF Send, apiVars
  <1> call \in Calls /\ TypeOK /\ call.phase = "ready"
    BY DEF ExecInv, TypeOK, ExecTypeOK, Send
  <1>1. /\ call' \in Calls /\ call'.phase = "waiting"
        /\ call'.method = call.method /\ call'.id = call.id
        /\ call'.attempt = call.attempt /\ call'.rid = call.rid
    BY DEF Send, Calls, Phases
  <1>2. wire' \in Wires /\ wire'.state = "sent" /\ wire'.reply.id = 0
    BY DEF Send, NoReply, Wires, Reply, Bodies, OddBody, IdOrNone
  <1>3. TypeOK'
    BY <1>1, <1>2 DEF TypeOK, APITypeOK, ExecTypeOK
  <1>4. KnownObjects' /\ WireInUse' /\ AnswerIsTrue'
    BY <1>1, <1>2 DEF ExecInv, TypeOK, APITypeOK, IdOrNone, KnownObjects, WireInUse, AnswerIsTrue
  <1>5. wire.state = "none"
    BY DEF ExecInv, WireInUse
  <1>6. FirstAttempt'
    BY <1>1, <1>2, <1>5 DEF ExecInv, FirstAttempt
  <1>7. /\ SuccessDescribes' /\ SuccessIsEffect' /\ GoneIsHonest'
        /\ FirstRefusalIsFinal' /\ GivesUpOnlyWhenSpent'
    BY <1>1 DEF SuccessDescribes, SuccessIsEffect, GoneIsHonest, FirstRefusalIsFinal,
                GivesUpOnlyWhenSpent
  <1> QED BY <1>3, <1>4, <1>6, <1>7 DEF ExecInv

\* A call that ends, or fails before it was sent, is still a call.
LEMMA EndedCall ==
    ASSUME NEW c \in Calls, NEW phase \in Phases, NEW status \in Statuses,
           NEW err \in Errors, NEW body \in Bodies, NEW rid \in IdOrNone
    PROVE  [c EXCEPT !.phase = phase, !.status = status, !.err = err,
                     !.body = body, !.rid = rid] \in Calls
  BY ZenonT(60) DEF Calls

LEMMA BackoffKeeps ==
    ASSUME ExecInv, BackoffOver \/ BackoffCancelled
    PROVE  ExecInv'
  <1> USE APIAssumption, ExecAssumption
  <1> UNCHANGED <<live, made, job, wire, expired, strays, took, loose>>
    BY DEF BackoffOver, BackoffCancelled, apiVars
  <1> call \in Calls /\ TypeOK /\ call.phase = "backoff"
    BY DEF ExecInv, TypeOK, ExecTypeOK, BackoffOver, BackoffCancelled
  <1>1. /\ call' \in Calls
        /\ call'.method = call.method /\ call'.id = call.id /\ call'.attempt = call.attempt
        /\ call'.rid \in {0, call.rid}
        /\ \/ call'.phase = "ready"
           \/ call'.phase = "done" /\ call'.err = "plain" /\ call'.status = 0 /\ expired
    <2>1. CASE BackoffOver
      BY <2>1 DEF BackoffOver, Calls, Phases
    <2>2. CASE BackoffCancelled
      <3>1. /\ call' = [call EXCEPT !.phase = "done", !.status = 0, !.err = "plain",
                                     !.body = "nil", !.rid = 0]
            /\ expired
        BY <2>2 DEF BackoffCancelled
      <3>2. call' \in Calls
        BY <3>1, Members, EndedCall
      <3>3. /\ call'.method = call.method /\ call'.id = call.id /\ call'.attempt = call.attempt
            /\ call'.rid = 0 /\ call'.phase = "done" /\ call'.err = "plain" /\ call'.status = 0
        BY <3>1 DEF Calls
      <3> QED BY <3>1, <3>2, <3>3
    <2> QED BY <2>1, <2>2
  <1>2. TypeOK'
    BY <1>1 DEF TypeOK, APITypeOK, ExecTypeOK
  <1>3. KnownObjects'
    BY <1>1 DEF ExecInv, TypeOK, APITypeOK, IdOrNone, KnownObjects
  <1>4. WireInUse' /\ AnswerIsTrue'
    BY <1>1 DEF ExecInv, WireInUse, AnswerIsTrue
  <1>5. call.attempt # 0
    BY DEF ExecInv, FirstAttempt, Calls
  <1>6. FirstAttempt' /\ FirstRefusalIsFinal'
    BY <1>1, <1>5 DEF FirstAttempt, FirstRefusalIsFinal
  <1>7. SuccessDescribes' /\ SuccessIsEffect' /\ GoneIsHonest' /\ GivesUpOnlyWhenSpent'
    BY <1>1 DEF SuccessDescribes, SuccessIsEffect, GoneIsHonest, GivesUpOnlyWhenSpent, IsNotFound
  <1> QED BY <1>2, <1>3, <1>4, <1>6, <1>7 DEF ExecInv

LEMMA NeverSentKeeps ==
    ASSUME ExecInv, NeverSent
    PROVE  ExecInv'
  <1>1. /\ AttemptReturns(0, "plain", "nil", 0)
        /\ UNCHANGED <<expired, strays, took, loose, apiVars>>
    BY DEF NeverSent
  <1>2. 0 \in Statuses /\ "plain" \in Errors /\ "nil" \in Bodies /\ 0 \in IdOrNone
    BY APIAssumption DEF Statuses, Errors, Bodies, OddBody, IdOrNone
  <1>3. strays' \subseteq Requests /\ loose' \in BOOLEAN /\ 0 <= made
    BY <1>1, APIAssumption DEF ExecInv, TypeOK, ExecTypeOK, APITypeOK, IdOrNone
  <1>4. ~IsNotFound("plain", 0) /\ ~IsTerminal("plain", 0)
    BY DEF IsNotFound, IsTerminal
  <1> QED BY <1>1, <1>2, <1>3, <1>4, AttemptKeeps

LEMMA GiveUpKeeps ==
    ASSUME ExecInv, GiveUp
    PROVE  ExecInv'
  <1> USE APIAssumption, ExecAssumption
  <1>1. /\ AttemptReturns(0, "plain", "nil", 0)
        /\ UNCHANGED <<expired, took, apiVars>>
    BY DEF GiveUp
  <1>2. 0 \in Statuses /\ "plain" \in Errors /\ "nil" \in Bodies /\ 0 \in IdOrNone
    BY DEF Statuses, Errors, Bodies, OddBody, IdOrNone
  <1>3. call \in Calls /\ strays \subseteq Requests /\ loose \in BOOLEAN /\ 0 <= made
    BY DEF ExecInv, TypeOK, ExecTypeOK, APITypeOK, IdOrNone
  <1>4. strays' \subseteq Requests /\ loose' \in BOOLEAN
    <2>1. CASE UNCHANGED <<strays, loose>>
      BY <1>3, <2>1
    <2>2. CASE /\ call.method \in Writes
               /\ strays' = strays \cup {[method |-> call.method, id |-> call.id,
                                        attempt |-> call.attempt]}
               /\ loose' = TRUE
      BY <1>3, <2>2 DEF Requests, Calls
    <2> QED BY <2>1, <2>2 DEF GiveUp
  <1>5. ~IsNotFound("plain", 0) /\ ~IsTerminal("plain", 0)
    BY DEF IsNotFound, IsTerminal
  <1> QED BY <1>1, <1>2, <1>3, <1>4, <1>5, AttemptKeeps

\* doOnce reads the answer as it is.
LEMMA ReceiveKeeps ==
    ASSUME ExecInv, Receive
    PROVE  ExecInv'
  <1> USE APIAssumption, ExecAssumption
  <1> DEFINE r == wire.reply
  <1>1. /\ ExecTypeOK /\ APITypeOK /\ call \in Calls
        /\ wire.state = "answered" /\ call.phase = "waiting"
        /\ r.status \in {200} \cup ErrorStatuses /\ r.body \in Bodies /\ r.id \in IdOrNone
        /\ r.id <= made
    BY DEF ExecInv, TypeOK, ExecTypeOK, Receive, Wires, Reply, KnownObjects
  <1>2. UNCHANGED <<expired, strays, took, loose, apiVars>>
    BY DEF Receive
  <1>3. strays' \subseteq Requests /\ loose' \in BOOLEAN /\ 0 <= made
    BY <1>1, <1>2 DEF ExecTypeOK, APITypeOK, IdOrNone
  <1>4. r.status \in Statuses
    BY <1>1 DEF Statuses
  <1>5. /\ r.status = 200 /\ call.method \in Writes => took
        /\ r.status = 200 /\ call.method = "DELETE" => call.id \notin live
        /\ r.status = 200 /\ Describes(call.method) => r.id # 0
        /\ r.status = 404 /\ call.method \in {"GET", "PATCH", "DELETE"} => call.id \notin live
    BY <1>1 DEF ExecInv, AnswerIsTrue
  <1>6. CASE r.body = "cut" /\ AttemptReturns(r.status, "plain", "nil", 0)
    <2>1. ~IsNotFound("plain", r.status) /\ ~IsTerminal("plain", r.status)
      BY DEF IsNotFound, IsTerminal
    <2> QED BY <1>2, <1>3, <1>4, <1>6, <2>1, Members, AttemptKeeps
  <1>7. CASE r.status >= 400 /\ AttemptReturns(r.status, "api", "nil", 0)
    <2>1. IsNotFound("api", r.status) => r.status = 404
      BY DEF IsNotFound
    <2>2. call.attempt = 0 /\ IsTerminal("api", r.status) => ~took /\ ~loose'
      <3>1. IsTerminal("api", r.status) => r.status \in 400..499
        BY DEF IsTerminal, TerminalStatusCodes
      <3> QED BY <1>1, <1>2, <3>1 DEF ExecInv, FirstAttempt
    <2> QED BY <1>2, <1>3, <1>4, <1>5, <1>7, <2>1, <2>2, Members, AttemptKeeps
  <1>8. CASE r.status < 400 /\ AttemptReturns(r.status, "none", r.body, r.id)
    <2>1. r.status = 200
      <3>1. \A n \in ErrorStatuses : ~(n < 400)
        <4> TAKE n \in ErrorStatuses
        <4>1. n \in 400..599
          OBVIOUS
        <4> QED BY <4>1
      <3>2. r.status \in ErrorStatuses => ~(r.status < 400)
        BY <3>1
      <3> QED BY <1>1, <1>8, <3>2
    <2>2. ~IsNotFound("none", r.status) /\ ~IsTerminal("none", r.status)
      BY DEF IsNotFound, IsTerminal
    <2> HIDE DEF r
    <2> QED BY <1>1, <1>2, <1>3, <1>4, <1>5, <1>8, <2>1, <2>2, Members, AttemptKeeps
  <1> QED BY <1>6, <1>7, <1>8 DEF Receive

LEMMA AnswerKeeps ==
    ASSUME ExecInv, Answer
    PROVE  ExecInv'
  <1> USE APIAssumption, ExecAssumption
  <1> PICK r \in Reply, effect \in BOOLEAN :
           /\ Answers(call.method, call.id, r, effect)
           /\ wire' = [state |-> "answered", reply |-> r]
           /\ took' = (took \/ effect)
    BY DEF Answer
  <1>1. /\ TypeOK /\ call \in Calls /\ call.method \in Methods /\ call.id \in IdOrNone
        /\ call.rid \in IdOrNone /\ call.attempt \in Nat
        /\ took \in BOOLEAN /\ KnownObjects /\ wire.state = "sent" /\ call.phase = "waiting"
        /\ UNCHANGED <<call, expired, strays, loose>>
    BY DEF ExecInv, TypeOK, ExecTypeOK, Calls, Answer, WireInUse
  <1>2. /\ APITypeOK'
        /\ made <= made'
        /\ NeverReused
        /\ r.id <= made'
        /\ r.status = 200 /\ call.method \in Writes => effect
        /\ r.status = 200 /\ call.method = "DELETE" => call.id \notin live'
        /\ r.status = 200 /\ Describes(call.method) => r.id # 0
        /\ r.status = 404 /\ call.method \in {"GET", "PATCH", "DELETE"} => call.id \notin live'
        /\ r.status \in 400..499 => ~effect
    BY <1>1, AnswersFacts DEF TypeOK
  <1>3. wire' \in Wires /\ wire'.state = "answered" /\ wire'.reply = r
    BY DEF Wires
  <1>4. TypeOK'
    BY <1>1, <1>2, <1>3 DEF TypeOK, ExecTypeOK
  <1>5. KnownObjects'
    BY <1>1, <1>2, <1>3 DEF KnownObjects, TypeOK, APITypeOK, IdOrNone
  <1>6. WireInUse' /\ AnswerIsTrue'
    BY <1>1, <1>2, <1>3 DEF WireInUse, AnswerIsTrue
  <1>7. FirstAttempt'
    BY <1>1, <1>2, <1>3 DEF ExecInv, FirstAttempt
  <1>8. /\ SuccessDescribes' /\ SuccessIsEffect' /\ GoneIsHonest'
        /\ FirstRefusalIsFinal' /\ GivesUpOnlyWhenSpent'
    BY <1>1 DEF SuccessDescribes, SuccessIsEffect, GoneIsHonest, FirstRefusalIsFinal,
                GivesUpOnlyWhenSpent
  <1> QED BY <1>4, <1>5, <1>6, <1>7, <1>8 DEF ExecInv

LEMMA DeadlineKeeps ==
    ASSUME ExecInv, UNCHANGED <<call, wire, strays, took, loose, apiVars>>, expired'
    PROVE  ExecInv'
  <1> UNCHANGED <<live, made, job>>
    BY DEF apiVars
  <1>1. expired' \in BOOLEAN
    OBVIOUS
  <1>2. TypeOK'
    BY DEF ExecInv, TypeOK, APITypeOK, ExecTypeOK
  <1> QED BY <1>2 DEF ExecInv, KnownObjects, WireInUse, AnswerIsTrue, FirstAttempt,
             SuccessDescribes, SuccessIsEffect, GoneIsHonest, FirstRefusalIsFinal,
             GivesUpOnlyWhenSpent

LEMMA StrayLandsKeeps ==
    ASSUME ExecInv, StrayLands
    PROVE  ExecInv'
  <1>1. PICK s \in strays, r \in Reply, effect \in BOOLEAN :
           /\ strays' = strays \ {s}
           /\ Answers(s.method, s.id, r, effect)
    BY DEF StrayLands
  <1>2. TypeOK /\ s \in Requests /\ strays' \subseteq Requests
    BY <1>1 DEF ExecInv, TypeOK, ExecTypeOK
  <1>3. s.method \in Methods /\ s.id \in IdOrNone
    BY <1>2 DEF Requests, Methods
  <1>4. APITypeOK' /\ made <= made' /\ NeverReused
    BY <1>1, <1>2, <1>3, AnswersFacts DEF TypeOK
  <1>5. UNCHANGED <<call, wire, expired, took, loose>>
    BY DEF StrayLands
  <1> QED BY <1>2, <1>4, <1>5, APIChangeKeeps

LEMMA APIMovesKeeps ==
    ASSUME ExecInv, APIMoves
    PROVE  ExecInv'
  <1>1. APITypeOK' /\ made <= made' /\ NeverReused
    BY OthersFacts DEF ExecInv, TypeOK, APIMoves
  <1>2. UNCHANGED <<call, wire, expired, took, loose>> /\ strays' \subseteq Requests
    BY DEF APIMoves, execVars, ExecInv, TypeOK, ExecTypeOK
  <1> QED BY <1>1, <1>2, APIChangeKeeps

LEMMA CallStepKeeps ==
    ASSUME ExecInv, CallStep
    PROVE  ExecInv'
  <1>1. CASE Deadline
    BY <1>1, DeadlineKeeps DEF Deadline
  <1> QED BY <1>1, SendKeeps, NeverSentKeeps, AnswerKeeps, ReceiveKeeps, GiveUpKeeps,
             BackoffKeeps, StrayLandsKeeps, APIMovesKeeps DEF CallStep

LEMMA InitHasExecInv ==
    ASSUME Init
    PROVE  ExecInv
  <1> USE APIAssumption, ExecAssumption DEF Init, APIInit, ExecInit
  <1>1. /\ call \in Calls /\ call.phase = "idle" /\ call.id = 0 /\ call.rid = 0
    BY Members DEF NoCall, Calls, Phases
  <1>2. wire \in Wires /\ wire.state = "none" /\ wire.reply.id = 0
    BY Members DEF NoWire, NoReply, Wires
  <1>3. APITypeOK
    BY Members DEF APITypeOK, Jobs
  <1>4. TypeOK
    BY <1>1, <1>2, <1>3 DEF TypeOK, ExecTypeOK
  <1> QED BY <1>1, <1>2, <1>4
          DEF ExecInv, KnownObjects, WireInUse, AnswerIsTrue, FirstAttempt, SuccessDescribes,
              SuccessIsEffect, GoneIsHonest, FirstRefusalIsFinal, GivesUpOnlyWhenSpent

(***************************************************************************)
(* The client on its own                                                   *)
(***************************************************************************)
LEMMA StutterKeeps ==
    ASSUME ExecInv, UNCHANGED vars
    PROVE  ExecInv'
  <1> UNCHANGED <<live, made, job, call, wire, expired, strays, took, loose>>
    BY DEF vars, apiVars, execVars
  <1>1. TypeOK'
    BY DEF ExecInv, TypeOK, APITypeOK, ExecTypeOK
  <1> QED BY <1>1 DEF ExecInv, KnownObjects, WireInUse, AnswerIsTrue, FirstAttempt,
             SuccessDescribes, SuccessIsEffect, GoneIsHonest, FirstRefusalIsFinal,
             GivesUpOnlyWhenSpent

\* The invariant holds of the client whatever calls are made of it.
THEOREM ExecInvariant == Spec => []ExecInv
  <1>1. Init => ExecInv
    BY InitHasExecInv
  <1>2. ExecInv /\ [Next]_vars => ExecInv'
    <2> SUFFICES ASSUME ExecInv, [Next]_vars PROVE ExecInv'
      OBVIOUS
    <2>1. CASE CallerBegins
      <3>1. PICK m \in Methods, id \in IdOrNone :
               /\ IF m \in {"POST", "POLL"} THEN id = 0 ELSE id \in 1..made
               /\ Begin(m, id, FALSE)
        BY <2>1 DEF CallerBegins
      <3>2. id <= made
        BY <3>1, APIAssumption DEF ExecInv, TypeOK, APITypeOK, IdOrNone
      <3> QED BY <3>1, <3>2, BeginKeeps
    <2>2. CASE CallStep
      BY <2>2, CallStepKeeps
    <2>3. CASE UNCHANGED vars
      BY <2>3, StutterKeeps
    <2> QED BY <2>1, <2>2, <2>3 DEF Next
  <1> QED BY <1>1, <1>2, PTL DEF Spec

\* Every variable keeps to its type.
THEOREM TypeCorrect == Spec => []TypeOK
  BY ExecInvariant, PTL DEF ExecInv

\* Do never reports a write that was not carried out as done.
THEOREM SuccessfulWritesHappened == Spec => []SuccessIsEffect
  BY ExecInvariant, PTL DEF ExecInv

\* A terminal refusal at the first attempt is certain.
THEOREM FirstRefusalsAreFinal == Spec => []FirstRefusalIsFinal
  BY ExecInvariant, PTL DEF ExecInv

\* Do does not give up while it has attempts and time left.
THEOREM BudgetIsSpent == Spec => []GivesUpOnlyWhenSpent
  BY ExecInvariant, PTL DEF ExecInv

\* What Do says is gone is gone.
THEOREM GoneObjectsAreGone == Spec => []GoneIsHonest
  BY ExecInvariant, PTL DEF ExecInv

(***************************************************************************)
(* The schedule of the waits                                               *)
(***************************************************************************)

\* Every set of numbers that has a member has a least one.
LEMMA HasLeast ==
    ASSUME NEW S \in SUBSET Nat, S # {}
    PROVE  \E n \in S : \A m \in S : n <= m
  <1>1. PICK n \in S : \A m \in S : <<m, n>> \notin OpToRel(<, Nat)
    BY NatLessThanWellFounded, WFMin
  <1>2. \A m \in S : ~(m < n)
    BY <1>1 DEF OpToRel
  <1> QED BY <1>2

LEMMA Remainder ==
    ASSUME NEW a \in Int, NEW b \in Nat \ {0}
    PROVE  /\ a % b \in 0..(b - 1)
           /\ 0 <= a /\ a < b => a % b = a
  OBVIOUS

LEMMA Wraps ==
    ASSUME NEW x \in Int
    PROVE  /\ Wrap(x) \in Durations
           /\ x \in Durations => Wrap(x) = x
  <1> DEFINE b == 2 * (MaxInt + 1)
             a == x + MaxInt + 1
  <1>1. MaxInt \in Nat
    BY BackoffAssumption
  <1>2. a \in Int /\ b \in Nat \ {0}
    BY <1>1
  <1>3. a % b \in 0..(b - 1) /\ (0 <= a /\ a < b => a % b = a)
    BY <1>2, Remainder
  <1>4. Wrap(x) = (a % b) - MaxInt - 1
    BY DEF Wrap
  <1> DEFINE r == a % b
  <1>5. r \in 0..(b - 1) /\ (0 <= a /\ a < b => r = a) /\ Wrap(x) = r - MaxInt - 1
    BY <1>3, <1>4
  <1> HIDE DEF r
  <1> QED BY <1>1, <1>5 DEF Durations

\* One doubling, the one before attempt n.
Doubling(p, n, d) ==
    IF n > 1 /\ d = maxB(p) THEN maxB(p)
    ELSE IF Wrap(2 * d) >= maxB(p) THEN maxB(p)
    ELSE Wrap(2 * d)

LEMMA PolicyDurations ==
    ASSUME NEW p \in RetryPolicies
    PROVE  /\ initial(p) \in 1..MaxInt /\ maxB(p) \in 1..MaxInt
           /\ initial(p) \in Durations /\ maxB(p) \in Durations
  <1>1. p.InitialBackoff \in Durations /\ p.MaxBackoff \in Durations
    BY DEF RetryPolicies
  <1> QED BY <1>1, BackoffAssumption DEF initial, maxB, Durations

LEMMA DoublingTyped ==
    ASSUME NEW p \in RetryPolicies, NEW n, NEW d \in Durations
    PROVE  Doubling(p, n, d) \in Durations
  <1>1. 2 * d \in Int
    BY BackoffAssumption DEF Durations
  <1> QED BY <1>1, Wraps, PolicyDurations DEF Doubling

\* The schedules up to attempt n.
Schedule(p, n, g) ==
    /\ g \in [0..n -> Durations]
    /\ g[0] = initial(p)
    /\ \A i \in 1..n : g[i] = Doubling(p, i, g[i - 1])

LEMMA SchedulesAgree ==
    ASSUME NEW p, NEW m \in Nat, NEW n \in Nat, NEW g, NEW h,
           Schedule(p, m, g), Schedule(p, n, h), NEW i \in 0..m, i <= n
    PROVE  g[i] = h[i]
  <1> DEFINE S == {j \in 0..m : j <= n /\ g[j] # h[j]}
  <1> SUFFICES ASSUME S # {} PROVE FALSE
    OBVIOUS
  <1>1. PICK j \in S : \A k \in S : j <= k
    <2>1. S \in SUBSET Nat
      OBVIOUS
    <2> HIDE DEF S
    <2> QED BY <2>1, HasLeast
  <1>2. j # 0
    BY <1>1 DEF Schedule
  <1>3. j \in 1..m /\ j \in 1..n /\ j - 1 \in 0..m /\ j - 1 <= n /\ j - 1 < j
    BY <1>2
  <1>4. g[j - 1] = h[j - 1]
    BY <1>1, <1>3
  <1>5. g[j] = Doubling(p, j, g[j - 1]) /\ h[j] = Doubling(p, j, h[j - 1])
    BY <1>3 DEF Schedule
  <1> QED BY <1>1, <1>4, <1>5

LEMMA SchedulesExist ==
    ASSUME NEW p \in RetryPolicies, NEW n \in Nat
    PROVE  \E g : Schedule(p, n, g)
  <1> DEFINE S == {j \in Nat : \A g : ~Schedule(p, j, g)}
  <1> SUFFICES ASSUME S # {} PROVE FALSE
    OBVIOUS
  <1>1. PICK j \in S : \A k \in S : j <= k
    <2> HIDE DEF S
    <2>1. S \in SUBSET Nat
      BY DEF S
    <2> QED BY <2>1, HasLeast
  <1>2. j # 0
    <2> DEFINE g == [i \in 0..0 |-> initial(p)]
    <2>1. g \in [0..0 -> Durations] /\ g[0] = initial(p)
      BY PolicyDurations
    <2>2. 1..0 = {}
      OBVIOUS
    <2> HIDE DEF g
    <2>3. Schedule(p, 0, g)
      BY <2>1, <2>2 DEF Schedule
    <2> QED BY <2>3
  <1>3. PICK g : Schedule(p, j - 1, g)
    <2>1. j - 1 \in Nat /\ ~(j <= j - 1)
      BY <1>2
    <2>2. j - 1 \notin S
      BY <1>1, <2>1
    <2> QED BY <2>1, <2>2
  <1> DEFINE h == [i \in 0..j |-> IF i = j THEN Doubling(p, j, g[j - 1]) ELSE g[i]]
  <1>4. \A i \in 0..(j - 1) : g[i] \in Durations
    BY <1>3 DEF Schedule
  <1>5. /\ j - 1 \in 0..(j - 1) /\ j \in 0..j /\ 0 \in 0..(j - 1) /\ 0 # j
        /\ \A i \in 0..j : i # j => i \in 0..(j - 1)
    BY <1>2
  <1>6. h \in [0..j -> Durations]
    BY <1>4, <1>5, DoublingTyped
  <1>7. h[0] = initial(p)
    BY <1>3, <1>5 DEF Schedule
  <1>8. ASSUME NEW i \in 1..j
        PROVE  h[i] = Doubling(p, i, h[i - 1])
    <2>1. i \in 0..j /\ i - 1 \in 0..j /\ i - 1 # j /\ i - 1 \in 0..(j - 1)
      OBVIOUS
    <2>2. h[i - 1] = g[i - 1]
      BY <2>1
    <2>3. CASE i = j
      BY <2>1, <2>2, <2>3
    <2>4. CASE i # j
      <3>1. i \in 1..(j - 1) /\ h[i] = g[i]
        BY <2>1, <2>4
      <3>2. g[i] = Doubling(p, i, g[i - 1])
        BY <1>3, <3>1 DEF Schedule
      <3> QED BY <2>2, <3>1, <3>2
    <2> QED BY <2>3, <2>4
  <1> HIDE DEF h
  <1>9. Schedule(p, j, h)
    BY <1>6, <1>7, <1>8 DEF Schedule
  <1> QED BY <1>9

\* doubled is the schedule without an end.
LEMMA DoubledIs ==
    ASSUME NEW p \in RetryPolicies
    PROVE  /\ doubled(p)[0] = initial(p)
           /\ \A n \in Nat : doubled(p)[n] \in Durations
           /\ \A n \in Nat \ {0} : doubled(p)[n] = Doubling(p, n, doubled(p)[n - 1])
  <1> DEFINE upto(n) == CHOOSE g : Schedule(p, n, g)
             f == [n \in Nat |-> upto(n)[n]]
             Step(d, n) == IF n = 0 THEN initial(p) ELSE Doubling(p, n, d[n - 1])
  <1>1. \A n \in Nat : Schedule(p, n, upto(n))
    BY SchedulesExist
  <1> HIDE DEF upto
  <1>2. ASSUME NEW n \in Nat
        PROVE  f[n] \in Durations /\ f[n] = Step(f, n)
    <2>1. f[n] \in Durations /\ f[n] = upto(n)[n]
      BY <1>1 DEF Schedule
    <2>2. CASE n = 0
      BY <1>1, <2>1, <2>2 DEF Schedule
    <2>3. CASE n # 0
      <3>1. n - 1 \in Nat /\ n - 1 \in 0..(n - 1) /\ n - 1 <= n /\ n \in 1..n
        BY <2>3
      <3>2. upto(n - 1)[n - 1] = upto(n)[n - 1]
        BY <1>1, <3>1, SchedulesAgree
      <3>3. upto(n)[n] = Doubling(p, n, upto(n)[n - 1])
        BY <1>1, <3>1 DEF Schedule
      <3>4. f[n - 1] = upto(n - 1)[n - 1]
        BY <3>1
      <3> QED BY <2>1, <2>3, <3>2, <3>3, <3>4
    <2> QED BY <2>2, <2>3
  <1>3. f = [n \in Nat |-> Step(f, n)]
    BY <1>2
  <1> HIDE DEF f
  <1> DEFINE d == CHOOSE g : g = [n \in Nat |-> Step(g, n)]
  <1>4. doubled(p) = d
    BY DEF doubled, Doubling
  <1>5. d = [n \in Nat |-> Step(d, n)]
    BY <1>3
  <1> HIDE DEF d
  <1>6. /\ d[0] = initial(p)
        /\ \A n \in Nat \ {0} : d[n] = Doubling(p, n, d[n - 1])
    BY <1>5
  <1>7. \A n \in Nat : d[n] \in Durations
    <2> DEFINE S == {n \in Nat : d[n] \notin Durations}
    <2> SUFFICES ASSUME S # {} PROVE FALSE
      OBVIOUS
    <2>1. PICK n \in S : \A k \in S : n <= k
      <3> HIDE DEF S
      <3>1. S \in SUBSET Nat
        BY DEF S
      <3> QED BY <3>1, HasLeast
    <2>2. n # 0
      BY <1>6, <2>1, PolicyDurations
    <2>3. n - 1 \in Nat /\ ~(n <= n - 1)
      BY <2>2
    <2>4. d[n - 1] \in Durations
      BY <2>1, <2>3
    <2>5. d[n] = Doubling(p, n, d[n - 1])
      BY <1>6, <2>1, <2>2
    <2> QED BY <2>1, <2>4, <2>5, DoublingTyped
  <1> QED BY <1>4, <1>6, <1>7

\* Within the range, the schedule climbs from the first wait to the maximum,
\* and from the first doubling on it is not above it.
LEMMA DoublingClimbs ==
    ASSUME NEW p \in RetryPolicies, InRange(p), NEW n \in Nat \ {0},
           NEW d \in 1..MaxInt, 2 * d <= MaxInt, d >= AtMost(initial(p), maxB(p))
    PROVE  /\ Doubling(p, n, d) \in 1..maxB(p)
           /\ Doubling(p, n, d) >= AtMost(initial(p), maxB(p))
           /\ d <= Doubling(p, n, d) \/ Doubling(p, n, d) = maxB(p)
  <1>1. /\ initial(p) \in 1..MaxInt /\ maxB(p) \in 1..MaxInt /\ MaxInt \in Nat
    BY PolicyDurations, BackoffAssumption
  <1>2. 2 * d \in Durations /\ 2 * d \in Int
    BY <1>1 DEF Durations
  <1>3. Wrap(2 * d) = 2 * d
    BY <1>2, Wraps
  <1>4. Doubling(p, n, d) = maxB(p) \/ (Doubling(p, n, d) = 2 * d /\ ~(2 * d >= maxB(p)))
    BY <1>3 DEF Doubling
  <1> QED BY <1>1, <1>4 DEF AtMost

LEMMA DoubledBounds ==
    ASSUME NEW p \in RetryPolicies, InRange(p), NEW n \in Nat
    PROVE  /\ doubled(p)[n] \in 1..MaxInt /\ 2 * doubled(p)[n] <= MaxInt
           /\ doubled(p)[n] >= AtMost(initial(p), maxB(p))
           /\ doubled(p)[n] <= doubled(p)[n + 1] \/ doubled(p)[n + 1] = maxB(p)
  <1> DEFINE Bounds(k) == /\ doubled(p)[k] \in 1..MaxInt /\ 2 * doubled(p)[k] <= MaxInt
                          /\ doubled(p)[k] >= AtMost(initial(p), maxB(p))
             S == {k \in Nat : ~Bounds(k)}
  <1>1. /\ initial(p) \in 1..MaxInt /\ maxB(p) \in 1..MaxInt /\ MaxInt \in Nat
        /\ 2 * initial(p) <= MaxInt /\ 2 * maxB(p) <= MaxInt
    BY PolicyDurations, BackoffAssumption DEF InRange
  <1>2. ASSUME NEW k \in Nat, Bounds(k)
        PROVE  /\ Bounds(k + 1)
               /\ doubled(p)[k] <= doubled(p)[k + 1] \/ doubled(p)[k + 1] = maxB(p)
    <2>1. k + 1 \in Nat \ {0} /\ (k + 1) - 1 = k
      OBVIOUS
    <2>2. doubled(p)[k + 1] = Doubling(p, k + 1, doubled(p)[k])
      BY <2>1, DoubledIs
    <2> DEFINE d == doubled(p)[k]
               e == doubled(p)[k + 1]
    <2>3. /\ e \in 1..maxB(p) /\ e >= AtMost(initial(p), maxB(p))
          /\ d <= e \/ e = maxB(p)
      BY <1>2, <2>1, <2>2, DoublingClimbs
    <2> HIDE DEF d, e
    <2>4. e \in 1..MaxInt /\ 2 * e <= MaxInt
      BY <1>1, <2>3
    <2> QED BY <2>3, <2>4 DEF d, e
  <1>3. Bounds(0)
    BY <1>1, DoubledIs DEF AtMost
  <1> HIDE DEF Bounds
  <1>4. S = {}
    <2> SUFFICES ASSUME S # {} PROVE FALSE
      OBVIOUS
    <2>1. PICK k \in S : \A j \in S : k <= j
      <3> HIDE DEF S
      <3>1. S \in SUBSET Nat
        BY DEF S
      <3> QED BY <3>1, HasLeast
    <2>2. k # 0
      BY <1>3, <2>1
    <2>3. k - 1 \in Nat /\ ~(k <= k - 1) /\ (k - 1) + 1 = k
      BY <2>2
    <2>4. Bounds(k - 1)
      BY <2>1, <2>3
    <2>5. Bounds((k - 1) + 1)
      BY <1>2, <2>3, <2>4
    <2> QED BY <2>1, <2>3, <2>5
  <1>5. Bounds(n)
    BY <1>4
  <1>6. doubled(p)[n] <= doubled(p)[n + 1] \/ doubled(p)[n + 1] = maxB(p)
    BY <1>2, <1>5
  <1> QED BY <1>5, <1>6 DEF Bounds

\* A wait lies between a half and one and a half times its place in the
\* schedule, or is cut down to the maximum.
LEMMA GuessFacts ==
    ASSUME NEW p \in RetryPolicies, InRange(p), NEW n \in Nat,
           NEW w \in exponential(p, n)
    PROVE  /\ w \in Int /\ w <= maxB(p)
           /\ 2 * w >= doubled(p)[n] \/ w = maxB(p)
           /\ 2 * w <= 3 * doubled(p)[n]
  <1> DEFINE d == doubled(p)[n]
             half == d \div 2
  <1>1. /\ maxB(p) \in 1..MaxInt /\ MaxInt \in Nat /\ d \in 1..MaxInt /\ 2 * d <= MaxInt
    BY PolicyDurations, BackoffAssumption, DoubledBounds
  <1> HIDE DEF d
  <1>2. half \in Nat /\ 2 * half <= d /\ d <= 2 * half + 1
    BY <1>1
  <1> HIDE DEF half
  <1>3. PICK x \in IF p.Jitter THEN jittered(d) ELSE {d} : w = clampDuration(x, maxB(p))
    BY DEF exponential, d
  <1>4. x \in Nat /\ 2 * x >= d /\ 2 * x <= 3 * d
    <2>1. CASE p.Jitter
      <3>1. PICK r \in 0..(d - 1) :
               x = LET y == Wrap(d + r - half) IN IF y < 0 THEN 0 ELSE y
        BY <1>3, <2>1 DEF jittered, half
      <3>2. d + r - half \in Durations /\ d + r - half \in Int
        BY <1>1, <1>2 DEF Durations
      <3>3. Wrap(d + r - half) = d + r - half
        BY <3>2, Wraps
      <3>4. ~(d + r - half < 0)
        BY <1>1, <1>2
      <3>5. x = d + r - half
        BY <3>1, <3>3, <3>4
      <3> QED BY <1>1, <1>2, <3>5
    <2>2. CASE ~p.Jitter
      BY <1>1, <1>3, <2>2
    <2> QED BY <2>1, <2>2
  <1>5. w = IF x > maxB(p) THEN maxB(p) ELSE x
    BY <1>1, <1>3, <1>4 DEF clampDuration
  <1>6. w \in Int /\ w <= maxB(p) /\ (2 * w >= d \/ w = maxB(p)) /\ 2 * w <= 3 * d
    BY <1>1, <1>4, <1>5
  <1> QED BY <1>6 DEF d

\* A guessed wait is bounded, for every policy and at every attempt.
LEMMA GuessesAreBounded ==
    ASSUME NEW p \in RetryPolicies, NEW n \in Nat
    PROVE  GuessIsBounded(p, n)
  <1> SUFFICES ASSUME InRange(p), NEW w \in exponential(p, n)
               PROVE  /\ w <= maxB(p)
                      /\ 2 * w >= AtMost(initial(p), maxB(p))
                      /\ \A later \in exponential(p, n + 1) : 3 * later >= w
    BY DEF GuessIsBounded
  <1> DEFINE d == doubled(p)[n]
             e == doubled(p)[n + 1]
             m == maxB(p)
             i == initial(p)
  <1>1. /\ m \in 1..MaxInt /\ i \in 1..MaxInt /\ d \in 1..MaxInt /\ MaxInt \in Nat
        /\ d >= AtMost(i, m) /\ (d <= e \/ e = m) /\ e \in 1..MaxInt
    BY PolicyDurations, BackoffAssumption, DoubledBounds
  <1>2. w \in Int /\ w <= m /\ (2 * w >= d \/ w = m) /\ 2 * w <= 3 * d
    BY GuessFacts
  <1>3. ASSUME NEW later \in exponential(p, n + 1)
        PROVE  /\ later \in Int /\ later <= m
               /\ 2 * later >= e \/ later = m
    BY GuessFacts
  <1> HIDE DEF d, e, m, i
  <1>4. 2 * w >= AtMost(i, m)
    BY <1>1, <1>2 DEF AtMost
  <1>5. ASSUME NEW later \in exponential(p, n + 1)
        PROVE  3 * later >= w
    <2>1. /\ later \in Int /\ later <= m
          /\ 2 * later >= e \/ later = m
      BY <1>3
    <2> QED BY <1>1, <1>2, <2>1
  <1> QED BY <1>2, <1>4, <1>5 DEF m, i

LEMMA Product ==
    ASSUME NEW a \in Nat, NEW b \in Nat
    PROVE  a * b \in Nat
  OBVIOUS

\* What the API asks for is kept, for every policy, at every attempt.
LEMMA SignalsAreKept ==
    ASSUME NEW p \in RetryPolicies, NEW n, NEW status,
           NEW s \in Signals, NEW r \in Signals
    PROVE  SignalIsKept(p, n, status, s, r)
  <1>1. /\ s.form \in {"none", "seconds", "date"} /\ s.value \in Int
        /\ r.form \in {"none", "seconds", "date"} /\ r.value \in Int
    BY DEF Signals
  <1> DEFINE waits == backoff(p, n, status, s, r)
  <1>2. ASSUME UsesRetryAfter(p, s), s.value * Second <= MaxInt
        PROVE  waits = {IF s.value < 0 THEN 0
                        ELSE IF s.form = "seconds" THEN s.value * Second
                        ELSE s.value}
    <2>1. waits = {parseRetryAfter(s)}
      BY <1>2 DEF backoff
    <2>2. CASE s.form = "date"
      BY <1>1, <2>1, <2>2 DEF parseRetryAfter
    <2>3. CASE s.form = "seconds"
      <3>1. s.value \in Nat /\ Second \in Nat /\ MaxInt \in Nat
        BY <1>1, <1>2, <2>3, BackoffAssumption DEF UsesRetryAfter
      <3> DEFINE x == s.value * Second
      <3>2. x \in Nat /\ x <= MaxInt
        BY <1>2, <3>1, Product
      <3> HIDE DEF x
      <3>3. x \in Int /\ x \in Durations
        BY <3>1, <3>2 DEF Durations
      <3>4. Wrap(x) = x
        BY <3>3, Wraps
      <3>5. parseRetryAfter(s) = x
        BY <2>3, <3>1, <3>4 DEF parseRetryAfter, x
      <3> QED BY <2>1, <2>3, <3>1, <3>5 DEF x
    <2> QED BY <1>2, <2>2, <2>3 DEF UsesRetryAfter
  <1>3. ASSUME ~UsesRetryAfter(p, s)
        PROVE  waits = IF UsesReset(p, status, r) THEN {r.value} ELSE exponential(p, n)
    <2>1. CASE UsesReset(p, status, r)
      <3>1. parseRateLimitReset(r) # NoSignal
        BY <2>1 DEF UsesReset
      <3>2. parseRateLimitReset(r) = r.value
        BY <3>1 DEF parseRateLimitReset
      <3> QED BY <1>3, <2>1, <3>2 DEF backoff
    <2>2. CASE ~UsesReset(p, status, r)
      BY <1>3, <2>2 DEF backoff
    <2> QED BY <2>1, <2>2
  <1> QED BY <1>2, <1>3 DEF SignalIsKept

\* Do waits as retry.go promises, before every attempt it repeats.
THEOREM WaitsAreAsAsked == Spec => []WaitsAsAsked
  <1>1. ExecInv => WaitsAsAsked
    <2> SUFFICES ASSUME ExecInv, call.phase = "backoff"
                 PROVE  SoundWaits[call.attempt - 1][call.status]
      BY DEF WaitsAsAsked
    <2>1. /\ call \in Calls /\ call.attempt > 0 /\ MaxAttempts \in Nat
      BY ExecAssumption DEF ExecInv, TypeOK, ExecTypeOK, FirstAttempt
    <2>2. call.attempt \in 0..(MaxAttempts - 1) /\ call.status \in Statuses
      BY <2>1 DEF Calls
    <2>3. call.attempt - 1 \in 0..MaxAttempts
      BY <2>1, <2>2
    <2>4. ASSUME NEW n \in 0..MaxAttempts, NEW status \in Statuses, NEW p \in Policies
          PROVE  /\ GuessIsBounded(p, n)
                 /\ \A s, r \in LastHeader(status) : SignalIsKept(p, n, status, s, r)
      <3>1. p \in RetryPolicies /\ n \in Nat
        BY <2>1, WaitsAssumption
      <3>2. LastHeader(status) \subseteq Signals
        BY WaitsAssumption DEF LastHeader, NoHeader, Signals
      <3> QED BY <3>1, <3>2, GuessesAreBounded, SignalsAreKept
    <2>5. ASSUME NEW n \in 0..MaxAttempts, NEW status \in Statuses
          PROVE  SoundWaits[n][status]
      BY <2>4, ZenonT(30) DEF SoundWaits
    <2> QED BY <2>2, <2>3, <2>5
  <1>2. Spec => []ExecInv
    BY ExecInvariant, PTL
  <1> QED BY <1>1, <1>2, PTL


(***************************************************************************)
(* Beneath the server                                                      *)
(***************************************************************************)

LEMMA AnswersKeepNames ==
    ASSUME APITypeOK, NamesAreUnique, NEW m \in Methods, NEW id \in IdOrNone,
           NEW r \in Reply, NEW effect \in BOOLEAN, Answers(m, id, r, effect)
    PROVE  NamesAreUnique'
  <1> USE APIAssumption
  <1>1. CASE effect /\ m = "POST" /\ ~Async
    BY <1>1 DEF Answers, Admits, Effect, MakeObject, NamesAreUnique
  <1>2. CASE ~(effect /\ m = "POST" /\ ~Async)
    <2>1. live' \subseteq live
      BY <1>2 DEF Answers, Effect, apiVars
    <2> QED BY <2>1 DEF NamesAreUnique
  <1> QED BY <1>1, <1>2

\* What a step of the client, the network or the API leaves alone.
LEMMA CallStepFacts ==
    ASSUME ExecInv, NamesAreUnique, CallStep
    PROVE  /\ made <= made'
           /\ NeverReused
           /\ NamesAreUnique'
           /\ call'.method = call.method /\ call'.id = call.id
           /\ call.phase \in {"idle", "done"} => call' = call
           /\ call.phase \notin {"idle", "done"} => call'.phase # "idle"
  <1> USE APIAssumption, ExecAssumption
  <1> ExecTypeOK /\ APITypeOK /\ call \in Calls /\ made <= made
    BY DEF ExecInv, TypeOK, ExecTypeOK, APITypeOK, IdOrNone
  <1>1. CASE Send \/ NeverSent \/ Receive \/ GiveUp \/ BackoffOver \/ BackoffCancelled \/ Deadline
    <2>1. UNCHANGED <<live, made, job>>
      BY <1>1 DEF Send, NeverSent, Receive, GiveUp, BackoffOver, BackoffCancelled, Deadline, apiVars
    <2>2. NeverReused /\ NamesAreUnique'
      BY <2>1 DEF NeverReused, NamesAreUnique
    <2>3. call.phase \notin {"idle", "done"}
      BY <1>1 DEF Send, NeverSent, Receive, GiveUp, BackoffOver, BackoffCancelled, Deadline
    <2>4. CASE Send \/ BackoffOver \/ BackoffCancelled \/ Deadline
      <3> DEFINE Keeps == call'.method = call.method /\ call'.id = call.id /\ call'.phase # "idle"
      <3>1. CASE Send
        <4>1. Keeps
          BY <3>1, SMTT(30) DEF Send, Calls
        <4> QED BY <2>1, <2>2, <2>3, <4>1
      <3>2. CASE BackoffOver
        <4>1. Keeps
          BY <3>2, SMTT(30) DEF BackoffOver, Calls
        <4> QED BY <2>1, <2>2, <2>3, <4>1
      <3>3. CASE BackoffCancelled
        <4>1. Keeps
          BY <3>3, SMTT(30) DEF BackoffCancelled, Calls
        <4> QED BY <2>1, <2>2, <2>3, <4>1
      <3>4. CASE Deadline
        <4>1. Keeps
          BY <2>3, <3>4, SMTT(30) DEF Deadline, Calls
        <4> QED BY <2>1, <2>2, <2>3, <4>1
      <3> QED BY <2>4, <3>1, <3>2, <3>3, <3>4
    <2>5. CASE NeverSent \/ Receive \/ GiveUp
      <3>1. PICK status, err, body, rid : AttemptReturns(status, err, body, rid)
        BY <2>5 DEF NeverSent, Receive, GiveUp
      <3>2. call'.method = call.method /\ call'.id = call.id /\ call'.phase # "idle"
        BY <3>1 DEF AttemptReturns, Calls
      <3> QED BY <2>1, <2>2, <2>3, <3>2
    <2> QED BY <1>1, <2>4, <2>5
  <1>2. CASE Answer
    <2>1. PICK r \in Reply, effect \in BOOLEAN : Answers(call.method, call.id, r, effect)
      BY <1>2 DEF Answer
    <2>2. call.method \in Methods /\ call.id \in IdOrNone
      BY DEF Calls
    <2>3. made <= made' /\ NeverReused
      BY <2>1, <2>2, AnswersFacts
    <2>4. NamesAreUnique'
      BY <2>1, <2>2, AnswersKeepNames
    <2>5. UNCHANGED call
      BY <1>2 DEF Answer
    <2> QED BY <2>3, <2>4, <2>5
  <1>3. CASE StrayLands
    <2>1. PICK s \in strays, r \in Reply, effect \in BOOLEAN : Answers(s.method, s.id, r, effect)
      BY <1>3 DEF StrayLands
    <2>2. s.method \in Methods /\ s.id \in IdOrNone
      BY DEF ExecTypeOK, Requests, Methods
    <2>3. made <= made' /\ NeverReused
      BY <2>1, <2>2, AnswersFacts
    <2>4. NamesAreUnique'
      BY <2>1, <2>2, AnswersKeepNames
    <2>5. UNCHANGED call
      BY <1>3 DEF StrayLands
    <2> QED BY <2>3, <2>4, <2>5
  <1>4. CASE APIMoves
    <2>1. made <= made' /\ NeverReused
      BY <1>4, OthersFacts DEF APIMoves
    <2>2. UNCHANGED call
      BY <1>4 DEF APIMoves, execVars
    <2>3. CASE JobEnds
      BY <2>1, <2>2, <2>3 DEF JobEnds, MakeObject, NamesAreUnique
    <2>4. CASE OutOfBandDelete
      BY <2>1, <2>2, <2>4 DEF OutOfBandDelete, NamesAreUnique
    <2> QED BY <1>4, <2>3, <2>4 DEF APIMoves
  <1> QED BY <1>1, <1>2, <1>3, <1>4 DEF CallStep

LEMMA BeneathKeeps ==
    ASSUME DynInv, Beneath
    PROVE  DynInv'
  <1> USE APIAssumption
  <1>1. ExecInv /\ NamesAreUnique /\ CallStep
    BY DEF DynInv, Beneath
  <1>2. ExecInv'
    BY <1>1, CallStepKeeps
  <1>3. /\ made <= made'
        /\ NeverReused
        /\ NamesAreUnique'
        /\ call'.method = call.method /\ call'.id = call.id
        /\ call.phase \in {"idle", "done"} => call' = call
        /\ call.phase \notin {"idle", "done"} => call'.phase # "idle"
    BY <1>1, CallStepFacts
  <1>4. UNCHANGED <<rpc, held, cancelled, pollOver, doubt>>
    BY DEF Beneath, serverVars
  <1>5. /\ rpc \in Rpcs /\ held \in Nat /\ rpc.id \in Nat /\ rpc.rid \in Nat
        /\ made \in Nat /\ made' \in Nat
    BY <1>2 DEF DynInv, ServerTypeOK, ExecInv, TypeOK, APITypeOK, Rpcs, IdOrNone
  <1>6. HeldIsKnown' /\ ServerTypeOK'
    BY <1>3, <1>4, <1>5 DEF DynInv, HeldIsKnown, ServerTypeOK
  <1>7. CallServesStep'
    BY <1>3, <1>4 DEF DynInv, CallServesStep, Idle
  <1>8. StepFitsKind' /\ ServesHeld' /\ FirstRefusalIsCertain'
    BY <1>4 DEF DynInv, StepFitsKind, ServesHeld, FirstRefusalIsCertain, Idle
  <1>9. GoneMeansGone'
    BY <1>3, <1>4, <1>5 DEF DynInv, GoneMeansGone, HeldIsKnown, NeverReused
  <1>10. CleanWriteIsReal'
    BY <1>3, <1>4, <1>5 DEF DynInv, CleanWriteIsReal
  <1> QED BY <1>2, <1>3, <1>6, <1>7, <1>8, <1>9, <1>10 DEF DynInv

(***************************************************************************)
(* The handlers                                                            *)
(***************************************************************************)

\* Records of an RPC, written field by field.
LEMMA RpcUpdates ==
    ASSUME NEW r \in Rpcs, NEW a \in BOOLEAN, NEW l \in BOOLEAN, NEW n \in 0..MaxAttempts
    PROVE  [r EXCEPT !.acted = a, !.astray = l, !.tries = n] \in Rpcs
  BY DEF Rpcs

LEMMA RefusedRpc ==
    ASSUME NEW kind, NEW id, NEW o, NEW p,
           p = [NoRpc EXCEPT !.kind = kind, !.id = id, !.outcome = o, !.cause = "local"]
    PROVE  p = [kind |-> kind, step |-> "idle", id |-> id, acted |-> FALSE, astray |-> FALSE,
                tries |-> 0, outcome |-> o, cause |-> "local", rid |-> 0]
  BY DEF NoRpc

LEMMA NewRpc ==
    ASSUME NEW kind \in Kinds, NEW step \in Steps, NEW id \in IdOrNone,
           NEW outcome \in Outcomes, NEW cause \in Causes
    PROVE  [kind |-> kind, step |-> step, id |-> id, acted |-> FALSE, astray |-> FALSE,
            tries |-> 0, outcome |-> outcome, cause |-> cause, rid |-> 0] \in Rpcs
  <1>1. 0 \in 0..MaxAttempts /\ 0 \in IdOrNone /\ FALSE \in BOOLEAN
    BY ExecAssumption, Members
  <1> QED BY <1>1 DEF Rpcs

\* The fields of the RPC the runtime sends.
LEMMA StartedRpc ==
    ASSUME NEW kind, NEW step, NEW id, NEW p,
           p = [NoRpc EXCEPT !.kind = kind, !.step = step, !.id = id]
    PROVE  p = [kind |-> kind, step |-> step, id |-> id, acted |-> FALSE,
                astray |-> FALSE, tries |-> 0, outcome |-> "none", cause |-> "none",
                rid |-> 0]
  BY DEF NoRpc

\* Written only adds what the write did.
LEMMA WrittenFacts ==
    ASSUME DynInv, ~Idle
    PROVE  /\ Written \in Rpcs
           /\ Written.kind = rpc.kind /\ Written.id = rpc.id /\ Written.rid = rpc.rid
           /\ Written.outcome = "none" /\ Written.step = rpc.step
           /\ IF rpc.step = "write"
              THEN /\ Written.acted = took /\ Written.astray = loose
                   /\ Written.tries = call.attempt + 1
              ELSE Written = rpc
  <1> USE APIAssumption, ExecAssumption
  <1>1. /\ rpc \in [kind : Kinds, step : Steps, id : IdOrNone, acted : BOOLEAN,
                    astray : BOOLEAN, tries : 0..MaxAttempts, outcome : Outcomes,
                    cause : Causes, rid : IdOrNone]
        /\ rpc.outcome = "none" /\ took \in BOOLEAN /\ loose \in BOOLEAN
        /\ call.attempt \in 0..(MaxAttempts - 1)
    BY DEF DynInv, ServerTypeOK, Rpcs, CallServesStep, ExecInv, TypeOK, ExecTypeOK, Calls
  <1>2. call.attempt + 1 \in 0..MaxAttempts
    BY <1>1
  <1>3. CASE rpc.step = "write"
    <2>1. Written = [rpc EXCEPT !.acted = took, !.astray = loose, !.tries = call.attempt + 1]
      BY <1>3 DEF Written
    <2>2. Written \in Rpcs
      <3>1. rpc \in Rpcs
        BY DEF DynInv, ServerTypeOK
      <3> QED BY <1>1, <1>2, <2>1, <3>1, RpcUpdates
    <2>3. /\ Written.kind = rpc.kind /\ Written.id = rpc.id /\ Written.rid = rpc.rid
          /\ Written.outcome = rpc.outcome /\ Written.step = rpc.step
          /\ Written.acted = took /\ Written.astray = loose
          /\ Written.tries = call.attempt + 1
      BY <1>1, <2>1
    <2> QED BY <1>1, <1>3, <2>2, <2>3
  <1>4. CASE rpc.step # "write"
    BY <1>1, <1>4 DEF Written, Rpcs
  <1> QED BY <1>3, <1>4

\* A response that is justified keeps the invariant.
LEMMA RespondKeeps ==
    ASSUME DynInv, ~Idle, call.phase = "done",
           NEW outcome \in Outcomes \ {"none"}, NEW cause \in Causes, NEW id \in IdOrNone,
           Respond(outcome, cause, id), id <= made,
           outcome = "state" => /\ id # 0
                                /\ rpc.kind \in {"create", "update"} => Written.acted,
           outcome = "empty" => rpc.id \notin live,
           /\ outcome = "diag" /\ cause = "rejected"
           /\ Written.tries = 1 /\ ~Async
           => ~Written.acted /\ ~Written.astray
    PROVE  DynInv'
  <1> USE APIAssumption, ExecAssumption
  <1>1. /\ UNCHANGED <<cancelled, pollOver, live, made, job, call, wire, expired, strays, took, loose>>
        /\ rpc' = [Written EXCEPT !.step = "idle", !.outcome = outcome,
                                  !.cause = cause, !.rid = id]
        /\ held' = CASE outcome = "state" -> id
                     [] outcome = "empty" -> 0
                     [] OTHER             -> held
        /\ doubt' = (doubt \/ (rpc.kind = "create" /\ ~Settled(outcome, cause)))
    BY DEF Respond, apiVars, execVars
  <1>2. /\ Written \in Rpcs
        /\ Written.kind = rpc.kind /\ Written.id = rpc.id
    BY WrittenFacts
  <1>3. /\ rpc' \in Rpcs
        /\ rpc'.kind = rpc.kind /\ rpc'.id = rpc.id /\ rpc'.step = "idle"
        /\ rpc'.outcome = outcome /\ rpc'.cause = cause /\ rpc'.rid = id
        /\ rpc'.acted = Written.acted /\ rpc'.astray = Written.astray
        /\ rpc'.tries = Written.tries
    <2> HIDE DEF Outcomes, Causes, IdOrNone, Written, Rpcs
    <2>1. rpc' = [Written EXCEPT !.step = "idle", !.outcome = outcome,
                                 !.cause = cause, !.rid = id]
      BY <1>1
    <2>2. /\ outcome \in Outcomes /\ cause \in Causes /\ id \in IdOrNone
          /\ Written \in Rpcs
      BY <1>2
    <2>3. PICK p : p = rpc'
      OBVIOUS
    <2>4. PICK r : r = Written
      OBVIOUS
    <2>5. p = [r EXCEPT !.step = "idle", !.outcome = outcome, !.cause = cause, !.rid = id]
      BY ONLY <2>1, <2>3, <2>4
    <2>6. /\ p \in Rpcs
          /\ p.kind = r.kind /\ p.id = r.id /\ p.step = "idle"
          /\ p.outcome = outcome /\ p.cause = cause /\ p.rid = id
          /\ p.acted = r.acted /\ p.astray = r.astray /\ p.tries = r.tries
      <3>1. r \in Rpcs /\ outcome \in Outcomes /\ cause \in Causes /\ id \in IdOrNone
        BY ONLY <2>2, <2>4
      <3>2. "idle" \in Steps
        BY DEF Steps
      <3>3. p \in Rpcs
        BY ONLY <2>5, <3>1, <3>2, ZenonT(60) DEF Rpcs
      <3> QED BY ONLY <2>5, <3>1, <3>3, ZenonT(60) DEF Rpcs
    <2> QED BY <1>2, <2>3, <2>4, <2>6
  <1>4. /\ ExecInv /\ ServerTypeOK /\ HeldIsKnown /\ NamesAreUnique
        /\ held \in IdOrNone /\ rpc.id <= made /\ made \in Nat /\ 0 \in IdOrNone
    BY DEF DynInv, HeldIsKnown, ServerTypeOK, ExecInv, TypeOK, APITypeOK, IdOrNone
  <1>5. ExecInv' /\ NamesAreUnique'
    <2>1. UNCHANGED vars
      BY <1>1 DEF vars, apiVars, execVars
    <2>2. ExecInv'
      BY <1>4, <2>1, StutterKeeps
    <2> QED BY <1>1, <1>4, <2>2 DEF NamesAreUnique
  <1>6. held' \in IdOrNone /\ held' <= made
    BY <1>1, <1>4 DEF HeldIsKnown
  <1>7. ServerTypeOK'
    BY <1>1, <1>3, <1>4, <1>6 DEF ServerTypeOK
  <1>8. HeldIsKnown'
    BY <1>1, <1>3, <1>4, <1>6 DEF HeldIsKnown
  <1>9. CallServesStep' /\ StepFitsKind' /\ ServesHeld'
    BY <1>1, <1>3 DEF CallServesStep, StepFitsKind, ServesHeld, Idle
  <1>10. GoneMeansGone' /\ FirstRefusalIsCertain'
    BY <1>1, <1>3 DEF GoneMeansGone, FirstRefusalIsCertain
  <1>11. CleanWriteIsReal'
    BY <1>1, <1>3, <1>4 DEF CleanWriteIsReal, IdOrNone
  <1> QED BY <1>5, <1>7, <1>8, <1>9, <1>10, <1>11 DEF DynInv

\* So does going on to a poll, or to the read after a job, once the write is
\* accepted.
LEMMA AskKeeps ==
    ASSUME DynInv, ~Idle, call.phase = "done",
           NEW step \in {"poll", "read"}, NEW m \in Methods, NEW id \in IdOrNone,
           Begin(m, id, cancelled),
           rpc' = [Written EXCEPT !.step = step],
           UNCHANGED <<held, cancelled, doubt>>, pollOver' \in BOOLEAN,
           step = "poll" => m = "POLL" /\ id = 0,
           step = "read" => m = "GET" /\ id = rpc.id,
           rpc.kind \in {"create", "update"}, Async, Written.acted
    PROVE  DynInv'
  <1> USE APIAssumption, ExecAssumption
  <1>1. /\ ExecInv /\ ServerTypeOK /\ HeldIsKnown /\ NamesAreUnique
        /\ made \in Nat /\ rpc \in Rpcs /\ cancelled \in BOOLEAN
    BY DEF DynInv, ServerTypeOK, ExecInv, TypeOK, APITypeOK, IdOrNone
  <1>2. /\ UNCHANGED <<live, made, job>>
        /\ call'.phase = "ready" /\ call'.method = m /\ call'.id = id
    BY DEF Begin, NoCall, apiVars
  <1>3. id <= made
    BY <1>1 DEF HeldIsKnown
  <1>4. ExecInv' /\ NamesAreUnique'
    <2>1. ExecInv'
      BY <1>1, <1>3, BeginKeeps
    <2> QED BY <1>1, <1>2, <2>1 DEF NamesAreUnique
  <1>5. /\ Written \in Rpcs
        /\ Written.kind = rpc.kind /\ Written.id = rpc.id /\ Written.rid = rpc.rid
        /\ Written.outcome = "none"
    BY WrittenFacts
  <1>6. /\ rpc' \in Rpcs /\ rpc'.step = step
        /\ rpc'.kind = rpc.kind /\ rpc'.id = rpc.id /\ rpc'.rid = rpc.rid
        /\ rpc'.outcome = "none" /\ rpc'.acted
    <2>1. step \in Steps
      BY DEF Steps
    <2> QED BY <1>5, <2>1 DEF Rpcs
  <1>7. ServerTypeOK' /\ HeldIsKnown'
    BY <1>1, <1>2, <1>6 DEF ServerTypeOK, HeldIsKnown
  <1>8. CallServesStep' /\ StepFitsKind'
    BY <1>2, <1>6 DEF CallServesStep, StepFitsKind, Idle
  <1>9. ServesHeld'
    BY <1>6 DEF DynInv, ServesHeld, Idle
  <1>10. GoneMeansGone' /\ CleanWriteIsReal' /\ FirstRefusalIsCertain'
    BY <1>6 DEF GoneMeansGone, CleanWriteIsReal, FirstRefusalIsCertain
  <1> QED BY <1>4, <1>7, <1>8, <1>9, <1>10 DEF DynInv

\* What the invariant gives when the call an RPC waits for has returned.
LEMMA ReturnedFacts ==
    ASSUME DynInv, NEW step \in {"write", "poll", "read"}, Returned(step)
    PROVE  /\ ~Idle /\ call.phase = "done" /\ rpc.step = step
           /\ call.id \in IdOrNone /\ call.rid \in IdOrNone /\ call.rid <= made
           /\ rpc.id \in IdOrNone
           /\ 0 \in IdOrNone /\ 0 <= made
           /\ Written.kind = rpc.kind
           /\ IF step = "write"
              THEN /\ Written.acted = took /\ Written.astray = loose
                   /\ Written.tries = call.attempt + 1
              ELSE Written = rpc
  <1> USE APIAssumption, ExecAssumption
  <1>1. ~Idle /\ call.phase = "done" /\ rpc.step = step
    BY DEF Returned, Idle
  <1>2. /\ call.id \in IdOrNone /\ call.rid \in IdOrNone /\ call.rid <= made
        /\ rpc.id \in IdOrNone /\ 0 \in IdOrNone /\ 0 <= made
    BY DEF DynInv, ExecInv, TypeOK, ExecTypeOK, APITypeOK, KnownObjects, ServerTypeOK, Rpcs,
           Calls, IdOrNone
  <1> QED BY <1>1, <1>2, WrittenFacts

LEMMA ClassifyKeeps ==
    ASSUME DynInv, NEW step \in {"write", "poll", "read"}, Returned(step), ClassifyRESTError
    PROVE  DynInv'
  <1> USE APIAssumption, ExecAssumption
  <1>1. /\ ~Idle /\ call.phase = "done" /\ rpc.step = step
        /\ 0 \in IdOrNone /\ 0 <= made
        /\ IF step = "write"
           THEN /\ Written.acted = took /\ Written.astray = loose
                /\ Written.tries = call.attempt + 1
           ELSE Written = rpc
    BY ReturnedFacts
  <1>2. /\ "diag" \in Outcomes \ {"none"} /\ "error" \in Outcomes \ {"none"}
        /\ "rejected" \in Causes /\ "none" \in Causes
    BY DEF Outcomes, Causes
  <1>3. CASE ~IsTerminal(call.err, call.status)
    <2>1. Respond("error", "none", 0)
      BY <1>3 DEF ClassifyRESTError
    <2> QED BY <1>1, <1>2, <2>1, RespondKeeps
  <1>4. CASE IsTerminal(call.err, call.status)
    <2>1. Respond("diag", "rejected", 0)
      BY <1>4 DEF ClassifyRESTError
    <2>2. Written.tries = 1 /\ ~Async => ~Written.acted /\ ~Written.astray
      <3>1. CASE step = "write"
        <4>1. call.attempt \in Nat
          BY DEF DynInv, ExecInv, TypeOK, ExecTypeOK, Calls
        <4> QED BY <1>1, <1>4, <3>1, <4>1 DEF DynInv, ExecInv, FirstRefusalIsFinal
      <3>2. CASE step # "write"
        BY <1>1, <3>2 DEF DynInv, StepFitsKind
      <3> QED BY <3>1, <3>2
    <2> QED BY <1>1, <1>2, <2>1, <2>2, RespondKeeps
  <1> QED BY <1>3, <1>4

LEMMA WriteStepKeeps ==
    ASSUME DynInv,
           WriteFails \/ DestroyReturns \/ WriteUndecodable \/ WriteDone \/ WriteAccepted
    PROVE  DynInv'
  <1> USE APIAssumption, ExecAssumption
  <1>1. Returned("write")
    BY DEF WriteFails, DestroyReturns, WriteUndecodable, WriteDone, WriteAccepted
  <1>2. /\ ~Idle /\ call.phase = "done" /\ rpc.step = "write"
        /\ call.rid \in IdOrNone /\ call.rid <= made
        /\ 0 \in IdOrNone /\ 0 <= made
        /\ Written.acted = took /\ Written.astray = loose
        /\ Written.tries = call.attempt + 1
    BY <1>1, ReturnedFacts
  <1>3. /\ {"diag", "error", "empty", "state"} \subseteq Outcomes \ {"none"}
        /\ "decode" \in Causes /\ "none" \in Causes /\ "POLL" \in Methods
    BY DEF Outcomes, Causes, Methods
  <1>4. /\ call.method = FirstCall(rpc.kind) /\ call.id = rpc.id
        /\ rpc.kind \in {"create", "update", "destroy"}
    BY <1>2 DEF DynInv, CallServesStep, StepFitsKind
  <1>5. call.method \in Writes /\ (rpc.kind = "destroy" <=> call.method = "DELETE")
    BY <1>4 DEF FirstCall, Writes
  <1>6. CASE WriteFails
    BY <1>1, <1>6, ClassifyKeeps DEF WriteFails
  <1>7. CASE DestroyReturns
    <2>1. rpc.id \notin live
      BY <1>2, <1>4, <1>5, <1>7 DEF DestroyReturns, DynInv, ExecInv, GoneIsHonest
    <2> QED BY <1>2, <1>3, <1>7, <2>1, RespondKeeps DEF DestroyReturns
  <1>8. CASE WriteUndecodable
    BY <1>2, <1>3, <1>8, RespondKeeps DEF WriteUndecodable
  <1>9. CASE WriteDone
    <2>1. took
      BY <1>2, <1>5, <1>9 DEF WriteDone, DynInv, ExecInv, SuccessIsEffect
    <2>2. Describes(call.method)
      BY <1>4, <1>9 DEF WriteDone, FirstCall, Describes
    <2>3. call.rid # 0
      BY <1>2, <1>9, <2>2 DEF WriteDone, DynInv, ExecInv, SuccessDescribes
    <2> QED BY <1>2, <1>3, <1>9, <2>1, <2>3, RespondKeeps DEF WriteDone
  <1>10. CASE WriteAccepted
    <2>1. took
      BY <1>2, <1>5, <1>10 DEF WriteAccepted, DynInv, ExecInv, SuccessIsEffect
    <2>2. CASE Respond("error", "none", 0)
      BY <1>2, <1>3, <2>2, RespondKeeps
    <2>3. CASE /\ Begin("POLL", 0, cancelled)
               /\ rpc' = [Written EXCEPT !.step = "poll"]
               /\ pollOver' = FALSE
               /\ UNCHANGED <<held, cancelled, doubt>>
      <3>1. rpc.kind \in {"create", "update"} /\ Async
        BY <1>4, <1>10 DEF WriteAccepted
      <3>2. pollOver' \in BOOLEAN /\ Written.acted
        BY <1>2, <2>1, <2>3
      <3> QED BY <1>2, <1>3, <2>3, <3>1, <3>2, AskKeeps
    <2> QED BY <1>10, <2>2, <2>3 DEF WriteAccepted
  <1> QED BY <1>6, <1>7, <1>8, <1>9, <1>10

LEMMA PollStepKeeps ==
    ASSUME DynInv,
           PollFails \/ PollUndecodable \/ PollPending \/ JobFailed \/ JobSucceeded
    PROVE  DynInv'
  <1> USE APIAssumption, ExecAssumption
  <1>1. Returned("poll")
    BY DEF PollFails, PollUndecodable, PollPending, JobFailed, JobSucceeded
  <1>2. /\ ~Idle /\ call.phase = "done" /\ rpc.step = "poll"
        /\ rpc.id \in IdOrNone
        /\ 0 \in IdOrNone /\ 0 <= made
        /\ Written = rpc
    BY <1>1, ReturnedFacts
  <1>3. /\ {"diag", "error", "empty", "state"} \subseteq Outcomes \ {"none"}
        /\ {"decode", "none", "jobFailed"} \subseteq Causes /\ "GET" \in Methods
    BY DEF Outcomes, Causes, Methods
  <1>4. rpc.kind \in {"create", "update"} /\ Async /\ rpc.acted
    BY <1>2 DEF DynInv, StepFitsKind
  <1>5. CASE PollFails
    BY <1>1, <1>5, ClassifyKeeps DEF PollFails
  <1>6. CASE PollUndecodable
    BY <1>2, <1>3, <1>6, RespondKeeps DEF PollUndecodable
  <1>7. CASE JobFailed
    BY <1>2, <1>3, <1>7, RespondKeeps DEF JobFailed
  <1>8. CASE PollPending
    <2>1. CASE Respond("error", "none", 0)
      BY <1>2, <1>3, <2>1, RespondKeeps
    <2>2. CASE /\ rpc' = [rpc EXCEPT !.step = "pause"]
               /\ UNCHANGED <<held, cancelled, pollOver, doubt, apiVars, execVars>>
      <3>1. rpc \in Rpcs /\ "pause" \in Steps
        BY DEF DynInv, ServerTypeOK, Steps
      <3>2. /\ rpc' \in Rpcs /\ rpc'.step = "pause"
            /\ rpc'.kind = rpc.kind /\ rpc'.id = rpc.id /\ rpc'.rid = rpc.rid
            /\ rpc'.outcome = rpc.outcome /\ rpc'.acted = rpc.acted
        BY <2>2, <3>1 DEF Rpcs
      <3>3. UNCHANGED vars /\ UNCHANGED <<live, made, job, call>>
        BY <2>2 DEF vars, apiVars, execVars
      <3>4. ExecInv'
        BY <3>3, StutterKeeps DEF DynInv
      <3>5. ServerTypeOK' /\ HeldIsKnown' /\ NamesAreUnique'
        BY <2>2, <3>2, <3>3 DEF DynInv, ServerTypeOK, HeldIsKnown, NamesAreUnique
      <3>6. CallServesStep' /\ StepFitsKind' /\ ServesHeld'
        BY <1>2, <1>4, <2>2, <3>2, <3>3 DEF DynInv, CallServesStep, StepFitsKind, ServesHeld, Idle
      <3>7. GoneMeansGone' /\ CleanWriteIsReal' /\ FirstRefusalIsCertain'
        BY <1>2, <3>2 DEF DynInv, CallServesStep, GoneMeansGone, CleanWriteIsReal,
                          FirstRefusalIsCertain
      <3> QED BY <3>4, <3>5, <3>6, <3>7 DEF DynInv
    <2> QED BY <1>8, <2>1, <2>2 DEF PollPending
  <1>9. CASE JobSucceeded
    <2>1. CASE Respond("diag", "decode", 0)
      BY <1>2, <1>3, <2>1, RespondKeeps
    <2>2. CASE /\ Begin("GET", rpc.id, cancelled)
               /\ rpc' = [rpc EXCEPT !.step = "read"]
               /\ UNCHANGED <<held, cancelled, pollOver, doubt>>
      <3>1. pollOver' \in BOOLEAN /\ rpc' = [Written EXCEPT !.step = "read"] /\ Written.acted
        BY <1>2, <1>4, <2>2 DEF DynInv, ServerTypeOK
      <3> QED BY <1>2, <1>3, <1>4, <2>2, <3>1, AskKeeps
    <2> QED BY <1>9, <2>1, <2>2 DEF JobSucceeded
  <1> QED BY <1>5, <1>6, <1>7, <1>8, <1>9

LEMMA PauseEndsKeeps ==
    ASSUME DynInv, PauseEnds
    PROVE  DynInv'
  <1> USE APIAssumption, ExecAssumption
  <1>1. /\ rpc.step = "pause" /\ ~Idle /\ call.phase = "done"
        /\ rpc.kind \in {"create", "update"} /\ Async /\ rpc.acted
    BY DEF PauseEnds, DynInv, Idle, CallServesStep, StepFitsKind
  <1>2. Written = rpc
    BY <1>1 DEF Written
  <1>3. /\ "error" \in Outcomes \ {"none"} /\ "none" \in Causes /\ "POLL" \in Methods
        /\ 0 \in IdOrNone /\ 0 <= made
    BY DEF Outcomes, Causes, Methods, DynInv, ExecInv, TypeOK, APITypeOK, IdOrNone
  <1>4. CASE Respond("error", "none", 0)
    BY <1>1, <1>3, <1>4, RespondKeeps
  <1>5. CASE /\ Begin("POLL", 0, cancelled)
             /\ rpc' = [rpc EXCEPT !.step = "poll"]
             /\ UNCHANGED <<held, cancelled, pollOver, doubt>>
    <2>1. pollOver' \in BOOLEAN /\ rpc' = [Written EXCEPT !.step = "poll"] /\ Written.acted
      BY <1>1, <1>2, <1>5 DEF DynInv, ServerTypeOK
    <2> QED BY <1>1, <1>3, <1>5, <2>1, AskKeeps
  <1> QED BY <1>4, <1>5 DEF PauseEnds

LEMMA ReadStepKeeps ==
    ASSUME DynInv, ReadFails \/ ReadUndecodable \/ ReadFindsNothing \/ ReadDone
    PROVE  DynInv'
  <1> USE APIAssumption, ExecAssumption
  <1>1. Returned("read")
    BY DEF ReadFails, ReadUndecodable, ReadFindsNothing, ReadDone
  <1>2. /\ ~Idle /\ call.phase = "done" /\ rpc.step = "read"
        /\ call.rid \in IdOrNone /\ call.rid <= made
        /\ 0 \in IdOrNone /\ 0 <= made
        /\ Written = rpc
    BY <1>1, ReturnedFacts
  <1>3. /\ {"diag", "empty", "state"} \subseteq Outcomes \ {"none"}
        /\ {"decode", "none", "vanished"} \subseteq Causes
    BY DEF Outcomes, Causes
  <1>4. call.method = "GET" /\ call.id = rpc.id
    BY <1>2 DEF DynInv, CallServesStep
  <1>5. CASE ReadFails
    BY <1>1, <1>5, ClassifyKeeps DEF ReadFails
  <1>6. CASE ReadUndecodable
    BY <1>2, <1>3, <1>6, RespondKeeps DEF ReadUndecodable
  <1>7. CASE ReadFindsNothing
    <2>1. rpc.id \notin live
      BY <1>2, <1>4, <1>7 DEF ReadFindsNothing, DynInv, ExecInv, GoneIsHonest
    <2> QED BY <1>2, <1>3, <1>7, <2>1, RespondKeeps DEF ReadFindsNothing
  <1>8. CASE ReadDone
    <2>1. call.rid # 0
      BY <1>2, <1>4, <1>8 DEF ReadDone, DynInv, ExecInv, SuccessDescribes, Describes
    <2>2. rpc.kind \in {"create", "update"} => Written.acted
      BY <1>2 DEF DynInv, StepFitsKind
    <2> QED BY <1>2, <1>3, <1>8, <2>1, <2>2, RespondKeeps DEF ReadDone
  <1> QED BY <1>5, <1>6, <1>7, <1>8

(***************************************************************************)
(* Core and the timers                                                     *)
(***************************************************************************)

LEMMA StartKeeps ==
    ASSUME DynInv, NEW kind \in Kinds, NEW id \in IdOrNone, Start(kind, id)
    PROVE  DynInv'
  <1> USE APIAssumption, ExecAssumption
  <1>1. /\ ExecInv /\ ServerTypeOK /\ HeldIsKnown /\ NamesAreUnique
        /\ made \in Nat /\ held \in IdOrNone
    BY DEF DynInv, ServerTypeOK, ExecInv, TypeOK, APITypeOK, IdOrNone
  <1>2. /\ Begin(FirstCall(kind), id, FALSE)
        /\ rpc' = [NoRpc EXCEPT !.kind = kind, !.step = FirstStep(kind), !.id = id]
        /\ cancelled' = FALSE /\ pollOver' = FALSE
        /\ UNCHANGED <<held, doubt>>
        /\ Idle
        /\ IF kind = "create" THEN held = 0 /\ id = 0
           ELSE IF kind = "import" THEN held = 0 /\ id \in 1..made
           ELSE held # 0 /\ id = held
    BY DEF Start, MayAsk
  <1>3. /\ UNCHANGED <<live, made, job>>
        /\ call'.phase = "ready" /\ call'.method = FirstCall(kind) /\ call'.id = id
    BY <1>2 DEF Begin, NoCall, apiVars
  <1>4. id <= made /\ FirstCall(kind) \in Methods
    BY <1>1, <1>2 DEF HeldIsKnown, FirstCall, Methods, Writes
  <1>5. ExecInv' /\ NamesAreUnique'
    <2>1. ExecInv'
      BY <1>1, <1>2, <1>4, BeginKeeps
    <2> QED BY <1>1, <1>3, <2>1 DEF NamesAreUnique
  <1>6. /\ rpc' \in Rpcs /\ rpc'.kind = kind /\ rpc'.step = FirstStep(kind)
        /\ rpc'.id = id /\ rpc'.rid = 0 /\ rpc'.outcome = "none" /\ rpc'.tries = 0
    <2>1. /\ FirstStep(kind) \in Steps /\ "none" \in Outcomes /\ "none" \in Causes
      BY DEF FirstStep, Steps, Outcomes, Causes
    <2>2. rpc' = [kind |-> kind, step |-> FirstStep(kind), id |-> id, acted |-> FALSE,
                  astray |-> FALSE, tries |-> 0, outcome |-> "none", cause |-> "none",
                  rid |-> 0]
      BY <1>2, StartedRpc
    <2> QED BY <2>1, <2>2, NewRpc, SMTT(30)
  <1>7. ServerTypeOK' /\ HeldIsKnown'
    <2>1. cancelled' \in BOOLEAN /\ pollOver' \in BOOLEAN /\ doubt' \in BOOLEAN
      BY <1>1, <1>2, Zenon DEF ServerTypeOK
    <2>2. ServerTypeOK'
      BY <1>1, <1>2, <1>6, <2>1 DEF ServerTypeOK
    <2>3. HeldIsKnown'
      BY <1>1, <1>2, <1>3, <1>4, <1>6 DEF HeldIsKnown, IdOrNone
    <2> QED BY <2>2, <2>3
  <1>8. /\ kind \in {"create", "update", "destroy"} => FirstStep(kind) = "write"
        /\ kind \in {"read", "import"} => FirstStep(kind) = "read" /\ FirstCall(kind) = "GET"
        /\ kind \in {"create", "update", "destroy", "read", "import"}
    BY DEF FirstStep, FirstCall, Kinds
  <1>9. CallServesStep' /\ StepFitsKind'
    BY <1>3, <1>6, <1>8 DEF CallServesStep, StepFitsKind, Idle
  <1>10. ServesHeld'
    BY <1>2, <1>6 DEF ServesHeld
  <1>11. GoneMeansGone' /\ CleanWriteIsReal' /\ FirstRefusalIsCertain'
    BY <1>6 DEF GoneMeansGone, CleanWriteIsReal, FirstRefusalIsCertain
  <1> QED BY <1>5, <1>7, <1>9, <1>10, <1>11 DEF DynInv

LEMMA RefuseUnsentKeeps ==
    ASSUME DynInv, NEW kind \in Kinds, NEW id \in IdOrNone, RefuseUnsent(kind, id)
    PROVE  DynInv'
  <1> USE APIAssumption, ExecAssumption
  <1>1. PICK o \in {"diag", "error"} :
           rpc' = [NoRpc EXCEPT !.kind = kind, !.id = id, !.outcome = o, !.cause = "local"]
    BY DEF RefuseUnsent
  <1>2. /\ ExecInv /\ ServerTypeOK /\ HeldIsKnown /\ NamesAreUnique
        /\ made \in Nat /\ held \in IdOrNone
    BY DEF DynInv, ServerTypeOK, ExecInv, TypeOK, APITypeOK, IdOrNone
  <1>3. /\ UNCHANGED <<live, made, job, call, held, pollOver, doubt>> /\ UNCHANGED vars
        /\ cancelled' = FALSE /\ Idle /\ id <= made
    BY <1>2 DEF RefuseUnsent, MayAsk, apiVars, execVars, vars, HeldIsKnown
  <1>4. /\ rpc' \in Rpcs /\ rpc'.step = "idle" /\ rpc'.id = id /\ rpc'.rid = 0
        /\ rpc'.outcome \in {"diag", "error"} /\ rpc'.cause = "local"
    <2>1. "local" \in Causes /\ o \in Outcomes /\ "idle" \in Steps /\ "none" \in Causes
      BY DEF Causes, Outcomes, Steps
    <2>2. rpc' = [kind |-> kind, step |-> "idle", id |-> id, acted |-> FALSE,
                  astray |-> FALSE, tries |-> 0, outcome |-> o, cause |-> "local",
                  rid |-> 0]
      BY <1>1, RefusedRpc
    <2> QED BY <2>1, <2>2, NewRpc, SMTT(30)
  <1>5. ExecInv'
    BY <1>2, <1>3, StutterKeeps
  <1>9. NamesAreUnique'
    BY <1>2, <1>3 DEF NamesAreUnique
  <1>6. ServerTypeOK' /\ HeldIsKnown'
    <2>1. cancelled' \in BOOLEAN /\ pollOver' \in BOOLEAN /\ doubt' \in BOOLEAN
      <3>1. pollOver' = pollOver /\ doubt' = doubt /\ cancelled' = FALSE
        BY <1>3
      <3> QED BY <1>2, <3>1, Zenon DEF ServerTypeOK
    <2>2. ServerTypeOK'
      BY <1>2, <1>3, <1>4, <2>1 DEF ServerTypeOK
    <2>3. HeldIsKnown'
      BY <1>2, <1>3, <1>4 DEF HeldIsKnown, IdOrNone
    <2> QED BY <2>2, <2>3
  <1>7. CallServesStep' /\ StepFitsKind' /\ ServesHeld'
    BY <1>3, <1>4 DEF DynInv, CallServesStep, StepFitsKind, ServesHeld, Idle
  <1>8. GoneMeansGone' /\ CleanWriteIsReal' /\ FirstRefusalIsCertain'
    BY <1>4 DEF GoneMeansGone, CleanWriteIsReal, FirstRefusalIsCertain
  <1> QED BY <1>5, <1>6, <1>7, <1>8, <1>9 DEF DynInv

\* Steps that touch neither the RPC nor the call.
LEMMA TimerKeeps ==
    ASSUME DynInv, UNCHANGED <<rpc, held, doubt, apiVars, call, wire, strays, took, loose>>,
           cancelled' \in BOOLEAN, pollOver' \in BOOLEAN,
           expired' \/ UNCHANGED expired
    PROVE  DynInv'
  <1>1. UNCHANGED <<live, made, job>>
    BY DEF apiVars
  <1>2. ExecInv'
    <2>1. CASE expired'
      BY <2>1, DeadlineKeeps DEF DynInv
    <2>2. CASE UNCHANGED expired
      <3>1. UNCHANGED vars
        BY <2>2 DEF vars, execVars
      <3> QED BY <3>1, StutterKeeps DEF DynInv
    <2> QED BY <2>1, <2>2
  <1>3. ServerTypeOK' /\ HeldIsKnown' /\ NamesAreUnique'
    BY <1>1 DEF DynInv, ServerTypeOK, HeldIsKnown, NamesAreUnique
  <1>4. CallServesStep' /\ StepFitsKind' /\ ServesHeld'
    BY DEF DynInv, CallServesStep, StepFitsKind, ServesHeld, Idle
  <1>5. GoneMeansGone' /\ CleanWriteIsReal' /\ FirstRefusalIsCertain'
    BY <1>1 DEF DynInv, GoneMeansGone, CleanWriteIsReal, FirstRefusalIsCertain
  <1> QED BY <1>2, <1>3, <1>4, <1>5 DEF DynInv

LEMMA InitHasDynInv ==
    ASSUME DynInit
    PROVE  DynInv
  <1> USE APIAssumption, ExecAssumption
  <1>1. ExecInv
    BY InitHasExecInv DEF DynInit
  <1>2. /\ rpc = NoRpc /\ held = 0 /\ cancelled = FALSE /\ pollOver = FALSE /\ doubt = FALSE
        /\ live = {} /\ made = 0 /\ call.phase = "idle"
    BY DEF DynInit, ServerInit, Init, APIInit, ExecInit, NoCall
  <1>3. NoRpc \in Rpcs
    BY Members, NewRpc DEF NoRpc, Kinds, Steps, Outcomes, Causes
  <1>4. /\ rpc.step = "idle" /\ rpc.id = 0 /\ rpc.rid = 0 /\ rpc.outcome = "none"
    BY <1>2 DEF NoRpc
  <1>5. ServerTypeOK /\ HeldIsKnown /\ NamesAreUnique
    <2>1. 0 <= 0 /\ FALSE \in BOOLEAN
      OBVIOUS
    <2>2. ServerTypeOK
      BY <1>2, <1>3, <2>1, Members DEF ServerTypeOK
    <2>3. HeldIsKnown
      BY <1>2, <1>4, <2>1 DEF HeldIsKnown
    <2>4. NamesAreUnique
      BY <1>2 DEF NamesAreUnique
    <2> QED BY <2>2, <2>3, <2>4
  <1>6. CallServesStep /\ StepFitsKind /\ ServesHeld
    BY <1>2, <1>4 DEF CallServesStep, StepFitsKind, ServesHeld, Idle
  <1>7. GoneMeansGone /\ CleanWriteIsReal /\ FirstRefusalIsCertain
    BY <1>4 DEF GoneMeansGone, CleanWriteIsReal, FirstRefusalIsCertain
  <1> QED BY <1>1, <1>5, <1>6, <1>7 DEF DynInv

(***************************************************************************)
(* The theorems                                                            *)
(***************************************************************************)

\* The invariant of the server and of everything beneath it.
THEOREM DynInvariant == DynSpec => []DynInv
  <1>1. DynInit => DynInv
    BY InitHasDynInv
  <1>2. DynInv /\ [DynNext]_allVars => DynInv'
    <2> SUFFICES ASSUME DynInv, [DynNext]_allVars PROVE DynInv'
      OBVIOUS
    <2>1. CASE CoreCalls
      BY <2>1, StartKeeps, RefuseUnsentKeeps DEF CoreCalls
    <2>2. CASE HandlerStep
      BY <2>2, WriteStepKeeps, PollStepKeeps, PauseEndsKeeps, ReadStepKeeps DEF HandlerStep
    <2>3. CASE PollDeadline
      <3>1. /\ UNCHANGED <<rpc, held, doubt, apiVars, call, wire, strays, took, loose>>
            /\ UNCHANGED <<cancelled, expired>> /\ pollOver' = TRUE
        BY <2>3 DEF PollDeadline, execVars
      <3> QED BY <3>1, TimerKeeps DEF DynInv, ServerTypeOK
    <2>4. CASE CoreCancels
      <3>1. /\ UNCHANGED <<rpc, held, doubt, apiVars, call, wire, strays, took, loose>>
            /\ UNCHANGED pollOver /\ expired' = TRUE /\ cancelled' = TRUE
        BY <2>4 DEF CoreCancels
      <3> QED BY <3>1, TimerKeeps DEF DynInv, ServerTypeOK
    <2>5. CASE Beneath
      BY <2>5, BeneathKeeps
    <2>6. CASE UNCHANGED allVars
      <3>1. /\ UNCHANGED <<rpc, held, doubt, apiVars, call, wire, strays, took, loose>>
            /\ UNCHANGED <<cancelled, expired, pollOver>>
        BY <2>6 DEF allVars, execVars, serverVars
      <3> QED BY <3>1, TimerKeeps DEF DynInv, ServerTypeOK
    <2> QED BY <2>1, <2>2, <2>3, <2>4, <2>5, <2>6 DEF DynNext
  <1> QED BY <1>1, <1>2, PTL DEF DynSpec

\* Every variable keeps to its type.
THEOREM DynTypeCorrect == DynSpec => []DynTypeOK
  <1>1. DynInv => DynTypeOK
    BY DEF DynInv, ExecInv, DynTypeOK
  <1> QED BY <1>1, DynInvariant, PTL

\* Core is never told that an object is gone while it exists.
THEOREM GoneObjectsAreGoneToCore == DynSpec => []GoneMeansGone
  <1>1. DynInv => GoneMeansGone
    BY DEF DynInv
  <1> QED BY <1>1, DynInvariant, PTL

\* A write answered with a state was carried out by the RPC that answers.
THEOREM CleanWritesAreReal == DynSpec => []CleanWriteIsReal
  <1>1. DynInv => CleanWriteIsReal
    BY DEF DynInv
  <1> QED BY <1>1, DynInvariant, PTL

\* A synchronous write refused at its first attempt has no effect, ever.
THEOREM FirstRefusalsAreCertain == DynSpec => []FirstRefusalIsCertain
  <1>1. DynInv => FirstRefusalIsCertain
    BY DEF DynInv
  <1> QED BY <1>1, DynInvariant, PTL

(***************************************************************************)
(* What is lost                                                            *)
(***************************************************************************)

\* No abandoned create is on its way.
NoPosts == \A s \in strays : s.method # "POST"

\* Before and after a create: core holds all that exists, and what a read or
\* an update is answered with is what it holds.
HoldsAll ==
    Idle \/ rpc.kind # "create" =>
        /\ live \subseteq {held}
        /\ NoPosts

AnswersForHeld ==
    ~Idle /\ rpc.kind # "create" /\ call.method \in {"GET", "PATCH"} =>
        /\ wire.state = "answered" /\ wire.reply.status = 200 => wire.reply.id = held
        /\ call.phase = "done" /\ call.err = "none" => call.rid = held

\* During the first attempt of a create nothing exists until the API has
\* answered, and then what it has made is in the answer.
FirstCreate ==
    ~Idle /\ rpc.kind = "create" /\ call.attempt = 0 =>
        /\ call.phase \in {"ready", "waiting"} =>
              NoPosts /\ (wire.state # "answered" => live = {})
        /\ wire.state = "answered" =>
              /\ wire.reply.status = 200 => live \subseteq {wire.reply.id}
              /\ wire.reply.status \in 400..499 => live = {}
        /\ call.phase = "done" /\ call.err = "none" => NoPosts /\ live \subseteq {call.rid}
        /\ call.phase = "done" /\ IsTerminal(call.err, call.status) => NoPosts /\ live = {}

LostInv ==
    /\ job = "none"
    /\ ~doubt => HoldsAll /\ AnswersForHeld /\ FirstCreate

\* A post that is on its way is a create's.
LEMMA PostsAreCreates ==
    ASSUME DynInv, call.phase \notin {"idle", "done"}, call.method = "POST"
    PROVE  CreateOutstanding
  <1>1. ~Idle /\ rpc.step # "pause"
    BY DEF DynInv, CallServesStep
  <1>2. rpc.step = "write"
    <2>1. rpc.step \in {"idle", "write", "poll", "pause", "read"}
      BY DEF DynInv, ServerTypeOK, Rpcs, Steps
    <2> QED BY <1>1, <2>1 DEF DynInv, CallServesStep, Idle
  <1>3. rpc.kind = "create"
    BY <1>2 DEF DynInv, CallServesStep, StepFitsKind, FirstCall
  <1> QED BY <1>1, <1>3 DEF CreateOutstanding

\* Without jobs: what an answer says of what there is.
LEMMA SynchronousAnswers ==
    ASSUME ~Async, APITypeOK, NEW m \in Methods, NEW id \in IdOrNone,
           NEW r \in Reply, NEW effect \in BOOLEAN, Answers(m, id, r, effect)
    PROVE  /\ UNCHANGED job
           /\ m # "POST" => live' \subseteq live
           /\ m \in {"GET", "PATCH"} /\ r.status = 200 => r.id \in live
           /\ m = "POST" =>
                 /\ r.status = 200 => live' = live \cup {r.id}
                 /\ r.status \in 400..499 => live' = live
  <1>1. CASE effect
    <2>1. m \in Writes /\ Admits(m, id) /\ Effect(m, id) /\ r.status \notin 400..499
      BY <1>1 DEF Answers
    <2>2. CASE m = "POST"
      <3>1. UNCHANGED job /\ live' = live \cup {made + 1}
        BY <2>1, <2>2 DEF Effect, MakeObject
      <3>2. r.status = 200 => r.id = made + 1
        BY <2>2 DEF Answers, Described
      <3> QED BY <2>1, <2>2, <3>1, <3>2
    <2>3. CASE m = "PATCH"
      <3>1. UNCHANGED <<live, made, job>>
        BY <2>1, <2>3 DEF Effect
      <3>2. r.status = 200 => r.id \in live
        BY <2>3 DEF Answers, Described, Target
      <3> QED BY <2>3, <3>1, <3>2
    <2>4. CASE m = "DELETE"
      BY <2>1, <2>4 DEF Effect
    <2> QED BY <2>1, <2>2, <2>3, <2>4 DEF Writes
  <1>2. CASE ~effect
    <2>1. UNCHANGED <<live, made, job>>
      BY <1>2 DEF Answers, apiVars
    <2>2. m \in {"GET", "PATCH"} /\ r.status = 200 => r.id \in live
      BY DEF Answers, Described, Target
    <2>3. m = "POST" => r.status # 200
      BY <1>2 DEF Answers, Writes
    <2> QED BY <2>1, <2>2, <2>3
  <1> QED BY <1>1, <1>2

\* Others only take away.
LEMMA OthersOnlyDelete ==
    ASSUME job = "none", APIMoves
    PROVE  live' \subseteq live /\ UNCHANGED <<job, call, wire, strays>>
  <1>1. ~JobEnds
    BY DEF JobEnds, JobRunning
  <1> QED BY <1>1 DEF APIMoves, OutOfBandDelete, execVars

\* A status without an error is 200.
LEMMA ReceivedFacts ==
    ASSUME ExecInv, Receive
    PROVE  /\ call.phase = "waiting" /\ wire.state = "answered"
           /\ UNCHANGED <<live, job, strays>>
           /\ wire' = NoWire
           /\ call'.method = call.method
           /\ call'.err = "none" => wire.reply.status = 200 /\ call'.rid = wire.reply.id
           /\ IsTerminal(call'.err, call'.status) => wire.reply.status \in 400..499
           /\ call'.phase \in {"backoff", "done"}
           /\ call'.attempt = 0 => call.attempt = 0
  <1> USE APIAssumption, ExecAssumption
  <1> DEFINE r == wire.reply
  <1>1. /\ ExecTypeOK /\ call \in Calls
        /\ wire.state = "answered" /\ call.phase = "waiting"
        /\ r.status \in {200} \cup ErrorStatuses /\ r.body \in Bodies /\ r.id \in IdOrNone
    BY DEF ExecInv, TypeOK, ExecTypeOK, Receive, Wires, Reply
  <1>2. UNCHANGED <<live, job, strays>>
    BY DEF Receive, apiVars
  <1>3. SUFFICES ASSUME NEW status \in Statuses, NEW err \in Errors, NEW body \in Bodies,
                        NEW rid \in IdOrNone, AttemptReturns(status, err, body, rid),
                        err = "none" => r.status = 200 /\ rid = r.id,
                        status = r.status
                 PROVE  /\ wire' = NoWire
                        /\ call'.method = call.method
                        /\ call'.err = "none" => r.status = 200 /\ call'.rid = r.id
                        /\ IsTerminal(call'.err, call'.status) => r.status \in 400..499
                        /\ call'.phase \in {"backoff", "done"}
                        /\ call'.attempt = 0 => call.attempt = 0
    <2>1. r.status \in Statuses /\ {"plain", "api", "none"} \subseteq Errors
          /\ "nil" \in Bodies /\ 0 \in IdOrNone
      BY <1>1, Members DEF Statuses, Errors
    <2>2. r.status < 400 => r.status = 200
      <3>1. r.status \in {200} \cup 400..599
        BY ONLY <1>1, APIAssumption
      <3> QED BY ONLY <3>1, SMT
    <2> QED BY <1>1, <1>2, <1>3, <2>1, <2>2 DEF Receive
  <1>4. /\ wire' = NoWire /\ call'.method = call.method
        /\ call'.status = status /\ call'.err = err /\ call'.rid = rid
        /\ \/ call'.phase = "backoff" /\ call'.attempt = call.attempt + 1
           \/ call'.phase = "done" /\ call'.attempt = call.attempt
    BY <1>1, <1>3, AttemptReturnsFacts
  <1>5. IsTerminal(call'.err, call'.status) => r.status \in 400..499
    BY <1>1, <1>3, <1>4 DEF IsTerminal, TerminalStatusCodes
  <1>6. call.attempt \in Nat
    BY <1>1 DEF Calls
  <1> QED BY <1>3, <1>4, <1>5, <1>6

\* No synchronous write starts a job.
LEMMA JobStays ==
    ASSUME ExecInv, job = "none", ~Async, CallStep
    PROVE  UNCHANGED job
  <1>0. APITypeOK /\ ExecTypeOK /\ call \in Calls
    BY DEF ExecInv, TypeOK, ExecTypeOK
  <1>1. CASE Answer
    <2>1. SUFFICES ASSUME NEW r \in Reply, NEW effect \in BOOLEAN,
                          Answers(call.method, call.id, r, effect)
                   PROVE  UNCHANGED job
      BY <1>1 DEF Answer
    <2>2. call.method \in Methods /\ call.id \in IdOrNone
      BY <1>0 DEF Calls
    <2> QED BY <1>0, <2>1, <2>2, SynchronousAnswers
  <1>2. CASE StrayLands
    <2>1. SUFFICES ASSUME NEW s \in strays, NEW r \in Reply, NEW effect \in BOOLEAN,
                          Answers(s.method, s.id, r, effect)
                   PROVE  UNCHANGED job
      BY <1>2 DEF StrayLands
    <2>2. s.method \in Methods /\ s.id \in IdOrNone
      BY <1>0 DEF ExecTypeOK, Requests, Methods
    <2> QED BY <1>0, <2>1, <2>2, SynchronousAnswers
  <1>3. CASE APIMoves
    BY <1>0, <1>3, OthersOnlyDelete
  <1> QED BY <1>0, <1>1, <1>2, <1>3
          DEF CallStep, Send, NeverSent, Receive, GiveUp, BackoffOver, BackoffCancelled,
              Deadline, apiVars

\* The client, the network, the API and others, when no create is running.
LEMMA BeneathHolds ==
    ASSUME DynInv, LostInv, ~Async, ~doubt, Beneath, Idle \/ rpc.kind # "create"
    PROVE  HoldsAll' /\ AnswersForHeld'
  <1> USE APIAssumption, ExecAssumption
  <1>1. /\ ExecInv /\ APITypeOK /\ ExecTypeOK /\ WireInUse /\ call \in Calls
        /\ job = "none" /\ live \subseteq {held} /\ NoPosts /\ AnswersForHeld
        /\ CallStep
        /\ UNCHANGED <<rpc, held, doubt>>
        /\ Idle' = Idle
    BY DEF DynInv, ExecInv, TypeOK, ExecTypeOK, LostInv, HoldsAll, Beneath, serverVars, Idle
  <1>2. call.phase \notin {"idle", "done"} => ~Idle /\ call.method # "POST"
    <2>1. SUFFICES ASSUME call.phase \notin {"idle", "done"}
                   PROVE  ~Idle /\ call.method # "POST"
      OBVIOUS
    <2>2. ~Idle
      BY <2>1 DEF DynInv, CallServesStep
    <2>3. ~CreateOutstanding
      BY <1>1, <2>2 DEF CreateOutstanding, NoPosts
    <2> QED BY <2>1, <2>2, <2>3, PostsAreCreates
  <1>3. SUFFICES /\ live' \subseteq live
                 /\ \A s \in strays' : s \in strays \/ s.method # "POST"
                 /\ call'.method = call.method
                 /\ ~Idle /\ call.method \in {"GET", "PATCH"} =>
                      /\ wire'.state = "answered" /\ wire'.reply.status = 200 =>
                            wire'.reply.id = held
                      /\ call'.phase = "done" /\ call'.err = "none" => call'.rid = held
    BY <1>1 DEF HoldsAll, AnswersForHeld, NoPosts
  <1> DEFINE Kept == UNCHANGED <<live, job, strays>>
             Same == UNCHANGED <<call, wire>>
  <1>4. CASE Send
    <2>1. Kept /\ call'.method = call.method /\ call'.phase = "waiting" /\ wire'.state = "sent"
      BY <1>1, <1>4 DEF Send, apiVars, Calls
    <2> QED BY <2>1
  <1>5. CASE NeverSent \/ GiveUp
    <2>1. AttemptReturns(0, "plain", "nil", 0) /\ UNCHANGED <<live, job>>
      BY <1>5 DEF NeverSent, GiveUp, apiVars
    <2>2. call'.method = call.method /\ call'.err = "plain" /\ wire' = NoWire
      BY <1>1, <2>1, Members, AttemptReturnsFacts
    <2>3. \A s \in strays' : s \in strays \/ s.method # "POST"
      BY <1>2, <1>5 DEF NeverSent, GiveUp
    <2> QED BY <2>1, <2>2, <2>3 DEF NoWire
  <1>6. CASE Answer
    <2>1. call.phase = "waiting" /\ call' = call /\ strays' = strays
      BY <1>1, <1>6 DEF Answer, WireInUse
    <2>2. SUFFICES ASSUME NEW r \in Reply, NEW effect \in BOOLEAN,
                          Answers(call.method, call.id, r, effect), wire'.reply = r
                   PROVE  /\ live' \subseteq live
                          /\ call.method \in {"GET", "PATCH"} /\ r.status = 200 => r.id = held
      BY <1>6, <2>1 DEF Answer
    <2>3. call.method \in Methods /\ call.id \in IdOrNone /\ call.method # "POST"
      BY <1>1, <1>2, <2>1 DEF Calls
    <2> QED BY <1>1, <2>2, <2>3, SynchronousAnswers
  <1>7. CASE Receive
    BY <1>1, <1>7, ReceivedFacts DEF AnswersForHeld, NoWire
  <1>8. CASE BackoffOver \/ BackoffCancelled
    <2>1. Kept /\ wire' = wire /\ wire.state = "none"
      BY <1>1, <1>8 DEF BackoffOver, BackoffCancelled, apiVars, WireInUse
    <2>2. call'.method = call.method /\ (call'.phase = "ready" \/ call'.err = "plain")
      BY <1>1, <1>8, ZenonT(60) DEF BackoffOver, BackoffCancelled, Calls
    <2> QED BY <2>1, <2>2
  <1>9. CASE Deadline
    <2>1. Kept /\ Same
      BY <1>9 DEF Deadline, apiVars
    <2> QED BY <1>1, <2>1 DEF AnswersForHeld
  <1>10. CASE StrayLands
    <2>1. Same /\ strays' \subseteq strays
      BY <1>10 DEF StrayLands
    <2>2. live' \subseteq live
      <3>1. SUFFICES ASSUME NEW s \in strays, NEW r \in Reply, NEW effect \in BOOLEAN,
                            Answers(s.method, s.id, r, effect)
                     PROVE  live' \subseteq live
        BY <1>10 DEF StrayLands
      <3>2. s.method \in Methods /\ s.id \in IdOrNone /\ s.method # "POST"
        BY <1>1 DEF ExecTypeOK, Requests, Methods, NoPosts
      <3> QED BY <1>1, <3>1, <3>2, SynchronousAnswers
    <2> QED BY <1>1, <2>1, <2>2 DEF AnswersForHeld
  <1>11. CASE APIMoves
    BY <1>1, <1>11, OthersOnlyDelete DEF AnswersForHeld
  <1> QED BY <1>1, <1>4, <1>5, <1>6, <1>7, <1>8, <1>9, <1>10, <1>11 DEF CallStep

\* The same while a create is running.
LEMMA BeneathCreates ==
    ASSUME DynInv, LostInv, ~Async, ~doubt, Beneath, ~Idle, rpc.kind = "create"
    PROVE  FirstCreate'
  <1> USE APIAssumption, ExecAssumption
  <1>1. /\ ExecInv /\ APITypeOK /\ ExecTypeOK /\ WireInUse /\ FirstAttempt /\ call \in Calls
        /\ job = "none" /\ FirstCreate /\ CallStep
        /\ UNCHANGED <<rpc, held, doubt>>
        /\ call.attempt \in Nat
    BY DEF DynInv, ExecInv, TypeOK, ExecTypeOK, LostInv, Beneath, serverVars, Calls
  <1>2. call.method = "POST"
    BY DEF DynInv, ServerTypeOK, Rpcs, Steps, StepFitsKind, CallServesStep, Idle, FirstCall
  <1> DEFINE Within(l, nop, c, w) ==
               /\ c.phase \in {"ready", "waiting"} => nop /\ (w.state # "answered" => l = {})
               /\ w.state = "answered" =>
                     /\ w.reply.status = 200 => l \subseteq {w.reply.id}
                     /\ w.reply.status \in 400..499 => l = {}
               /\ c.phase = "done" /\ c.err = "none" => nop /\ l \subseteq {c.rid}
               /\ c.phase = "done" /\ IsTerminal(c.err, c.status) => nop /\ l = {}
  <1>4. SUFFICES ASSUME call'.attempt = 0
                 PROVE  Within(live', NoPosts', call', wire')
    BY DEF FirstCreate
  <1>5. call.attempt = 0 => Within(live, NoPosts, call, wire)
    BY <1>1 DEF FirstCreate
  <1> HIDE DEF Within
  <1>6. CASE Send
    <2>1. /\ UNCHANGED <<live, strays>> /\ call'.phase = "waiting" /\ wire'.state = "sent"
          /\ call'.attempt = call.attempt /\ call.phase = "ready"
      BY <1>1, <1>6 DEF Send, apiVars, Calls
    <2>2. wire.state # "answered"
      BY <1>1, <2>1 DEF WireInUse
    <2> QED BY <1>4, <1>5, <2>1, <2>2 DEF Within, NoPosts
  <1>7. CASE NeverSent \/ GiveUp
    <2>1. AttemptReturns(0, "plain", "nil", 0)
      BY <1>7 DEF NeverSent, GiveUp
    <2>2. /\ call'.err = "plain" /\ wire' = NoWire
          /\ call'.phase = "backoff" \/ call'.phase = "done"
      BY <1>1, <2>1, Members, AttemptReturnsFacts
    <2> QED BY <2>2 DEF Within, NoWire, IsTerminal
  <1>8. CASE Answer
    <2>1. call.phase = "waiting" /\ call' = call /\ strays' = strays /\ wire.state = "sent"
      BY <1>1, <1>8 DEF Answer, WireInUse
    <2>2. live = {} /\ NoPosts'
      BY <1>4, <1>5, <2>1 DEF Within, NoPosts
    <2>3. SUFFICES ASSUME NEW r \in Reply, NEW effect \in BOOLEAN,
                          Answers(call.method, call.id, r, effect),
                          wire'.reply = r, wire'.state = "answered"
                   PROVE  /\ r.status = 200 => live' \subseteq {r.id}
                          /\ r.status \in 400..499 => live' = {}
      BY <1>8, <2>1, <2>2 DEF Answer, Within
    <2>4. call.method \in Methods /\ call.id \in IdOrNone
      BY <1>1 DEF Calls
    <2> QED BY <1>1, <1>2, <2>2, <2>3, <2>4, SynchronousAnswers
  <1>9. CASE Receive
    <2>1. /\ call.phase = "waiting" /\ wire.state = "answered"
          /\ UNCHANGED <<live, job, strays>>
          /\ wire' = NoWire
          /\ call'.err = "none" => wire.reply.status = 200 /\ call'.rid = wire.reply.id
          /\ IsTerminal(call'.err, call'.status) => wire.reply.status \in 400..499
          /\ call'.phase \in {"backoff", "done"}
          /\ call'.attempt = 0 => call.attempt = 0
      BY <1>1, <1>9, ReceivedFacts
    <2> QED BY <1>4, <1>5, <2>1 DEF Within, NoPosts, NoWire
  <1>10. CASE BackoffOver \/ BackoffCancelled
    <2>1. call'.attempt = call.attempt /\ call.phase = "backoff"
      BY <1>1, <1>10, ZenonT(60) DEF BackoffOver, BackoffCancelled, Calls
    <2> QED BY <1>1, <1>4, <2>1 DEF FirstAttempt
  <1>11. CASE Deadline
    <2>1. UNCHANGED <<live, strays, call, wire>>
      BY <1>11 DEF Deadline, apiVars
    <2> QED BY <1>4, <1>5, <2>1 DEF Within, NoPosts
  <1>12. ASSUME UNCHANGED <<call, wire>>, strays' \subseteq strays,
                NoPosts => live' \subseteq live
         PROVE  Within(live', NoPosts', call', wire')
    <2>1. NoPosts => NoPosts'
      BY <1>12 DEF NoPosts
    <2>2. wire.state = "answered" => call.phase = "waiting"
      BY <1>1 DEF WireInUse
    <2> QED BY <1>4, <1>5, <1>12, <2>1, <2>2 DEF Within
  <1>13. CASE StrayLands
    <2>1. UNCHANGED <<call, wire>> /\ strays' \subseteq strays
      BY <1>13 DEF StrayLands
    <2>2. ASSUME NoPosts PROVE live' \subseteq live
      <3>1. SUFFICES ASSUME NEW s \in strays, NEW r \in Reply, NEW effect \in BOOLEAN,
                            Answers(s.method, s.id, r, effect)
                     PROVE  live' \subseteq live
        BY <1>13 DEF StrayLands
      <3>2. s.method \in Methods /\ s.id \in IdOrNone /\ s.method # "POST"
        BY <1>1, <2>2 DEF ExecTypeOK, Requests, Methods, NoPosts
      <3> QED BY <1>1, <3>1, <3>2, SynchronousAnswers
    <2> QED BY <1>12, <2>1, <2>2
  <1>14. CASE APIMoves
    BY <1>1, <1>12, <1>14, OthersOnlyDelete
  <1> QED BY <1>1, <1>6, <1>7, <1>8, <1>9, <1>10, <1>11, <1>13, <1>14 DEF CallStep

LEMMA BeneathLoses ==
    ASSUME DynInv, LostInv, ~Async, Beneath
    PROVE  LostInv'
  <1>1. UNCHANGED <<rpc, doubt>> /\ job' = "none"
    BY JobStays DEF Beneath, serverVars, DynInv, LostInv
  <1>2. CASE Idle \/ rpc.kind # "create"
    <2>1. ~doubt => HoldsAll' /\ AnswersForHeld'
      BY <1>2, BeneathHolds
    <2>2. FirstCreate'
      BY <1>1, <1>2 DEF FirstCreate, Idle
    <2> QED BY <1>1, <2>1, <2>2 DEF LostInv
  <1>3. CASE ~(Idle \/ rpc.kind # "create")
    <2>1. ~doubt => FirstCreate'
      BY <1>3, BeneathCreates
    <2>2. HoldsAll' /\ AnswersForHeld'
      BY <1>1, <1>3 DEF HoldsAll, AnswersForHeld, Idle
    <2> QED BY <1>1, <2>1, <2>2 DEF LostInv
  <1> QED BY <1>2, <1>3

\* An RPC that ends either leaves doubt or leaves core with all that exists.
LEMMA RespondLoses ==
    ASSUME DynInv, job = "none", ~Idle, NEW outcome, NEW cause, NEW id,
           Respond(outcome, cause, id),
           ~doubt' => NoPosts /\ live \subseteq {held'}
    PROVE  LostInv'
  <1>1. UNCHANGED <<live, job, strays>>
    BY DEF Respond, apiVars, execVars
  <1>2. rpc'.step = "idle"
    <2>1. Written \in Rpcs
      BY WrittenFacts
    <2> QED BY <2>1 DEF Respond, Rpcs
  <1> QED BY <1>1, <1>2 DEF LostInv, HoldsAll, AnswersForHeld, FirstCreate, NoPosts, Idle

\* The handlers of a synchronous resource.
LEMMA HandlerLoses ==
    ASSUME DynInv, LostInv, ~Async, HandlerStep
    PROVE  LostInv'
  <1> USE APIAssumption, ExecAssumption
  <1>1. job = "none" /\ rpc.step \notin {"poll", "pause"}
    BY DEF DynInv, StepFitsKind, LostInv
  <1>2. PICK step \in {"write", "read"} : Returned(step)
    BY <1>1 DEF HandlerStep, WriteFails, DestroyReturns, WriteUndecodable, WriteDone,
                WriteAccepted, PollFails, PollUndecodable, PollPending, PauseEnds, JobFailed,
                JobSucceeded, ReadFails, ReadUndecodable, ReadFindsNothing, ReadDone, Returned
  <1>3. /\ ~Idle /\ call.phase = "done" /\ rpc.step = step
        /\ step = "write" => Written.tries = call.attempt + 1
    BY <1>2, ReturnedFacts
  <1>4. /\ rpc.kind \in {"create", "update", "destroy", "read", "import"}
        /\ step = "write" => rpc.kind \in {"create", "update", "destroy"}
                             /\ call.method = FirstCall(rpc.kind) /\ call.id = rpc.id
        /\ step = "read" => rpc.kind \in {"read", "import"}
                            /\ call.method = "GET" /\ call.id = rpc.id
        /\ rpc.kind \notin {"create", "import"} => rpc.id = held
    BY <1>2, <1>3 DEF DynInv, ServerTypeOK, Rpcs, Kinds, CallServesStep, StepFitsKind, ServesHeld
  <1>5. call.attempt \in Nat
    BY DEF DynInv, ExecInv, TypeOK, ExecTypeOK, Calls
  <1>6. rpc.kind # "create" /\ ~doubt => NoPosts /\ live \subseteq {held} /\ AnswersForHeld
    BY DEF LostInv, HoldsAll
  <1>7. ASSUME rpc.kind = "create", ~doubt, Written.tries = 1
        PROVE  /\ call.err = "none" => NoPosts /\ live \subseteq {call.rid}
               /\ IsTerminal(call.err, call.status) => NoPosts /\ live = {}
    <2>1. step = "write" /\ call.attempt = 0
      BY <1>3, <1>4, <1>5, <1>7
    <2> QED BY <1>3, <1>7, <2>1 DEF LostInv, FirstCreate
  <1>8. ASSUME NEW outcome \in {"diag", "error"}, NEW cause, Respond(outcome, cause, 0),
               cause = "rejected" => IsTerminal(call.err, call.status)
        PROVE  LostInv'
    <2>1. held' = held /\ (~doubt' => ~doubt /\ (rpc.kind = "create" => Settled(outcome, cause)))
      BY <1>8 DEF Respond
    <2>2. ~doubt' => NoPosts /\ live \subseteq {held'}
      BY <1>6, <1>7, <1>8, <2>1 DEF Settled
    <2> QED BY <1>1, <1>3, <1>8, <2>2, RespondLoses
  <1>9. ASSUME rpc.kind \in {"destroy", "read"}, rpc.id \notin live, Respond("empty", "none", 0)
        PROVE  LostInv'
    <2>1. held' = 0 /\ (~doubt' => ~doubt)
      BY <1>9 DEF Respond
    <2>2. ~doubt' => NoPosts /\ live \subseteq {held'}
      BY <1>4, <1>6, <1>9, <2>1
    <2> QED BY <1>1, <1>3, <2>2, <1>9, RespondLoses
  <1>10. ASSUME call.err = "none", rpc.kind # "destroy", Respond("state", "none", call.rid)
         PROVE  LostInv'
    <2>1. held' = call.rid
          /\ (~doubt' => ~doubt /\ (rpc.kind = "create" => Settled("state", "none")))
      BY <1>10 DEF Respond
    <2>2. CASE rpc.kind = "create"
      <3>1. ~doubt' => NoPosts /\ live \subseteq {held'}
        BY <1>7, <1>10, <2>1, <2>2 DEF Settled
      <3> QED BY <1>1, <1>3, <1>10, <3>1, RespondLoses
    <2>3. CASE rpc.kind # "create"
      <3>1. call.method \in {"GET", "PATCH"}
        BY <1>3, <1>4, <1>10, <2>3 DEF FirstCall
      <3>2. ~doubt' => NoPosts /\ live \subseteq {held'}
        BY <1>3, <1>6, <1>10, <2>1, <2>3, <3>1 DEF AnswersForHeld
      <3> QED BY <1>1, <1>3, <1>10, <3>2, RespondLoses
    <2> QED BY <2>2, <2>3
  <1>11. ASSUME ClassifyRESTError PROVE LostInv'
    BY <1>8, <1>11 DEF ClassifyRESTError
  <1>12. CASE WriteFails \/ ReadFails
    BY <1>11, <1>12 DEF WriteFails, ReadFails
  <1>13. CASE DestroyReturns
    <2>1. call.method = "DELETE" /\ call.id = rpc.id /\ rpc.kind = "destroy"
      BY <1>3, <1>4, <1>13 DEF DestroyReturns, Returned, FirstCall
    <2>2. rpc.id \notin live
      BY <1>3, <1>13, <2>1 DEF DestroyReturns, DynInv, ExecInv, GoneIsHonest
    <2> QED BY <1>9, <1>13, <2>1, <2>2 DEF DestroyReturns
  <1>14. CASE WriteUndecodable \/ ReadUndecodable
    BY <1>8, <1>14 DEF WriteUndecodable, ReadUndecodable
  <1>15. CASE WriteDone
    BY <1>10, <1>15 DEF WriteDone
  <1>16. CASE ReadFindsNothing
    <2>1. step = "read"
      BY <1>3, <1>16 DEF ReadFindsNothing, Returned
    <2>2. rpc.id \notin live
      BY <1>3, <1>4, <1>16, <2>1 DEF ReadFindsNothing, DynInv, ExecInv, GoneIsHonest
    <2> QED BY <1>8, <1>9, <1>16, <2>2 DEF ReadFindsNothing
  <1>17. CASE ReadDone
    <2>1. rpc.kind # "destroy"
      BY <1>3, <1>4, <1>17 DEF ReadDone, Returned
    <2> QED BY <1>10, <1>17, <2>1 DEF ReadDone
  <1> QED BY <1>1, <1>12, <1>13, <1>14, <1>15, <1>16, <1>17
          DEF HandlerStep, WriteAccepted, PollFails, PollUndecodable, PollPending, PauseEnds,
              JobFailed, JobSucceeded, Returned

\* Core only calls when it holds all there is.
LEMMA CoreLoses ==
    ASSUME DynInv, LostInv, CoreCalls
    PROVE  LostInv'
  <1> USE APIAssumption
  <1>1. PICK kind \in Kinds, id \in IdOrNone : Start(kind, id) \/ RefuseUnsent(kind, id)
    BY DEF CoreCalls
  <1>2. /\ MayAsk(kind, id) /\ Idle
        /\ UNCHANGED <<live, job, strays, held, doubt>>
    BY <1>1 DEF Start, RefuseUnsent, MayAsk, Begin, apiVars, execVars
  <1>3. job = "none" /\ (~doubt => live \subseteq {held} /\ NoPosts)
    BY <1>2 DEF LostInv, HoldsAll
  <1>4. CASE Start(kind, id)
    <2>1. call'.phase = "ready" /\ wire' = NoWire
      BY <1>4 DEF Start, Begin, NoCall
    <2>2. rpc'.kind = kind
      <3>1. rpc' = [NoRpc EXCEPT !.kind = kind, !.step = FirstStep(kind), !.id = id]
        BY <1>4 DEF Start
      <3>2. rpc' = [kind |-> kind, step |-> FirstStep(kind), id |-> id, acted |-> FALSE,
                    astray |-> FALSE, tries |-> 0, outcome |-> "none", cause |-> "none",
                    rid |-> 0]
        BY <3>1, StartedRpc
      <3> QED BY <3>2
    <2>3. kind = "create" /\ ~doubt => live = {}
      <3>1. kind = "create" => held = 0
        BY <1>2 DEF MayAsk
      <3>2. 0 \notin live
        BY DEF DynInv, ExecInv, TypeOK, APITypeOK, IdOrNone
      <3> QED BY <1>3, <3>1, <3>2
    <2> QED BY <1>2, <1>3, <2>1, <2>2, <2>3
            DEF LostInv, HoldsAll, AnswersForHeld, FirstCreate, NoPosts, NoWire
  <1>5. CASE RefuseUnsent(kind, id)
    <2>1. rpc'.step = "idle"
      <3>1. PICK o \in {"diag", "error"} :
               rpc' = [NoRpc EXCEPT !.kind = kind, !.id = id, !.outcome = o, !.cause = "local"]
        BY <1>5 DEF RefuseUnsent
      <3>2. rpc' = [kind |-> kind, step |-> "idle", id |-> id, acted |-> FALSE,
                    astray |-> FALSE, tries |-> 0, outcome |-> o, cause |-> "local",
                    rid |-> 0]
        BY <3>1, RefusedRpc
      <3> QED BY <3>2
    <2> QED BY <1>2, <1>3, <2>1
            DEF LostInv, HoldsAll, AnswersForHeld, FirstCreate, NoPosts, Idle
  <1> QED BY <1>1, <1>4, <1>5

LEMMA QuietLoses ==
    ASSUME LostInv, UNCHANGED <<rpc, held, doubt, apiVars, call, wire, strays>>
    PROVE  LostInv'
  BY DEF LostInv, HoldsAll, AnswersForHeld, FirstCreate, NoPosts, Idle, apiVars

\* Where writes are synchronous, core holds everything that exists as long as
\* every create was settled by the answer to its first attempt.
THEOREM NothingIsLostSilently ==
    ASSUME ~Async
    PROVE  DynSpec => []NothingLostSilently
  <1>1. DynInit => LostInv
    <2> SUFFICES ASSUME DynInit PROVE LostInv
      OBVIOUS
    <2>1. live = {} /\ job = "none" /\ strays = {} /\ rpc.step = "idle"
      BY DEF DynInit, Init, APIInit, ExecInit, ServerInit, NoRpc
    <2> QED BY <2>1 DEF LostInv, HoldsAll, AnswersForHeld, FirstCreate, NoPosts, Idle
  <1>2. DynInv /\ LostInv /\ [DynNext]_allVars => LostInv'
    <2> SUFFICES ASSUME DynInv, LostInv, [DynNext]_allVars PROVE LostInv'
      OBVIOUS
    <2>1. CASE CoreCalls
      BY <2>1, CoreLoses
    <2>2. CASE HandlerStep
      BY <2>2, HandlerLoses
    <2>3. CASE PollDeadline \/ CoreCancels \/ UNCHANGED allVars
      BY <2>3, QuietLoses DEF PollDeadline, CoreCancels, allVars, execVars, serverVars
    <2>4. CASE Beneath
      BY <2>4, BeneathLoses
    <2> QED BY <2>1, <2>2, <2>3, <2>4 DEF DynNext
  <1>3. LostInv => NothingLostSilently
    BY DEF LostInv, HoldsAll, NothingLostSilently
  <1> QED BY <1>1, <1>2, <1>3, DynInvariant, PTL DEF DynSpec

(***************************************************************************)
(* The contract                                                            *)
(***************************************************************************)
Busy == IF Idle THEN "none" ELSE rpc.kind

\* What the contract lets the world do in one step.
WorldStep(create) ==
    \/ UNCHANGED <<live, made>>
    \/ create /\ made' = made + 1 /\ live' = live \cup {made + 1}
    \/ made' = made /\ \E i \in live : live' = live \ {i}

LEMMA EffectMaps ==
    ASSUME APITypeOK, NamesAreUnique, NEW m, NEW id, Effect(m, id)
    PROVE  /\ WorldStep(m = "POST")
           /\ job' = "creating" => job = "creating" \/ m = "POST"
  <1>1. CASE m = "POST"
    BY <1>1 DEF Effect, MakeObject, WorldStep
  <1>2. CASE m = "PATCH"
    BY <1>2 DEF Effect, WorldStep
  <1>3. CASE m = "DELETE"
    <2>1. live' = live \ Target(id) /\ made' = made /\ job' = job
      BY <1>3 DEF Effect
    <2>2. CASE live \cap Target(id) = {}
      BY <2>1, <2>2 DEF WorldStep
    <2>3. CASE live \cap Target(id) # {}
      <3>1. PICK i \in live : i \in Target(id)
        BY <2>3
      <3>2. live' = live \ {i}
        BY <2>1, <3>1 DEF Target, NamesAreUnique
      <3> QED BY <2>1, <3>1, <3>2 DEF WorldStep
    <2> QED BY <2>2, <2>3
  <1> QED BY <1>1, <1>2, <1>3 DEF Effect

LEMMA AnswersMap ==
    ASSUME APITypeOK, NamesAreUnique, NEW m, NEW id, NEW r, NEW effect \in BOOLEAN,
           Answers(m, id, r, effect)
    PROVE  /\ WorldStep(m = "POST")
           /\ job' = "creating" => job = "creating" \/ m = "POST"
  <1>1. CASE effect
    BY <1>1, EffectMaps DEF Answers
  <1>2. CASE ~effect
    BY <1>2 DEF Answers, WorldStep, apiVars
  <1> QED BY <1>1, <1>2

\* While the RPC stays as it is, the world's steps are the contract's.
LEMMA WorldMaps ==
    ASSUME UNCHANGED <<rpc, held>>,
           NEW create \in BOOLEAN, WorldStep(create), create => CreateOutstanding,
           job' = "creating" => CreateOutstanding,
           \A s \in strays' : s.method = "POST" => CreateOutstanding
    PROVE  Contract!Next
  <1>1. UNCHANGED Busy
    BY DEF Busy, Idle
  <1>2. (CreateOutstanding)' => CreateOutstanding
    BY DEF CreateOutstanding, Idle
  <1>3. Busy' = "create" => (CreateOutstanding)'
    BY DEF Busy, Idle, CreateOutstanding
  <1>4. Contract!Outstanding
    BY <1>2, <1>3 DEF Contract!Outstanding, Busy
  <1>5. CASE UNCHANGED <<live, made>>
    BY <1>1, <1>4, <1>5 DEF Contract!Next, Contract!Settles, Busy
  <1>6. CASE create /\ made' = made + 1 /\ live' = live \cup {made + 1}
    BY <1>1, <1>4, <1>6 DEF Contract!Next, Contract!ObjectAppears, Busy
  <1>7. CASE made' = made /\ \E i \in live : live' = live \ {i}
    BY <1>1, <1>4, <1>7 DEF Contract!Next, Contract!ObjectGoes, Busy
  <1> QED BY <1>5, <1>6, <1>7 DEF WorldStep

LEMMA BeneathMaps ==
    ASSUME DynInv, Beneath
    PROVE  Contract!Next
  <1> APITypeOK /\ NamesAreUnique /\ ExecTypeOK /\ CallStep /\ UNCHANGED <<rpc, held>>
    BY DEF DynInv, ExecInv, TypeOK, Beneath, serverVars
  <1>1. /\ job = "creating" => CreateOutstanding
        /\ \A s \in strays : s.method = "POST" => CreateOutstanding
    BY DEF CreateOutstanding
  <1>2. CASE Send \/ NeverSent \/ Receive \/ BackoffOver \/ BackoffCancelled \/ Deadline
    <2>1. UNCHANGED <<live, made, job, strays>>
      BY <1>2 DEF Send, NeverSent, Receive, BackoffOver, BackoffCancelled, Deadline, apiVars
    <2>2. WorldStep(FALSE)
      BY <2>1 DEF WorldStep
    <2> QED BY <1>1, <2>1, <2>2, WorldMaps
  <1>3. CASE GiveUp
    <2>1. UNCHANGED <<live, made, job>> /\ call.phase = "waiting"
      BY <1>3 DEF GiveUp, apiVars
    <2>2. \A s \in strays' : s \in strays \/ s.method = call.method
      BY <1>3 DEF GiveUp
    <2>3. \A s \in strays' : s.method = "POST" => CreateOutstanding
      BY <1>1, <2>1, <2>2, PostsAreCreates
    <2>4. WorldStep(FALSE)
      BY <2>1 DEF WorldStep
    <2> QED BY <1>1, <2>1, <2>3, <2>4, WorldMaps
  <1>4. CASE Answer
    <2>1. PICK r \in Reply, effect \in BOOLEAN : Answers(call.method, call.id, r, effect)
      BY <1>4 DEF Answer
    <2>2. /\ WorldStep(call.method = "POST")
          /\ job' = "creating" => job = "creating" \/ call.method = "POST"
      BY <2>1, AnswersMap
    <2>3. call.phase = "waiting" /\ strays' = strays
      BY <1>4 DEF Answer, DynInv, ExecInv, WireInUse
    <2>4. call.method = "POST" => CreateOutstanding
      BY <2>3, PostsAreCreates
    <2> DEFINE create == call.method = "POST"
    <2>5. create \in BOOLEAN /\ WorldStep(create) /\ (create => CreateOutstanding)
      BY <2>2, <2>4
    <2> HIDE DEF create
    <2> QED BY <1>1, <2>2, <2>3, <2>4, <2>5, WorldMaps
  <1>5. CASE StrayLands
    <2>1. PICK s \in strays, r \in Reply, effect \in BOOLEAN :
             strays' = strays \ {s} /\ Answers(s.method, s.id, r, effect)
      BY <1>5 DEF StrayLands
    <2>2. /\ WorldStep(s.method = "POST")
          /\ job' = "creating" => job = "creating" \/ s.method = "POST"
      BY <2>1, AnswersMap
    <2> DEFINE create == s.method = "POST"
    <2>3. create \in BOOLEAN /\ WorldStep(create) /\ (create => CreateOutstanding)
      BY <1>1, <2>2
    <2>4. job' = "creating" => CreateOutstanding
      BY <1>1, <2>2
    <2>5. \A t \in strays' : t.method = "POST" => CreateOutstanding
      BY <1>1, <2>1
    <2> HIDE DEF create
    <2> QED BY <2>3, <2>4, <2>5, WorldMaps
  <1>6. CASE APIMoves
    <2>1. strays' = strays
      BY <1>6 DEF APIMoves, execVars
    <2>2. \/ WorldStep(job = "creating") /\ job' # "creating"
          \/ WorldStep(FALSE) /\ job' = job
      BY <1>6 DEF APIMoves, JobEnds, MakeObject, OutOfBandDelete, WorldStep
    <2> DEFINE create == job = "creating"
    <2>3. create \in BOOLEAN /\ (create => CreateOutstanding)
      BY <1>1
    <2>4. CASE WorldStep(create) /\ job' # "creating"
      <3> HIDE DEF create
      <3> QED BY <1>1, <2>1, <2>3, <2>4, WorldMaps
    <2>5. CASE WorldStep(FALSE) /\ job' = job
      BY <1>1, <2>1, <2>5, WorldMaps
    <2> QED BY <2>2, <2>4, <2>5
  <1> QED BY <1>2, <1>3, <1>4, <1>5, <1>6 DEF CallStep

\* A response is one of the contract's answers.
LEMMA RespondMaps ==
    ASSUME DynInv, ~Idle, NEW outcome \in {"state", "empty", "diag", "error"},
           NEW cause, NEW id \in IdOrNone, Respond(outcome, cause, id),
           outcome = "state" => rpc.kind # "destroy" /\ id \in 1..made,
           outcome = "empty" => rpc.kind \in {"destroy", "read"} /\ rpc.id \notin live
    PROVE  Contract!Next
  <1>1. /\ UNCHANGED <<live, made, job, strays>>
        /\ held' = CASE outcome = "state" -> id
                     [] outcome = "empty" -> 0
                     [] OTHER             -> held
        /\ rpc' = [Written EXCEPT !.step = "idle", !.outcome = outcome,
                                  !.cause = cause, !.rid = id]
    BY DEF Respond, apiVars, execVars
  <1>2. Written \in Rpcs
    BY WrittenFacts
  <1>3. rpc'.step = "idle"
    BY <1>1, <1>2 DEF Rpcs
  <1>4. Busy' = "none" /\ Busy = rpc.kind /\ Busy # "none" /\ Busy \in Kinds
    BY <1>3 DEF Busy, Idle, DynInv, ServerTypeOK, Rpcs, Kinds
  <1>5. Contract!Outstanding
    <2>1. (CreateOutstanding)' => CreateOutstanding
      BY <1>1, <1>3 DEF CreateOutstanding, Idle
    <2> QED BY <1>4, <2>1 DEF Contract!Outstanding, Busy
  <1>6. CASE outcome = "state"
    <2>1. held' \in 1..made
      BY <1>1, <1>6
    <2>2. Contract!AnswerState
      BY <1>1, <1>4, <1>5, <1>6, <2>1 DEF Contract!AnswerState, Contract!Asks, Busy, Kinds
    <2> QED BY <2>2 DEF Contract!Next
  <1>7. CASE outcome = "empty"
    <2>1. held' = 0 /\ held \notin live
      BY <1>1, <1>7 DEF DynInv, ServesHeld
    <2>2. Contract!AnswerGone
      BY <1>1, <1>4, <1>5, <1>7, <2>1 DEF Contract!AnswerGone, Busy
    <2> QED BY <2>2 DEF Contract!Next
  <1>8. CASE outcome \in {"diag", "error"}
    <2>1. held' = held
      BY <1>1, <1>8
    <2>2. Contract!AnswerFailure
      BY <1>1, <1>4, <1>5, <2>1 DEF Contract!AnswerFailure, Busy
    <2> QED BY <2>2 DEF Contract!Next
  <1> QED BY <1>6, <1>7, <1>8

\* Steps between the question and the answer that the contract does not see.
LEMMA QuietMaps ==
    ASSUME UNCHANGED <<live, made, job, strays, held>>,
           Idle' <=> Idle, ~Idle => rpc'.kind = rpc.kind
    PROVE  Contract!Next
  <1>1. UNCHANGED Busy
    BY DEF Busy
  <1>2. UNCHANGED CreateOutstanding
    BY DEF CreateOutstanding
  <1>3. Busy = "create" => CreateOutstanding
    BY DEF Busy, CreateOutstanding
  <1>4. Contract!Outstanding
    BY <1>1, <1>2, <1>3 DEF Contract!Outstanding, Busy
  <1> QED BY <1>1, <1>4 DEF Contract!Next, Contract!Settles, Busy

LEMMA StartMaps ==
    ASSUME DynInv, NEW kind \in Kinds, NEW id \in IdOrNone, Start(kind, id)
    PROVE  Contract!Next
  <1>1. /\ UNCHANGED <<live, made, job, strays, held>>
        /\ rpc' = [NoRpc EXCEPT !.kind = kind, !.step = FirstStep(kind), !.id = id]
        /\ Idle
        /\ (held = 0) <=> (kind \in {"create", "import"})
    BY DEF Start, Begin, MayAsk, apiVars, Kinds
  <1>2. rpc'.kind = kind /\ rpc'.step \in {"write", "read"}
    BY <1>1 DEF NoRpc, FirstStep
  <1>3. Busy = "none" /\ Busy' = kind
    BY <1>1, <1>2 DEF Busy, Idle
  <1>4. /\ (CreateOutstanding)' => CreateOutstanding \/ kind = "create"
        /\ kind = "create" => (CreateOutstanding)'
    BY <1>1, <1>2 DEF CreateOutstanding, Idle
  <1>5. Contract!Outstanding
    BY <1>3, <1>4 DEF Contract!Outstanding, Busy
  <1>6. Contract!Ask(kind)
    BY <1>1, <1>3, <1>5 DEF Contract!Ask, Busy
  <1>7. kind \in Contract!Asks
    BY DEF Contract!Asks, Kinds
  <1> QED BY <1>6, <1>7 DEF Contract!Next

LEMMA HandlerMaps ==
    ASSUME DynInv, HandlerStep
    PROVE  Contract!Next
  <1> USE APIAssumption
  <1>1. 0 \in IdOrNone /\ made \in Nat
    BY Members DEF DynInv, ExecInv, TypeOK, APITypeOK, IdOrNone
  <1>2. CASE WriteFails \/ PollFails \/ ReadFails
    <2>1. ~Idle /\ (Respond("diag", "rejected", 0) \/ Respond("error", "none", 0))
      BY <1>2 DEF WriteFails, PollFails, ReadFails, ClassifyRESTError, Returned, Idle
    <2> QED BY <1>1, <2>1, RespondMaps
  <1>3. CASE DestroyReturns
    <2>1. /\ Returned("write") /\ ~Idle /\ rpc.kind = "destroy"
          /\ Respond("empty", "none", 0)
      BY <1>3 DEF DestroyReturns, Returned, Idle
    <2>2. call.method = "DELETE" /\ call.id = rpc.id /\ call.phase = "done"
      BY <2>1 DEF DynInv, CallServesStep, Returned, FirstCall
    <2>3. rpc.id \notin live
      BY <1>3, <2>2 DEF DestroyReturns, DynInv, ExecInv, GoneIsHonest
    <2> QED BY <1>1, <2>1, <2>3, RespondMaps
  <1>4. CASE WriteUndecodable \/ JobFailed \/ ReadUndecodable
    <2>1. ~Idle /\ \E c : Respond("diag", c, 0)
      BY <1>4 DEF WriteUndecodable, JobFailed, ReadUndecodable, Returned, Idle
    <2> QED BY <1>1, <2>1, RespondMaps
  <1>5. CASE WriteDone \/ ReadDone
    <2>1. ~Idle /\ Respond("state", "none", call.rid) /\ rpc.kind # "destroy"
      BY <1>5 DEF WriteDone, ReadDone, Returned, Idle, DynInv, StepFitsKind
    <2>2. call.rid \in IdOrNone /\ call.rid <= made
      BY DEF DynInv, ExecInv, TypeOK, ExecTypeOK, Calls, KnownObjects
    <2>3. Describes(call.method)
      <3>1. CASE WriteDone
        BY <3>1 DEF WriteDone, Returned, DynInv, CallServesStep, StepFitsKind, FirstCall, Describes
      <3>2. CASE ReadDone
        BY <3>2 DEF ReadDone, Returned, DynInv, CallServesStep, Describes
      <3> QED BY <1>5, <3>1, <3>2
    <2>4. call.rid # 0
      BY <1>5, <2>3 DEF WriteDone, ReadDone, Returned, DynInv, ExecInv, SuccessDescribes
    <2>5. call.rid \in 1..made
      BY <1>1, <2>2, <2>4 DEF IdOrNone
    <2> QED BY <2>1, <2>2, <2>5, RespondMaps
  <1>6. CASE PollUndecodable
    <2>1. ~Idle /\ Respond("error", "none", 0)
      BY <1>6 DEF PollUndecodable, Returned, Idle
    <2> QED BY <1>1, <2>1, RespondMaps
  <1>7. CASE ReadFindsNothing
    <2>1. /\ Returned("read") /\ ~Idle /\ IsNotFound(call.err, call.status)
          /\ \/ rpc.kind = "read" /\ Respond("empty", "none", 0)
             \/ Respond("diag", "vanished", 0)
      BY <1>7 DEF ReadFindsNothing, Returned, Idle
    <2>2. call.method = "GET" /\ call.id = rpc.id /\ call.phase = "done"
      BY <2>1 DEF DynInv, CallServesStep, Returned
    <2>3. rpc.id \notin live
      BY <2>1, <2>2 DEF DynInv, ExecInv, GoneIsHonest
    <2> QED BY <1>1, <2>1, <2>3, RespondMaps
  <1>8. CASE WriteAccepted \/ PollPending \/ PauseEnds \/ JobSucceeded
    <2>1. ~Idle /\ Written \in Rpcs /\ Written.kind = rpc.kind /\ rpc \in Rpcs
      <3>1. ~Idle
        BY <1>8 DEF WriteAccepted, PollPending, PauseEnds, JobSucceeded, Returned, Idle
      <3> QED BY <3>1, WrittenFacts DEF DynInv, ServerTypeOK
    <2>2. \/ \E o \in {"diag", "error"} : \E c : Respond(o, c, 0)
          \/ /\ \E s \in {"poll", "pause", "read"} :
                   rpc' = [Written EXCEPT !.step = s] \/ rpc' = [rpc EXCEPT !.step = s]
             /\ UNCHANGED <<live, made, job, strays, held>>
      BY <1>8 DEF WriteAccepted, PollPending, PauseEnds, JobSucceeded, Begin, apiVars, execVars
    <2>3. CASE \E o \in {"diag", "error"} : \E c : Respond(o, c, 0)
      BY <1>1, <2>1, <2>3, RespondMaps
    <2>4. CASE /\ \E s \in {"poll", "pause", "read"} :
                    rpc' = [Written EXCEPT !.step = s] \/ rpc' = [rpc EXCEPT !.step = s]
               /\ UNCHANGED <<live, made, job, strays, held>>
      <3>1. rpc'.kind = rpc.kind /\ rpc'.step # "idle"
        BY <2>1, <2>4 DEF Rpcs
      <3> QED BY <2>1, <2>4, <3>1, QuietMaps DEF Idle
    <2> QED BY <2>2, <2>3, <2>4
  <1> QED BY <1>2, <1>3, <1>4, <1>5, <1>6, <1>7, <1>8 DEF HandlerStep

\* The provider, with everything beneath it, implements the promise to core.
THEOREM DynKeepsContract == DynSpec => KeepsContract
  <1>1. DynInit => Contract!Init
    BY DEF DynInit, ServerInit, Init, APIInit, ExecInit, NoRpc, Idle, CreateOutstanding,
           Contract!Init
  <1>2. DynInv /\ [DynNext]_allVars => [Contract!Next]_(Contract!contractVars)
    <2> SUFFICES ASSUME DynInv, [DynNext]_allVars PROVE Contract!Next
      OBVIOUS
    <2>1. CASE CoreCalls
      <3>1. PICK kind \in Kinds, id \in IdOrNone : Start(kind, id) \/ RefuseUnsent(kind, id)
        BY <2>1 DEF CoreCalls
      <3>2. CASE Start(kind, id)
        BY <3>2, StartMaps
      <3>3. CASE RefuseUnsent(kind, id)
        <4>1. UNCHANGED <<live, made, job, strays, held>> /\ Idle
          BY <3>3 DEF RefuseUnsent, MayAsk, apiVars, execVars
        <4>2. Idle'
          BY <3>3 DEF RefuseUnsent, NoRpc, Idle
        <4> QED BY <4>1, <4>2, QuietMaps
      <3> QED BY <3>1, <3>2, <3>3
    <2>2. CASE HandlerStep
      BY <2>2, HandlerMaps
    <2>3. CASE PollDeadline \/ CoreCancels \/ UNCHANGED allVars
      <3>1. UNCHANGED <<live, made, job, strays, held, rpc>>
        BY <2>3 DEF PollDeadline, CoreCancels, allVars, apiVars, execVars, serverVars
      <3> QED BY <3>1, QuietMaps DEF Idle
    <2>4. CASE Beneath
      BY <2>4, BeneathMaps
    <2> QED BY <2>1, <2>2, <2>3, <2>4 DEF DynNext
  <1> QED BY <1>1, <1>2, DynInvariant, PTL DEF DynSpec, KeepsContract, Contract!Spec

=============================================================================
