---------------------------- MODULE CCServerProofs ----------------------------
(***************************************************************************)
(* Proofs about CCServer, for any number of objects, jobs, attempts and    *)
(* abandoned requests: the RPCs answer truthfully (CCInv), and every step  *)
(* until something irregular has happened is a step of LifecycleContract.  *)
(***************************************************************************)
EXTENDS CCServer, TLAPS

(***************************************************************************)
(* The invariant                                                           *)
(***************************************************************************)

\* What the API has accepted and done.  A deleted object never comes back,
\* for its number is not given again.
JobsInv ==
    \A t \in Tokens :
        /\ jobs[t].obj <= made
        /\ jobs[t].state = "unused" <=> t > accepted
        /\ jobs[t].state = "cancelled" => irregular
        /\ jobs[t].state = "done" =>
              /\ jobs[t].op = "create" => jobs[t].obj # 0
              /\ jobs[t].op = "destroy" => jobs[t].obj \notin live

StraysInv == \A s \in strays : s.id <= made

\* What the RPC is about, and the jobs it has made.
AboutInv ==
    /\ rpc.id <= made /\ rpc.reads <= made /\ held <= made
    /\ ~Idle => rpc.outcome = "none"
    /\ ~Idle /\ rpc.kind \notin {"create", "import"} => held = rpc.id /\ held # 0
    /\ \A t \in rpc.mine :
          /\ jobs[t].state # "unused"
          /\ jobs[t].op = rpc.kind
          /\ rpc.kind # "create" => jobs[t].obj = rpc.id

WriteInv ==
    rpc.step = "write" =>
        /\ rpc.kind \in Writes
        /\ rpc.tries # 0
        /\ reply.class = "missing" => rpc.kind # "create" /\ rpc.id \notin live
        /\ reply.class = "ok" => IF reply.token # 0 THEN reply.token \in rpc.mine ELSE irregular
        /\ rpc.tries = 1 =>
              /\ reply.class \in {"none", "refused", "missing"} => rpc.mine = {} /\ ~rpc.loose
              /\ reply.class = "ok" =>
                    ~rpc.loose /\ (reply.token # 0 => rpc.mine = {reply.token})

PollInv ==
    rpc.step \in {"poll", "pause"} =>
        /\ rpc.kind \in Writes
        /\ rpc.token \in rpc.mine
        /\ rpc.attempts = 1 => ~rpc.loose /\ rpc.mine = {rpc.token}
        /\ rpc.step = "poll" /\ reply.class = "ok" =>
              reply.says = "running" \/ reply.says = jobs[rpc.token].state

ReadInv ==
    rpc.step = "read" =>
        /\ rpc.kind # "destroy"
        /\ rpc.reads # 0
        /\ rpc.kind = "read" => rpc.reads = rpc.id
        /\ rpc.kind \in {"create", "update"} /\ ~irregular =>
              /\ rpc.token \in rpc.mine
              /\ jobs[rpc.token].state = "done"
              /\ jobs[rpc.token].obj = rpc.reads
        /\ reply.class = "missing" => rpc.reads \notin live

CCInv ==
    /\ TypeOK
    /\ JobsInv /\ StraysInv /\ AboutInv
    /\ WriteInv /\ PollInv /\ ReadInv
    /\ GoneMeansGone /\ CleanWriteIsReal /\ FirstFailureIsCertain

(***************************************************************************)
(* Records of an RPC                                                       *)
(***************************************************************************)
Attempted(r, m, l, n) == [r EXCEPT !.mine = m, !.loose = l, !.tries = n]

GivenUp(r, m, l) == [r EXCEPT !.mine = m, !.loose = l]

Reached(r, m) == [r EXCEPT !.mine = m]

Responded(r, o, c, i, n) ==
    [r EXCEPT !.step = "idle", !.outcome = o, !.cause = c, !.rid = i, !.attempts = n]

Calls(r, s, t, i, n) ==
    [r EXCEPT !.step = s, !.token = t, !.reads = i, !.tries = 1, !.attempts = n]

Paused(r) == [r EXCEPT !.step = "pause"]

LEMMA Members ==
    /\ "idle" \in Steps /\ "write" \in Steps /\ "poll" \in Steps
    /\ "pause" \in Steps /\ "read" \in Steps
    /\ 0 \in IdOrNone /\ 0 \in TokenOrNone /\ {} \in SUBSET Tokens
    /\ 0 \in 0..MaxAttempts /\ 1 \in 0..MaxAttempts
    /\ "none" \in Outcomes /\ "none" \in Causes /\ "none" \in Classes
    /\ "unused" \in JobStates /\ Writes \subseteq Kinds /\ "read" \in Kinds
  BY CCAssumption
     DEF Steps, IdOrNone, TokenOrNone, Tokens, Outcomes, Causes, Classes, JobStates, Kinds, Writes

LEMMA AttemptedRpc ==
    ASSUME NEW r \in Rpcs, NEW m \in SUBSET Tokens, NEW l \in BOOLEAN, NEW n \in 0..MaxAttempts
    PROVE  LET p == Attempted(r, m, l, n)
           IN  /\ p \in Rpcs
               /\ p.kind = r.kind /\ p.step = r.step /\ p.id = r.id /\ p.tries = n
               /\ p.token = r.token /\ p.reads = r.reads /\ p.mine = m /\ p.loose = l
               /\ p.outcome = r.outcome /\ p.cause = r.cause /\ p.rid = r.rid
               /\ p.attempts = r.attempts
  <1> HIDE DEF Kinds, Steps, IdOrNone, TokenOrNone, Tokens, Outcomes, Causes
  <1>1. Attempted(r, m, l, n) \in Rpcs
    BY ZenonT(60) DEF Rpcs, Attempted
  <1> QED BY <1>1, ZenonT(60) DEF Rpcs, Attempted

LEMMA GivenUpRpc ==
    ASSUME NEW r \in Rpcs, NEW m \in SUBSET Tokens, NEW l \in BOOLEAN
    PROVE  LET p == GivenUp(r, m, l)
           IN  /\ p \in Rpcs
               /\ p.kind = r.kind /\ p.step = r.step /\ p.id = r.id /\ p.tries = r.tries
               /\ p.token = r.token /\ p.reads = r.reads /\ p.mine = m /\ p.loose = l
               /\ p.outcome = r.outcome /\ p.cause = r.cause /\ p.rid = r.rid
               /\ p.attempts = r.attempts
  <1>1. GivenUp(r, m, l) \in Rpcs
    BY ZenonT(60) DEF Rpcs, GivenUp
  <1> QED BY <1>1, ZenonT(60) DEF Rpcs, GivenUp

LEMMA ReachedRpc ==
    ASSUME NEW r \in Rpcs, NEW m \in SUBSET Tokens
    PROVE  LET p == Reached(r, m)
           IN  /\ p \in Rpcs
               /\ p.kind = r.kind /\ p.step = r.step /\ p.id = r.id /\ p.tries = r.tries
               /\ p.token = r.token /\ p.reads = r.reads /\ p.mine = m /\ p.loose = r.loose
               /\ p.outcome = r.outcome /\ p.cause = r.cause /\ p.rid = r.rid
               /\ p.attempts = r.attempts
  <1>1. Reached(r, m) \in Rpcs
    BY ZenonT(60) DEF Rpcs, Reached
  <1> QED BY <1>1, ZenonT(60) DEF Rpcs, Reached

LEMMA RespondedRpc ==
    ASSUME NEW r \in Rpcs, NEW o \in Outcomes, NEW c \in Causes, NEW i \in IdOrNone,
           NEW n \in 0..MaxAttempts
    PROVE  LET p == Responded(r, o, c, i, n)
           IN  /\ p \in Rpcs
               /\ p.kind = r.kind /\ p.step = "idle" /\ p.id = r.id /\ p.tries = r.tries
               /\ p.token = r.token /\ p.reads = r.reads /\ p.mine = r.mine
               /\ p.loose = r.loose /\ p.outcome = o /\ p.cause = c /\ p.rid = i
               /\ p.attempts = n
  <1>1. Responded(r, o, c, i, n) \in Rpcs
    BY Members, ZenonT(60) DEF Rpcs, Responded
  <1> QED BY <1>1, ZenonT(60) DEF Rpcs, Responded

LEMMA CallsRpc ==
    ASSUME NEW r \in Rpcs, NEW s \in Steps, NEW t \in TokenOrNone, NEW i \in IdOrNone,
           NEW n \in 0..MaxAttempts
    PROVE  LET p == Calls(r, s, t, i, n)
           IN  /\ p \in Rpcs
               /\ p.kind = r.kind /\ p.step = s /\ p.id = r.id /\ p.tries = 1
               /\ p.token = t /\ p.reads = i /\ p.mine = r.mine
               /\ p.loose = r.loose /\ p.outcome = r.outcome /\ p.cause = r.cause
               /\ p.rid = r.rid /\ p.attempts = n
  <1>1. Calls(r, s, t, i, n) \in Rpcs
    BY Members, ZenonT(60) DEF Rpcs, Calls
  <1> QED BY <1>1, ZenonT(60) DEF Rpcs, Calls

LEMMA PausedRpc ==
    ASSUME NEW r \in Rpcs
    PROVE  LET p == Paused(r)
           IN  /\ p \in Rpcs
               /\ p.kind = r.kind /\ p.step = "pause" /\ p.id = r.id /\ p.tries = r.tries
               /\ p.token = r.token /\ p.reads = r.reads /\ p.mine = r.mine
               /\ p.loose = r.loose /\ p.outcome = r.outcome /\ p.cause = r.cause
               /\ p.rid = r.rid /\ p.attempts = r.attempts
  <1>1. Paused(r) \in Rpcs
    BY Members, ZenonT(60) DEF Rpcs, Paused
  <1> QED BY <1>1, ZenonT(60) DEF Rpcs, Paused

(***************************************************************************)
(* Jobs run, requests arrive, others delete                                *)
(***************************************************************************)
LEMMA Typed ==
    ASSUME CCInv
    PROVE  /\ MaxObjs \in Nat /\ MaxJobs \in Nat /\ MaxAttempts \in Nat \ {0}
           /\ made \in Nat /\ made <= MaxObjs /\ accepted \in Nat /\ accepted <= MaxJobs
           /\ rpc \in Rpcs /\ reply \in Replies /\ jobs \in [Tokens -> Jobs]
           /\ rpc.kind \in Kinds /\ rpc.step \in Steps /\ rpc.id \in IdOrNone
           /\ rpc.tries \in 0..MaxAttempts /\ rpc.token \in TokenOrNone
           /\ rpc.reads \in IdOrNone /\ rpc.mine \in SUBSET Tokens /\ rpc.loose \in BOOLEAN
           /\ rpc.attempts \in 0..MaxAttempts
           /\ reply.class \in Classes /\ reply.token \in TokenOrNone
           /\ held \in IdOrNone
           /\ \A i \in IdOrNone : i \in Nat
           /\ \A t \in Tokens : t \in Nat /\ t # 0 /\ t \in TokenOrNone
           /\ \A t \in TokenOrNone : t # 0 => t \in Tokens
  <1>1. TypeOK
    BY DEF CCInv
  <1>2. /\ MaxObjs \in Nat /\ MaxJobs \in Nat /\ MaxAttempts \in Nat \ {0}
        /\ made \in Nat /\ made <= MaxObjs /\ accepted \in Nat /\ accepted <= MaxJobs
        /\ \A i \in IdOrNone : i \in Nat
        /\ \A t \in Tokens : t \in Nat /\ t # 0 /\ t \in TokenOrNone
        /\ \A t \in TokenOrNone : t # 0 => t \in Tokens
    BY <1>1, CCAssumption DEF TypeOK, IdOrNone, TokenOrNone, Tokens
  <1>3. /\ rpc \in Rpcs /\ reply \in Replies /\ jobs \in [Tokens -> Jobs] /\ held \in IdOrNone
    BY <1>1 DEF TypeOK
  <1>4. /\ rpc.kind \in Kinds /\ rpc.step \in Steps /\ rpc.id \in IdOrNone
        /\ rpc.tries \in 0..MaxAttempts /\ rpc.token \in TokenOrNone
        /\ rpc.reads \in IdOrNone /\ rpc.mine \in SUBSET Tokens /\ rpc.loose \in BOOLEAN
        /\ rpc.attempts \in 0..MaxAttempts
    BY <1>3 DEF Rpcs
  <1>5. reply.class \in Classes /\ reply.token \in TokenOrNone
    BY <1>3 DEF Replies
  <1> QED BY <1>2, <1>3, <1>4, <1>5

\* What happens to the world leaves the RPC's own answers true: a dead object
\* stays dead, a job that has ended stays as it is.
LEMMA WorldKeeps ==
    ASSUME CCInv,
           UNCHANGED <<reply, rpc, held, pollOver>>,
           made' \in IdOrNone, made <= made', live' \subseteq 1..made',
           jobs' \in [Tokens -> Jobs], accepted' \in TokenOrNone,
           irregular' \in BOOLEAN, irregular => irregular',
           strays' \subseteq Requests, JobsInv', StraysInv',
           \A i \in IdOrNone : i <= made /\ i \notin live => i \notin live',
           \A t \in Tokens : jobs[t].state # "unused" =>
               /\ jobs'[t].state # "unused" /\ jobs'[t].op = jobs[t].op
               /\ jobs[t].op # "create" => jobs'[t].obj = jobs[t].obj
               /\ jobs[t].state # "running" => jobs'[t] = jobs[t]
    PROVE  CCInv'
  <1> USE Typed
  <1>1. TypeOK'
    BY DEF CCInv, TypeOK
  <1>2. AboutInv'
    <2>1. AboutInv
      BY DEF CCInv
    <2>2. /\ made' \in Nat /\ made \in Nat /\ rpc' = rpc /\ held' = held
          /\ rpc.id \in Nat /\ rpc.reads \in Nat /\ held \in Nat
      OBVIOUS
    <2>3. rpc'.id <= made' /\ rpc'.reads <= made' /\ held' <= made'
      BY <2>1, <2>2 DEF AboutInv
    <2>4. /\ ~Idle' => rpc'.outcome = "none"
          /\ ~Idle' /\ rpc'.kind \notin {"create", "import"} => held' = rpc'.id /\ held' # 0
      BY <2>1 DEF AboutInv, Idle
    <2>5. \A t \in rpc'.mine : /\ jobs'[t].state # "unused"
                               /\ jobs'[t].op = rpc'.kind
                               /\ rpc'.kind # "create" => jobs'[t].obj = rpc'.id
      BY <2>1 DEF AboutInv
    <2> QED BY <2>3, <2>4, <2>5 DEF AboutInv, Idle
  <1>3. WriteInv'
    BY DEF CCInv, WriteInv, AboutInv
  <1>4. PollInv'
    BY DEF CCInv, PollInv, AboutInv
  <1>5. ReadInv'
    BY DEF CCInv, ReadInv, AboutInv
  <1>6. GoneMeansGone'
    BY DEF CCInv, GoneMeansGone, AboutInv
  <1>7. CleanWriteIsReal'
    BY DEF CCInv, CleanWriteIsReal, AboutInv
  <1>8. FirstFailureIsCertain'
    BY DEF CCInv, FirstFailureIsCertain, AboutInv
  <1> QED BY <1>1, <1>2, <1>3, <1>4, <1>5, <1>6, <1>7, <1>8 DEF CCInv

LEMMA AcceptFacts ==
    ASSUME CCInv, NEW op \in Writes, NEW id \in IdOrNone, id <= made, Accept(op, id)
    PROVE  /\ accepted < MaxJobs /\ accepted + 1 \in Tokens
           /\ live' = live /\ made' = made /\ accepted' = accepted + 1
           /\ accepted' \in TokenOrNone /\ jobs' \in [Tokens -> Jobs]
           /\ jobs[accepted + 1].state = "unused"
           /\ jobs'[accepted + 1].op = op /\ jobs'[accepted + 1].obj = id
           /\ jobs'[accepted + 1].state = "running"
           /\ \A t \in Tokens : t # accepted + 1 => jobs'[t] = jobs[t]
           /\ (irregular => irregular') => JobsInv'
  <1> USE Typed
  <1>1. /\ accepted < MaxJobs /\ accepted' = accepted + 1 /\ live' = live /\ made' = made
        /\ jobs' = [jobs EXCEPT ![accepted + 1] =
                       [NoJob EXCEPT !.op = op, !.obj = id, !.state = "running"]]
    BY DEF Accept
  <1>2. accepted + 1 \in Tokens /\ accepted + 1 \in TokenOrNone
    BY <1>1 DEF Tokens, TokenOrNone
  <1> DEFINE job == [NoJob EXCEPT !.op = op, !.obj = id, !.state = "running"]
  <1>3. job \in Jobs /\ job.op = op /\ job.obj = id /\ job.state = "running"
    BY DEF NoJob, Jobs, JobStates
  <1>4. jobs' = [jobs EXCEPT ![accepted + 1] = job]
    BY <1>1
  <1> HIDE DEF job
  <1>5. jobs' \in [Tokens -> Jobs]
    BY <1>2, <1>3, <1>4
  <1>6. jobs'[accepted + 1] = job /\ \A t \in Tokens : t # accepted + 1 => jobs'[t] = jobs[t]
    BY <1>2, <1>4
  <1>7. JobsInv
    BY DEF CCInv
  <1>8. jobs[accepted + 1].state = "unused"
    BY <1>2, <1>7 DEF JobsInv
  <1>9. ASSUME irregular => irregular' PROVE JobsInv'
    <2> SUFFICES ASSUME NEW t \in Tokens
                 PROVE  /\ jobs'[t].obj <= made'
                        /\ jobs'[t].state = "unused" <=> t > accepted'
                        /\ jobs'[t].state = "cancelled" => irregular'
                        /\ jobs'[t].state = "done" =>
                              /\ jobs'[t].op = "create" => jobs'[t].obj # 0
                              /\ jobs'[t].op = "destroy" => jobs'[t].obj \notin live'
      BY DEF JobsInv
    <2>1. CASE t = accepted + 1
      BY <1>1, <1>2, <1>3, <1>6, <2>1
    <2>2. CASE t # accepted + 1
      <3>1. jobs'[t] = jobs[t] /\ (t > accepted' <=> t > accepted)
        BY <1>1, <1>6, <2>2
      <3> QED BY <1>1, <1>7, <1>9, <3>1 DEF JobsInv
    <2> QED BY <2>1, <2>2
  <1> QED BY <1>1, <1>2, <1>3, <1>5, <1>6, <1>8, <1>9

LEMMA JobEndsKeeps ==
    ASSUME CCInv, JobEnds
    PROVE  CCInv'
  <1> /\ made \in Nat /\ made <= MaxObjs /\ MaxObjs \in Nat /\ made <= made
      /\ accepted \in Nat /\ accepted \in TokenOrNone /\ jobs \in [Tokens -> Jobs]
      /\ made \in IdOrNone /\ live \subseteq 1..made /\ irregular \in BOOLEAN
      /\ strays \subseteq Requests
      /\ \A u \in Tokens : u \in Nat
      /\ \A i \in IdOrNone : i \in Nat
    BY Typed DEF CCInv, TypeOK
  <1>1. JobsInv /\ StraysInv /\ TypeOK
    BY DEF CCInv
  <1>2. UNCHANGED <<accepted, strays, reply, rpc, held, pollOver>>
    BY DEF JobEnds
  <1>3. SUFFICES ASSUME NEW t \in Tokens, jobs[t].state = "running",
                        JobDone(t) \/ JobFails(t) \/ JobCancelled(t)
                 PROVE  CCInv'
    BY DEF JobEnds
  <1>4. jobs[t] \in Jobs /\ jobs[t].obj \in Nat /\ jobs[t].obj <= made
    BY <1>1 DEF JobsInv, Jobs
  <1>5. ASSUME NEW j \in Jobs, jobs' = [jobs EXCEPT ![t] = j],
               j.op = jobs[t].op, j.op # "create" => j.obj = jobs[t].obj,
               j.state \in {"done", "failed", "cancelled"}, j.obj <= made',
               made' \in IdOrNone, made <= made', live' \subseteq 1..made',
               irregular' \in BOOLEAN, irregular => irregular',
               j.state = "cancelled" => irregular',
               j.state = "done" /\ j.op = "create" => j.obj # 0,
               j.state = "done" /\ j.op = "destroy" => j.obj \notin live',
               \A i \in IdOrNone : i <= made /\ i \notin live => i \notin live'
        PROVE  CCInv'
    <2>1. /\ jobs' \in [Tokens -> Jobs] /\ jobs'[t] = j
          /\ \A u \in Tokens : u # t => jobs'[u] = jobs[u]
      BY <1>5
    <2>2. made' \in Nat
      BY <1>5
    <2>3. JobsInv'
      <3> SUFFICES ASSUME NEW u \in Tokens
                   PROVE  /\ jobs'[u].obj <= made'
                          /\ jobs'[u].state = "unused" <=> u > accepted'
                          /\ jobs'[u].state = "cancelled" => irregular'
                          /\ jobs'[u].state = "done" =>
                                /\ jobs'[u].op = "create" => jobs'[u].obj # 0
                                /\ jobs'[u].op = "destroy" => jobs'[u].obj \notin live'
        BY DEF JobsInv
      <3>1. CASE u = t
        <4>1. jobs'[u] = j /\ accepted' = accepted /\ j.state # "unused"
          BY <1>2, <1>5, <2>1, <3>1
        <4>2. jobs[u].state # "unused"
          BY <1>3, <3>1
        <4>3. ~(u > accepted)
          BY <1>1, <4>2, Zenon DEF JobsInv
        <4> QED BY <1>5, <4>1, <4>3
      <3>2. CASE u # t
        <4>1. jobs'[u] = jobs[u] /\ jobs[u].obj \in IdOrNone /\ jobs[u].obj \in Nat
          BY <2>1, <3>2 DEF Jobs
        <4>2. jobs'[u].obj <= made'
          BY <1>1, <1>5, <2>2, <4>1 DEF JobsInv
        <4>3. jobs'[u].state = "unused" <=> u > accepted'
          BY <1>1, <1>2, <4>1 DEF JobsInv
        <4> QED BY <1>1, <1>5, <4>1, <4>2, <4>3 DEF JobsInv
      <3> QED BY <3>1, <3>2
    <2>4. StraysInv'
      <3>1. \A s \in strays : s.id \in Nat
        BY <1>1 DEF TypeOK, Requests
      <3> QED BY <1>1, <1>2, <1>5, <2>2, <3>1 DEF StraysInv
    <2>5. \A u \in Tokens : jobs[u].state # "unused" =>
               /\ jobs'[u].state # "unused" /\ jobs'[u].op = jobs[u].op
               /\ jobs[u].op # "create" => jobs'[u].obj = jobs[u].obj
               /\ jobs[u].state # "running" => jobs'[u] = jobs[u]
      <3> SUFFICES ASSUME NEW u \in Tokens, jobs[u].state # "unused"
                   PROVE  /\ jobs'[u].state # "unused" /\ jobs'[u].op = jobs[u].op
                          /\ jobs[u].op # "create" => jobs'[u].obj = jobs[u].obj
                          /\ jobs[u].state # "running" => jobs'[u] = jobs[u]
        OBVIOUS
      <3>1. CASE u = t
        <4>1. jobs'[u] = j /\ j.state # "unused" /\ jobs[u].state = "running"
          BY <1>3, <1>5, <2>1, <3>1
        <4> QED BY <1>5, <3>1, <4>1
      <3>2. CASE u # t
        BY <2>1, <3>2
      <3> QED BY <3>1, <3>2
    <2>6. UNCHANGED <<reply, rpc, held, pollOver>>
      BY <1>2
    <2>7. accepted' \in TokenOrNone /\ strays' \subseteq Requests
      BY <1>1, <1>2 DEF TypeOK
    <2> QED BY <1>5, <2>1, <2>3, <2>4, <2>5, <2>6, <2>7, WorldKeeps
  <1>6. CASE JobDone(t)
    <2>1. CASE jobs[t].op = "create"
      <3> DEFINE j == [jobs[t] EXCEPT !.state = "done", !.obj = made + 1]
      <3>1. /\ made < MaxObjs /\ made' = made + 1 /\ live' = live \cup {made + 1}
            /\ jobs' = [jobs EXCEPT ![t].state = "done", ![t].obj = made + 1]
            /\ irregular' = irregular
        BY <1>6, <2>1 DEF JobDone
      <3>2. made + 1 \in IdOrNone
        BY <3>1 DEF IdOrNone
      <3>3. j \in Jobs /\ j.op = "create" /\ j.obj = made + 1 /\ j.state = "done"
        BY <1>4, <2>1, <3>2 DEF Jobs, JobStates
      <3>4. jobs' = [jobs EXCEPT ![t] = j]
        BY <3>1
      <3> HIDE DEF j
      <3>5. live' \subseteq 1..made' /\ made <= made' /\ irregular' \in BOOLEAN
        BY <1>1, <3>1 DEF TypeOK
      <3>6. \A i \in IdOrNone : i <= made /\ i \notin live => i \notin live'
        BY <3>1
      <3>7. /\ j.op = jobs[t].op /\ j.obj <= made' /\ j.obj # 0 /\ made' \in IdOrNone
            /\ irregular => irregular'
        BY <2>1, <3>1, <3>2, <3>3
      <3> QED BY <1>5, <2>1, <3>3, <3>4, <3>5, <3>6, <3>7
    <2>2. CASE jobs[t].op # "create"
      <3> DEFINE j == [jobs[t] EXCEPT !.state = "done"]
      <3>1. /\ made' = made /\ irregular' = irregular
            /\ live' = IF jobs[t].op = "destroy" THEN live \ {jobs[t].obj} ELSE live
            /\ jobs' = [jobs EXCEPT ![t].state = "done"]
        BY <1>6, <2>2 DEF JobDone
      <3>2. j \in Jobs /\ j.op = jobs[t].op /\ j.obj = jobs[t].obj /\ j.state = "done"
        BY <1>4 DEF Jobs, JobStates
      <3>3. jobs' = [jobs EXCEPT ![t] = j]
        BY <3>1
      <3> HIDE DEF j
      <3>4. /\ made' \in IdOrNone /\ made <= made' /\ live' \subseteq 1..made'
            /\ irregular' \in BOOLEAN /\ j.obj <= made'
        BY <1>1, <1>4, <3>1, <3>2 DEF TypeOK
      <3> QED BY <1>5, <2>2, <3>1, <3>2, <3>3, <3>4
    <2> QED BY <2>1, <2>2
  <1>7. CASE JobFails(t)
    <2> DEFINE w == IF jobs[t].op # "create" /\ jobs[t].obj \notin live
                    THEN "NotFound" ELSE "other"
               j == [jobs[t] EXCEPT !.state = "failed", !.why = w]
    <2>1. /\ made' = made /\ live' = live /\ irregular' = irregular
          /\ jobs' = [jobs EXCEPT ![t].state = "failed", ![t].why = w]
      BY <1>7 DEF JobFails
    <2>2. w \in {"none", "NotFound", "other"}
      OBVIOUS
    <2> HIDE DEF w
    <2>3. j \in Jobs /\ j.op = jobs[t].op /\ j.obj = jobs[t].obj /\ j.state = "failed"
      BY <1>4, <2>2 DEF Jobs, JobStates
    <2>4. jobs' = [jobs EXCEPT ![t] = j]
      BY <2>1
    <2> HIDE DEF j
    <2>5. made' \in IdOrNone /\ made <= made' /\ live' \subseteq 1..made' /\ irregular' \in BOOLEAN
      BY <1>1, <2>1 DEF TypeOK
    <2> QED BY <1>4, <1>5, <2>1, <2>3, <2>4, <2>5
  <1>8. CASE JobCancelled(t)
    <2> DEFINE j == [jobs[t] EXCEPT !.state = "cancelled"]
    <2>1. /\ made' = made /\ live' = live /\ irregular' = TRUE
          /\ jobs' = [jobs EXCEPT ![t].state = "cancelled"]
      BY <1>8 DEF JobCancelled
    <2>3. j \in Jobs /\ j.op = jobs[t].op /\ j.obj = jobs[t].obj /\ j.state = "cancelled"
      BY <1>4 DEF Jobs, JobStates
    <2>4. jobs' = [jobs EXCEPT ![t] = j]
      BY <2>1
    <2> HIDE DEF j
    <2>5. made' \in IdOrNone /\ made <= made' /\ live' \subseteq 1..made' /\ irregular' \in BOOLEAN
      BY <1>1, <2>1 DEF TypeOK
    <2> QED BY <1>4, <1>5, <2>1, <2>3, <2>4, <2>5
  <1> QED BY <1>3, <1>6, <1>7, <1>8

LEMMA OutOfBandDeleteKeeps ==
    ASSUME CCInv, OutOfBandDelete
    PROVE  CCInv'
  <1> /\ made \in Nat /\ made <= MaxObjs /\ MaxObjs \in Nat /\ made <= made
      /\ accepted \in Nat /\ accepted \in TokenOrNone /\ jobs \in [Tokens -> Jobs]
      /\ made \in IdOrNone /\ live \subseteq 1..made /\ irregular \in BOOLEAN
      /\ strays \subseteq Requests
      /\ \A u \in Tokens : u \in Nat
      /\ \A i \in IdOrNone : i \in Nat
    BY Typed DEF CCInv, TypeOK
  <1>1. PICK i \in live : live' = live \ {i}
    BY DEF OutOfBandDelete
  <1>2. UNCHANGED <<made, jobs, accepted, irregular, strays, reply, rpc, held, pollOver>>
    BY DEF OutOfBandDelete
  <1>3. JobsInv' /\ StraysInv'
    BY <1>1, <1>2 DEF CCInv, JobsInv, StraysInv
  <1> QED BY <1>1, <1>2, <1>3, WorldKeeps DEF CCInv, TypeOK

LEMMA StrayLandsKeeps ==
    ASSUME CCInv, StrayLands
    PROVE  CCInv'
  <1> /\ made \in Nat /\ made <= MaxObjs /\ MaxObjs \in Nat /\ made <= made
      /\ accepted \in Nat /\ accepted \in TokenOrNone /\ jobs \in [Tokens -> Jobs]
      /\ made \in IdOrNone /\ live \subseteq 1..made /\ irregular \in BOOLEAN
      /\ strays \subseteq Requests
      /\ \A u \in Tokens : u \in Nat
      /\ \A i \in IdOrNone : i \in Nat
    BY Typed DEF CCInv, TypeOK
  <1>1. SUFFICES ASSUME NEW s \in strays, strays' = strays \ {s},
                        Accept(s.op, s.id) \/ UNCHANGED <<live, made, jobs, accepted>>
                 PROVE  CCInv'
    BY DEF StrayLands
  <1>2. UNCHANGED <<irregular, reply, rpc, held, pollOver>>
    BY DEF StrayLands
  <1>3. TypeOK /\ JobsInv /\ StraysInv
    BY DEF CCInv
  <1>4. s.op \in Writes /\ s.id \in IdOrNone /\ s.id <= made
    BY <1>3 DEF TypeOK, Requests, StraysInv
  <1>5. CASE Accept(s.op, s.id)
    <2>1. /\ live' = live /\ made' = made /\ accepted' \in TokenOrNone
          /\ jobs' \in [Tokens -> Jobs] /\ jobs[accepted + 1].state = "unused"
          /\ \A t \in Tokens : t # accepted + 1 => jobs'[t] = jobs[t]
          /\ JobsInv'
      BY <1>2, <1>4, <1>5, AcceptFacts
    <2>2. StraysInv'
      <3>1. strays' \subseteq strays
        BY <1>1
      <3> QED BY <1>3, <2>1, <3>1, Zenon DEF StraysInv
    <2>3. \A t \in Tokens : jobs[t].state # "unused" => jobs'[t] = jobs[t]
      BY <2>1
    <2>4. UNCHANGED <<reply, rpc, held, pollOver>>
      BY <1>2
    <2>5. /\ made' \in IdOrNone /\ made <= made' /\ live' \subseteq 1..made'
          /\ irregular' \in BOOLEAN /\ (irregular => irregular')
      BY <1>2, <2>1
    <2>6. strays' \subseteq Requests
      <3>1. strays' \subseteq strays
        BY <1>1
      <3> QED BY <3>1
    <2> QED BY <2>1, <2>2, <2>3, <2>4, <2>5, <2>6, WorldKeeps
  <1>6. CASE UNCHANGED <<live, made, jobs, accepted>>
    <2>1. JobsInv' /\ StraysInv'
      <3>1. JobsInv'
        BY <1>2, <1>3, <1>6 DEF JobsInv
      <3>2. StraysInv'
        <4>1. strays' \subseteq strays /\ made' = made
          BY <1>1, <1>6
        <4> QED BY <1>3, <4>1, Zenon DEF StraysInv
      <3> QED BY <3>1, <3>2
    <2>4. UNCHANGED <<reply, rpc, held, pollOver>>
      BY <1>2
    <2>5. /\ made' \in IdOrNone /\ made <= made' /\ live' \subseteq 1..made'
          /\ irregular' \in BOOLEAN /\ (irregular => irregular')
          /\ accepted' \in TokenOrNone /\ jobs' \in [Tokens -> Jobs]
      BY <1>2, <1>6
    <2>7. strays' \subseteq Requests
      <3>1. strays' \subseteq strays
        BY <1>1
      <3> QED BY <3>1
    <2>6. /\ \A i \in IdOrNone : i <= made /\ i \notin live => i \notin live'
          /\ \A t \in Tokens : jobs'[t] = jobs[t]
      BY <1>6
    <2> QED BY <2>1, <2>4, <2>5, <2>6, <2>7, WorldKeeps
  <1> QED BY <1>1, <1>5, <1>6

(***************************************************************************)
(* The client's calls                                                      *)
(***************************************************************************)
LEMMA Unclear ==
    LET p == [NoReply EXCEPT !.class = "unclear"]
    IN  p \in Replies /\ p.class = "unclear"
  BY Members DEF NoReply, Replies, Classes

LEMMA NoReplies ==
    NoReply \in Replies /\ NoReply.class = "none"
  BY Members DEF NoReply, Replies

\* An attempt that told nothing: another one, or the call ends unclear.
LEMMA InconclusiveKeeps ==
    ASSUME CCInv, Calling,
           NEW m \in SUBSET Tokens, NEW l \in BOOLEAN, Inconclusive(m, l),
           UNCHANGED <<live, made, irregular, held, pollOver>>,
           jobs' \in [Tokens -> Jobs], accepted' \in TokenOrNone,
           strays' \subseteq Requests, JobsInv', StraysInv',
           \A t \in Tokens : jobs[t].state # "unused" => jobs'[t] = jobs[t],
           \A t \in m : /\ jobs'[t].state # "unused" /\ jobs'[t].op = rpc.kind
                        /\ rpc.kind # "create" => jobs'[t].obj = rpc.id,
           rpc.step # "write" => m = rpc.mine /\ l = rpc.loose
    PROVE  CCInv'
  <1>1. TypeOK /\ AboutInv /\ WriteInv /\ PollInv /\ ReadInv
    BY DEF CCInv
  <1>2. /\ rpc \in Rpcs /\ rpc.tries \in Nat /\ MaxAttempts \in Nat
        /\ rpc.mine \in SUBSET Tokens
        /\ reply.class = "none" /\ rpc.step \in {"write", "poll", "read"}
    BY Typed DEF Calling
  <1>3. \A t \in rpc.mine : jobs'[t] = jobs[t]
    BY <1>1, <1>2 DEF AboutInv
  <1>4. SUFFICES ASSUME rpc' \in Rpcs, rpc'.kind = rpc.kind, rpc'.step = rpc.step,
                        rpc'.id = rpc.id, rpc'.token = rpc.token, rpc'.reads = rpc.reads,
                        rpc'.mine = m, rpc'.loose = l, rpc'.outcome = rpc.outcome,
                        rpc'.cause = rpc.cause, rpc'.rid = rpc.rid,
                        rpc'.attempts = rpc.attempts, reply' \in Replies,
                        \/ rpc'.tries = rpc.tries + 1 /\ reply'.class = "none"
                        \/ rpc'.tries = rpc.tries /\ reply'.class = "unclear"
                 PROVE  CCInv'
    <2>1. CASE /\ rpc.tries < MaxAttempts
               /\ rpc' = Attempted(rpc, m, l, rpc.tries + 1)
               /\ UNCHANGED reply
      <3>1. rpc.tries + 1 \in 0..MaxAttempts
        BY <1>2, <2>1
      <3>2. reply' \in Replies /\ reply'.class = "none"
        BY <1>1, <1>2, <2>1 DEF TypeOK
      <3> QED BY <1>2, <1>4, <2>1, <3>1, <3>2, AttemptedRpc
    <2>2. CASE /\ rpc' = GivenUp(rpc, m, l)
               /\ reply' = [NoReply EXCEPT !.class = "unclear"]
      <3>1. reply' \in Replies /\ reply'.class = "unclear"
        BY <2>2, Unclear
      <3> QED BY <1>2, <1>4, <2>2, <3>1, GivenUpRpc
    <2> QED BY <2>1, <2>2 DEF Inconclusive, Attempted, GivenUp
  <1>5. TypeOK'
    BY <1>1, <1>4 DEF TypeOK
  <1>6. AboutInv'
    BY <1>1, <1>4 DEF AboutInv, Idle
  <1>7. WriteInv'
    <2>1. rpc'.step = "write" => rpc'.kind \in Writes /\ rpc'.tries # 0
      BY <1>1, <1>2, <1>4 DEF WriteInv
    <2>2. rpc'.step = "write" /\ rpc'.tries = 1 => reply'.class = "unclear"
      BY <1>1, <1>2, <1>4 DEF WriteInv
    <2> QED BY <1>4, <2>1, <2>2, Zenon DEF WriteInv
  <1>8. PollInv'
    BY <1>1, <1>2, <1>3, <1>4 DEF PollInv
  <1>9. ReadInv'
    BY <1>1, <1>2, <1>3, <1>4 DEF ReadInv
  <1>10. rpc'.outcome = "none"
    BY <1>1, <1>2, <1>4 DEF AboutInv, Idle
  <1>11. GoneMeansGone' /\ CleanWriteIsReal' /\ FirstFailureIsCertain'
    BY <1>10 DEF GoneMeansGone, CleanWriteIsReal, FirstFailureIsCertain
  <1> QED BY <1>5, <1>6, <1>7, <1>8, <1>9, <1>11 DEF CCInv

LEMMA WriteReachesKeeps ==
    ASSUME CCInv, WriteReaches
    PROVE  CCInv'
  <1> DEFINE m == rpc.mine \cup {accepted + 1}
  <1>1. /\ Calling /\ rpc.step = "write" /\ Accept(rpc.kind, rpc.id)
        /\ UNCHANGED <<strays, held, pollOver>>
    BY DEF WriteReaches
  <1>2. TypeOK /\ JobsInv /\ StraysInv /\ AboutInv /\ WriteInv
    BY DEF CCInv
  <1>3. /\ rpc \in Rpcs /\ rpc.kind \in Writes /\ rpc.id \in IdOrNone /\ rpc.id <= made
        /\ rpc.mine \in SUBSET Tokens /\ rpc.loose \in BOOLEAN
        /\ rpc.tries # 0 /\ reply.class = "none"
    BY <1>1, <1>2, Typed DEF AboutInv, WriteInv, Calling
  <1>4. /\ accepted + 1 \in Tokens
        /\ live' = live /\ made' = made
        /\ accepted' \in TokenOrNone /\ jobs' \in [Tokens -> Jobs]
        /\ jobs[accepted + 1].state = "unused"
        /\ jobs'[accepted + 1].op = rpc.kind /\ jobs'[accepted + 1].obj = rpc.id
        /\ jobs'[accepted + 1].state = "running"
        /\ \A t \in Tokens : t # accepted + 1 => jobs'[t] = jobs[t]
        /\ (irregular => irregular') => JobsInv'
    BY <1>1, <1>3, AcceptFacts
  <1>5. \A t \in Tokens : jobs[t].state # "unused" => jobs'[t] = jobs[t]
    BY <1>4
  <1>6. m \in SUBSET Tokens
    BY <1>3, <1>4
  <1>7. \A t \in m : /\ jobs'[t].state # "unused" /\ jobs'[t].op = rpc.kind
                     /\ rpc.kind # "create" => jobs'[t].obj = rpc.id
    BY <1>2, <1>3, <1>4, <1>5 DEF AboutInv
  <1>8. StraysInv' /\ strays' \subseteq Requests
    BY <1>1, <1>2, <1>4 DEF StraysInv, TypeOK
  <1> HIDE DEF m
  <1>9. CASE Inconclusive(m, rpc.loose) /\ UNCHANGED irregular
    BY <1>1, <1>3, <1>4, <1>5, <1>6, <1>7, <1>8, <1>9, InconclusiveKeeps
  <1>10. ASSUME rpc' = Reached(rpc, m), irregular' \in BOOLEAN, irregular => irregular',
                reply' \in Replies, reply'.class = "ok", reply'.token \in {0, accepted + 1},
                reply'.token = 0 => irregular'
         PROVE  CCInv'
    <2>1. /\ rpc' \in Rpcs
          /\ rpc'.kind = rpc.kind /\ rpc'.step = "write" /\ rpc'.id = rpc.id
          /\ rpc'.tries = rpc.tries /\ rpc'.reads = rpc.reads /\ rpc'.mine = m
          /\ rpc'.loose = rpc.loose /\ rpc'.outcome = rpc.outcome
      BY <1>1, <1>3, <1>6, <1>10, ReachedRpc
    <2>2. TypeOK'
      BY <1>1, <1>2, <1>4, <1>8, <1>10, <2>1 DEF TypeOK
    <2>3. JobsInv'
      BY <1>4, <1>10
    <2>4. AboutInv'
      BY <1>1, <1>2, <1>4, <1>7, <2>1 DEF AboutInv, Idle
    <2>5. rpc.tries = 1 => rpc.mine = {} /\ ~rpc.loose
      BY <1>1, <1>2, <1>3 DEF WriteInv
    <2>6. rpc.tries = 1 => m = {accepted + 1}
      BY <2>5 DEF m
    <2>7. reply'.token # 0 => reply'.token \in m
      BY <1>10 DEF m
    <2>8. WriteInv'
      <3>1. rpc'.tries = 1 => ~rpc'.loose /\ (reply'.token # 0 => rpc'.mine = {reply'.token})
        BY <1>10, <2>1, <2>5, <2>6
      <3>2. /\ rpc'.kind \in Writes /\ rpc'.tries # 0 /\ reply'.class = "ok"
            /\ IF reply'.token # 0 THEN reply'.token \in rpc'.mine ELSE irregular'
        BY <1>3, <1>10, <2>1, <2>7
      <3> QED BY <3>1, <3>2, Zenon DEF WriteInv
    <2>9. PollInv' /\ ReadInv'
      BY <2>1 DEF PollInv, ReadInv
    <2>10. rpc'.outcome = "none"
      BY <1>1, <1>2, <2>1 DEF AboutInv, Idle
    <2>11. GoneMeansGone' /\ CleanWriteIsReal' /\ FirstFailureIsCertain'
      BY <2>10 DEF GoneMeansGone, CleanWriteIsReal, FirstFailureIsCertain
    <2> QED BY <1>8, <2>2, <2>3, <2>4, <2>8, <2>9, <2>11 DEF CCInv
  <1>11. accepted + 1 \in TokenOrNone /\ "running" \in JobStates /\ irregular \in BOOLEAN
    BY <1>2, <1>4, Typed DEF JobStates, TypeOK
  <1>12. CASE /\ rpc' = [rpc EXCEPT !.mine = m]
              /\ reply' = Ok(TRUE, accepted + 1, "running")
              /\ UNCHANGED irregular
    <2>1. reply' \in Replies /\ reply'.class = "ok" /\ reply'.token = accepted + 1
      BY <1>11, <1>12 DEF Ok, Replies, Classes
    <2>2. accepted + 1 # 0
      BY <1>4, Typed
    <2>3. rpc' = Reached(rpc, m)
      BY <1>12 DEF Reached
    <2> QED BY <1>10, <1>11, <1>12, <2>1, <2>2, <2>3
  <1>13. CASE /\ rpc' = [rpc EXCEPT !.mine = m]
              /\ reply' \in {Ok(odd = "noToken", 0, "running") : odd \in OddAnswers}
              /\ irregular' = TRUE
    <2>1. PICK odd \in OddAnswers : reply' = Ok(odd = "noToken", 0, "running")
      BY <1>13
    <2>2. reply' \in Replies /\ reply'.class = "ok" /\ reply'.token = 0
      BY <1>11, <2>1, Members DEF Ok, Replies, Classes
    <2>3. rpc' = Reached(rpc, m)
      BY <1>13 DEF Reached
    <2> QED BY <1>10, <1>13, <2>2, <2>3
  <1> QED BY <1>9, <1>12, <1>13 DEF WriteReaches, m

LEMMA RefusedKeeps ==
    ASSUME CCInv, Refused
    PROVE  CCInv'
  <1>1. /\ Calling /\ reply.class = "none"
        /\ UNCHANGED <<live, made, jobs, accepted, irregular, strays, rpc, held, pollOver>>
    BY DEF Refused, Calling, apiVars
  <1>2. /\ reply' \in Replies /\ reply'.class \in {"refused", "missing"}
        /\ reply'.class = "missing" =>
              \/ rpc.step = "write" /\ rpc.kind # "create" /\ rpc.id \notin live
              \/ rpc.step = "read" /\ rpc.reads \notin live
    BY Members DEF Refused, NoReply, Replies, Classes
  <1>3. TypeOK' /\ JobsInv' /\ StraysInv'
    BY <1>1, <1>2 DEF CCInv, TypeOK, JobsInv, StraysInv
  <1>4. AboutInv'
    BY <1>1 DEF CCInv, AboutInv, Idle
  <1>5. WriteInv' /\ PollInv' /\ ReadInv'
    BY <1>1, <1>2 DEF CCInv, WriteInv, PollInv, ReadInv
  <1>6. GoneMeansGone' /\ CleanWriteIsReal' /\ FirstFailureIsCertain'
    BY <1>1 DEF CCInv, GoneMeansGone, CleanWriteIsReal, FirstFailureIsCertain
  <1> QED BY <1>3, <1>4, <1>5, <1>6 DEF CCInv

LEMMA StatusReachesKeeps ==
    ASSUME CCInv, StatusReaches
    PROVE  CCInv'
  <1>1. /\ Calling /\ reply.class = "none" /\ rpc.step = "poll"
        /\ UNCHANGED <<live, made, jobs, accepted, strays, rpc, held, pollOver>>
    BY DEF StatusReaches, Calling
  <1>2. TypeOK /\ JobsInv /\ StraysInv /\ AboutInv /\ PollInv
    BY DEF CCInv
  <1>3. rpc.token \in Tokens /\ rpc.token \in TokenOrNone /\ jobs[rpc.token].state \in JobStates
    <2>1. rpc.token \in Tokens
      BY <1>1, <1>2, Typed DEF PollInv
    <2> QED BY <2>1, Typed DEF Jobs
  <1>4. reply' \in Replies /\ reply'.says = jobs[rpc.token].state
    <2>1. CASE reply' = Ok(TRUE, rpc.token, jobs[rpc.token].state)
      BY <1>3, <2>1 DEF Ok, Replies, Classes
    <2>2. CASE reply' = Ok(FALSE, 0, jobs[rpc.token].state)
      BY <1>3, <2>2, Members DEF Ok, Replies, Classes
    <2> QED BY <2>1, <2>2 DEF StatusReaches
  <1>10. irregular' \in BOOLEAN /\ (irregular => irregular')
    BY <1>2 DEF StatusReaches, TypeOK
  <1>5. TypeOK' /\ JobsInv' /\ StraysInv'
    BY <1>1, <1>2, <1>4, <1>10 DEF TypeOK, JobsInv, StraysInv
  <1>6. AboutInv' /\ PollInv'
    BY <1>1, <1>2, <1>4 DEF AboutInv, PollInv, Idle
  <1>7. WriteInv' /\ ReadInv'
    BY <1>1 DEF WriteInv, ReadInv
  <1>8. rpc'.outcome = "none"
    BY <1>1, <1>2 DEF AboutInv, Idle
  <1>9. GoneMeansGone' /\ CleanWriteIsReal' /\ FirstFailureIsCertain'
    BY <1>8 DEF GoneMeansGone, CleanWriteIsReal, FirstFailureIsCertain
  <1> QED BY <1>5, <1>6, <1>7, <1>9 DEF CCInv

LEMMA ReadReachesKeeps ==
    ASSUME CCInv, ReadReaches
    PROVE  CCInv'
  <1>1. /\ rpc.step = "read"
        /\ UNCHANGED <<live, made, jobs, accepted, irregular, strays, rpc, held, pollOver>>
    BY DEF ReadReaches, apiVars
  <1>2. reply' \in Replies /\ reply'.class = "ok"
    BY Members DEF ReadReaches, Ok, Replies, Classes
  <1>3. TypeOK' /\ JobsInv' /\ StraysInv'
    BY <1>1, <1>2 DEF CCInv, TypeOK, JobsInv, StraysInv
  <1>4. AboutInv'
    BY <1>1 DEF CCInv, AboutInv, Idle
  <1>5. WriteInv' /\ PollInv' /\ ReadInv'
    BY <1>1, <1>2 DEF CCInv, WriteInv, PollInv, ReadInv
  <1>6. GoneMeansGone' /\ CleanWriteIsReal' /\ FirstFailureIsCertain'
    BY <1>1 DEF CCInv, GoneMeansGone, CleanWriteIsReal, FirstFailureIsCertain
  <1> QED BY <1>3, <1>4, <1>5, <1>6 DEF CCInv

LEMMA LostKeeps ==
    ASSUME CCInv, Lost
    PROVE  CCInv'
  <1>1. /\ Calling
        /\ UNCHANGED <<live, made, jobs, accepted, irregular, held, pollOver>>
    BY DEF Lost, apiVars
  <1>2. TypeOK /\ JobsInv /\ StraysInv /\ AboutInv /\ WriteInv
    BY DEF CCInv
  <1>3. /\ jobs' \in [Tokens -> Jobs] /\ accepted' \in TokenOrNone /\ JobsInv'
        /\ \A t \in Tokens : jobs[t].state # "unused" => jobs'[t] = jobs[t]
    BY <1>1, <1>2 DEF TypeOK, JobsInv
  <1>4. /\ rpc.mine \in SUBSET Tokens /\ rpc.loose \in BOOLEAN
        /\ \A t \in rpc.mine : /\ jobs'[t].state # "unused" /\ jobs'[t].op = rpc.kind
                               /\ rpc.kind # "create" => jobs'[t].obj = rpc.id
    BY <1>1, <1>2, Typed DEF AboutInv
  <1>5. CASE Inconclusive(rpc.mine, rpc.loose) /\ UNCHANGED strays
    <2>1. StraysInv' /\ strays' \subseteq Requests
      BY <1>1, <1>2, <1>5 DEF StraysInv, TypeOK
    <2> QED BY <1>1, <1>3, <1>4, <1>5, <2>1, InconclusiveKeeps
  <1>6. CASE /\ rpc.step = "write" /\ Inconclusive(rpc.mine, TRUE)
             /\ strays' = strays \cup {[op |-> rpc.kind, id |-> rpc.id]}
    <2>1. rpc.kind \in Writes /\ rpc.id \in IdOrNone /\ rpc.id <= made
      BY <1>2, <1>6, Typed DEF WriteInv, AboutInv
    <2>2. StraysInv' /\ strays' \subseteq Requests
      BY <1>1, <1>2, <1>6, <2>1 DEF StraysInv, TypeOK, Requests
    <2> QED BY <1>1, <1>3, <1>4, <1>6, <2>2, InconclusiveKeeps
  <1> QED BY <1>5, <1>6 DEF Lost

(***************************************************************************)
(* The handlers                                                            *)
(***************************************************************************)
\* The attempts a response or a next call records.
Took == IF rpc.step = "write" THEN rpc.tries ELSE rpc.attempts

LEMMA TookTyped ==
    ASSUME CCInv
    PROVE  Took \in 0..MaxAttempts
  BY Typed DEF Took

\* An answer is true when what the answer says is.
LEMMA RespondKeeps ==
    ASSUME CCInv,
           NEW outcome \in Outcomes, NEW cause \in Causes, NEW rid \in IdOrNone, rid <= made,
           Respond(outcome, cause, rid),
           outcome = "empty" /\ ~irregular => rpc.id \notin live,
           ~irregular /\ outcome = "state" /\ rpc.kind \in {"create", "update"} =>
               /\ rpc.token \in rpc.mine
               /\ jobs[rpc.token].state = "done"
               /\ jobs[rpc.token].obj = rid,
           outcome = "diag" /\ cause \in {"rejected", "jobFailed"} /\ Took = 1 =>
               ~rpc.loose /\ \A t \in rpc.mine : jobs[t].state \in {"failed", "cancelled"}
    PROVE  CCInv'
  <1>1. TypeOK /\ JobsInv /\ StraysInv /\ AboutInv
    BY DEF CCInv
  <1>2. /\ rpc' = Responded(rpc, outcome, cause, rid, Took)
        /\ held' = CASE outcome = "state" -> rid
                     [] outcome = "empty" -> 0
                     [] OTHER             -> held
        /\ reply' = NoReply
        /\ UNCHANGED <<live, made, jobs, accepted, irregular, strays, pollOver>>
    BY DEF Respond, apiVars, Took, Responded
  <1>3. /\ rpc' \in Rpcs
        /\ rpc'.kind = rpc.kind /\ rpc'.step = "idle" /\ rpc'.id = rpc.id
        /\ rpc'.token = rpc.token /\ rpc'.reads = rpc.reads /\ rpc'.mine = rpc.mine
        /\ rpc'.loose = rpc.loose /\ rpc'.outcome = outcome /\ rpc'.cause = cause
        /\ rpc'.rid = rid /\ rpc'.attempts = Took
    BY <1>2, Typed, TookTyped, RespondedRpc
  <1>4. reply' \in Replies
    BY <1>2, NoReplies
  <1>5. held' \in IdOrNone /\ held' <= made
    <2>1. 0 <= made /\ 0 \in IdOrNone /\ held \in IdOrNone /\ held <= made
      BY <1>1, Typed, Members DEF AboutInv
    <2> QED BY <1>2, <2>1
  <1>6. TypeOK'
    BY <1>1, <1>2, <1>3, <1>4, <1>5 DEF TypeOK
  <1>7. JobsInv' /\ StraysInv'
    BY <1>1, <1>2 DEF JobsInv, StraysInv
  <1>8. AboutInv'
    BY <1>1, <1>2, <1>3, <1>5 DEF AboutInv, Idle
  <1>9. WriteInv' /\ PollInv' /\ ReadInv'
    BY <1>3 DEF WriteInv, PollInv, ReadInv
  <1>10. GoneMeansGone'
    BY <1>2, <1>3 DEF GoneMeansGone
  <1>11. CleanWriteIsReal'
    BY <1>2, <1>3 DEF CleanWriteIsReal
  <1>12. FirstFailureIsCertain'
    BY <1>2, <1>3 DEF FirstFailureIsCertain
  <1> QED BY <1>6, <1>7, <1>8, <1>9, <1>10, <1>11, <1>12 DEF CCInv

\* Diagnostics and errors that claim nothing about the write.
LEMMA AdmitsKeeps ==
    ASSUME CCInv,
           NEW outcome \in {"diag", "error", "panic"},
           NEW cause \in Causes \ {"rejected", "jobFailed"},
           Respond(outcome, cause, 0)
    PROVE  CCInv'
  <1>1. /\ outcome \in Outcomes /\ cause \in Causes /\ 0 \in IdOrNone /\ 0 <= made
        /\ outcome \notin {"empty", "state"} /\ cause \notin {"rejected", "jobFailed"}
    BY Typed, Members DEF Outcomes
  <1> QED BY <1>1, RespondKeeps

LEMMA PollsNext ==
    ASSUME CCInv, NEW token \in Tokens, CallNext("poll", token, 0),
           pollOver' \in BOOLEAN,
           rpc.kind \in Writes, token \in rpc.mine, ~Idle,
           Took = 1 => ~rpc.loose /\ rpc.mine = {token}
    PROVE  CCInv'
  <1>1. TypeOK /\ JobsInv /\ StraysInv /\ AboutInv
    BY DEF CCInv
  <1>2. /\ rpc' = Calls(rpc, "poll", token, 0, Took) /\ reply' = NoReply
        /\ UNCHANGED <<live, made, jobs, accepted, irregular, strays, held>>
    BY DEF CallNext, apiVars, Took, Calls
  <1>3. /\ rpc' \in Rpcs
        /\ rpc'.kind = rpc.kind /\ rpc'.step = "poll" /\ rpc'.id = rpc.id
        /\ rpc'.token = token /\ rpc'.reads = 0 /\ rpc'.mine = rpc.mine
        /\ rpc'.loose = rpc.loose /\ rpc'.outcome = rpc.outcome /\ rpc'.attempts = Took
    <2>1. /\ "poll" \in Steps /\ 0 \in IdOrNone /\ rpc \in Rpcs
          /\ token \in TokenOrNone /\ Took \in 0..MaxAttempts
      BY Typed, TookTyped, Members
    <2> QED BY <1>2, <2>1, CallsRpc
  <1>4. reply' \in Replies /\ reply'.class = "none"
    BY <1>2, NoReplies
  <1>5. TypeOK'
    BY <1>1, <1>2, <1>3, <1>4 DEF TypeOK
  <1>6. JobsInv' /\ StraysInv'
    BY <1>1, <1>2 DEF JobsInv, StraysInv
  <1>7. 0 <= made
    BY Typed
  <1>8. AboutInv'
    BY <1>1, <1>2, <1>3, <1>7 DEF AboutInv, Idle
  <1>9. WriteInv' /\ ReadInv'
    BY <1>3 DEF WriteInv, ReadInv
  <1>10. PollInv'
    BY <1>3, <1>4 DEF PollInv
  <1>11. rpc'.outcome = "none"
    BY <1>1, <1>3 DEF AboutInv
  <1>12. GoneMeansGone' /\ CleanWriteIsReal' /\ FirstFailureIsCertain'
    BY <1>11 DEF GoneMeansGone, CleanWriteIsReal, FirstFailureIsCertain
  <1> QED BY <1>5, <1>6, <1>8, <1>9, <1>10, <1>12 DEF CCInv

LEMMA ReadsNext ==
    ASSUME CCInv, NEW token \in TokenOrNone, NEW reads \in IdOrNone,
           CallNext("read", token, reads), UNCHANGED pollOver,
           rpc.kind \in {"create", "update"}, ~Idle, reads # 0, reads <= made,
           ~irregular =>
               /\ token \in rpc.mine
               /\ jobs[token].state = "done"
               /\ jobs[token].obj = reads
    PROVE  CCInv'
  <1>1. TypeOK /\ JobsInv /\ StraysInv /\ AboutInv
    BY DEF CCInv
  <1>2. /\ rpc' = Calls(rpc, "read", token, reads, Took) /\ reply' = NoReply
        /\ UNCHANGED <<live, made, jobs, accepted, irregular, strays, held>>
    BY DEF CallNext, apiVars, Took, Calls
  <1>3. /\ rpc' \in Rpcs
        /\ rpc'.kind = rpc.kind /\ rpc'.step = "read" /\ rpc'.id = rpc.id
        /\ rpc'.token = token /\ rpc'.reads = reads /\ rpc'.mine = rpc.mine
        /\ rpc'.loose = rpc.loose /\ rpc'.outcome = rpc.outcome /\ rpc'.attempts = Took
    <2>1. "read" \in Steps /\ rpc \in Rpcs /\ Took \in 0..MaxAttempts
      BY Typed, TookTyped, Members
    <2> QED BY <1>2, <2>1, CallsRpc
  <1>4. reply' \in Replies /\ reply'.class = "none"
    BY <1>2, NoReplies
  <1>5. TypeOK'
    BY <1>1, <1>2, <1>3, <1>4 DEF TypeOK
  <1>6. JobsInv' /\ StraysInv'
    BY <1>1, <1>2 DEF JobsInv, StraysInv
  <1>8. AboutInv'
    BY <1>1, <1>2, <1>3 DEF AboutInv, Idle
  <1>9. WriteInv' /\ PollInv'
    BY <1>3 DEF WriteInv, PollInv
  <1>10. ReadInv'
    BY <1>2, <1>3, <1>4 DEF ReadInv
  <1>11. rpc'.outcome = "none"
    BY <1>1, <1>3 DEF AboutInv
  <1>12. GoneMeansGone' /\ CleanWriteIsReal' /\ FirstFailureIsCertain'
    BY <1>11 DEF GoneMeansGone, CleanWriteIsReal, FirstFailureIsCertain
  <1> QED BY <1>5, <1>6, <1>8, <1>9, <1>10, <1>12 DEF CCInv

\* The write's answer: rejected, gone already, or accepted as a job.
LEMMA WriteAnswered ==
    ASSUME CCInv, WriteFails \/ DestroyFindsNothing \/ WriteAccepted
    PROVE  CCInv'
  <1>1. AboutInv /\ WriteInv
    BY DEF CCInv
  <1>2. /\ rpc.step = "write" /\ rpc.kind \in Writes /\ ~Idle
        /\ 0 \in IdOrNone /\ 0 <= made /\ "state" \in Outcomes /\ "empty" \in Outcomes
        /\ "diag" \in Outcomes /\ "none" \in Causes /\ "rejected" \in Causes
    BY <1>1, Typed, Members
       DEF WriteInv, WriteFails, DestroyFindsNothing, WriteAccepted, Idle, Outcomes, Causes
  <1>3. Took = rpc.tries
    BY <1>2 DEF Took
  <1>4. CASE WriteFails
    <2>1. CASE reply.class \in {"refused", "missing"} /\ Respond("diag", "rejected", 0)
      <3>1. Took = 1 => ~rpc.loose /\ \A t \in rpc.mine : jobs[t].state \in {"failed", "cancelled"}
        BY <1>1, <1>2, <1>3, <2>1 DEF WriteInv
      <3> QED BY <1>2, <2>1, <3>1, RespondKeeps
    <2>2. CASE Respond("error", "none", 0)
      BY <1>2, <2>2, AdmitsKeeps
    <2> QED BY <1>4, <2>1, <2>2 DEF WriteFails, Classify
  <1>5. CASE DestroyFindsNothing
    <2>1. Respond("empty", "none", 0) /\ rpc.id \notin live /\ rpc.kind = "destroy"
      BY <1>1, <1>2, <1>5 DEF DestroyFindsNothing, WriteInv
    <2> QED BY <1>2, <2>1, RespondKeeps
  <1>6. CASE WriteAccepted
    <2>1. reply.class = "ok"
      BY <1>6 DEF WriteAccepted
    <2>2. CASE reply.token # 0
      <3>1. CallNext("poll", reply.token, 0) /\ pollOver' \in BOOLEAN
        BY <1>6, <2>2 DEF WriteAccepted
      <3>2. reply.token \in rpc.mine
        BY <1>1, <1>2, <2>1, <2>2 DEF WriteInv
      <3>3. Took = 1 => ~rpc.loose /\ rpc.mine = {reply.token}
        BY <1>1, <1>2, <1>3, <2>1, <2>2 DEF WriteInv
      <3>4. reply.token \in Tokens
        BY <2>2, Typed
      <3> QED BY <1>2, <3>1, <3>2, <3>3, <3>4, PollsNext
    <2>3. CASE reply.token = 0
      <3>1. irregular
        BY <1>1, <1>2, <2>1, <2>3 DEF WriteInv
      <3>2. rpc.id \in IdOrNone /\ rpc.id <= made
        BY <1>1, Typed DEF AboutInv
      <3>3. PICK i \in {0, rpc.id} :
               Respond("empty", "none", i) \/ Respond("state", "none", i)
        BY <1>6, <2>3 DEF WriteAccepted
      <3>4. i \in IdOrNone /\ i <= made
        BY <1>2, <3>2
      <3>5. CASE Respond("empty", "none", i)
        BY <1>2, <3>1, <3>4, <3>5, RespondKeeps
      <3>6. CASE Respond("state", "none", i)
        BY <1>2, <3>1, <3>4, <3>6, RespondKeeps
      <3> QED BY <3>3, <3>5, <3>6
    <2> QED BY <2>2, <2>3
  <1> QED BY <1>4, <1>5, <1>6

\* A poll that fails says nothing of the job.
LEMMA PollUnanswered ==
    ASSUME CCInv, PollFails \/ PollPanics \/ PollPending \/ PauseEnds
    PROVE  CCInv'
  <1>1. "none" \in Causes \ {"rejected", "jobFailed"}
    BY Members
  <1>2. CASE Respond("error", "none", 0) \/ Respond("panic", "none", 0)
    BY <1>1, <1>2, AdmitsKeeps
  <1>3. CASE PollPending
    <2>1. Polled({"running"}) /\ rpc.step = "poll"
      BY <1>3 DEF PollPending, Polled
    <2>2. CASE /\ rpc' = Paused(rpc) /\ reply' = NoReply
               /\ UNCHANGED <<live, made, jobs, accepted, irregular, strays, held, pollOver>>
      <3>1. /\ rpc' \in Rpcs
            /\ rpc'.kind = rpc.kind /\ rpc'.step = "pause" /\ rpc'.id = rpc.id
            /\ rpc'.token = rpc.token /\ rpc'.reads = rpc.reads /\ rpc'.mine = rpc.mine
            /\ rpc'.loose = rpc.loose /\ rpc'.outcome = rpc.outcome
            /\ rpc'.attempts = rpc.attempts
        BY <2>2, Typed, PausedRpc
      <3>2. reply' \in Replies /\ reply'.class = "none"
        BY <2>2, NoReplies
      <3>3. TypeOK' /\ JobsInv' /\ StraysInv'
        BY <2>2, <3>1, <3>2 DEF CCInv, TypeOK, JobsInv, StraysInv
      <3>4. AboutInv'
        BY <2>1, <2>2, <3>1 DEF CCInv, AboutInv, Idle
      <3>5. WriteInv' /\ ReadInv'
        BY <3>1 DEF WriteInv, ReadInv
      <3>6. PollInv'
        BY <2>1, <2>2, <3>1, <3>2 DEF CCInv, PollInv
      <3>7. rpc'.outcome = "none"
        BY <2>1, <3>1 DEF CCInv, AboutInv, Idle
      <3>8. GoneMeansGone' /\ CleanWriteIsReal' /\ FirstFailureIsCertain'
        BY <3>7 DEF GoneMeansGone, CleanWriteIsReal, FirstFailureIsCertain
      <3> QED BY <3>3, <3>4, <3>5, <3>6, <3>8 DEF CCInv
    <2> QED BY <1>2, <1>3, <2>2 DEF PollPending, Paused, apiVars
  <1>4. CASE CallNext("poll", rpc.token, 0) /\ UNCHANGED pollOver /\ rpc.step = "pause"
    <2>1. /\ rpc.kind \in Writes /\ rpc.token \in rpc.mine /\ ~Idle /\ rpc.token \in Tokens
          /\ pollOver' \in BOOLEAN
      BY <1>4, Typed DEF CCInv, TypeOK, PollInv, Idle
    <2>2. Took = 1 => ~rpc.loose /\ rpc.mine = {rpc.token}
      BY <1>4 DEF CCInv, PollInv, Took
    <2> QED BY <1>4, <2>1, <2>2, PollsNext
  <1> QED BY <1>2, <1>3, <1>4 DEF PollFails, PollPanics, PauseEnds

\* The job has ended.
LEMMA PollAnswered ==
    ASSUME CCInv, JobFailed \/ DestroyEnds \/ WriteEnds
    PROVE  CCInv'
  <1>1. JobsInv /\ AboutInv /\ PollInv
    BY DEF CCInv
  <1>2. /\ rpc.step = "poll" /\ reply.class = "ok" /\ reply.says # "running" /\ ~Idle
        /\ 0 \in IdOrNone /\ 0 <= made
        /\ "diag" \in Outcomes /\ "empty" \in Outcomes /\ "none" \in Causes
        /\ "jobFailed" \in Causes /\ "decode" \in Causes \ {"rejected", "jobFailed"}
    BY Typed, Members
       DEF JobFailed, DestroyEnds, WriteEnds, Polled, Idle, Outcomes, Causes
  <1>3. /\ reply.says = jobs[rpc.token].state /\ rpc.token \in rpc.mine /\ rpc.token \in Tokens
        /\ rpc.kind \in Writes
        /\ Took = 1 => ~rpc.loose /\ rpc.mine = {rpc.token}
        /\ jobs[rpc.token].op = rpc.kind
        /\ rpc.kind # "create" => jobs[rpc.token].obj = rpc.id
    BY <1>1, <1>2, Typed DEF PollInv, AboutInv, Took
  <1>4. CASE JobFailed
    <2>1. Respond("diag", "jobFailed", 0) /\ jobs[rpc.token].state = "failed"
      BY <1>3, <1>4 DEF JobFailed, Polled
    <2>2. Took = 1 => ~rpc.loose /\ \A t \in rpc.mine : jobs[t].state \in {"failed", "cancelled"}
      BY <1>3, <2>1
    <2> QED BY <1>2, <2>1, <2>2, RespondKeeps
  <1>5. CASE DestroyEnds
    <2>1. /\ Respond("empty", "none", 0) /\ rpc.kind = "destroy"
          /\ jobs[rpc.token].state \in {"done", "cancelled"}
      BY <1>3, <1>5 DEF DestroyEnds, Polled
    <2>2. ~irregular => rpc.id \notin live
      BY <1>1, <1>3, <2>1 DEF JobsInv
    <2> QED BY <1>2, <2>1, <2>2, RespondKeeps
  <1>6. CASE WriteEnds
    <2>1. /\ rpc.kind # "destroy" /\ jobs[rpc.token].state \in {"done", "cancelled"}
      BY <1>3, <1>6 DEF WriteEnds, Polled
    <2>2. CASE Respond("diag", "decode", 0)
      BY <1>2, <2>2, AdmitsKeeps
    <2>3. ASSUME NEW id \in IdOrNone, id # 0, CallNext("read", rpc.token, id),
                 UNCHANGED pollOver,
                 id = IF jobs[rpc.token].obj # 0 THEN jobs[rpc.token].obj ELSE rpc.id
          PROVE  CCInv'
      <3>1. id <= made /\ rpc.token \in TokenOrNone /\ rpc.kind \in {"create", "update"}
        BY <1>1, <1>3, <2>1, <2>3, Typed DEF JobsInv, AboutInv, Writes
      <3>2. ~irregular => jobs[rpc.token].state = "done" /\ jobs[rpc.token].obj = id
        BY <1>1, <1>3, <2>1, <2>3, <3>1 DEF JobsInv
      <3> QED BY <1>2, <1>3, <2>3, <3>1, <3>2, ReadsNext
    <2>4. jobs[rpc.token].obj \in IdOrNone /\ rpc.id \in IdOrNone
      BY <1>3, Typed DEF Jobs
    <2> QED BY <1>6, <2>2, <2>3, <2>4 DEF WriteEnds
  <1> QED BY <1>4, <1>5, <1>6

LEMMA ReadAnswered ==
    ASSUME CCInv, ReadFails \/ ReadFindsNothing \/ ReadDone
    PROVE  CCInv'
  <1>1. AboutInv /\ ReadInv
    BY DEF CCInv
  <1>2. /\ rpc.step = "read"
        /\ 0 \in IdOrNone /\ 0 <= made /\ rpc.reads \in IdOrNone /\ rpc.reads <= made
        /\ "empty" \in Outcomes /\ "state" \in Outcomes /\ "none" \in Causes
        /\ {"none", "unread", "vanished", "decode"} \subseteq Causes \ {"rejected", "jobFailed"}
    BY <1>1, Typed, Members
       DEF ReadFails, ReadFindsNothing, ReadDone, AboutInv, Outcomes, Causes
  <1>3. ASSUME NEW c \in {"none", "unread", "vanished", "decode"},
               Respond("diag", c, 0) \/ Respond("error", c, 0)
        PROVE  CCInv'
    BY <1>2, <1>3, AdmitsKeeps
  <1>4. CASE rpc.kind = "read" /\ reply.class = "missing" /\ Respond("empty", "none", 0)
    <2>1. rpc.id \notin live
      BY <1>1, <1>2, <1>4 DEF ReadInv
    <2> QED BY <1>2, <1>4, <2>1, RespondKeeps
  <1>5. CASE Respond("state", "none", rpc.reads)
    <2>1. ~irregular /\ rpc.kind \in {"create", "update"} =>
              /\ rpc.token \in rpc.mine
              /\ jobs[rpc.token].state = "done"
              /\ jobs[rpc.token].obj = rpc.reads
      BY <1>1, <1>2 DEF ReadInv
    <2> QED BY <1>2, <1>5, <2>1, RespondKeeps
  <1> QED BY <1>3, <1>4, <1>5 DEF ReadFails, ReadFindsNothing, ReadDone, Classify

LEMMA DeadlineKeeps ==
    ASSUME CCInv, PollDeadline
    PROVE  CCInv'
  <1>1. /\ pollOver' \in BOOLEAN
        /\ UNCHANGED <<live, made, jobs, accepted, irregular, strays, reply, rpc, held>>
    BY DEF PollDeadline, apiVars
  <1>2. TypeOK' /\ JobsInv' /\ StraysInv'
    BY <1>1 DEF CCInv, TypeOK, JobsInv, StraysInv
  <1>3. AboutInv'
    BY <1>1 DEF CCInv, AboutInv, Idle
  <1>4. WriteInv' /\ PollInv' /\ ReadInv'
    BY <1>1 DEF CCInv, WriteInv, PollInv, ReadInv
  <1>5. GoneMeansGone' /\ CleanWriteIsReal' /\ FirstFailureIsCertain'
    BY <1>1 DEF CCInv, GoneMeansGone, CleanWriteIsReal, FirstFailureIsCertain
  <1> QED BY <1>2, <1>3, <1>4, <1>5 DEF CCInv

(***************************************************************************)
(* Core calls                                                              *)
(***************************************************************************)
Started(kind, id) ==
    [NoRpc EXCEPT !.kind = kind, !.id = id, !.reads = id, !.tries = 1,
                  !.step = IF kind \in Writes THEN "write" ELSE "read"]

Unsent(kind, id) ==
    [NoRpc EXCEPT !.kind = kind, !.id = id, !.outcome = "diag", !.cause = "local"]

LEMMA NoRpcTyped ==
    /\ NoRpc \in Rpcs
    /\ NoRpc.mine = {} /\ ~NoRpc.loose /\ NoRpc.outcome = "none"
    /\ NoRpc.token = 0 /\ NoRpc.attempts = 0 /\ NoRpc.step = "idle" /\ NoRpc.id = 0
    /\ NoRpc.reads = 0
  <1>1. NoRpc \in Rpcs
    BY Members, ZenonT(60) DEF NoRpc, Rpcs
  <1> QED BY <1>1 DEF NoRpc

LEMMA StartedRpc ==
    ASSUME NEW kind \in Kinds, NEW id \in IdOrNone
    PROVE  LET p == Started(kind, id)
           IN  /\ p \in Rpcs
               /\ p.kind = kind /\ p.id = id /\ p.reads = id /\ p.tries = 1
               /\ p.step \in {"write", "read"} /\ (p.step = "write" <=> kind \in Writes)
               /\ p.mine = {} /\ ~p.loose /\ p.outcome = "none"
  <1> DEFINE s == IF kind \in Writes THEN "write" ELSE "read"
  <1>1. s \in Steps
    BY Members
  <1> HIDE DEF s
  <1>2. Started(kind, id) = [NoRpc EXCEPT !.kind = kind, !.id = id, !.reads = id,
                                          !.tries = 1, !.step = s]
    BY DEF Started, s
  <1>3. [NoRpc EXCEPT !.kind = kind, !.id = id, !.reads = id, !.tries = 1, !.step = s] \in Rpcs
    BY <1>1, Members, NoRpcTyped, ZenonT(60) DEF Rpcs
  <1>4. LET p == [NoRpc EXCEPT !.kind = kind, !.id = id, !.reads = id, !.tries = 1, !.step = s]
        IN  /\ p.kind = kind /\ p.id = id /\ p.reads = id /\ p.tries = 1
            /\ p.step = s /\ p.mine = {} /\ ~p.loose /\ p.outcome = "none"
    BY NoRpcTyped, ZenonT(60) DEF Rpcs
  <1> QED BY <1>2, <1>3, <1>4 DEF s

LEMMA UnsentRpc ==
    ASSUME NEW kind \in Kinds, NEW id \in IdOrNone
    PROVE  LET p == Unsent(kind, id)
           IN  /\ p \in Rpcs
               /\ p.kind = kind /\ p.id = id /\ p.reads = 0 /\ p.step = "idle"
               /\ p.mine = {} /\ p.outcome = "diag" /\ p.cause = "local"
  <1>1. "diag" \in Outcomes /\ "local" \in Causes
    BY DEF Outcomes, Causes
  <1>2. Unsent(kind, id) \in Rpcs
    BY <1>1, NoRpcTyped, ZenonT(60) DEF Unsent, Rpcs
  <1>3. LET p == Unsent(kind, id)
        IN  /\ p.kind = kind /\ p.id = id /\ p.reads = 0 /\ p.step = "idle"
            /\ p.mine = {} /\ p.outcome = "diag" /\ p.cause = "local"
    BY NoRpcTyped, ZenonT(60) DEF Unsent, Rpcs
  <1> QED BY <1>2, <1>3

LEMMA AskedAbout ==
    ASSUME CCInv, NEW kind \in Kinds, NEW id \in IdOrNone, MayAsk(kind, id)
    PROVE  /\ id <= made
           /\ kind \notin {"create", "import"} => held = id /\ held # 0
           /\ kind \notin Writes => id # 0
  <1>1. AboutInv /\ held \in IdOrNone /\ made \in Nat
    BY Typed DEF CCInv
  <1> QED BY <1>1, Typed DEF MayAsk, AboutInv, Writes

LEMMA StartKeeps ==
    ASSUME CCInv, NEW kind \in Kinds, NEW id \in IdOrNone, Start(kind, id)
    PROVE  CCInv'
  <1>1. /\ rpc' = Started(kind, id) /\ reply' = NoReply /\ pollOver' = FALSE
        /\ UNCHANGED <<live, made, jobs, accepted, irregular, strays, held>>
    BY DEF Start, Started, apiVars
  <1>2. /\ rpc' \in Rpcs
        /\ rpc'.kind = kind /\ rpc'.id = id /\ rpc'.reads = id /\ rpc'.tries = 1
        /\ rpc'.step \in {"write", "read"} /\ (rpc'.step = "write" <=> kind \in Writes)
        /\ rpc'.mine = {} /\ ~rpc'.loose /\ rpc'.outcome = "none"
    BY <1>1, StartedRpc
  <1>3. reply' \in Replies /\ reply'.class = "none"
    BY <1>1, NoReplies
  <1>4. /\ id <= made
        /\ kind \notin {"create", "import"} => held = id /\ held # 0
        /\ kind \notin Writes => id # 0
    BY AskedAbout DEF Start
  <1>5. TypeOK' /\ JobsInv' /\ StraysInv'
    BY <1>1, <1>2, <1>3 DEF CCInv, TypeOK, JobsInv, StraysInv
  <1>6. AboutInv'
    BY <1>1, <1>2, <1>4 DEF CCInv, AboutInv, Idle
  <1>7. WriteInv'
    BY <1>2, <1>3 DEF WriteInv
  <1>8. PollInv'
    BY <1>2 DEF PollInv
  <1>9. ReadInv'
    BY <1>2, <1>3, <1>4 DEF ReadInv, Writes
  <1>10. GoneMeansGone' /\ CleanWriteIsReal' /\ FirstFailureIsCertain'
    BY <1>2 DEF GoneMeansGone, CleanWriteIsReal, FirstFailureIsCertain
  <1> QED BY <1>5, <1>6, <1>7, <1>8, <1>9, <1>10 DEF CCInv

LEMMA RefuseUnsentKeeps ==
    ASSUME CCInv, NEW kind \in Kinds, NEW id \in IdOrNone, RefuseUnsent(kind, id)
    PROVE  CCInv'
  <1>1. /\ rpc' = Unsent(kind, id)
        /\ UNCHANGED <<live, made, jobs, accepted, irregular, strays, reply, held, pollOver>>
    BY DEF RefuseUnsent, Unsent, apiVars
  <1>2. /\ rpc' \in Rpcs
        /\ rpc'.kind = kind /\ rpc'.id = id /\ rpc'.reads = 0 /\ rpc'.step = "idle"
        /\ rpc'.mine = {} /\ rpc'.outcome = "diag" /\ rpc'.cause = "local"
    BY <1>1, UnsentRpc
  <1>3. id <= made /\ 0 <= made
    BY AskedAbout, Typed DEF RefuseUnsent
  <1>4. TypeOK' /\ JobsInv' /\ StraysInv'
    BY <1>1, <1>2 DEF CCInv, TypeOK, JobsInv, StraysInv
  <1>5. AboutInv'
    BY <1>1, <1>2, <1>3 DEF CCInv, AboutInv, Idle
  <1>6. WriteInv' /\ PollInv' /\ ReadInv'
    BY <1>2 DEF WriteInv, PollInv, ReadInv
  <1>7. GoneMeansGone' /\ CleanWriteIsReal' /\ FirstFailureIsCertain'
    BY <1>2 DEF GoneMeansGone, CleanWriteIsReal, FirstFailureIsCertain
  <1> QED BY <1>4, <1>5, <1>6, <1>7 DEF CCInv

(***************************************************************************)
(* The theorems                                                            *)
(***************************************************************************)
LEMMA InitCCInv == Init => CCInv
  <1> SUFFICES ASSUME Init PROVE CCInv
    OBVIOUS
  <1>1. /\ live = {} /\ made = 0 /\ jobs = [t \in Tokens |-> NoJob] /\ accepted = 0
        /\ irregular = FALSE /\ strays = {} /\ reply = NoReply /\ rpc = NoRpc /\ held = 0
        /\ pollOver = FALSE
    BY DEF Init, APIInit
  <1>2. NoJob \in Jobs /\ NoJob.obj = 0 /\ NoJob.state = "unused"
    BY Members DEF NoJob, Jobs, Writes
  <1>3. TypeOK
    BY <1>1, <1>2, Members, NoReplies, NoRpcTyped DEF TypeOK
  <1>4. JobsInv
    BY <1>1, <1>2, CCAssumption DEF JobsInv, Tokens
  <1>5. StraysInv
    BY <1>1 DEF StraysInv
  <1>6. AboutInv
    BY <1>1, NoRpcTyped DEF AboutInv, Idle
  <1>7. WriteInv /\ PollInv /\ ReadInv
    BY <1>1, NoRpcTyped DEF WriteInv, PollInv, ReadInv
  <1>8. GoneMeansGone /\ CleanWriteIsReal /\ FirstFailureIsCertain
    BY <1>1, NoRpcTyped DEF GoneMeansGone, CleanWriteIsReal, FirstFailureIsCertain
  <1> QED BY <1>3, <1>4, <1>5, <1>6, <1>7, <1>8 DEF CCInv

LEMMA CCInvUnchanged == CCInv /\ UNCHANGED vars => CCInv'
  BY DEF CCInv, TypeOK, JobsInv, StraysInv, AboutInv, WriteInv, PollInv, ReadInv, Idle,
         GoneMeansGone, CleanWriteIsReal, FirstFailureIsCertain, vars, apiVars

LEMMA NextKeepsCCInv == CCInv /\ [Next]_vars => CCInv'
  <1> SUFFICES ASSUME CCInv, [Next]_vars PROVE CCInv'
    OBVIOUS
  <1>1. CASE CoreCalls
    BY <1>1, StartKeeps, RefuseUnsentKeeps DEF CoreCalls
  <1>2. CASE CallStep
    BY <1>2, WriteReachesKeeps, RefusedKeeps, StatusReachesKeeps, ReadReachesKeeps, LostKeeps
       DEF CallStep
  <1>3. CASE HandlerStep
    BY <1>3, WriteAnswered, PollUnanswered, PollAnswered, ReadAnswered DEF HandlerStep
  <1>4. CASE PollDeadline \/ StrayLands \/ JobEnds \/ OutOfBandDelete
    BY <1>4, DeadlineKeeps, StrayLandsKeeps, JobEndsKeeps, OutOfBandDeleteKeeps
  <1>5. CASE UNCHANGED vars
    BY <1>5, CCInvUnchanged
  <1> QED BY <1>1, <1>2, <1>3, <1>4, <1>5 DEF Next

\* The invariant holds throughout.
THEOREM CCInvHolds == Spec => []CCInv
  <1> QED BY InitCCInv, NextKeepsCCInv, PTL DEF Spec

\* Every state is of its type.
THEOREM TypeCorrect == Spec => []TypeOK
  <1>1. CCInv => TypeOK
    BY DEF CCInv
  <1> QED BY <1>1, CCInvHolds, PTL

\* Core is never told that an object is gone while it exists, unless a job
\* was cancelled or an answer was incomplete.
THEOREM Gone == Spec => []GoneMeansGone
  <1>1. CCInv => GoneMeansGone
    BY DEF CCInv
  <1> QED BY <1>1, CCInvHolds, PTL

\* A create or update answered with a state was carried out.
THEOREM CleanWrite == Spec => []CleanWriteIsReal
  <1>1. CCInv => CleanWriteIsReal
    BY DEF CCInv
  <1> QED BY <1>1, CCInvHolds, PTL

\* A write that failed at its first attempt had no effect and will have none.
THEOREM FirstFailure == Spec => []FirstFailureIsCertain
  <1>1. CCInv => FirstFailureIsCertain
    BY DEF CCInv
  <1> QED BY <1>1, CCInvHolds, PTL

(***************************************************************************)
(* Every regular step is a step of LifecycleContract                       *)
(***************************************************************************)
Busy == IF Idle THEN "none" ELSE rpc.kind

\* Nothing the contract sees changes, but that a create may be over.
LEMMA QuietMaps ==
    ASSUME UNCHANGED <<live, made, held, Busy>>,
           CreateOutstanding' => CreateOutstanding
    PROVE  Contract!Next
  <1>1. Busy' = "create" => CreateOutstanding'
    BY DEF Busy, CreateOutstanding
  <1>2. Contract!Outstanding
    BY <1>1 DEF Contract!Outstanding, Busy
  <1> QED BY <1>2 DEF Contract!Next, Contract!Settles, Busy

\* The write a handler sends, when it is a create, is outstanding already.
LEMMA CallMaps ==
    ASSUME CCInv, CallStep
    PROVE  Contract!Next
  <1>1. /\ Calling /\ ~Idle
        /\ UNCHANGED <<live, made, held>>
    BY DEF CallStep, WriteReaches, Refused, StatusReaches, ReadReaches, Lost, Accept,
           apiVars, Calling, Idle
  <1>2. rpc \in Rpcs /\ rpc.mine \in SUBSET Tokens /\ rpc.loose \in BOOLEAN
    BY Typed
  <1>3. ASSUME NEW m \in SUBSET Tokens, NEW l \in BOOLEAN, Inconclusive(m, l)
        PROVE  rpc'.kind = rpc.kind /\ rpc'.step = rpc.step
    <2>1. CASE /\ rpc.tries < MaxAttempts
               /\ rpc' = Attempted(rpc, m, l, rpc.tries + 1)
      <3>1. rpc.tries + 1 \in 0..MaxAttempts
        BY <2>1, Typed
      <3> QED BY <1>2, <2>1, <3>1, AttemptedRpc
    <2>2. CASE rpc' = GivenUp(rpc, m, l)
      BY <1>2, <2>2, GivenUpRpc
    <2> QED BY <1>3, <2>1, <2>2 DEF Inconclusive, Attempted, GivenUp
  <1>4. CASE WriteReaches
    <2> DEFINE m == rpc.mine \cup {accepted + 1}
    <2>1. rpc.kind \in Writes /\ rpc.id \in IdOrNone /\ rpc.id <= made
      BY <1>4, Typed DEF CCInv, WriteInv, AboutInv, WriteReaches
    <2>2. /\ accepted + 1 \in Tokens /\ jobs'[accepted + 1].op = rpc.kind
          /\ \A t \in Tokens : t # accepted + 1 => jobs'[t] = jobs[t]
      BY <1>4, <2>1, AcceptFacts DEF WriteReaches
    <2>3. m \in SUBSET Tokens
      BY <1>2, <2>2
    <2>4. \/ Inconclusive(m, rpc.loose)
          \/ rpc' = Reached(rpc, m)
      BY <1>4 DEF WriteReaches, Reached
    <2> HIDE DEF m
    <2>5. rpc'.kind = rpc.kind /\ rpc'.step = rpc.step
      BY <1>2, <1>3, <2>3, <2>4, ReachedRpc
    <2>6. strays' = strays
      BY <1>4 DEF WriteReaches
    <2>7. CreateOutstanding' => CreateOutstanding
      BY <1>1, <2>2, <2>5, <2>6 DEF CreateOutstanding, Idle
    <2> QED BY <1>1, <2>5, <2>7, QuietMaps DEF Busy, Idle
  <1>5. CASE Lost
    <2>1. rpc'.kind = rpc.kind /\ rpc'.step = rpc.step
      BY <1>2, <1>3, <1>5 DEF Lost
    <2>2. jobs' = jobs /\ strays' \subseteq strays \cup {[op |-> rpc.kind, id |-> rpc.id]}
      BY <1>5 DEF Lost, apiVars
    <2>3. CreateOutstanding' => CreateOutstanding
      BY <1>1, <2>1, <2>2 DEF CreateOutstanding, Idle
    <2> QED BY <1>1, <2>1, <2>3, QuietMaps DEF Busy, Idle
  <1>6. CASE Refused \/ StatusReaches \/ ReadReaches
    <2>1. UNCHANGED <<rpc, jobs, strays>>
      BY <1>6 DEF Refused, StatusReaches, ReadReaches, apiVars
    <2>2. CreateOutstanding' => CreateOutstanding
      BY <2>1 DEF CreateOutstanding, Idle
    <2> QED BY <1>1, <2>1, <2>2, QuietMaps DEF Busy, Idle
  <1> QED BY <1>4, <1>5, <1>6 DEF CallStep

\* The world: a stray create was outstanding, and so was a running one.
LEMMA WorldMaps ==
    ASSUME CCInv, StrayLands \/ JobEnds \/ OutOfBandDelete \/ PollDeadline
    PROVE  Contract!Next
  <1>1. UNCHANGED <<rpc, held, Busy>> /\ Idle' = Idle
    BY DEF StrayLands, JobEnds, OutOfBandDelete, PollDeadline, Busy, Idle
  <1>2. jobs \in [Tokens -> Jobs]
    BY Typed
  <1>3. ASSUME CreateOutstanding' => CreateOutstanding
        PROVE  Contract!Outstanding
    <2>1. Busy' = "create" => CreateOutstanding'
      BY DEF Busy, CreateOutstanding
    <2> QED BY <1>1, <1>3, <2>1 DEF Contract!Outstanding, Busy
  <1>4. CASE StrayLands
    <2>1. SUFFICES ASSUME NEW s \in strays, strays' = strays \ {s},
                          Accept(s.op, s.id) \/ UNCHANGED <<live, made, jobs, accepted>>
                   PROVE  Contract!Next
      BY <1>4 DEF StrayLands
    <2>2. s.op \in Writes /\ s.id \in IdOrNone /\ s.id <= made
      BY DEF CCInv, TypeOK, Requests, StraysInv
    <2>3. live' = live /\ made' = made
      BY <2>1 DEF Accept
    <2>4. \A t \in Tokens : jobs'[t] = jobs[t] \/ jobs'[t].op = s.op
      BY <2>1, <2>2, AcceptFacts
    <2>5. CreateOutstanding' => CreateOutstanding
      BY <1>1, <2>1, <2>4 DEF CreateOutstanding
    <2> QED BY <1>1, <2>3, <2>5, QuietMaps
  <1>5. CASE JobEnds
    <2>1. strays' = strays
      BY <1>5 DEF JobEnds
    <2>2. SUFFICES ASSUME NEW t \in Tokens, jobs[t].state = "running",
                          JobDone(t) \/ JobFails(t) \/ JobCancelled(t)
                   PROVE  Contract!Next
      BY <1>5 DEF JobEnds
    <2>3. \A u \in Tokens : jobs'[u].state = "running" => jobs'[u] = jobs[u]
      BY <1>2, <2>2 DEF JobDone, JobFails, JobCancelled, Jobs
    <2>4. CreateOutstanding' => CreateOutstanding
      BY <1>1, <2>1, <2>3 DEF CreateOutstanding
    <2>5. CASE jobs[t].op = "create" /\ JobDone(t)
      <3>1. CreateOutstanding
        BY <2>2, <2>5 DEF CreateOutstanding
      <3>2. made' = made + 1 /\ live' = live \cup {made + 1}
        BY <2>5 DEF JobDone
      <3> QED BY <1>1, <1>3, <2>4, <3>1, <3>2
              DEF Contract!Next, Contract!ObjectAppears, Busy
    <2>6. CASE jobs[t].op = "destroy" /\ JobDone(t)
      <3>1. made' = made /\ jobs[t].obj \in live /\ live' = live \ {jobs[t].obj}
        BY <2>6 DEF JobDone
      <3> QED BY <1>1, <1>3, <2>4, <3>1 DEF Contract!Next, Contract!ObjectGoes, Busy
    <2>7. CASE UNCHANGED <<live, made>>
      BY <1>1, <2>4, <2>7, QuietMaps
    <2> QED BY <2>2, <2>5, <2>6, <2>7 DEF JobDone, JobFails, JobCancelled
  <1>6. CASE OutOfBandDelete
    <2>1. /\ UNCHANGED <<made, jobs, strays>>
          /\ \E i \in live : live' = live \ {i}
      BY <1>6 DEF OutOfBandDelete
    <2>2. CreateOutstanding' => CreateOutstanding
      BY <1>1, <2>1 DEF CreateOutstanding
    <2> QED BY <1>1, <1>3, <2>1, <2>2 DEF Contract!Next, Contract!ObjectGoes, Busy
  <1>7. CASE PollDeadline
    <2>1. UNCHANGED <<live, made, jobs, strays>>
      BY <1>7 DEF PollDeadline, apiVars
    <2>2. CreateOutstanding' => CreateOutstanding
      BY <1>1, <2>1 DEF CreateOutstanding
    <2> QED BY <1>1, <2>1, <2>2, QuietMaps
  <1> QED BY <1>4, <1>5, <1>6, <1>7

\* What an answer says of the object core holds.
LEMMA RespondMaps ==
    ASSUME CCInv, CCInv', ~irregular', ~Idle,
           NEW outcome \in Outcomes, NEW cause \in Causes, NEW rid \in IdOrNone,
           Respond(outcome, cause, rid),
           outcome = "state" => rpc.kind # "destroy" /\ rid # 0,
           outcome = "empty" => rpc.kind \in {"destroy", "read"}
    PROVE  Contract!Next
  <1>1. /\ rpc' = Responded(rpc, outcome, cause, rid, Took)
        /\ held' = CASE outcome = "state" -> rid
                     [] outcome = "empty" -> 0
                     [] OTHER             -> held
        /\ UNCHANGED <<live, made, jobs, strays, irregular>>
    BY DEF Respond, apiVars, Took, Responded
  <1>2. /\ rpc'.kind = rpc.kind /\ rpc'.step = "idle" /\ rpc'.id = rpc.id
        /\ rpc'.outcome = outcome
    BY <1>1, Typed, TookTyped, RespondedRpc
  <1>3. Busy = rpc.kind /\ Busy' = "none" /\ Busy # "none"
    BY <1>2, Typed DEF Busy, Idle, Kinds, Writes
  <1>4. CreateOutstanding' => CreateOutstanding
    BY <1>1, <1>2 DEF CreateOutstanding, Idle
  <1>5. Contract!Outstanding
    BY <1>3, <1>4 DEF Contract!Outstanding, Busy
  <1>6. AboutInv /\ AboutInv' /\ GoneMeansGone' /\ made \in Nat
    BY Typed DEF CCInv
  <1>7. CASE outcome = "state"
    <2>1. held' = rid /\ held' <= made
      BY <1>1, <1>6, <1>7 DEF AboutInv
    <2>2. held' \in 1..made
      BY <1>6, <1>7, <2>1, Typed
    <2>3. rpc.kind \in Contract!Asks \ {"destroy"}
      BY <1>7, Typed DEF Contract!Asks, Kinds, Writes
    <2> QED BY <1>1, <1>3, <1>5, <2>2, <2>3 DEF Contract!Next, Contract!AnswerState, Busy
  <1>8. CASE outcome = "empty"
    <2>1. rpc.kind \in {"destroy", "read"} /\ held' = 0
      BY <1>1, <1>8
    <2>2. held = rpc.id
      BY <1>6, <2>1 DEF AboutInv
    <2>3. held \notin live
      BY <1>1, <1>2, <1>6, <1>8, <2>2 DEF GoneMeansGone
    <2> QED BY <1>1, <1>3, <1>5, <2>1, <2>3 DEF Contract!Next, Contract!AnswerGone, Busy
  <1>9. CASE outcome \notin {"state", "empty"}
    <2>1. held' = held
      BY <1>1, <1>9
    <2> QED BY <1>1, <1>3, <1>5, <2>1 DEF Contract!Next, Contract!AnswerFailure, Busy
  <1> QED BY <1>7, <1>8, <1>9

LEMMA FailureMaps ==
    ASSUME CCInv, CCInv', ~irregular', ~Idle,
           NEW outcome \in {"diag", "error", "panic"}, NEW cause \in Causes,
           Respond(outcome, cause, 0)
    PROVE  Contract!Next
  <1>1. outcome \in Outcomes /\ 0 \in IdOrNone /\ outcome \notin {"state", "empty"}
    BY Members DEF Outcomes
  <1> QED BY <1>1, RespondMaps

LEMMA NextCallMaps ==
    ASSUME CCInv, ~Idle,
           \/ \E s \in {"poll", "read"} : \E t \in TokenOrNone : \E i \in IdOrNone :
                 CallNext(s, t, i)
           \/ rpc' = Paused(rpc) /\ UNCHANGED <<apiVars, strays, held>>
    PROVE  Contract!Next
  <1>1. UNCHANGED <<live, made, jobs, strays, held>>
    BY DEF CallNext, apiVars
  <1>2. rpc'.kind = rpc.kind /\ rpc'.step # "idle"
    <2>1. rpc \in Rpcs /\ Took \in 0..MaxAttempts /\ "poll" \in Steps /\ "read" \in Steps
      BY Typed, TookTyped, Members
    <2>2. ASSUME NEW s \in {"poll", "read"}, NEW t \in TokenOrNone, NEW i \in IdOrNone,
                 CallNext(s, t, i)
          PROVE  rpc'.kind = rpc.kind /\ rpc'.step # "idle"
      <3>1. rpc' = Calls(rpc, s, t, i, Took) /\ s \in Steps
        BY <2>1, <2>2 DEF CallNext, Calls, Took
      <3> QED BY <2>1, <3>1, CallsRpc
    <2>3. CASE rpc' = Paused(rpc)
      BY <2>1, <2>3, PausedRpc
    <2> QED BY <2>2, <2>3
  <1>3. CreateOutstanding' => CreateOutstanding
    BY <1>1, <1>2 DEF CreateOutstanding, Idle
  <1> QED BY <1>1, <1>2, <1>3, QuietMaps DEF Busy, Idle

LEMMA HandlerMaps ==
    ASSUME CCInv, CCInv', ~irregular', HandlerStep
    PROVE  Contract!Next
  <1>1. /\ rpc.step \in {"write", "poll", "pause", "read"} /\ ~Idle
        /\ AboutInv /\ WriteInv /\ PollInv /\ ReadInv /\ JobsInv
        /\ irregular' = irregular
    BY DEF HandlerStep, WriteFails, DestroyFindsNothing, WriteAccepted, PollFails, PollPanics,
           PollPending, PauseEnds, JobFailed, DestroyEnds, WriteEnds, ReadFails,
           ReadFindsNothing, ReadDone, Polled, Idle, CCInv, Classify, Respond, CallNext, apiVars
  <1>2. /\ 0 \in IdOrNone /\ 0 \in TokenOrNone /\ "state" \in Outcomes /\ "empty" \in Outcomes
        /\ rpc.token \in TokenOrNone /\ reply.token \in TokenOrNone /\ rpc.reads \in IdOrNone
        /\ {"none", "rejected", "jobFailed", "unread", "decode", "vanished"} \subseteq Causes
    BY Members, Typed DEF Outcomes, Causes
  <1>3. ASSUME NEW c \in Causes,
               Respond("diag", c, 0) \/ Respond("error", c, 0) \/ Respond("panic", c, 0)
        PROVE  Contract!Next
    BY <1>1, <1>3, FailureMaps
  <1>4. CASE Respond("empty", "none", 0) /\ rpc.kind \in {"destroy", "read"}
    BY <1>1, <1>2, <1>4, RespondMaps
  <1>5. CASE WriteFails \/ PollFails \/ PollPanics \/ JobFailed \/ ReadFails
    BY <1>2, <1>3, <1>5
       DEF WriteFails, PollFails, PollPanics, JobFailed, ReadFails, Classify
  <1>6. CASE DestroyFindsNothing \/ DestroyEnds
    BY <1>4, <1>6 DEF DestroyFindsNothing, DestroyEnds
  <1>7. CASE WriteAccepted
    <2>1. reply.token # 0
      BY <1>1, <1>7 DEF WriteAccepted, WriteInv
    <2>2. CallNext("poll", reply.token, 0)
      BY <1>7, <2>1 DEF WriteAccepted
    <2> QED BY <1>1, <1>2, <2>2, NextCallMaps
  <1>8. CASE PollPending \/ PauseEnds
    BY <1>1, <1>2, <1>3, <1>8, NextCallMaps DEF PollPending, PauseEnds, Paused
  <1>9. CASE WriteEnds
    <2>1. rpc.token \in Tokens /\ jobs[rpc.token].obj \in IdOrNone /\ rpc.id \in IdOrNone
      BY <1>1, <1>9, Typed DEF WriteEnds, Polled, PollInv, Jobs
    <2>2. \/ \E i \in IdOrNone : CallNext("read", rpc.token, i)
          \/ Respond("diag", "decode", 0)
      BY <1>9, <2>1 DEF WriteEnds
    <2> QED BY <1>1, <1>2, <1>3, <2>2, NextCallMaps
  <1>10. CASE ReadFindsNothing
    BY <1>2, <1>3, <1>4, <1>10 DEF ReadFindsNothing
  <1>11. CASE ReadDone
    <2>1. rpc.step = "read" /\ rpc.kind # "destroy" /\ rpc.reads # 0
      BY <1>1, <1>11 DEF ReadDone, ReadInv
    <2>2. CASE Respond("state", "none", rpc.reads)
      BY <1>1, <1>2, <2>1, <2>2, RespondMaps
    <2> QED BY <1>2, <1>3, <1>11, <2>2 DEF ReadDone
  <1> QED BY <1>5, <1>6, <1>7, <1>8, <1>9, <1>10, <1>11 DEF HandlerStep

LEMMA CoreMaps ==
    ASSUME CCInv, CoreCalls
    PROVE  Contract!Next
  <1>1. SUFFICES ASSUME NEW kind \in Kinds, NEW id \in IdOrNone,
                        Start(kind, id) \/ RefuseUnsent(kind, id)
                 PROVE  Contract!Next
    BY DEF CoreCalls
  <1>2. Idle /\ UNCHANGED <<live, made, jobs, strays, held>>
    BY <1>1 DEF Start, RefuseUnsent, MayAsk, apiVars
  <1>3. CASE Start(kind, id)
    <2>1. rpc'.kind = kind /\ rpc'.step \in {"write", "read"}
      BY <1>3, StartedRpc DEF Start, Started
    <2>2. (held = 0) <=> (kind \in {"create", "import"})
      BY <1>3 DEF Start, MayAsk
    <2>3. Busy = "none" /\ Busy' = kind
      BY <1>2, <2>1 DEF Busy, Idle
    <2>4. /\ CreateOutstanding' => CreateOutstanding \/ kind = "create"
          /\ kind = "create" => CreateOutstanding'
      BY <1>2, <2>1 DEF CreateOutstanding, Idle
    <2>5. Contract!Outstanding
      BY <2>3, <2>4 DEF Contract!Outstanding, Busy
    <2>6. Contract!Ask(kind) /\ kind \in Contract!Asks
      BY <1>2, <2>2, <2>3, <2>5 DEF Contract!Ask, Contract!Asks, Kinds, Writes, Busy
    <2> QED BY <2>6 DEF Contract!Next
  <1>4. CASE RefuseUnsent(kind, id)
    <2>1. Idle'
      <3>1. rpc' = Unsent(kind, id)
        BY <1>4 DEF RefuseUnsent, Unsent
      <3> QED BY <3>1, UnsentRpc DEF Idle
    <2>2. CreateOutstanding' => CreateOutstanding
      BY <1>2, <2>1 DEF CreateOutstanding
    <2> QED BY <1>2, <2>1, <2>2, QuietMaps DEF Busy
  <1> QED BY <1>1, <1>3, <1>4

\* Until something irregular has happened, the server implements what the
\* provider promises core.
THEOREM CCKeepsContract == Spec => KeepsContract
  <1>1. Init => Contract!Init
    BY NoRpcTyped, CCAssumption
       DEF Init, APIInit, Idle, CreateOutstanding, NoJob, Contract!Init
  <1>2. CCInv /\ CCInv' /\ [Next]_vars =>
            [~irregular' => Contract!Next \/ UNCHANGED Contract!contractVars]_vars
    <2> SUFFICES ASSUME CCInv, CCInv', Next, ~irregular'
                 PROVE  Contract!Next
      OBVIOUS
    <2>1. CASE CoreCalls
      BY <2>1, CoreMaps
    <2>2. CASE CallStep
      BY <2>2, CallMaps
    <2>3. CASE HandlerStep
      BY <2>3, HandlerMaps
    <2>4. CASE PollDeadline \/ StrayLands \/ JobEnds \/ OutOfBandDelete
      BY <2>4, WorldMaps
    <2> QED BY <2>1, <2>2, <2>3, <2>4 DEF Next
  <1> QED BY <1>1, <1>2, CCInvHolds, PTL DEF Spec, KeepsContract

=============================================================================
