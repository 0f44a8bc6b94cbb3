-------------------------- MODULE FetchCacheProofs --------------------------
(***************************************************************************)
(* Proofs about FetchCache for any number of processes, revisions, body    *)
(* lengths and files, with calls that overlap in any way, processes that   *)
(* are killed and a file system that fails.                                *)
(***************************************************************************)
EXTENDS FetchCache, SequenceTheorems, TLAPS

\* A file that is being written is not the pinned one: only a renaming makes
\* it so, and that takes the staging name away.
StagedApart == staged # NoFile => staged # published

\* Until two processes are at the staging name at once, the one that is there
\* is alone, and the staged file is the one it opened, empty or with its whole
\* body.
InFlight(p) ==
    proc[p].pc \in AtStagingName /\ ~collided =>
        /\ \A q \in Procs : q # p => proc[q].pc \notin AtStagingName
        /\ staged = proc[p].fd
        /\ proc[p].pc = "staged" => content[staged] = <<>>
        /\ proc[p].pc = "written" => content[staged] = Body(proc[p].rev)

\* Until two processes are past a miss at once, whoever is past one is alone.
Alone ==
    ~overlapped =>
        /\ ~collided
        /\ \A p, q \in Procs : p # q => Idle(p) \/ Idle(q)

\* As long as calls have taken turns and no error was ignored, what was handed
\* out is what is pinned, and nobody is past a miss once something is.
ServedIsPinned ==
    swallowed = {} /\ ~overlapped =>
        /\ published = NoFile => served = {}
        /\ published # NoFile => /\ served \subseteq {content[published]}
                                  /\ \A p \in Procs : Idle(p)

CacheInv ==
    /\ TypeOK
    /\ StagedApart
    /\ \A p \in Procs : InFlight(p)
    /\ Alone
    /\ PublishedWhole
    /\ ServedIsPinned

\* A body is a sequence of its revision, and belongs to the bodies.
LEMMA BodyType ==
    ASSUME NEW r \in Revisions
    PROVE  Body(r) \in Seq(Revisions) /\ Body(r) \in Bodies /\ Len(Body(r)) = Length(r)
  BY CacheAssumption DEF Body, Bodies

\* Writing to an empty file leaves exactly what was written.
LEMMA OverwrittenEmpty ==
    ASSUME NEW S, NEW s \in Seq(S)
    PROVE  Overwritten(<<>>, s) = s
<1>1. SubSeq(<<>>, Len(s) + 1, Len(<<>>)) = <<>>
  BY LenProperties DEF Overwritten
<1>2. s \o <<>> = s
  BY ConcatProperties
<1> QED
  BY <1>1, <1>2 DEF Overwritten

\* Overwriting part of a file with part of a body leaves a sequence.
LEMMA OverwrittenType ==
    ASSUME NEW S, NEW old \in Seq(S), NEW new \in Seq(S)
    PROVE  Overwritten(old, new) \in Seq(S)
<1>1. SubSeq(old, Len(new) + 1, Len(old)) \in Seq(S)
  BY LenProperties, SubSeqProperties
<1> QED
  BY <1>1, ConcatProperties DEF Overwritten

\* A prefix of a body is a sequence.
LEMMA PrefixType ==
    ASSUME NEW S, NEW s \in Seq(S), NEW n \in 0..Len(s)
    PROVE  SubSeq(s, 1, n) \in Seq(S)
  BY LenProperties, SubSeqProperties

\* Where a process may be.
LEMMA Steps ==
    ASSUME TypeOK, NEW p \in Procs
    PROVE  /\ proc[p].pc \in PastMiss \cup {"idle"}
           /\ Idle(p) <=> proc[p].pc \notin PastMiss
  BY DEF TypeOK, Procedures, PastMiss, Idle

LEMMA CacheInit == Init => CacheInv
<1> SUFFICES ASSUME Init PROVE CacheInv
  OBVIOUS
<1>1. \A p \in Procs : proc[p].pc = "idle"
  BY DEF Init, NotRunning
<1>2. proc \in [Procs -> Procedures] /\ content \in [Files -> Seq(Revisions)]
  BY EmptySeq DEF Init, Procedures, NotRunning
<1>3. TypeOK
  BY <1>1, <1>2 DEF Init, TypeOK
<1> QED
  BY <1>1, <1>3 DEF Init, CacheInv, StagedApart, InFlight, AtStagingName, Alone, Idle,
     PublishedWhole, ServedIsPinned

\* A step of one process that leaves it idle and the others alone.
LEMMA TypeAtRest ==
    ASSUME TypeOK, NEW p \in Procs, proc' = [proc EXCEPT ![p] = NotRunning]
    PROVE  /\ proc' \in [Procs -> Procedures]
           /\ proc'[p].pc = "idle"
           /\ \A q \in Procs : q # p => proc'[q] = proc[q]
           /\ \A q \in Procs : /\ proc'[q].pc \in {"fetched", "staged", "written"}
                                     => proc'[q].rev \in Revisions
                               /\ proc'[q].pc \in {"staged", "written"} => proc'[q].fd \in Files
  BY DEF TypeOK, Procedures, NotRunning

LEMMA HitKeepsInv ==
    ASSUME CacheInv, NEW p \in Procs, Hit(p)
    PROVE  CacheInv'
<1> USE DEF Hit, Return
<1>1. TypeOK
  BY DEF CacheInv
<1>2. /\ proc' \in [Procs -> Procedures] /\ proc'[p].pc = "idle"
      /\ \A q \in Procs : q # p => proc'[q] = proc[q]
  BY <1>1, TypeAtRest
<1>3. TypeOK'
  BY <1>1, TypeAtRest DEF TypeOK
<1>4. \A q \in Procs : InFlight(q)'
  BY <1>2 DEF CacheInv, InFlight, AtStagingName
<1>5. Alone'
  BY <1>2 DEF CacheInv, Alone, Idle
<1>6. ServedIsPinned'
  BY <1>2 DEF CacheInv, ServedIsPinned, Idle
<1> QED
  BY <1>3, <1>4, <1>5, <1>6 DEF CacheInv, StagedApart, PublishedWhole

\* Going past a miss, after which two processes overlap or nobody else is in
\* the middle of a call.
LEMMA PastMissKeepsInv ==
    ASSUME CacheInv, NEW p \in Procs, Miss(p) \/ Misread(p)
    PROVE  CacheInv'
<1>1. /\ Idle(p) /\ GoPastMiss(p) /\ TypeOK
      /\ published' = published /\ staged' = staged /\ content' = content
      /\ served' = served /\ collided' = collided
  BY DEF Miss, Misread, CacheInv
<1>2. /\ proc' \in [Procs -> Procedures] /\ proc'[p].pc = "missed"
      /\ \A q \in Procs : q # p => proc'[q] = proc[q]
  BY <1>1 DEF GoPastMiss, TypeOK, Procedures
<1>3. swallowed' \subseteq ErrorPlaces /\ swallowed \subseteq swallowed'
  BY DEF Miss, Misread, Swallow, ErrorPlaces, CacheInv, TypeOK
<1>4. overlapped' \in BOOLEAN /\ (overlapped => overlapped')
  BY <1>1 DEF GoPastMiss, TypeOK
<1>5. TypeOK'
  BY <1>1, <1>2, <1>3, <1>4 DEF TypeOK
<1>6. \A q \in Procs : InFlight(q)'
  BY <1>1, <1>2 DEF CacheInv, InFlight, AtStagingName
<1>7. ~overlapped' => \A q \in Procs : q # p => Idle(q)
  BY <1>1, Steps DEF GoPastMiss, OthersAt
<1>8. Alone'
  BY <1>1, <1>2, <1>4, <1>7 DEF CacheInv, Alone, Idle
<1>9. ServedIsPinned'
  <2>1. CASE Miss(p)
    BY <2>1, <1>1, <1>3, <1>4 DEF CacheInv, ServedIsPinned, Miss
  <2>2. CASE Misread(p)
    BY <2>2 DEF ServedIsPinned, Misread, Swallow
  <2> QED
    BY <2>1, <2>2
<1> QED
  BY <1>1, <1>5, <1>6, <1>8, <1>9 DEF CacheInv, StagedApart, PublishedWhole

LEMMA FetchKeepsInv ==
    ASSUME CacheInv, NEW p \in Procs, Fetch(p)
    PROVE  CacheInv'
<1> USE DEF Fetch
<1>1. PICK r \in Revisions : proc' = [proc EXCEPT ![p].pc = "fetched", ![p].rev = r]
  OBVIOUS
<1>2. /\ proc' \in [Procs -> Procedures] /\ proc'[p].pc = "fetched" /\ proc'[p].rev = r
      /\ \A q \in Procs : q # p => proc'[q] = proc[q]
  BY <1>1 DEF CacheInv, TypeOK, Procedures
<1>3. TypeOK'
  BY <1>2 DEF CacheInv, TypeOK
<1>4. \A q \in Procs : InFlight(q)'
  BY <1>2 DEF CacheInv, InFlight, AtStagingName
<1>5. Alone' /\ ServedIsPinned'
  BY <1>2 DEF CacheInv, Alone, ServedIsPinned, Idle
<1> QED
  BY <1>3, <1>4, <1>5 DEF CacheInv, StagedApart, PublishedWhole

LEMMA StageKeepsInv ==
    ASSUME CacheInv, NEW p \in Procs, Stage(p)
    PROVE  CacheInv'
<1> USE DEF Stage
<1>1. PICK f \in Files :
         /\ IF staged = NoFile THEN Unused(f) ELSE f = staged
         /\ staged' = f
         /\ content' = [content EXCEPT ![f] = <<>>]
         /\ proc' = [proc EXCEPT ![p].pc = "staged", ![p].fd = f]
  OBVIOUS
<1>2. f # published
  BY <1>1 DEF CacheInv, StagedApart, Unused
<1>3. content' \in [Files -> Seq(Revisions)] /\ content'[f] = <<>>
  BY <1>1, EmptySeq DEF CacheInv, TypeOK
<1>4. /\ proc' \in [Procs -> Procedures] /\ proc'[p].pc = "staged"
      /\ proc'[p].rev = proc[p].rev /\ proc'[p].fd = f /\ proc[p].rev \in Revisions
      /\ \A q \in Procs : q # p => proc'[q] = proc[q]
  BY <1>1 DEF CacheInv, TypeOK, Procedures
<1>5. collided' \in BOOLEAN /\ (collided => collided')
  BY DEF CacheInv, TypeOK
<1>6. TypeOK'
  BY <1>1, <1>3, <1>4, <1>5 DEF CacheInv, TypeOK
<1>7. ~collided' => \A q \in Procs : q # p => proc[q].pc \notin AtStagingName
  BY DEF OthersAt
<1>8. \A q \in Procs : InFlight(q)'
  BY <1>1, <1>3, <1>4, <1>7 DEF InFlight, AtStagingName
<1>9. published # NoFile => content'[published] = content[published]
  BY <1>1, <1>2 DEF CacheInv, TypeOK
<1>10. Alone'
  <2>1. ~overlapped => ~collided'
    BY DEF CacheInv, Alone, Idle, OthersAt, AtStagingName
  <2> QED
    BY <1>4, <2>1 DEF CacheInv, Alone, Idle
<1>11. PublishedWhole'
  BY <1>5, <1>9 DEF CacheInv, PublishedWhole
<1>12. ServedIsPinned'
  BY <1>4, <1>9 DEF CacheInv, ServedIsPinned, Idle
<1> QED
  BY <1>1, <1>2, <1>6, <1>8, <1>10, <1>11, <1>12 DEF CacheInv, StagedApart

\* What writing to a file may leave of the invariant: the file written to is
\* the staged one unless two processes have been at the staging name at once.
LEMMA WrittenFile ==
    ASSUME CacheInv, NEW p \in Procs, proc[p].pc = "staged", NEW c \in Seq(Revisions),
           content' = [content EXCEPT ![proc[p].fd] = c]
    PROVE  /\ proc[p].fd \in Files /\ proc[p].rev \in Revisions
           /\ content' \in [Files -> Seq(Revisions)] /\ content'[proc[p].fd] = c
           /\ ~collided /\ published # NoFile => content'[published] = content[published]
           /\ ~collided => /\ staged = proc[p].fd /\ content[staged] = <<>>
                           /\ \A q \in Procs : q # p => proc[q].pc \notin AtStagingName
<1>1. proc[p].fd \in Files /\ proc[p].rev \in Revisions
  BY DEF CacheInv, TypeOK
<1>2. ~collided => /\ staged = proc[p].fd /\ content[staged] = <<>>
                   /\ \A q \in Procs : q # p => proc[q].pc \notin AtStagingName
  BY DEF CacheInv, InFlight, AtStagingName
<1>3. content' \in [Files -> Seq(Revisions)] /\ content'[proc[p].fd] = c
  BY <1>1 DEF CacheInv, TypeOK
<1>4. ~collided /\ published # NoFile => content'[published] = content[published]
  <2> SUFFICES ASSUME ~collided, published # NoFile
               PROVE  content'[published] = content[published]
    OBVIOUS
  <2>1. published \in Files
    BY DEF CacheInv, TypeOK
  <2>2. published # proc[p].fd
    BY <1>1, <1>2, CacheAssumption DEF CacheInv, StagedApart
  <2> QED
    BY <2>1, <2>2 DEF CacheInv, TypeOK
<1> QED
  BY <1>1, <1>2, <1>3, <1>4

LEMMA WriteKeepsInv ==
    ASSUME CacheInv, NEW p \in Procs, Write(p)
    PROVE  CacheInv'
<1> USE DEF Write
<1> DEFINE f == proc[p].fd
           b == Body(proc[p].rev)
           c == Overwritten(content[f], b)
<1>1. f \in Files /\ proc[p].rev \in Revisions /\ content[f] \in Seq(Revisions)
  BY DEF CacheInv, TypeOK
<1>2. b \in Seq(Revisions)
  BY <1>1, BodyType
<1>3. c \in Seq(Revisions) /\ content' = [content EXCEPT ![f] = c]
  BY <1>1, <1>2, OverwrittenType
<1> HIDE DEF c
<1>4. /\ content' \in [Files -> Seq(Revisions)] /\ content'[f] = c
      /\ ~collided /\ published # NoFile => content'[published] = content[published]
      /\ ~collided => /\ staged = f /\ content[staged] = <<>>
                      /\ \A q \in Procs : q # p => proc[q].pc \notin AtStagingName
  BY <1>3, WrittenFile
<1>5. /\ proc' \in [Procs -> Procedures] /\ proc'[p].pc = "written"
      /\ proc'[p].rev = proc[p].rev /\ proc'[p].fd = f
      /\ \A q \in Procs : q # p => proc'[q] = proc[q]
  BY DEF CacheInv, TypeOK, Procedures
<1>6. TypeOK'
  BY <1>1, <1>4, <1>5 DEF CacheInv, TypeOK
<1>7. ~collided => c = b
  BY <1>2, <1>4, OverwrittenEmpty DEF c
<1>8. \A q \in Procs : InFlight(q)'
  BY <1>4, <1>5, <1>7 DEF InFlight, AtStagingName
<1>9. Alone'
  BY <1>5 DEF CacheInv, Alone, Idle
<1>10. PublishedWhole'
  BY <1>4 DEF CacheInv, PublishedWhole
<1>11. ServedIsPinned'
  BY <1>5 DEF CacheInv, ServedIsPinned, Idle
<1> QED
  BY <1>6, <1>8, <1>9, <1>10, <1>11 DEF CacheInv, StagedApart

LEMMA PublishKeepsInv ==
    ASSUME CacheInv, NEW p \in Procs, Publish(p)
    PROVE  CacheInv'
<1> USE DEF Publish, Return
<1> DEFINE b == Body(proc[p].rev)
<1>1. proc[p].rev \in Revisions /\ staged \in Files /\ TypeOK
  BY DEF CacheInv, TypeOK
<1>2. b \in Seq(Revisions) /\ b \in Bodies
  BY <1>1, BodyType
<1>3. /\ proc' \in [Procs -> Procedures] /\ proc'[p].pc = "idle"
      /\ \A q \in Procs : q # p => proc'[q] = proc[q]
  BY <1>1, TypeAtRest
<1>4. TypeOK'
  BY <1>1, <1>2, TypeAtRest DEF TypeOK
<1>5. ~collided => /\ content[staged] = b
                   /\ \A q \in Procs : q # p => proc[q].pc \notin AtStagingName
  BY DEF CacheInv, InFlight, AtStagingName
<1>6. \A q \in Procs : InFlight(q)'
  BY <1>3, <1>5 DEF CacheInv, InFlight, AtStagingName
<1>7. Alone'
  BY <1>3 DEF CacheInv, Alone, Idle
<1>8. PublishedWhole'
  BY <1>2, <1>5 DEF PublishedWhole
<1>9. ServedIsPinned'
  <2> SUFFICES ASSUME swallowed = {}, ~overlapped
               PROVE  served' \subseteq {content'[published']} /\ \A q \in Procs : Idle(q)'
    BY CacheAssumption, <1>1 DEF ServedIsPinned
  <2>1. ~collided /\ \A q \in Procs : q # p => Idle(q)
    BY DEF CacheInv, Alone, Idle
  <2>2. published = NoFile /\ served = {}
    BY DEF CacheInv, ServedIsPinned, Idle
  <2> QED
    BY <1>3, <1>5, <2>1, <2>2 DEF Idle
<1> QED
  BY <1>4, <1>6, <1>7, <1>8, <1>9 DEF CacheInv, StagedApart

\* The calls that end without a change of the pin: an error before or after
\* the fetch, or death.
LEMMA EndingKeepsInv ==
    ASSUME CacheInv, NEW p \in Procs,
           FetchFails(p) \/ StageFails(p) \/ WriteFails(p) \/ PublishFails(p) \/ Killed(p)
    PROVE  CacheInv'
<1> DEFINE b == Body(proc[p].rev)
<1>1. /\ ~Idle(p) /\ TypeOK
      /\ proc' = [proc EXCEPT ![p] = NotRunning]
      /\ published' = published /\ staged' = staged
      /\ overlapped' = overlapped /\ collided' = collided
  BY DEF FetchFails, StageFails, WriteFails, PublishFails, Killed, Return, Idle, CacheInv
<1>2. /\ proc' \in [Procs -> Procedures] /\ proc'[p].pc = "idle"
      /\ \A q \in Procs : q # p => proc'[q] = proc[q]
  BY <1>1, TypeAtRest
<1>3. \/ content' = content
      \/ /\ proc[p].pc = "staged"
         /\ \E c \in Seq(Revisions) : content' = [content EXCEPT ![proc[p].fd] = c]
  <2>1. CASE WriteFails(p)
    <3>1. PICK n \in 0..(Length(proc[p].rev) - 1) :
             content' = [content EXCEPT ![proc[p].fd] = Overwritten(@, SubSeq(b, 1, n))]
      BY <2>1 DEF WriteFails
    <3>2. proc[p].fd \in Files /\ proc[p].rev \in Revisions
      BY <2>1 DEF WriteFails, CacheInv, TypeOK
    <3>3. b \in Seq(Revisions) /\ n \in 0..Len(b)
      BY <3>2, BodyType, CacheAssumption
    <3>4. SubSeq(b, 1, n) \in Seq(Revisions)
      BY <3>3, PrefixType
    <3>5. content[proc[p].fd] \in Seq(Revisions)
      BY <3>2 DEF CacheInv, TypeOK
    <3>6. Overwritten(content[proc[p].fd], SubSeq(b, 1, n)) \in Seq(Revisions)
      BY <3>4, <3>5, OverwrittenType
    <3> QED
      BY <2>1, <3>1, <3>6 DEF WriteFails
  <2>2. CASE ~WriteFails(p)
    BY <2>2 DEF FetchFails, StageFails, PublishFails, Killed
  <2> QED
    BY <2>1, <2>2
<1>4. /\ content' \in [Files -> Seq(Revisions)]
      /\ ~collided /\ published # NoFile => content'[published] = content[published]
      /\ \A q \in Procs : q # p /\ proc[q].pc \in AtStagingName /\ ~collided =>
            content'[staged] = content[staged]
  <2>1. CASE content' = content
    BY <2>1 DEF CacheInv, TypeOK
  <2>2. CASE content' # content
    <3>1. PICK c \in Seq(Revisions) : content' = [content EXCEPT ![proc[p].fd] = c]
      BY <1>3, <2>2
    <3>2. proc[p].pc = "staged"
      BY <1>3, <2>2
    <3> QED
      BY <3>1, <3>2, WrittenFile
  <2> QED
    BY <2>1, <2>2
<1>5. served' = served \/ (proc[p].rev \in Revisions /\ served' = served \cup {b})
  BY DEF FetchFails, StageFails, WriteFails, PublishFails, Killed, Return, CacheInv, TypeOK
<1>6. swallowed' = swallowed \/ swallowed' = swallowed \cup {"store"}
  BY DEF FetchFails, StageFails, WriteFails, PublishFails, Killed, Swallow
<1>7. TypeOK'
  <2>1. served' \subseteq Seq(Revisions)
    BY <1>5, BodyType DEF CacheInv, TypeOK
  <2> QED
    BY <1>1, <1>4, <1>6, <2>1, TypeAtRest DEF TypeOK, ErrorPlaces
<1>8. \A q \in Procs : InFlight(q)'
  BY <1>1, <1>2, <1>4 DEF CacheInv, InFlight, AtStagingName
<1>9. Alone'
  BY <1>1, <1>2 DEF CacheInv, Alone, Idle
<1>10. PublishedWhole'
  BY <1>1, <1>4 DEF CacheInv, PublishedWhole
<1>11. ServedIsPinned'
  <2>1. swallowed' = {} => swallowed = {} /\ served' = served
    BY DEF FetchFails, StageFails, WriteFails, PublishFails, Killed, Return, Swallow
  <2>2. swallowed' = {} /\ ~overlapped' => published' = NoFile
    BY <1>1, <2>1 DEF CacheInv, ServedIsPinned
  <2> QED
    BY <1>1, <2>1, <2>2 DEF CacheInv, ServedIsPinned
<1> QED
  BY <1>1, <1>7, <1>8, <1>9, <1>10, <1>11 DEF CacheInv, StagedApart

\* Every step keeps the invariant, however the calls overlap.
LEMMA CacheStep ==
    ASSUME CacheInv, [Next]_vars
    PROVE  CacheInv'
<1>1. CASE Next
  BY <1>1, HitKeepsInv, PastMissKeepsInv, FetchKeepsInv, StageKeepsInv, WriteKeepsInv,
     PublishKeepsInv, EndingKeepsInv DEF Next
<1>2. CASE UNCHANGED vars
  BY <1>2 DEF vars, CacheInv, TypeOK, StagedApart, InFlight, Alone, Idle, PublishedWhole,
     ServedIsPinned
<1> QED
  BY <1>1, <1>2

(***************************************************************************)
(* The theorems                                                            *)
(***************************************************************************)

\* The inductive invariant of a shared cache directory.
THEOREM CacheInvariant == Spec => []CacheInv
<1>1. Init => CacheInv
  BY CacheInit
<1>2. CacheInv /\ [Next]_vars => CacheInv'
  BY CacheStep
<1> QED
  BY <1>1, <1>2, PTL DEF Spec

\* Types are kept.
THEOREM CacheTypeCorrect == Spec => []TypeOK
<1>1. CacheInv => TypeOK
  BY DEF CacheInv
<1> QED
  BY <1>1, CacheInvariant, PTL

\* Whatever dies, overlaps or fails half-way, a pinned body is one the server
\* sent, until two processes are at the staging name at once.
THEOREM PinsAreWhole == Spec => []PublishedWhole
<1>1. CacheInv => PublishedWhole
  BY DEF CacheInv
<1> QED
  BY <1>1, CacheInvariant, PTL

\* Until two processes are past a miss at once or an error is ignored, all get
\* the same bytes.
THEOREM FetchesArePinned == Spec => []Pinned
<1>1. CacheInv => Pinned
  BY DEF CacheInv, ServedIsPinned, Pinned
<1> QED
  BY <1>1, CacheInvariant, PTL

\* When a body is pinned and every process idle, all a process can do is to
\* read it, or to fail to.
LEMMA OnlyReadsWhenSettled ==
    ASSUME Settled, Next
    PROVE  \E p \in Procs : Hit(p) \/ Misread(p)
  BY DEF Settled, Idle, Next, Miss, Fetch, FetchFails, Stage, StageFails, Write,
     WriteFails, Publish, PublishFails, Killed

\* However the first calls raced and failed, once they are over the pin is for
\* ever, as long as it can be read.
THEOREM PinsSettle == Spec => PinSettles
<1>1. TypeOK /\ [Next]_vars =>
        [Settled => \/ "read" \in swallowed'
                    \/ /\ Settled' /\ content'[published'] = content[published]
                       /\ served' \subseteq served \cup {content[published]}]_vars
  <2> SUFFICES ASSUME TypeOK, Next, Settled
               PROVE  \/ "read" \in swallowed'
                      \/ /\ Settled' /\ content'[published'] = content[published]
                         /\ served' \subseteq served \cup {content[published]}
    OBVIOUS
  <2>1. PICK p \in Procs : Hit(p) \/ Misread(p)
    BY OnlyReadsWhenSettled
  <2>2. CASE Hit(p)
    <3>1. \A q \in Procs : Idle(q)'
      BY <2>2, TypeAtRest DEF Settled, Idle, Hit, Return
    <3> QED
      BY <2>2, <3>1 DEF Settled, Hit, Return
  <2>3. CASE Misread(p)
    BY <2>3 DEF Misread, Swallow
  <2> QED
    BY <2>1, <2>2, <2>3
<1> QED
  BY <1>1, CacheTypeCorrect, PTL DEF Spec, PinSettles

=============================================================================
