--------------------------- MODULE SmithyServerProofs ---------------------------
(***************************************************************************)
(* Proofs about SmithyServer, for any attributes, values, resource types,  *)
(* objects, attempts and abandoned requests: what is recorded is true, a   *)
(* write goes out as planned, and every step is one of LifecycleContract.  *)
(***************************************************************************)
EXTENDS SmithyServer, TLAPS

(***************************************************************************)
(* The invariant                                                           *)
(***************************************************************************)

\* Numbers are given in order, and a name is that of one object at a time.
WorldInv ==
    /\ \A i \in Ids : i > made => objects[i] = None
    /\ \A i, j \in live : objects[i][Key] = objects[j][Key] => i = j

\* Core's state, where it has a name, has that of the object it is about.
HeldInv ==
    /\ held = None <=> mine = 0
    /\ mine <= made
    /\ held # None /\ mine \in live /\ HasValue(held[Key]) =>
          objects[mine][Key] = held[Key]

\* What a call was started with.
CallInv ==
    rpc.calling =>
        /\ rpc.outcome = "none"
        /\ held = None <=> rpc.kind \in {"create", "import"}
        /\ rpc.kind # "import" => rpc.input \in Bound(rpc.kind, stateAsMap(rpc.plan))
        /\ rpc.kind \in {"read", "destroy"} => rpc.plan = held
        /\ rpc.kind \in {"create", "update"} => rpc.plan \in Plans

\* The object an answer shows took what was sent, and keeps its name.
ShownInv ==
    /\ reply.object \in Objects
    /\ reply.id \in live => objects[reply.id][Key] = reply.object[Key]
    /\ \A a \in Attrs :
          rpc.input[a] # Null /\ (a = Key \/ rpc.kind \in {"create", "update"}) =>
              reply.object[a] = rpc.input[a]

ReplyInv ==
    /\ reply.class # "none" => rpc.calling
    /\ reply.class = "ok" => reply.id # 0 /\ reply.id <= made
    /\ reply.class = "ok" /\ rpc.kind # "destroy" => ShownInv
    /\ \/ reply.class = "ok" /\ rpc.kind = "destroy"
       \/ reply.class = "notFound" /\ rpc.kind \in {"read", "destroy"}
       => mine \notin live

Agrees(state, object) ==
    \A a \in Attrs \ rt.garbled : HasValue(state[a]) => Shows(a, object[a], state[a])

Tells == SilentUpdatesTakeAll /\ ReadsTellAll

\* What core holds is true of its object until it may have changed, and from
\* the time a call has succeeded what its answer shows is.
TruthInv ==
    ~stale /\ Tells =>
        /\ held # None /\ reply.class # "ok" => mine \in live /\ Agrees(held, objects[mine])
        /\ reply.class = "ok" /\ rpc.kind # "destroy" =>
              /\ reply.id \in live
              /\ objects[reply.id] = reply.object
              /\ rpc.kind = "update" /\ "update" \in rt.silent => Agrees(rpc.plan, reply.object)

SmithyInv == TypeOK /\ WorldInv /\ HeldInv /\ CallInv /\ ReplyInv /\ TruthInv

(***************************************************************************)
(* The resource type, requests and states                                  *)
(***************************************************************************)
LEMMA TypesTyped ==
    ASSUME rt \in ResourceTypes
    PROVE  /\ rt.protocol \in Protocols /\ rt.offered \in SUBSET Ops
           /\ rt.inputs \in [Ops -> SUBSET Attrs] /\ rt.answers \in [Ops -> SUBSET Attrs]
           /\ rt.silent \in SUBSET Ops /\ rt.computed \in SUBSET Attrs
           /\ "read" \notin rt.silent
           /\ \A op \in Ops \ {"create"} : Key \in rt.inputs[op]
           /\ Key \notin rt.garbled /\ Key \notin rt.altered
  BY SmithyAssumption DEF SmithyTypes

LEMMA Distinct ==
    /\ Key \in Attrs
    /\ Null \notin Values /\ Unknown \notin Values /\ None \notin Values
    /\ None \notin States /\ None \notin Objects
  BY SmithyAssumption, NoneAssumption

LEMMA StateAsMapFacts ==
    ASSUME NEW s \in States
    PROVE  /\ stateAsMap(s) \in Inputs
           /\ \A a \in Attrs : /\ HasValue(s[a]) => stateAsMap(s)[a] = s[a]
                               /\ ~HasValue(s[a]) => stateAsMap(s)[a] = Null
  BY DEF stateAsMap, States, Inputs, HasValue

\* What is sent of a state, as it arrives.
LEMMA SentFacts ==
    ASSUME rt \in ResourceTypes, NEW op \in Ops, NEW s \in States,
           NEW input \in Bound(op, stateAsMap(s))
    PROVE  /\ input \in Inputs
           /\ \A a \in Attrs :
                 /\ a \in rt.inputs[op] /\ HasValue(s[a]) /\ a \notin rt.garbled =>
                       input[a] = s[a]
                 /\ input[a] # Null => a \in rt.inputs[op] /\ HasValue(s[a])
                 /\ input[a] # Null /\ a \notin rt.garbled => input[a] = s[a]
  <1> DEFINE m == stateAsMap(s)
             members == Given(op, m)
  <1>1. \A a \in Attrs : /\ HasValue(s[a]) => m[a] = s[a]
                         /\ ~HasValue(s[a]) => m[a] = Null
    BY StateAsMapFacts
  <1> HIDE DEF m
  <1>2. \A a \in Attrs : a \in members <=> a \in rt.inputs[op] /\ HasValue(s[a])
    BY <1>1, TypesTyped, Distinct DEF Given, InputMemberNames, HasValue
  <1>3. input \in Arriving(members, m)
    BY DEF Bound, m
  <1> HIDE DEF members
  <1>4. /\ input \in Inputs
        /\ \A a \in Attrs : /\ a \in members => a \in rt.garbled \/ input[a] = m[a]
                            /\ a \notin members => input[a] = Null
    BY <1>3 DEF Arriving
  <1> QED BY <1>1, <1>2, <1>4

\* What an answer's values may be read as.
LEMMA ShowsFacts ==
    ASSUME rt \in ResourceTypes
    PROVE  /\ \A a, v : Shows(a, v, v)
           /\ \A a, v : \A w \in ReadAs(a, v) : Shows(a, v, w)
           /\ \A v, w : Shows(Key, v, w) => w = v
           /\ Key \in Attrs \ rt.garbled
  BY TypesTyped, Distinct DEF Shows, ReadAs

LEMMA FromJSONFacts ==
    ASSUME NEW op \in Ops, NEW o \in Objects, NEW fresh \in FromJSON(op, o)
    PROVE  /\ fresh \in States
           /\ \A a \in Attrs : /\ a \in rt.answers[op] => fresh[a] \in ReadAs(a, o[a]) /\ fresh[a] # Null
                               /\ a \notin rt.answers[op] => fresh[a] = Null
  <1>1. /\ fresh \in States
        /\ \A a \in Attrs : IF a \in rt.answers[op] THEN fresh[a] \in ReadAs(a, o[a])
                                                     ELSE fresh[a] = Null
    BY DEF FromJSON
  <1>2. \A a \in Attrs : ReadAs(a, o[a]) \subseteq Values
    BY ReKeyedAssumption DEF ReadAs, Objects
  <1> QED BY <1>1, <1>2, Distinct

LEMMA MergeFacts ==
    ASSUME NEW fresh \in States, NEW prior \in States, NEW carry
    PROVE  /\ mergeCarryForward(fresh, prior, carry) \in States
           /\ \A a \in Attrs :
                 /\ a \in carry /\ fresh[a] = Null =>
                       mergeCarryForward(fresh, prior, carry)[a] = prior[a]
                 /\ ~(a \in carry /\ fresh[a] = Null) =>
                       mergeCarryForward(fresh, prior, carry)[a] = fresh[a]
  BY DEF mergeCarryForward, States

LEMMA NullTyped == AllNull \in States /\ AllNull \in Inputs
  BY DEF AllNull, States, Inputs

LEMMA NamedFacts ==
    ASSUME NEW input
    PROVE  /\ Named(input) \in IdOrNone
           /\ Named(input) # 0 =>
                 Named(input) \in live /\ objects[Named(input)][Key] = input[Key]
           /\ \A i \in live : objects[i][Key] = input[Key] => Named(input) # 0
  <1> DEFINE found == {i \in live : objects[i][Key] = input[Key]}
  <1>1. found \subseteq Ids
    BY DEF live
  <1>2. Named(input) = IF found = {} THEN 0 ELSE CHOOSE i \in found : TRUE
    BY DEF Named
  <1>3. CASE found = {}
    BY <1>2, <1>3, SmithyAssumption DEF IdOrNone
  <1>4. CASE found # {}
    <2>1. Named(input) \in found
      BY <1>2, <1>4
    <2>2. Named(input) \in Ids
      BY <1>1, <2>1
    <2>3. Named(input) # 0 /\ Named(input) \in IdOrNone
      BY <2>2, SmithyAssumption DEF Ids, IdOrNone
    <2> QED BY <2>1, <2>3
  <1> QED BY <1>3, <1>4

(***************************************************************************)
(* What the API makes of a request                                         *)
(***************************************************************************)

\* No object that is there gets another name.
KeepsNames ==
    \A i \in Ids : i <= made /\ objects'[i] # None =>
        objects[i] # None /\ objects'[i][Key] = objects[i][Key]

LEMMA CreateFacts ==
    ASSUME TypeOK, WorldInv, NEW input \in Inputs, Creates(input)
    PROVE  /\ objects' \in [Ids -> Objects \cup {None}] /\ made' = made + 1 /\ made' \in Ids
           /\ WorldInv' /\ KeepsNames
           /\ objects'[made + 1] \in Objects
           /\ \A a \in Attrs : input[a] # Null /\ (a = Key => Key \notin rt.computed) =>
                 objects'[made + 1][a] = input[a]
           /\ live' = live \cup {made + 1}
  <1>1. SUFFICES ASSUME NEW object \in Objects, Stored(input, object),
                        objects' = [objects EXCEPT ![made + 1] = object]
                 PROVE  /\ objects' \in [Ids -> Objects \cup {None}] /\ made' = made + 1 /\ made' \in Ids
                        /\ WorldInv' /\ KeepsNames
                        /\ objects'[made + 1] \in Objects
                        /\ \A a \in Attrs : input[a] # Null /\ (a = Key => Key \notin rt.computed) =>
                              objects'[made + 1][a] = input[a]
                        /\ live' = live \cup {made + 1}
    BY DEF Creates
  <1>2. /\ made' = made + 1 /\ made \in Nat /\ made + 1 \in Ids
        /\ objects \in [Ids -> Objects \cup {None}] /\ Ids \subseteq Nat
    BY SmithyAssumption DEF Creates, TypeOK, IdOrNone, Ids
  <1>3. /\ objects' \in [Ids -> Objects \cup {None}]
        /\ objects'[made + 1] = object
        /\ \A i \in Ids : i # made + 1 => objects'[i] = objects[i]
    BY <1>1, <1>2
  <1>4. objects[made + 1] = None /\ object # None
    BY <1>2, Distinct DEF WorldInv
  <1>5. live' = live \cup {made + 1}
    BY <1>2, <1>3, <1>4 DEF live
  <1>6. KeepsNames
    BY <1>2, <1>3 DEF KeepsNames
  <1>7. \A i \in live : objects[i][Key] # object[Key]
    <2>1. CASE Key \in rt.computed
      <3>1. \A i \in live : i \in 1..made
        BY <1>2, SmithyAssumption DEF WorldInv, live, Ids
      <3> QED BY <1>1, <2>1, <3>1 DEF Stored, NamesObject, live
    <2>2. CASE Key \notin rt.computed
      <3>1. object[Key] = input[Key] /\ Named(input) = 0
        BY <1>1, <2>2 DEF Stored, NamesObject, Creates
      <3> QED BY <3>1, NamedFacts
    <2> QED BY <2>1, <2>2
  <1>8. WorldInv'
    <2>1. \A i \in Ids : i > made' => objects'[i] = None
      BY <1>2, <1>3 DEF WorldInv
    <2>2. ASSUME NEW i \in live', NEW j \in live', objects'[i][Key] = objects'[j][Key]
          PROVE  i = j
      <3>1. CASE i = made + 1 /\ j # made + 1
        BY <1>3, <1>5, <1>7, <2>2, <3>1 DEF live
      <3>2. CASE j = made + 1 /\ i # made + 1
        BY <1>3, <1>5, <1>7, <2>2, <3>2 DEF live
      <3>3. CASE i # made + 1 /\ j # made + 1
        <4>1. i \in live /\ j \in live /\ objects'[i] = objects[i] /\ objects'[j] = objects[j]
          BY <1>3, <1>5, <3>3 DEF live
        <4> QED BY <2>2, <4>1 DEF WorldInv
      <3> QED BY <3>1, <3>2, <3>3
    <2> QED BY <2>1, <2>2 DEF WorldInv
  <1>9. ASSUME NEW a \in Attrs, input[a] # Null, a = Key => Key \notin rt.computed
        PROVE  objects'[made + 1][a] = input[a]
    BY <1>1, <1>3, <1>9 DEF Stored, NamesObject
  <1> QED BY <1>2, <1>3, <1>5, <1>6, <1>8, <1>9

LEMMA UpdateFacts ==
    ASSUME TypeOK, WorldInv, NEW input \in Inputs, Updates(input)
    PROVE  /\ objects' \in [Ids -> Objects \cup {None}] /\ made' = made
           /\ WorldInv' /\ KeepsNames
           /\ Named(input) \in live'
           /\ objects'[Named(input)] \in Objects
           /\ \A a \in Attrs : objects'[Named(input)][a] =
                 IF input[a] # Null THEN input[a] ELSE objects[Named(input)][a]
           /\ live' = live
  <1> DEFINE n == Named(input)
             new == [a \in Attrs |-> IF input[a] # Null THEN input[a] ELSE objects[n][a]]
  <1>1. /\ objects \in [Ids -> Objects \cup {None}] /\ made' = made
        /\ n \in live /\ objects[n][Key] = input[Key]
        /\ objects' = [objects EXCEPT ![n] = new]
    BY NamedFacts DEF TypeOK, Updates
  <1>2. n \in Ids /\ objects[n] \in Objects
    BY <1>1 DEF live
  <1> HIDE DEF n
  <1>3. new \in Objects /\ new[Key] = objects[n][Key]
    BY <1>1, <1>2, Distinct DEF Objects, Inputs
  <1>4. \A a \in Attrs : new[a] = IF input[a] # Null THEN input[a] ELSE objects[n][a]
    OBVIOUS
  <1> HIDE DEF new
  <1>5. /\ objects' \in [Ids -> Objects \cup {None}] /\ objects'[n] = new
        /\ \A i \in Ids : i # n => objects'[i] = objects[i]
    BY <1>1, <1>2, <1>3
  <1>6. live' = live
    BY <1>1, <1>2, <1>3, <1>5, Distinct DEF live
  <1>7. \A i \in live : objects'[i][Key] = objects[i][Key]
    BY <1>3, <1>5 DEF live
  <1>8. KeepsNames
    BY <1>2, <1>5, <1>7, Distinct DEF KeepsNames, live
  <1>9. WorldInv'
    <2>1. \A i \in Ids : i > made' => objects'[i] = None
      BY <1>1, <1>5 DEF WorldInv, live
    <2>2. \A i, j \in live' : objects'[i][Key] = objects'[j][Key] => i = j
      BY <1>6, <1>7 DEF WorldInv
    <2> QED BY <2>1, <2>2 DEF WorldInv
  <1>10. n \in live' /\ objects'[n] \in Objects
    BY <1>1, <1>3, <1>5, <1>6
  <1> QED BY <1>1, <1>4, <1>5, <1>6, <1>8, <1>9, <1>10 DEF n

\* The object is deleted, by a destroy or by others.
LEMMA DeleteFacts ==
    ASSUME TypeOK, WorldInv, NEW n \in live, objects' = [objects EXCEPT ![n] = None],
           made' = made
    PROVE  /\ objects' \in [Ids -> Objects \cup {None}]
           /\ WorldInv' /\ KeepsNames
           /\ live' = live \ {n}
  <1>1. objects \in [Ids -> Objects \cup {None}] /\ n \in Ids
    BY DEF TypeOK, live
  <1>2. /\ objects' \in [Ids -> Objects \cup {None}] /\ objects'[n] = None
        /\ \A i \in Ids : i # n => objects'[i] = objects[i]
    BY <1>1
  <1>3. live' = live \ {n}
    BY <1>2 DEF live
  <1>4. KeepsNames
    BY <1>2 DEF KeepsNames
  <1>5. WorldInv'
    <2>1. \A i \in Ids : i > made' => objects'[i] = None
      BY <1>2 DEF WorldInv
    <2>2. \A i, j \in live' : objects'[i][Key] = objects'[j][Key] => i = j
      BY <1>2, <1>3 DEF WorldInv, live
    <2> QED BY <2>1, <2>2 DEF WorldInv
  <1> QED BY <1>2, <1>3, <1>4, <1>5

\* Whatever the API performs, and whatever others do.
LEMMA PerformsFacts ==
    ASSUME TypeOK, WorldInv, NEW op \in Ops, NEW input \in Inputs, Performs(op, input)
    PROVE  /\ objects' \in [Ids -> Objects \cup {None}] /\ made' \in IdOrNone /\ made <= made'
           /\ WorldInv' /\ KeepsNames
  <1>1. made \in IdOrNone /\ IdOrNone \subseteq Nat /\ Ids \subseteq IdOrNone
    BY SmithyAssumption DEF TypeOK, IdOrNone, Ids
  <1>2. CASE Creates(input)
    BY <1>1, <1>2, CreateFacts
  <1>3. CASE Updates(input)
    BY <1>1, <1>3, UpdateFacts
  <1>4. CASE Destroys(input)
    <2>1. /\ Named(input) \in live /\ made' = made
          /\ objects' = [objects EXCEPT ![Named(input)] = None]
      BY <1>4, NamedFacts DEF Destroys
    <2>2. objects' \in [Ids -> Objects \cup {None}] /\ WorldInv' /\ KeepsNames
      BY <2>1, DeleteFacts
    <2> QED BY <1>1, <2>1, <2>2
  <1>5. CASE UNCHANGED <<objects, made>>
    <2>1. WorldInv'
      BY <1>5 DEF WorldInv, live
    <2>2. KeepsNames
      BY <1>5 DEF KeepsNames
    <2> QED BY <1>1, <1>5, <2>1, <2>2 DEF TypeOK
  <1> QED BY <1>2, <1>3, <1>4, <1>5 DEF Performs

(***************************************************************************)
(* Records                                                                 *)
(***************************************************************************)
LEMMA RpcFields ==
    ASSUME TypeOK
    PROVE  /\ rpc \in Rpcs /\ rpc.kind \in Kinds /\ rpc.calling \in BOOLEAN
           /\ rpc.plan \in States /\ rpc.input \in Inputs /\ rpc.tries \in 0..MaxAttempts
           /\ rpc.outcome \in Outcomes
           /\ reply \in Replies /\ reply.class \in Classes /\ reply.id \in IdOrNone
           /\ reply.object \in Objects \cup {None}
           /\ Op \in Ops
           /\ 0 \in IdOrNone /\ 0 \in 0..MaxAttempts /\ 1 \in 0..MaxAttempts
           /\ made \in Nat /\ mine \in Nat /\ reply.id \in Nat
  <1>1. rpc \in Rpcs /\ reply \in Replies
    BY DEF TypeOK
  <1>2. /\ rpc.kind \in Kinds /\ rpc.calling \in BOOLEAN
        /\ rpc.plan \in States /\ rpc.input \in Inputs /\ rpc.tries \in 0..MaxAttempts
        /\ rpc.outcome \in Outcomes
    BY <1>1 DEF Rpcs
  <1>3. /\ reply.class \in Classes /\ reply.id \in IdOrNone
        /\ reply.object \in Objects \cup {None}
    BY <1>1 DEF Replies
  <1>4. Op \in Ops
    BY <1>2 DEF Op, Kinds, Ops
  <1>5. 0 \in IdOrNone /\ 0 \in 0..MaxAttempts /\ 1 \in 0..MaxAttempts
    BY SmithyAssumption DEF IdOrNone
  <1>6. made \in Nat /\ mine \in Nat /\ reply.id \in Nat
    BY <1>3, SmithyAssumption DEF TypeOK, IdOrNone
  <1> QED BY <1>1, <1>2, <1>3, <1>4, <1>5, <1>6

\* An RPC that is over.
Ended(kind, outcome) == [NoRpc EXCEPT !.kind = kind, !.outcome = outcome]

LEMMA EndedRpc ==
    ASSUME NEW kind \in Kinds, NEW outcome \in Outcomes
    PROVE  /\ Ended(kind, outcome) \in Rpcs
           /\ ~Ended(kind, outcome).calling
           /\ Ended(kind, outcome).kind = kind
           /\ Ended(kind, outcome).outcome = outcome
  <1>1. NoRpc \in Rpcs /\ ~NoRpc.calling
    <2>1. 0 \in 0..MaxAttempts
      BY SmithyAssumption
    <2>2. "read" \in Kinds /\ "none" \in Outcomes
      BY DEF Kinds, Ops, Outcomes
    <2>3. NoRpc \in Rpcs
      BY <2>1, <2>2, NullTyped DEF NoRpc, Rpcs
    <2> QED BY <2>3 DEF NoRpc
  <1>2. Ended(kind, outcome) \in Rpcs
    BY <1>1, ZenonT(60) DEF Ended, Rpcs
  <1>3. /\ Ended(kind, outcome).calling = NoRpc.calling
        /\ Ended(kind, outcome).kind = kind
        /\ Ended(kind, outcome).outcome = outcome
    BY <1>1, ZenonT(60) DEF Ended, Rpcs
  <1> QED BY <1>1, <1>2, <1>3

Retried(r) == [r EXCEPT !.tries = @ + 1]

LEMMA RetriedRpc ==
    ASSUME NEW r \in Rpcs, r.tries + 1 \in 0..MaxAttempts
    PROVE  /\ Retried(r) \in Rpcs
           /\ Retried(r).calling = r.calling /\ Retried(r).kind = r.kind
           /\ Retried(r).plan = r.plan /\ Retried(r).input = r.input
           /\ Retried(r).outcome = r.outcome
  BY DEF Retried, Rpcs

OfClass(c) == [NoReply EXCEPT !.class = c]

LEMMA OfClassReply ==
    ASSUME NEW c \in Classes
    PROVE  OfClass(c) \in Replies /\ OfClass(c).class = c
  <1>1. 0 \in IdOrNone
    BY SmithyAssumption DEF IdOrNone
  <1>2. OfClass(c) = [class |-> c, id |-> 0, object |-> None]
    BY DEF OfClass, NoReply
  <1> QED BY <1>1, <1>2 DEF Replies

LEMMA NoReplyTyped == NoReply \in Replies /\ NoReply.class = "none"
  <1>1. 0 \in IdOrNone
    BY SmithyAssumption DEF IdOrNone
  <1> QED BY <1>1 DEF NoReply, Replies, Classes

\* The call goes on as it was begun.
SameCall ==
    /\ rpc' \in Rpcs
    /\ rpc'.calling = rpc.calling /\ rpc'.kind = rpc.kind
    /\ rpc'.plan = rpc.plan /\ rpc'.input = rpc.input /\ rpc'.outcome = rpc.outcome

LEMMA InconclusiveFacts ==
    ASSUME TypeOK, Calling, Inconclusive
    PROVE  SameCall /\ reply' \in Replies /\ reply'.class \in {"none", "unclear"}
  <1>1. CASE rpc.tries < MaxAttempts /\ rpc' = Retried(rpc) /\ reply' = reply
    <2>1. rpc.tries + 1 \in 0..MaxAttempts
      BY <1>1, RpcFields, SmithyAssumption
    <2>2. SameCall
      BY <1>1, <2>1, RpcFields, RetriedRpc DEF SameCall
    <2> QED BY <1>1, <2>2, RpcFields DEF Calling
  <1>2. CASE reply' = OfClass("unclear") /\ rpc' = rpc
    <2>1. "unclear" \in Classes
      BY DEF Classes
    <2> QED BY <1>2, <2>1, OfClassReply, RpcFields DEF SameCall
  <1> QED BY <1>1, <1>2 DEF Inconclusive, Retried, OfClass

(***************************************************************************)
(* What a step leaves alone                                                *)
(***************************************************************************)
LEMMA LiveFacts ==
    ASSUME TypeOK, objects' \in [Ids -> Objects \cup {None}], KeepsNames
    PROVE  /\ \A i \in live' : i <= made => i \in live /\ objects'[i][Key] = objects[i][Key]
  BY DEF KeepsNames, live

LEMMA HeldKeeps ==
    ASSUME TypeOK, HeldInv, UNCHANGED <<held, mine>>, made' \in IdOrNone, made <= made',
           objects' \in [Ids -> Objects \cup {None}], KeepsNames
    PROVE  HeldInv'
  <1>1. made \in Nat /\ made' \in Nat /\ mine \in Nat
    BY RpcFields, SmithyAssumption DEF IdOrNone
  <1>2. mine <= made /\ mine' <= made'
    BY <1>1 DEF HeldInv
  <1>3. mine' \in live' => mine \in live /\ objects'[mine][Key] = objects[mine][Key]
    BY <1>2, LiveFacts
  <1> QED BY <1>2, <1>3 DEF HeldInv, HasValue

LEMMA CallKeeps ==
    ASSUME CallInv, SameCall, UNCHANGED <<rt, held>>
    PROVE  CallInv'
  <1>1. Plans' = Plans
    BY DEF Plans, Proposed
  <1>2. ASSUME NEW op
        PROVE  Bound(op, stateAsMap(rpc.plan))' = Bound(op, stateAsMap(rpc.plan))
    BY DEF SameCall, Bound, Arriving, Given, InputMemberNames, stateAsMap, HasValue
  <1> QED BY <1>1, <1>2 DEF CallInv, SameCall

\* Others change the world, or a request that was given up does.
LEMMA WorldMoves ==
    ASSUME SmithyInv, UNCHANGED <<rt, reply, rpc, held, mine>>, stale',
           strays' \subseteq strays,
           objects' \in [Ids -> Objects \cup {None}], made' \in IdOrNone, made <= made',
           WorldInv', KeepsNames
    PROVE  SmithyInv'
  <1>1. TypeOK /\ HeldInv /\ CallInv /\ ReplyInv
    BY DEF SmithyInv
  <1>2. made \in Nat /\ made' \in Nat /\ mine \in Nat /\ reply.id \in Nat
    BY <1>1, RpcFields, SmithyAssumption DEF IdOrNone
  <1>3. TypeOK'
    <2>1. stale' \in BOOLEAN
      OBVIOUS
    <2> QED BY <1>1, <2>1 DEF TypeOK
  <1>4. HeldInv'
    BY <1>1, HeldKeeps
  <1>5. CallInv'
    BY <1>1, RpcFields, CallKeeps DEF SameCall
  <1>6. ReplyInv'
    <2>1. reply'.class # "none" => rpc'.calling
      BY <1>1 DEF ReplyInv
    <2>2. reply'.class = "ok" => reply'.id # 0 /\ reply'.id <= made'
      BY <1>1, <1>2 DEF ReplyInv
    <2>3. ASSUME reply.class = "ok", rpc.kind # "destroy"
          PROVE  ShownInv'
      <3>1. ShownInv /\ reply.id <= made
        BY <1>1, <2>3 DEF ReplyInv
      <3>2. reply.id \in live' => objects'[reply.id][Key] = reply.object[Key]
        BY <1>1, <3>1, LiveFacts DEF ShownInv
      <3> QED BY <3>1, <3>2 DEF ShownInv
    <2>4. mine \notin live => mine \notin live'
      BY <1>1, LiveFacts DEF HeldInv
    <2> QED BY <1>1, <2>1, <2>2, <2>3, <2>4 DEF ReplyInv
  <1>7. TruthInv'
    BY DEF TruthInv
  <1> QED BY <1>3, <1>4, <1>5, <1>6, <1>7 DEF SmithyInv

\* An attempt ended without an answer that the handler can use.
LEMMA CallGoesOn ==
    ASSUME SmithyInv, Calling, SameCall, UNCHANGED <<rt, held, mine>>,
           reply' \in Replies, reply'.class # "ok",
           reply'.class = "notFound" /\ rpc.kind \in {"read", "destroy"} => mine \notin live',
           strays' \in SUBSET Requests, stale' \in BOOLEAN,
           ~stale' => ~stale /\ objects' = objects,
           objects' \in [Ids -> Objects \cup {None}], made' \in IdOrNone, made <= made',
           WorldInv', KeepsNames
    PROVE  SmithyInv'
  <1>1. TypeOK /\ HeldInv /\ CallInv /\ ReplyInv /\ TruthInv
    BY DEF SmithyInv
  <1>2. rpc' \in Rpcs /\ rpc'.calling /\ rpc'.kind = rpc.kind
    BY DEF SameCall, Calling
  <1>3. TypeOK'
    BY <1>1, <1>2 DEF TypeOK
  <1>4. HeldInv'
    BY <1>1, HeldKeeps
  <1>5. CallInv'
    BY <1>1, CallKeeps
  <1>6. ReplyInv'
    BY <1>2 DEF ReplyInv
  <1>7. TruthInv'
    <2>1. SUFFICES ASSUME ~stale', Tells', held # None
                   PROVE  mine \in live' /\ Agrees(held, objects[mine])
      BY DEF TruthInv, Agrees, Shows, ReadAs
    <2>2. Tells
      BY <2>1 DEF Tells, SilentUpdatesTakeAll, ReadsTellAll
    <2>3. ~stale /\ live' = live /\ reply.class # "ok"
      BY <2>1 DEF live, Calling
    <2> QED BY <1>1, <2>1, <2>2, <2>3 DEF TruthInv
  <1> QED BY <1>3, <1>4, <1>5, <1>6, <1>7 DEF SmithyInv

(***************************************************************************)
(* The actions                                                             *)
(***************************************************************************)
LEMMA InitSmithyInv == Init => SmithyInv
  <1> SUFFICES ASSUME Init PROVE SmithyInv
    OBVIOUS
  <1>1. /\ objects \in [Ids -> Objects \cup {None}] /\ live = {}
        /\ made = 0 /\ mine = 0 /\ held = None /\ reply = NoReply /\ rpc = NoRpc
        /\ rt \in ResourceTypes /\ strays = {} /\ stale = FALSE
    BY DEF Init, live
  <1>2. ~rpc.calling /\ reply.class = "none" /\ reply \in Replies
    BY <1>1, NoReplyTyped DEF NoRpc
  <1>3. rpc \in Rpcs
    <2>1. "read" \in Kinds /\ "none" \in Outcomes /\ 0 \in 0..MaxAttempts
      BY SmithyAssumption DEF Kinds, Ops, Outcomes
    <2> QED BY <1>1, <2>1, NullTyped DEF NoRpc, Rpcs
  <1>4. TypeOK
    <2>1. 0 \in IdOrNone
      BY SmithyAssumption DEF IdOrNone
    <2>2. made \in IdOrNone /\ mine \in IdOrNone /\ strays \in SUBSET Requests
      BY <1>1, <2>1
    <2>3. stale \in BOOLEAN
      BY <1>1
    <2> QED BY <1>1, <1>2, <1>3, <2>2, <2>3 DEF TypeOK
  <1>5. WorldInv /\ HeldInv
    BY <1>1 DEF WorldInv, HeldInv, Init
  <1>6. CallInv /\ ReplyInv /\ TruthInv
    BY <1>1, <1>2 DEF CallInv, ReplyInv, TruthInv
  <1> QED BY <1>4, <1>5, <1>6 DEF SmithyInv

\* Core asks: only rpc changes, and there was no call.
LEMMA AskKeeps ==
    ASSUME SmithyInv, ~rpc.calling, rpc' \in Rpcs, CallInv',
           UNCHANGED <<rt, objects, made, strays, reply, held, mine, stale>>
    PROVE  SmithyInv'
  <1>1. TypeOK /\ WorldInv /\ HeldInv /\ ReplyInv /\ TruthInv
    BY DEF SmithyInv
  <1>2. reply.class = "none" /\ live' = live
    BY <1>1, RpcFields DEF ReplyInv, live
  <1>3. TypeOK'
    BY <1>1 DEF TypeOK
  <1>4. WorldInv' /\ HeldInv'
    BY <1>1, <1>2 DEF WorldInv, HeldInv, HasValue
  <1>5. ReplyInv'
    BY <1>2 DEF ReplyInv
  <1>6. TruthInv'
    <2>1. Tells' <=> Tells
      BY DEF Tells, SilentUpdatesTakeAll, ReadsTellAll
    <2> QED BY <1>1, <1>2, <2>1 DEF TruthInv, Agrees, Shows, ReadAs, HasValue
  <1> QED BY <1>3, <1>4, <1>5, <1>6 DEF SmithyInv

LEMMA BeginKeeps ==
    ASSUME SmithyInv, NEW kind \in Kinds, NEW op \in Ops, NEW plan \in States,
           NEW m \in Inputs, MayAsk(kind), Begin(kind, op, plan, m),
           kind # "import" => op = kind /\ m = stateAsMap(plan),
           kind \in {"read", "destroy"} => plan = held,
           kind \in {"create", "update"} => plan \in Plans
    PROVE  SmithyInv'
  <1>1. TypeOK /\ rt \in ResourceTypes /\ ~rpc.calling
    BY DEF SmithyInv, TypeOK, MayAsk
  <1>2. UNCHANGED <<rt, objects, made, strays, reply, held, mine, stale>>
    BY DEF Begin
  <1>3. CASE rpc' = Ended(kind, "error")
    <2>1. rpc' \in Rpcs /\ ~rpc'.calling
      <3>1. "error" \in Outcomes
        BY DEF Outcomes
      <3> QED BY <1>3, <3>1, EndedRpc
    <2>2. CallInv'
      BY <2>1 DEF CallInv
    <2> QED BY <1>1, <1>2, <2>1, <2>2, AskKeeps
  <1>4. ASSUME NEW input \in Bound(op, m),
               rpc' = [kind |-> kind, calling |-> TRUE, plan |-> plan,
                       input |-> input, tries |-> 1, outcome |-> "none"]
        PROVE  SmithyInv'
    <2>1. input \in Inputs /\ 1 \in 0..MaxAttempts /\ "none" \in Outcomes
      BY <1>1, RpcFields DEF Bound, Arriving, Outcomes
    <2>2. rpc' \in Rpcs
      BY <1>4, <2>1 DEF Rpcs
    <2>3. rpc'.kind = kind /\ rpc'.plan = plan /\ rpc'.input = input
          /\ rpc'.outcome = "none"
      BY <1>4
    <2>4. Plans' = Plans
      BY <1>2 DEF Plans, Proposed
    <2>5. \A o, s : Bound(o, stateAsMap(s))' = Bound(o, stateAsMap(s))
      BY <1>2 DEF Bound, Arriving, Given, InputMemberNames, stateAsMap, HasValue
    <2>6. held = None <=> kind \in {"create", "import"}
      BY DEF MayAsk
    <2>7. CallInv'
      BY <1>2, <1>4, <2>3, <2>4, <2>5, <2>6 DEF CallInv
    <2> QED BY <1>1, <1>2, <2>2, <2>7, AskKeeps
  <1> QED BY <1>3, <1>4 DEF Begin, Ended

LEMMA CoreCallsKeep ==
    ASSUME SmithyInv, CoreCalls
    PROVE  SmithyInv'
  <1>1. TypeOK /\ HeldInv /\ rt \in ResourceTypes
    BY DEF SmithyInv, TypeOK
  <1>2. Plans \subseteq States
    BY DEF Plans
  <1>3. {"create", "update", "destroy", "read"} \subseteq Ops /\ Ops \subseteq Kinds
        /\ "import" \in Kinds
    BY DEF Ops, Kinds
  <1>4. CASE applyCreate
    <2>1. SUFFICES ASSUME NEW planned \in Plans,
                          Begin("create", "create", planned, stateAsMap(planned))
                   PROVE  SmithyInv'
      BY <1>4 DEF applyCreate
    <2>2. planned \in States /\ stateAsMap(planned) \in Inputs /\ MayAsk("create")
      BY <1>2, <1>4, StateAsMapFacts DEF applyCreate
    <2> QED BY <1>3, <2>1, <2>2, BeginKeeps
  <1>5. CASE applyUpdate
    <2>1. SUFFICES ASSUME NEW planned \in Plans,
                          Begin("update", "update", planned, stateAsMap(planned))
                   PROVE  SmithyInv'
      BY <1>5 DEF applyUpdate
    <2>2. planned \in States /\ stateAsMap(planned) \in Inputs /\ MayAsk("update")
      BY <1>2, <1>5, StateAsMapFacts DEF applyUpdate
    <2> QED BY <1>3, <2>1, <2>2, BeginKeeps
  <1>6. ASSUME held # None
        PROVE  held \in States /\ stateAsMap(held) \in Inputs
    BY <1>1, <1>6, StateAsMapFacts DEF TypeOK
  <1>7. CASE applyDestroy
    <2>1. /\ MayAsk("destroy") /\ held # None
          /\ Begin("destroy", "destroy", held, stateAsMap(held))
      BY <1>7 DEF applyDestroy, MayAsk
    <2> QED BY <1>3, <1>6, <2>1, BeginKeeps
  <1>8. CASE ReadResource
    <2>1. MayAsk("read") /\ held # None /\ Begin("read", "read", held, stateAsMap(held))
      BY <1>8 DEF ReadResource, MayAsk
    <2> QED BY <1>3, <1>6, <2>1, BeginKeeps
  <1>9. CASE ImportResourceState
    <2>1. SUFFICES ASSUME NEW parts \in [InputMemberNames("read") -> Values],
                          Begin("import", "read", AllNull,
                                [a \in Attrs |-> IF a \in InputMemberNames("read")
                                                 THEN parts[a] ELSE Null])
                   PROVE  SmithyInv'
      BY <1>9 DEF ImportResourceState
    <2> DEFINE m == [a \in Attrs |-> IF a \in InputMemberNames("read") THEN parts[a] ELSE Null]
    <2>2. m \in Inputs
      BY DEF Inputs
    <2>3. MayAsk("import") /\ Begin("import", "read", AllNull, m)
      BY <1>9, <2>1 DEF ImportResourceState
    <2> HIDE DEF m
    <2> QED BY <1>3, <2>2, <2>3, NullTyped, BeginKeeps
  <1>10. CASE RefuseUnsent
    <2>1. SUFFICES ASSUME NEW kind \in Kinds, MayAsk(kind), rpc' = Ended(kind, "diag")
                   PROVE  SmithyInv'
      BY <1>10 DEF RefuseUnsent, Ended
    <2>2. rpc' \in Rpcs /\ ~rpc'.calling
      <3>1. "diag" \in Outcomes
        BY DEF Outcomes
      <3> QED BY <2>1, <3>1, EndedRpc
    <2>3. CallInv' /\ ~rpc.calling
      BY <2>1, <2>2 DEF CallInv, MayAsk
    <2> QED BY <1>10, <2>2, <2>3, AskKeeps DEF RefuseUnsent
  <1> QED BY <1>4, <1>5, <1>7, <1>8, <1>9, <1>10 DEF CoreCalls

LEMMA StrayLandsKeeps ==
    ASSUME SmithyInv, StrayLands
    PROVE  SmithyInv'
  <1>1. TypeOK /\ WorldInv
    BY DEF SmithyInv
  <1>2. SUFFICES ASSUME NEW s \in strays, strays' = strays \ {s},
                        Performs(s.op, s.input) \/ UNCHANGED <<objects, made>>
                 PROVE  SmithyInv'
    BY DEF StrayLands
  <1>3. s.op \in Ops /\ s.input \in Inputs
    BY <1>1 DEF TypeOK, Requests
  <1>4. /\ objects' \in [Ids -> Objects \cup {None}] /\ made' \in IdOrNone /\ made <= made'
        /\ WorldInv' /\ KeepsNames
    <2>1. CASE UNCHANGED <<objects, made>>
      <3>1. WorldInv' /\ KeepsNames
        BY <1>1, <2>1 DEF WorldInv, live, KeepsNames
      <3>2. made <= made
        BY <1>1, RpcFields
      <3> QED BY <1>1, <2>1, <3>1, <3>2 DEF TypeOK
    <2> QED BY <1>1, <1>2, <1>3, <2>1, PerformsFacts
  <1> QED BY <1>2, <1>4, WorldMoves DEF StrayLands

LEMMA ElsewhereKeeps ==
    ASSUME SmithyInv, Elsewhere
    PROVE  SmithyInv'
  <1>1. TypeOK /\ WorldInv /\ made \in Nat /\ objects \in [Ids -> Objects \cup {None}]
    BY RpcFields DEF SmithyInv, TypeOK
  <1>2. CASE \E i \in live, a \in Attrs \ {Key}, v \in Values :
                objects' = [objects EXCEPT ![i][a] = v]
    <2>1. SUFFICES ASSUME NEW i \in live, NEW a \in Attrs \ {Key}, NEW v \in Values,
                          objects' = [objects EXCEPT ![i] = [objects[i] EXCEPT ![a] = v]]
                   PROVE  SmithyInv'
      BY <1>2
    <2> DEFINE new == [objects[i] EXCEPT ![a] = v]
    <2>2. i \in Ids /\ objects[i] \in Objects
      BY <1>1 DEF live
    <2>3. new \in Objects /\ new[Key] = objects[i][Key]
      BY <2>2, Distinct DEF Objects
    <2> HIDE DEF new
    <2>4. /\ objects' \in [Ids -> Objects \cup {None}] /\ objects'[i] = new
          /\ \A j \in Ids : j # i => objects'[j] = objects[j]
      BY <1>1, <2>1, <2>2, <2>3 DEF new
    <2>5. live' = live /\ made' = made
      BY <1>1, <1>2, <2>2, <2>3, <2>4, Distinct DEF live, Elsewhere
    <2>6. \A j \in live : objects'[j][Key] = objects[j][Key]
      BY <2>3, <2>4 DEF live
    <2>7. KeepsNames
      BY <2>2, <2>4, <2>6, Distinct DEF KeepsNames, live
    <2>8. WorldInv'
      <3>1. \A j \in Ids : j > made' => objects'[j] = None
        BY <1>1, <2>4, <2>5 DEF WorldInv, live
      <3>2. \A j, k \in live' : objects'[j][Key] = objects'[k][Key] => j = k
        BY <1>1, <2>5, <2>6 DEF WorldInv
      <3> QED BY <3>1, <3>2 DEF WorldInv
    <2>9. made' \in IdOrNone /\ made <= made' /\ stale' /\ strays' = strays
      BY <1>1, <2>5 DEF TypeOK, Elsewhere
    <2> QED BY <2>4, <2>7, <2>8, <2>9, WorldMoves DEF Elsewhere
  <1>3. CASE \E i \in live : objects' = [objects EXCEPT ![i] = None] /\ made' = made
    <2>1. SUFFICES ASSUME NEW i \in live, objects' = [objects EXCEPT ![i] = None], made' = made
                   PROVE  SmithyInv'
      BY <1>3
    <2>2. objects' \in [Ids -> Objects \cup {None}] /\ WorldInv' /\ KeepsNames
      BY <1>1, <2>1, DeleteFacts
    <2>3. made' \in IdOrNone /\ made <= made' /\ stale' /\ strays' = strays
      BY <1>1, <2>1 DEF TypeOK, Elsewhere
    <2> QED BY <2>2, <2>3, WorldMoves DEF Elsewhere
  <1> QED BY <1>2, <1>3 DEF Elsewhere

\* A call found its object, or made one, and the answer arrives.
LEMMA ReachesKeeps ==
    ASSUME SmithyInv, Calling, Performs(Op, rpc.input), UNCHANGED <<rt, strays, rpc, held, mine>>,
           LET id == Subject(Op, rpc.input)
           IN  reply' = [class |-> "ok", id |-> id, object |-> objects'[id]],
           stale' = (stale /\ Op = "update" /\ Op \in rt.silent)
    PROVE  SmithyInv'
  <1> DEFINE id == Subject(Op, rpc.input)
  <1>1. TypeOK /\ WorldInv /\ HeldInv /\ CallInv /\ ReplyInv /\ TruthInv
    BY DEF SmithyInv
  <1>2. /\ rpc.calling /\ reply.class = "none" /\ rpc.input \in Inputs /\ Op \in Ops
        /\ made \in Nat /\ rt \in ResourceTypes /\ rpc.kind \in Kinds /\ rpc.plan \in States
    BY <1>1, RpcFields DEF Calling, TypeOK
  <1>3. /\ objects' \in [Ids -> Objects \cup {None}] /\ made' \in IdOrNone /\ made <= made'
        /\ WorldInv' /\ KeepsNames
    BY <1>1, <1>2, PerformsFacts
  <1>4. reply'.class = "ok" /\ reply'.id = id /\ reply'.object = objects'[id]
    OBVIOUS
  <1>5. id \in Ids /\ id <= made'
    <2>1. CASE Op = "create"
      <3>1. id = made + 1 /\ Creates(rpc.input)
        BY <2>1 DEF Subject, Performs
      <3>2. made' = made + 1 /\ made' \in Ids
        BY <1>1, <1>2, <3>1, CreateFacts
      <3> QED BY <1>2, <3>1, <3>2
    <2>2. CASE Op # "create"
      <3>1. id = Named(rpc.input) /\ Named(rpc.input) # 0 /\ made' = made
        BY <2>2 DEF Subject, Performs, Updates, Destroys
      <3>2. id \in live
        BY <3>1, NamedFacts
      <3>3. id \in Ids /\ ~(id > made)
        BY <1>1, <3>2 DEF WorldInv, live
      <3>4. id \in Nat
        BY <3>3, SmithyAssumption DEF Ids
      <3> QED BY <1>2, <3>1, <3>3, <3>4
    <2> QED BY <2>1, <2>2
  <1>6. id # 0 /\ id \in IdOrNone
    BY <1>5, SmithyAssumption DEF Ids, IdOrNone
  <1>7. Op # "destroy" => /\ id \in live' /\ objects'[id] \in Objects
                          /\ objects'[id][Key] = rpc.input[Key] \/ Op = "create"
    <2>1. CASE Op = "create"
      <3>1. id = made + 1 /\ Creates(rpc.input)
        BY <2>1 DEF Subject, Performs
      <3> QED BY <1>1, <1>2, <2>1, <3>1, CreateFacts
    <2>2. CASE Op = "update"
      <3>1. id = Named(rpc.input) /\ Updates(rpc.input)
        BY <2>2 DEF Subject, Performs
      <3>2. objects[id][Key] = rpc.input[Key]
        BY <3>1, NamedFacts DEF Updates
      <3> QED BY <1>1, <1>2, <3>1, <3>2, UpdateFacts, Distinct
    <2>3. CASE Op = "read"
      <3>1. id = Named(rpc.input) /\ Named(rpc.input) # 0 /\ objects' = objects
        BY <2>3 DEF Subject, Performs
      <3>2. id \in live /\ objects[id][Key] = rpc.input[Key]
        BY <3>1, NamedFacts
      <3> QED BY <1>1, <3>1, <3>2 DEF live, TypeOK
    <2> QED BY <1>2, <2>1, <2>2, <2>3 DEF Ops
  <1>8. reply' \in Replies
    <2>1. objects'[id] \in Objects \cup {None} /\ "ok" \in Classes
      BY <1>3, <1>5 DEF Classes
    <2> QED BY <1>6, <2>1 DEF Replies
  <1>9. TypeOK'
    <2>1. stale' \in BOOLEAN
      BY Zenon
    <2> QED BY <1>1, <1>3, <1>8, <2>1 DEF TypeOK
  <1>10. HeldInv'
    BY <1>1, <1>3, HeldKeeps
  <1>11. CallInv'
    BY <1>1, RpcFields, CallKeeps DEF SameCall
  <1>12. ASSUME rpc.kind # "destroy"
         PROVE  ShownInv'
    <2>1. Op # "destroy"
      BY <1>12 DEF Op
    <2>2. ASSUME NEW a \in Attrs, rpc.input[a] # Null,
                 a = Key \/ rpc.kind \in {"create", "update"}
          PROVE  objects'[id][a] = rpc.input[a]
      <3>1. CASE rpc.kind = "create"
        <4>1. Op = "create" /\ id = made + 1 /\ Creates(rpc.input)
          BY <3>1 DEF Op, Subject, Performs
        <4>2. a = Key => Key \notin rt.computed
          <5>1. /\ rpc.plan \in Plans /\ held = None
                /\ rpc.input \in Bound("create", stateAsMap(rpc.plan))
            BY <1>1, <1>2, <3>1 DEF CallInv
          <5>2. HasValue(rpc.plan[a])
            BY <1>2, <2>2, <4>1, <5>1, SentFacts
          <5>3. rpc.plan[a] \in Proposed(a)
            BY <5>1 DEF Plans
          <5>4. a \in rt.computed => rpc.plan[a] = Unknown
            BY <5>1, <5>3 DEF Proposed
          <5> QED BY <5>2, <5>4, Distinct DEF HasValue
        <4> QED BY <1>1, <1>2, <2>2, <4>1, <4>2, CreateFacts
      <3>2. CASE rpc.kind = "update"
        <4>1. Op = "update" /\ id = Named(rpc.input) /\ Updates(rpc.input)
          BY <3>2 DEF Op, Subject, Performs
        <4> QED BY <1>1, <1>2, <2>2, <4>1, UpdateFacts
      <3>3. CASE a = Key /\ rpc.kind # "create"
        <4>1. Op # "create"
          BY <3>3 DEF Op
        <4> QED BY <1>7, <2>1, <3>3, <4>1
      <3> QED BY <2>2, <3>1, <3>2, <3>3
    <2> QED BY <1>4, <1>7, <2>1, <2>2 DEF ShownInv
  <1>13. rpc.kind = "destroy" => mine \notin live'
    <2>1. SUFFICES ASSUME rpc.kind = "destroy", mine \in live'
                   PROVE  FALSE
      OBVIOUS
    <2>2. /\ Op = "destroy" /\ Destroys(rpc.input) /\ held # None /\ rpc.plan = held
          /\ rpc.input \in Bound("destroy", stateAsMap(held))
      BY <1>1, <1>2, <2>1 DEF Op, Performs, CallInv
    <2>3. /\ Named(rpc.input) \in live /\ objects[Named(rpc.input)][Key] = rpc.input[Key]
          /\ live' = live \ {Named(rpc.input)}
      BY <1>1, <2>2, NamedFacts, DeleteFacts DEF Destroys
    <2>4. mine \in live /\ mine # Named(rpc.input)
      BY <2>1, <2>3
    <2>5. rpc.input[Key] # Null
      BY <1>1, <2>3, Distinct DEF TypeOK, live, Objects
    <2>6. HasValue(held[Key]) /\ rpc.input[Key] = held[Key]
      BY <1>2, <2>2, <2>5, SentFacts, TypesTyped, Distinct
    <2>7. objects[mine][Key] = rpc.input[Key]
      BY <1>1, <2>2, <2>4, <2>6 DEF HeldInv
    <2> QED BY <1>1, <2>3, <2>4, <2>7 DEF WorldInv
  <1>14. ReplyInv'
    BY <1>2, <1>4, <1>5, <1>6, <1>12, <1>13 DEF ReplyInv
  <1>15. TruthInv'
    <2>1. SUFFICES ASSUME ~stale', Tells', rpc.kind # "destroy"
                   PROVE  /\ id \in live'
                          /\ rpc.kind = "update" /\ "update" \in rt.silent =>
                                Agrees(rpc.plan, objects'[id])
      BY <1>4 DEF TruthInv, Agrees, Shows, ReadAs
    <2>2. Op # "destroy" /\ id \in live'
      BY <1>7, <2>1 DEF Op
    <2>3. ASSUME rpc.kind = "update", "update" \in rt.silent
          PROVE  Agrees(rpc.plan, objects'[id])
      <3>1. /\ Op = "update" /\ id = Named(rpc.input) /\ Updates(rpc.input) /\ ~stale
        BY <2>1, <2>3 DEF Op, Subject, Performs
      <3>2. /\ held # None /\ rpc.plan \in Plans
            /\ rpc.input \in Bound("update", stateAsMap(rpc.plan))
        BY <1>1, <1>2, <2>3 DEF CallInv
      <3>3. SilentUpdatesTakeAll /\ Tells
        BY <2>1 DEF Tells, SilentUpdatesTakeAll, ReadsTellAll
      <3>4. mine \in live /\ Agrees(held, objects[mine])
        BY <1>1, <1>2, <3>1, <3>2, <3>3 DEF TruthInv
      <3>5. /\ id \in live /\ objects[id][Key] = rpc.input[Key] /\ rpc.input[Key] # Null
        <4>1. id \in live /\ objects[id][Key] = rpc.input[Key]
          BY <3>1, NamedFacts DEF Updates
        <4> QED BY <1>1, <4>1, Distinct DEF TypeOK, live, Objects
      <3>6. \A a \in Attrs : HasValue(rpc.plan[a]) => a \in rt.inputs["update"] \/ rpc.plan[a] = held[a]
        <4>1. \A a \in rt.computed : rpc.plan[a] = Unknown \/ rpc.plan[a] = held[a]
          BY <1>2, <3>2, TypesTyped DEF Plans, Proposed
        <4> QED BY <2>3, <3>3, <4>1, Distinct DEF SilentUpdatesTakeAll, HasValue
      <3>7. HasValue(rpc.plan[Key]) /\ rpc.input[Key] = rpc.plan[Key]
        BY <1>2, <3>1, <3>2, <3>5, SentFacts, TypesTyped, Distinct
      <3>8. rpc.plan[Key] = held[Key]
        <4>1. rpc.plan[Key] \in Proposed(Key)
          BY <3>2, Distinct DEF Plans
        <4> QED BY <3>2, <3>7, <4>1, Distinct DEF Proposed, HasValue
      <3>9. id = mine
        <4>1. objects[mine][Key] = rpc.input[Key]
          BY <1>2, <3>4, <3>7, <3>8, ShowsFacts DEF Agrees
        <4> QED BY <1>1, <3>4, <3>5, <4>1 DEF WorldInv
      <3>10. ASSUME NEW a \in Attrs \ rt.garbled, HasValue(rpc.plan[a])
             PROVE  Shows(a, objects'[id][a], rpc.plan[a])
        <4>1. objects'[id][a] = IF rpc.input[a] # Null THEN rpc.input[a] ELSE objects[id][a]
          BY <1>1, <1>2, <3>1, UpdateFacts
        <4>2. rpc.input[a] # Null => rpc.input[a] = rpc.plan[a]
          BY <1>2, <3>1, <3>2, SentFacts
        <4>3. a \in rt.inputs["update"] => rpc.input[a] # Null
          BY <1>2, <3>1, <3>2, <3>10, SentFacts, Distinct DEF HasValue
        <4>4. a \notin rt.inputs["update"] => Shows(a, objects[id][a], rpc.plan[a])
          BY <3>4, <3>6, <3>9, <3>10 DEF Agrees
        <4> QED BY <1>2, <4>1, <4>2, <4>3, <4>4, ShowsFacts
      <3> QED BY <3>10 DEF Agrees
    <2> QED BY <2>2, <2>3
  <1> QED BY <1>3, <1>9, <1>10, <1>11, <1>14, <1>15 DEF SmithyInv

LEMMA CallStepKeeps ==
    ASSUME SmithyInv, CallStep
    PROVE  SmithyInv'
  <1>1. TypeOK /\ WorldInv /\ HeldInv /\ CallInv
    BY DEF SmithyInv
  <1>2. /\ Calling /\ rpc.calling /\ UNCHANGED <<rt, held, mine>>
        /\ rpc.input \in Inputs /\ Op \in Ops
        /\ stale \in BOOLEAN /\ strays \in SUBSET Requests
    BY <1>1, RpcFields
       DEF CallStep, Reaches, Misses, Refused, Lost, Calling, TypeOK
  <1>3. ASSUME UNCHANGED <<objects, made>>
        PROVE  /\ objects' \in [Ids -> Objects \cup {None}] /\ made' \in IdOrNone
               /\ made <= made' /\ WorldInv' /\ KeepsNames /\ live' = live
    <2>1. WorldInv' /\ KeepsNames /\ live' = live
      BY <1>1, <1>3 DEF WorldInv, live, KeepsNames
    <2>2. made <= made
      BY <1>1, RpcFields
    <2> QED BY <1>1, <1>3, <2>1, <2>2 DEF TypeOK
  <1>4. CASE Reaches
    <2>1. CASE Inconclusive /\ stale' = (stale \/ Op # "read")
      <3>1. SameCall /\ reply' \in Replies /\ reply'.class \in {"none", "unclear"}
        BY <1>1, <1>2, <2>1, InconclusiveFacts
      <3>2. /\ objects' \in [Ids -> Objects \cup {None}] /\ made' \in IdOrNone /\ made <= made'
            /\ WorldInv' /\ KeepsNames /\ strays' = strays
        BY <1>1, <1>2, <1>4, PerformsFacts DEF Reaches
      <3>3. stale' \in BOOLEAN
        BY <2>1, Zenon
      <3>4. ~stale' => ~stale /\ Op = "read"
        BY <2>1
      <3>5. Op = "read" => objects' = objects
        BY <1>4 DEF Reaches, Performs
      <3> QED BY <1>2, <3>1, <3>2, <3>3, <3>4, <3>5, CallGoesOn
    <2> QED BY <1>2, <1>4, <2>1, ReachesKeeps DEF Reaches
  <1>5. CASE Misses
    <2>1. /\ UNCHANGED <<objects, made, strays, rpc, stale>>
          /\ rpc.input[Key] # Null /\ Named(rpc.input) = 0
          /\ reply' = OfClass(IF rt.missing404 THEN "notFound" ELSE "refused")
      BY <1>5 DEF Misses, OfClass
    <2>2. reply' \in Replies /\ reply'.class \in {"notFound", "refused"}
      <3>1. "notFound" \in Classes /\ "refused" \in Classes
        BY DEF Classes
      <3> QED BY <2>1, <3>1, OfClassReply
    <2>3. ASSUME rpc.kind \in {"read", "destroy"}
          PROVE  mine \notin live
      <3>1. held # None /\ rpc.plan = held /\ rpc.input \in Bound(rpc.kind, stateAsMap(held))
        BY <1>1, <1>2, <2>3 DEF CallInv
      <3>2. rt \in ResourceTypes /\ held \in States /\ rpc.kind \in Ops
        BY <1>1, <2>3, <3>1 DEF TypeOK, Ops
      <3>3. HasValue(held[Key]) /\ rpc.input[Key] = held[Key]
        BY <2>1, <3>1, <3>2, SentFacts, TypesTyped, Distinct
      <3>4. mine \in live => objects[mine][Key] = rpc.input[Key]
        BY <1>1, <3>1, <3>3 DEF HeldInv
      <3> QED BY <2>1, <3>4, NamedFacts
    <2>4. SameCall
      BY <1>1, <2>1, RpcFields DEF SameCall
    <2> QED BY <1>2, <1>3, <2>1, <2>2, <2>3, <2>4, CallGoesOn
  <1>6. CASE Refused
    <2>1. UNCHANGED <<objects, made, strays, rpc, stale>> /\ reply' = OfClass("refused")
      BY <1>6 DEF Refused, OfClass
    <2>2. reply' \in Replies /\ reply'.class = "refused"
      <3>1. "refused" \in Classes
        BY DEF Classes
      <3> QED BY <2>1, <3>1, OfClassReply
    <2>3. SameCall
      BY <1>1, <2>1, RpcFields DEF SameCall
    <2> QED BY <1>2, <1>3, <2>1, <2>2, <2>3, CallGoesOn
  <1>7. CASE Lost
    <2>1. SameCall /\ reply' \in Replies /\ reply'.class \in {"none", "unclear"}
      BY <1>1, <1>2, <1>7, InconclusiveFacts DEF Lost
    <2>2. UNCHANGED <<objects, made, stale>>
      BY <1>7 DEF Lost
    <2>3. strays' \in SUBSET Requests
      <3>1. [op |-> Op, input |-> rpc.input] \in Requests
        BY <1>2 DEF Requests
      <3> QED BY <1>2, <1>7, <3>1 DEF Lost
    <2> QED BY <1>2, <1>3, <2>1, <2>2, <2>3, CallGoesOn
  <1> QED BY <1>4, <1>5, <1>6, <1>7 DEF CallStep

\* A handler answers core: what holds whatever it answers.
LEMMA RespondKeeps ==
    ASSUME SmithyInv, rpc.calling, NEW outcome \in Outcomes,
           NEW state \in States \cup {None}, NEW id \in IdOrNone,
           Respond(outcome, state, id), stale' \in BOOLEAN,
           HeldInv', TruthInv'
    PROVE  SmithyInv'
  <1>1. TypeOK /\ WorldInv
    BY DEF SmithyInv
  <1>2. /\ rpc' = Ended(rpc.kind, outcome) /\ reply' = NoReply /\ held' = state /\ mine' = id
        /\ UNCHANGED <<rt, objects, made, strays>>
    BY DEF Respond, Ended
  <1>3. rpc' \in Rpcs /\ ~rpc'.calling /\ reply' \in Replies /\ reply'.class = "none"
    BY <1>1, <1>2, RpcFields, EndedRpc, NoReplyTyped
  <1>4. TypeOK'
    BY <1>1, <1>2, <1>3 DEF TypeOK
  <1>5. WorldInv'
    BY <1>1, <1>2 DEF WorldInv, live
  <1>6. CallInv' /\ ReplyInv'
    BY <1>3 DEF CallInv, ReplyInv
  <1> QED BY <1>4, <1>5, <1>6 DEF SmithyInv

LEMMA FailKeeps ==
    ASSUME SmithyInv, rpc.calling, NEW outcome \in Outcomes, Fail(outcome)
    PROVE  SmithyInv'
  <1>1. /\ TypeOK /\ HeldInv /\ Respond(outcome, held, mine) /\ stale' = TRUE
        /\ held' = held /\ mine' = mine /\ UNCHANGED <<objects, made>>
    BY DEF SmithyInv, Fail, Respond
  <1>2. HeldInv' /\ TruthInv'
    BY <1>1 DEF HeldInv, live, HasValue, TruthInv
  <1>3. held \in States \cup {None} /\ mine \in IdOrNone /\ stale' \in BOOLEAN
    BY <1>1 DEF TypeOK
  <1> QED BY <1>1, <1>2, <1>3, RespondKeeps

LEMMA ForgetKeeps ==
    ASSUME SmithyInv, rpc.calling, Forget
    PROVE  SmithyInv'
  <1>1. /\ TypeOK /\ Respond("empty", None, 0) /\ stale' = FALSE
        /\ held' = None /\ mine' = 0 /\ reply' = NoReply /\ made' = made
    BY DEF SmithyInv, Forget, Respond
  <1>2. HeldInv' /\ TruthInv'
    BY <1>1, NoReplyTyped, RpcFields DEF HeldInv, TruthInv
  <1>3. "empty" \in Outcomes /\ 0 \in IdOrNone /\ stale' \in BOOLEAN
    BY <1>1, RpcFields DEF Outcomes
  <1> QED BY <1>1, <1>2, <1>3, RespondKeeps

LEMMA TellKeeps ==
    ASSUME SmithyInv, rpc.calling, reply.class = "ok", rpc.kind # "destroy",
           NEW state \in States, Tell(state),
           HasValue(state[Key]) => reply.object[Key] = state[Key],
           Tells /\ ~stale => Agrees(state, reply.object)
    PROVE  SmithyInv'
  <1>1. /\ TypeOK /\ ReplyInv /\ TruthInv
        /\ Respond("state", state, reply.id) /\ stale' = stale
        /\ held' = state /\ mine' = reply.id /\ reply' = NoReply
        /\ UNCHANGED <<rt, objects, made>>
    BY DEF SmithyInv, Tell, Respond
  <1>2. ShownInv /\ reply.id # 0 /\ reply.id <= made /\ live' = live
    BY <1>1 DEF ReplyInv, live
  <1>3. HeldInv'
    <2>1. state # None
      BY Distinct
    <2> QED BY <1>1, <1>2, <2>1 DEF HeldInv, ShownInv, HasValue
  <1>4. TruthInv'
    <2>1. SUFFICES ASSUME ~stale', Tells'
                   PROVE  reply.id \in live /\ Agrees(state, objects[reply.id])
      BY <1>1, <1>2, NoReplyTyped DEF TruthInv, Agrees, Shows, ReadAs
    <2>2. ~stale /\ Tells
      BY <1>1, <2>1 DEF Tells, SilentUpdatesTakeAll, ReadsTellAll
    <2> QED BY <1>1, <2>2 DEF TruthInv
  <1>5. "state" \in Outcomes /\ reply.id \in IdOrNone /\ stale' \in BOOLEAN
    BY <1>1, RpcFields DEF Outcomes, TypeOK
  <1> QED BY <1>1, <1>3, <1>4, <1>5, RespondKeeps

\* What the answer to a write shows is what was planned, where it was sent.
LEMMA ShowsThePlan ==
    ASSUME SmithyInv, rpc.calling, reply.class = "ok", rpc.kind \in {"create", "update"}
    PROVE  \A a \in rt.inputs[rpc.kind] \ rt.garbled :
               HasValue(rpc.plan[a]) => reply.object[a] = rpc.plan[a]
  <1>1. ShownInv /\ rpc.input \in Bound(rpc.kind, stateAsMap(rpc.plan))
    BY DEF SmithyInv, ReplyInv, CallInv
  <1>2. rt \in ResourceTypes /\ rpc.plan \in States /\ rpc.kind \in Ops
    BY RpcFields DEF SmithyInv, TypeOK, Ops
  <1>3. ASSUME NEW a \in rt.inputs[rpc.kind] \ rt.garbled, HasValue(rpc.plan[a])
        PROVE  reply.object[a] = rpc.plan[a]
    <2>1. a \in Attrs
      BY <1>2, TypesTyped
    <2>2. rpc.input[a] = rpc.plan[a] /\ rpc.input[a] # Null
      BY <1>1, <1>2, <1>3, <2>1, SentFacts, Distinct DEF HasValue
    <2> QED BY <1>1, <2>1, <2>2 DEF ShownInv
  <1> QED BY <1>3

LEMMA CreateDoneKeeps ==
    ASSUME SmithyInv, CreateDone
    PROVE  SmithyInv'
  <1>1. /\ TypeOK /\ rpc.calling /\ rpc.kind = "create" /\ reply.class = "ok"
        /\ rpc.plan \in States
    BY RpcFields DEF SmithyInv, CreateDone, Answered
  <1>2. \A a \in rt.inputs["create"] \ rt.garbled :
            HasValue(rpc.plan[a]) => reply.object[a] = rpc.plan[a]
    BY <1>1, ShowsThePlan
  <1>3. reply.object \in Objects /\ rt \in ResourceTypes
    BY <1>1 DEF SmithyInv, ReplyInv, ShownInv, TypeOK
  <1>4. ASSUME NEW fresh \in FromJSON("create", reply.object),
               Tell(mergeCarryForward(fresh, rpc.plan, InputMemberNames("create")))
        PROVE  SmithyInv'
    <2> DEFINE state == mergeCarryForward(fresh, rpc.plan, InputMemberNames("create"))
    <2>1. /\ fresh \in States
          /\ \A a \in Attrs : fresh[a] \in ReadAs(a, reply.object[a]) \/ fresh[a] = Null
      BY <1>3, FromJSONFacts DEF Ops
    <2>2. /\ state \in States
          /\ \A a \in Attrs : \/ state[a] = fresh[a]
                              \/ a \in rt.inputs["create"] /\ state[a] = rpc.plan[a]
      BY <1>1, <2>1, MergeFacts DEF InputMemberNames
    <2>3. Tell(state)
      BY <1>4
    <2> HIDE DEF state
    <2>4. Agrees(state, reply.object)
      BY <1>2, <1>3, <2>1, <2>2, ShowsFacts, Distinct DEF Agrees, HasValue
    <2>5. HasValue(state[Key]) => reply.object[Key] = state[Key]
      BY <1>3, <2>4, ShowsFacts DEF Agrees
    <2> QED BY <1>1, <2>2, <2>3, <2>4, <2>5, TellKeeps
  <1>5. CASE MergesWithNull(InputMemberNames("create")) /\ Tell(rpc.plan)
    <2>1. Agrees(rpc.plan, reply.object)
      BY <1>2, <1>3, <1>5, ShowsFacts DEF Agrees, MergesWithNull, InputMemberNames
    <2>2. HasValue(rpc.plan[Key]) => reply.object[Key] = rpc.plan[Key]
      BY <1>3, <2>1, ShowsFacts DEF Agrees
    <2> QED BY <1>1, <1>5, <2>1, <2>2, TellKeeps
  <1>6. CASE Fail("panic")
    <2>1. "panic" \in Outcomes
      BY DEF Outcomes
    <2> QED BY <1>1, <1>6, <2>1, FailKeeps
  <1> QED BY <1>4, <1>5, <1>6 DEF CreateDone

LEMMA UpdateDoneKeeps ==
    ASSUME SmithyInv, UpdateDone
    PROVE  SmithyInv'
  <1>1. /\ TypeOK /\ rpc.calling /\ rpc.kind = "update" /\ reply.class = "ok"
        /\ rpc.plan \in States /\ rt \in ResourceTypes
    BY RpcFields DEF SmithyInv, TypeOK, UpdateDone, Answered
  <1>2. \A a \in rt.inputs["update"] \ rt.garbled :
            HasValue(rpc.plan[a]) => reply.object[a] = rpc.plan[a]
    BY <1>1, ShowsThePlan
  <1>3. reply.object \in Objects /\ Key \in rt.inputs["update"]
    BY <1>1, TypesTyped DEF SmithyInv, ReplyInv, ShownInv, Ops
  <1>4. PICK fresh \in IF "update" \in rt.silent THEN {rpc.plan}
                       ELSE FromJSON("update", reply.object) :
                Tell(mergeCarryForward(fresh, rpc.plan, InputMemberNames("update")))
    BY DEF UpdateDone
  <1> DEFINE state == mergeCarryForward(fresh, rpc.plan, InputMemberNames("update"))
  <1>5. /\ fresh \in States
        /\ "update" \notin rt.silent =>
              \A a \in Attrs : fresh[a] \in ReadAs(a, reply.object[a]) \/ fresh[a] = Null
        /\ "update" \in rt.silent => fresh = rpc.plan
    BY <1>1, <1>3, FromJSONFacts DEF Ops
  <1>6. /\ state \in States /\ Tell(state)
        /\ \A a \in Attrs : \/ state[a] = fresh[a]
                            \/ a \in rt.inputs["update"] /\ state[a] = rpc.plan[a]
    BY <1>1, <1>4, <1>5, MergeFacts DEF InputMemberNames
  <1> HIDE DEF state
  <1>7. HasValue(state[Key]) => reply.object[Key] = state[Key]
    <2>1. HasValue(rpc.plan[Key]) => reply.object[Key] = rpc.plan[Key]
      BY <1>1, <1>2, <1>3, ShowsFacts
    <2>2. fresh[Key] \in ReadAs(Key, reply.object[Key]) => fresh[Key] = reply.object[Key]
      BY <1>1, ShowsFacts
    <2> QED BY <1>5, <1>6, <2>1, <2>2, Distinct DEF HasValue
  <1>8. ASSUME Tells, ~stale
        PROVE  Agrees(state, reply.object)
    <2>1. "update" \in rt.silent => Agrees(rpc.plan, reply.object)
      BY <1>1, <1>8 DEF SmithyInv, TruthInv
    <2> QED BY <1>1, <1>2, <1>5, <1>6, <2>1, ShowsFacts, Distinct DEF Agrees, HasValue
  <1> QED BY <1>1, <1>6, <1>7, <1>8, TellKeeps

LEMMA ReadDoneKeeps ==
    ASSUME SmithyInv, ReadDone
    PROVE  SmithyInv'
  <1>1. /\ TypeOK /\ rpc.calling /\ rpc.kind = "read" /\ reply.class = "ok"
        /\ rpc.plan \in States /\ rt \in ResourceTypes
    BY RpcFields DEF SmithyInv, TypeOK, ReadDone, Answered
  <1>2. ShownInv /\ reply.object \in Objects /\ Key \in rt.inputs["read"]
    BY <1>1, TypesTyped DEF SmithyInv, ReplyInv, ShownInv, Ops
  <1>3. HasValue(rpc.plan[Key]) => reply.object[Key] = rpc.plan[Key]
    <2>1. rpc.input \in Bound("read", stateAsMap(rpc.plan))
      BY <1>1 DEF SmithyInv, CallInv
    <2>2. HasValue(rpc.plan[Key]) => rpc.input[Key] = rpc.plan[Key] /\ rpc.input[Key] # Null
      BY <1>1, <1>2, <2>1, SentFacts, TypesTyped, Distinct DEF HasValue, Ops
    <2> QED BY <1>2, <2>2, Distinct DEF ShownInv
  <1>4. PICK fresh \in FromJSON("read", reply.object) :
            Tell(mergeCarryForward(fresh, rpc.plan, InputMemberNames("read")))
    BY DEF ReadDone
  <1> DEFINE state == mergeCarryForward(fresh, rpc.plan, InputMemberNames("read"))
  <1>5. /\ fresh \in States
        /\ \A a \in Attrs : /\ a \in rt.answers["read"] => fresh[a] # Null
                            /\ fresh[a] \in ReadAs(a, reply.object[a]) \/ fresh[a] = Null
    BY <1>2, FromJSONFacts DEF Ops
  <1>6. /\ state \in States /\ Tell(state)
        /\ \A a \in Attrs : \/ state[a] = fresh[a]
                            \/ a \in rt.inputs["read"] /\ fresh[a] = Null /\ state[a] = rpc.plan[a]
    BY <1>1, <1>4, <1>5, MergeFacts DEF InputMemberNames
  <1> HIDE DEF state
  <1>7. HasValue(state[Key]) => reply.object[Key] = state[Key]
    <2>1. fresh[Key] \in ReadAs(Key, reply.object[Key]) => fresh[Key] = reply.object[Key]
      BY <1>1, ShowsFacts
    <2> QED BY <1>3, <1>5, <1>6, <2>1, Distinct DEF HasValue
  <1>8. ASSUME Tells, ~stale
        PROVE  Agrees(state, reply.object)
    <2>1. \A a \in Attrs : a \in rt.inputs["read"] /\ a # Key => a \in rt.answers["read"]
      BY <1>8 DEF Tells, ReadsTellAll
    <2>2. ASSUME NEW a \in Attrs, HasValue(state[a])
          PROVE  Shows(a, reply.object[a], state[a])
      BY <1>1, <1>5, <1>6, <1>7, <2>1, <2>2, ShowsFacts, Distinct DEF HasValue
    <2> QED BY <2>2 DEF Agrees
  <1> QED BY <1>1, <1>6, <1>7, <1>8, TellKeeps

LEMMA ImportDoneKeeps ==
    ASSUME SmithyInv, ImportDone
    PROVE  SmithyInv'
  <1>1. TypeOK /\ rpc.calling /\ rpc.kind = "import" /\ reply.class = "ok"
    BY DEF SmithyInv, ImportDone, Answered
  <1>2. reply.object \in Objects
    BY <1>1 DEF SmithyInv, ReplyInv, ShownInv
  <1>3. PICK state \in FromJSON("read", reply.object) : Tell(state)
    BY DEF ImportDone
  <1>4. /\ state \in States
        /\ \A a \in Attrs : state[a] \in ReadAs(a, reply.object[a]) \/ state[a] = Null
    BY <1>2, FromJSONFacts DEF Ops
  <1>5. rt \in ResourceTypes
    BY <1>1 DEF TypeOK
  <1>6. Agrees(state, reply.object)
    BY <1>4, <1>5, ShowsFacts, Distinct DEF Agrees, HasValue
  <1>7. HasValue(state[Key]) => reply.object[Key] = state[Key]
    BY <1>5, <1>6, ShowsFacts DEF Agrees
  <1> QED BY <1>1, <1>3, <1>4, <1>6, <1>7, TellKeeps

LEMMA HandlerKeeps ==
    ASSUME SmithyInv, HandlerStep
    PROVE  SmithyInv'
  <1>1. {"diag", "error"} \subseteq Outcomes
    BY DEF Outcomes
  <1>2. reply.class # "none" => rpc.calling
    BY DEF SmithyInv, ReplyInv
  <1>3. CASE classifyError
    BY <1>1, <1>2, <1>3, FailKeeps DEF classifyError
  <1>4. CASE NotFound
    BY <1>1, <1>2, <1>4, FailKeeps, ForgetKeeps DEF NotFound
  <1>5. CASE Undecodable
    BY <1>1, <1>5, FailKeeps DEF Undecodable
  <1>6. CASE DestroyDone
    BY <1>6, ForgetKeeps DEF DestroyDone, Answered
  <1> QED BY <1>3, <1>4, <1>5, <1>6, CreateDoneKeeps, UpdateDoneKeeps, ReadDoneKeeps,
             ImportDoneKeeps DEF HandlerStep

LEMMA NextKeepsSmithyInv == SmithyInv /\ [Next]_vars => SmithyInv'
  <1> SUFFICES ASSUME SmithyInv, [Next]_vars PROVE SmithyInv'
    OBVIOUS
  <1>1. CASE UNCHANGED vars
    <2>1. UNCHANGED <<live, Plans, Tells>>
      BY <1>1 DEF vars, live, Plans, Proposed, Tells, SilentUpdatesTakeAll, ReadsTellAll
    <2>2. \A op, s : Bound(op, stateAsMap(s))' = Bound(op, stateAsMap(s))
      BY <1>1 DEF vars, Bound, Arriving, Given, InputMemberNames, stateAsMap, HasValue
    <2> QED BY <1>1, <2>1, <2>2
            DEF vars, SmithyInv, TypeOK, WorldInv, HeldInv, CallInv, ReplyInv, ShownInv,
                TruthInv, Agrees, Shows, ReadAs, HasValue
  <1> QED BY <1>1, CoreCallsKeep, CallStepKeeps, HandlerKeeps, StrayLandsKeeps, ElsewhereKeeps
          DEF Next

(***************************************************************************)
(* What always holds                                                       *)
(***************************************************************************)

\* The invariant holds throughout.
THEOREM SmithyInvariant == Spec => []SmithyInv
  <1> QED BY InitSmithyInv, NextKeepsSmithyInv, PTL DEF Spec

\* Every state is of its type: what core is given are states of the schema,
\* and what is sent are values.
THEOREM SmithyTypeCorrect == Spec => []TypeOK
  <1>1. SmithyInv => TypeOK
    BY DEF SmithyInv
  <1> QED BY <1>1, SmithyInvariant, PTL

\* What is recorded is what the API has, until somebody touches the object.
THEOREM StatesAreTrue == Spec => []StateIsTrue
  <1>1. SmithyInv => StateIsTrue
    <2> SUFFICES ASSUME SmithyInv, held # None, ~rpc.calling, ~stale, Tells
                 PROVE  /\ mine \in live
                        /\ \A a \in Attrs \ rt.garbled :
                              HasValue(held[a]) => Shows(a, objects[mine][a], held[a])
      BY DEF StateIsTrue, Tells
    <2>1. TruthInv /\ reply.class = "none"
      BY RpcFields DEF SmithyInv, ReplyInv
    <2> QED BY <2>1 DEF TruthInv, Agrees, Shows, ReadAs
  <1> QED BY <1>1, SmithyInvariant, PTL

(***************************************************************************)
(* Writes                                                                  *)
(***************************************************************************)

\* The state a write is answered with has the planned values that were sent.
LEMMA RecordsThePlan ==
    ASSUME SmithyInv, NEW kind \in {"create", "update"}, Answered(kind),
           CreateDone \/ UpdateDone, rpc'.outcome = "state"
    PROVE  \A a \in rt.inputs[kind] \ rt.garbled : HasValue(rpc.plan[a]) =>
               reply.object[a] = rpc.plan[a] /\ Shows(a, rpc.plan[a], held'[a])
  <1>1. /\ TypeOK /\ rpc.calling /\ rpc.kind = kind /\ reply.class = "ok"
        /\ rpc.plan \in States /\ rt \in ResourceTypes /\ kind \in Ops
    BY RpcFields DEF SmithyInv, TypeOK, Answered, Ops
  <1>2. \A a \in rt.inputs[kind] \ rt.garbled :
            HasValue(rpc.plan[a]) => reply.object[a] = rpc.plan[a]
    BY <1>1, ShowsThePlan
  <1>3. reply.object \in Objects
    BY <1>1 DEF SmithyInv, ReplyInv, ShownInv
  <1>4. PICK fresh \in {rpc.plan} \cup FromJSON(kind, reply.object) :
            \/ held' = rpc.plan
            \/ held' = mergeCarryForward(fresh, rpc.plan, rt.inputs[kind])
    <2>1. ~Fail("panic")
      <3>1. SUFFICES ASSUME Fail("panic") PROVE FALSE
        OBVIOUS
      <3>2. rpc' = Ended(rpc.kind, "panic") /\ rpc.kind \in Kinds /\ "panic" \in Outcomes
        BY <1>1, <3>1, RpcFields DEF Fail, Respond, Ended, Outcomes
      <3> QED BY <3>2, EndedRpc
    <2>2. CASE CreateDone
      BY <1>1, <2>1, <2>2 DEF CreateDone, Answered, Tell, Respond, InputMemberNames
    <2>3. CASE UpdateDone
      BY <1>1, <2>3 DEF UpdateDone, Answered, Tell, Respond, InputMemberNames
    <2> QED BY <2>2, <2>3
  <1>5. /\ fresh \in States
        /\ \/ fresh = rpc.plan
           \/ \A a \in Attrs : fresh[a] \in ReadAs(a, reply.object[a]) \/ fresh[a] = Null
    BY <1>1, <1>3, FromJSONFacts
  <1>6. ASSUME NEW a \in rt.inputs[kind] \ rt.garbled, HasValue(rpc.plan[a])
        PROVE  Shows(a, rpc.plan[a], held'[a])
    <2>1. a \in Attrs
      BY <1>1, TypesTyped
    <2>2. held'[a] = rpc.plan[a] \/ (held'[a] = fresh[a] /\ fresh[a] # Null)
      BY <1>1, <1>4, <1>5, <1>6, <2>1, MergeFacts
    <2>3. fresh[a] # Null => Shows(a, rpc.plan[a], fresh[a])
      BY <1>1, <1>2, <1>5, <1>6, <2>1, ShowsFacts
    <2> QED BY <1>1, <2>2, <2>3, ShowsFacts
  <1> QED BY <1>2, <1>6

\* Nothing but its handler answers a write with a state.
LEMMA OnlyDoneTells ==
    ASSUME SmithyInv, Next, NEW kind \in {"create", "update"}, Answered(kind),
           rpc'.outcome = "state"
    PROVE  CreateDone \/ UpdateDone
  <1>1. /\ TypeOK /\ rpc.calling /\ rpc.kind = kind /\ reply.class = "ok"
        /\ rpc.outcome = "none"
    BY DEF SmithyInv, CallInv, Answered
  <1>2. ~CoreCalls
    BY <1>1 DEF CoreCalls, applyCreate, applyUpdate, applyDestroy, ReadResource,
                ImportResourceState, RefuseUnsent, MayAsk
  <1>3. ~CallStep
    BY <1>1 DEF CallStep, Reaches, Misses, Refused, Lost, Calling
  <1>4. ~StrayLands /\ ~Elsewhere
    BY <1>1 DEF StrayLands, Elsewhere
  <1>5. ~classifyError /\ ~NotFound /\ ~DestroyDone /\ ~ReadDone /\ ~ImportDone
    BY <1>1 DEF classifyError, NotFound, DestroyDone, ReadDone, ImportDone, Answered
  <1>6. ~Undecodable
    <2>1. SUFFICES ASSUME Undecodable PROVE FALSE
      OBVIOUS
    <2>2. rpc' = Ended(rpc.kind, "diag") /\ rpc.kind \in Kinds /\ "diag" \in Outcomes
      BY <1>1, <2>1, RpcFields DEF Undecodable, Fail, Respond, Ended, Outcomes
    <2> QED BY <2>2, EndedRpc
  <1> QED BY <1>2, <1>3, <1>4, <1>5, <1>6 DEF Next, HandlerStep

\* A write answered with a state was carried out as planned.
THEOREM WritesGoOutAsPlanned == Spec => WrittenAsPlanned
  <1>1. SmithyInv /\ [Next]_vars =>
          [\A kind \in {"create", "update"} :
             Answered(kind) /\ rpc'.outcome = "state" =>
               \A a \in rt.inputs[kind] \ rt.garbled : HasValue(rpc.plan[a]) =>
                   /\ reply.object[a] = rpc.plan[a]
                   /\ Shows(a, rpc.plan[a], held'[a])]_vars
    BY OnlyDoneTells, RecordsThePlan
  <1> QED BY <1>1, SmithyInvariant, PTL DEF Spec, WrittenAsPlanned

(***************************************************************************)
(* Every step is a step of LifecycleContract                               *)
(***************************************************************************)
Busy == IF rpc.calling THEN rpc.kind ELSE "none"

CreateOutstanding ==
    \/ rpc.calling /\ rpc.kind = "create"
    \/ \E s \in strays : s.op = "create"

LEMMA OutstandingMaps ==
    ASSUME CreateOutstanding' => CreateOutstanding \/ Busy' = "create"
    PROVE  Contract!Outstanding
  BY DEF Contract!Outstanding, CreateOutstanding, Busy

\* Nothing the contract sees changes, but that a create may be over.
LEMMA QuietMaps ==
    ASSUME UNCHANGED <<live, made, mine, Busy>>, CreateOutstanding' => CreateOutstanding
    PROVE  Contract!Next
  BY OutstandingMaps DEF Contract!Next, Contract!Settles, Busy

\* What the API performs is an object that appears, or one that goes.
LEMMA PerformsMaps ==
    ASSUME SmithyInv, NEW op \in Ops, NEW input \in Inputs,
           Performs(op, input) \/ UNCHANGED <<objects, made>>,
           op = "create" => CreateOutstanding,
           UNCHANGED <<mine, Busy>>, CreateOutstanding' => CreateOutstanding
    PROVE  Contract!Next
  <1>1. TypeOK /\ WorldInv /\ Contract!Outstanding
    BY OutstandingMaps DEF SmithyInv
  <1>2. CASE op = "create" /\ Creates(input)
    <2>1. made' = made + 1 /\ live' = live \cup {made + 1}
      BY <1>1, <1>2, CreateFacts
    <2> QED BY <1>1, <1>2, <2>1
            DEF Contract!Next, Contract!ObjectAppears, Busy, CreateOutstanding
  <1>3. CASE Updates(input)
    BY <1>1, <1>3, UpdateFacts, QuietMaps
  <1>4. CASE Destroys(input)
    <2>1. Named(input) \in live /\ live' = live \ {Named(input)} /\ made' = made
      BY <1>1, <1>4, NamedFacts, DeleteFacts DEF Destroys
    <2> QED BY <1>1, <2>1 DEF Contract!Next, Contract!ObjectGoes, Busy
  <1>5. CASE UNCHANGED <<objects, made>>
    <2>1. live' = live
      BY <1>5 DEF live
    <2> QED BY <1>5, <2>1, QuietMaps
  <1> QED BY <1>2, <1>3, <1>4, <1>5 DEF Performs

LEMMA CallMaps ==
    ASSUME SmithyInv, CallStep
    PROVE  Contract!Next
  <1>1. /\ TypeOK /\ Calling /\ rpc.calling /\ mine' = mine
        /\ Op \in Ops /\ rpc.input \in Inputs
    BY RpcFields DEF SmithyInv, CallStep, Reaches, Misses, Refused, Lost, Calling
  <1>2. /\ rpc'.calling = rpc.calling /\ rpc'.kind = rpc.kind
    BY <1>1, InconclusiveFacts
       DEF CallStep, Reaches, Misses, Refused, Lost, SameCall
  <1>3. Op = "create" <=> rpc.kind = "create"
    BY DEF Op
  <1>4. CreateOutstanding' => CreateOutstanding
    <2>1. strays' \subseteq strays \cup {[op |-> Op, input |-> rpc.input]}
      BY DEF CallStep, Reaches, Misses, Refused, Lost
    <2>2. [op |-> Op, input |-> rpc.input].op = Op
      OBVIOUS
    <2> QED BY <1>1, <1>2, <1>3, <2>1, <2>2 DEF CreateOutstanding
  <1>5. Performs(Op, rpc.input) \/ UNCHANGED <<objects, made>>
    BY DEF CallStep, Reaches, Misses, Refused, Lost
  <1>6. Op = "create" => CreateOutstanding
    BY <1>1, <1>3 DEF CreateOutstanding
  <1> QED BY <1>1, <1>2, <1>4, <1>5, <1>6, PerformsMaps DEF Busy

LEMMA WorldMaps ==
    ASSUME SmithyInv, StrayLands \/ Elsewhere
    PROVE  Contract!Next
  <1>1. /\ TypeOK /\ WorldInv /\ objects \in [Ids -> Objects \cup {None}]
        /\ UNCHANGED <<rpc, mine, Busy>>
    BY DEF SmithyInv, TypeOK, StrayLands, Elsewhere, Busy
  <1>2. CreateOutstanding' => CreateOutstanding
    BY <1>1 DEF CreateOutstanding, StrayLands, Elsewhere
  <1>3. CASE StrayLands
    <2>1. SUFFICES ASSUME NEW s \in strays,
                          Performs(s.op, s.input) \/ UNCHANGED <<objects, made>>
                   PROVE  Contract!Next
      BY <1>3 DEF StrayLands
    <2>2. s.op \in Ops /\ s.input \in Inputs /\ (s.op = "create" => CreateOutstanding)
      BY <1>1 DEF TypeOK, Requests, CreateOutstanding
    <2> QED BY <1>1, <1>2, <2>1, <2>2, PerformsMaps
  <1>4. CASE Elsewhere
    <2>1. CASE \E i \in live, a \in Attrs \ {Key}, v \in Values :
                  objects' = [objects EXCEPT ![i][a] = v]
      <3>1. SUFFICES ASSUME NEW i \in live, NEW a \in Attrs \ {Key}, NEW v \in Values,
                            objects' = [objects EXCEPT ![i] = [objects[i] EXCEPT ![a] = v]]
                     PROVE  Contract!Next
        BY <2>1
      <3>2. i \in Ids /\ objects[i] \in Objects
        BY <1>1 DEF live
      <3>3. [objects[i] EXCEPT ![a] = v] \in Objects
        BY <3>2 DEF Objects
      <3>4. live' = live /\ made' = made
        BY <1>1, <1>4, <2>1, <3>1, <3>2, <3>3, Distinct DEF live, Elsewhere
      <3> QED BY <1>1, <1>2, <3>4, QuietMaps
    <2>2. CASE \E i \in live : objects' = [objects EXCEPT ![i] = None] /\ made' = made
      <3>1. SUFFICES ASSUME NEW i \in live, objects' = [objects EXCEPT ![i] = None], made' = made
                     PROVE  Contract!Next
        BY <2>2
      <3>2. live' = live \ {i}
        BY <1>1, <3>1, DeleteFacts
      <3>3. Contract!Outstanding
        BY <1>2, OutstandingMaps
      <3> QED BY <1>1, <3>1, <3>2, <3>3 DEF Contract!Next, Contract!ObjectGoes, Busy
    <2> QED BY <1>4, <2>1, <2>2 DEF Elsewhere
  <1> QED BY <1>3, <1>4

\* What core is told of the object it holds.
LEMMA RespondMaps ==
    ASSUME SmithyInv, rpc.calling, NEW outcome \in Outcomes, NEW state, NEW id,
           Respond(outcome, state, id),
           \/ id = mine
           \/ rpc.kind # "destroy" /\ id \in 1..made
           \/ rpc.kind \in {"destroy", "read"} /\ id = 0 /\ mine \notin live
    PROVE  Contract!Next
  <1>1. /\ rpc' = Ended(rpc.kind, outcome) /\ mine' = id
        /\ UNCHANGED <<live, made, strays>>
    BY DEF Respond, Ended, live
  <1>2. rpc.kind \in Kinds /\ ~rpc'.calling
    BY <1>1, RpcFields, EndedRpc DEF SmithyInv
  <1>3. Busy = rpc.kind /\ Busy' = "none" /\ Busy \in Contract!Asks /\ Busy # "none"
    BY <1>2 DEF Busy, Kinds, Ops, Contract!Asks
  <1>4. Contract!Outstanding
    BY <1>1, <1>2, OutstandingMaps DEF CreateOutstanding
  <1>5. CASE id = mine
    BY <1>1, <1>3, <1>4, <1>5 DEF Contract!Next, Contract!AnswerFailure, Busy
  <1>6. CASE rpc.kind # "destroy" /\ id \in 1..made
    BY <1>1, <1>3, <1>4, <1>6 DEF Contract!Next, Contract!AnswerState, Busy
  <1>7. CASE rpc.kind \in {"destroy", "read"} /\ id = 0 /\ mine \notin live
    BY <1>1, <1>3, <1>4, <1>7 DEF Contract!Next, Contract!AnswerGone, Busy
  <1> QED BY <1>5, <1>6, <1>7

LEMMA HandlerMaps ==
    ASSUME SmithyInv, HandlerStep
    PROVE  Contract!Next
  <1>1. TypeOK /\ ReplyInv /\ (reply.class # "none" => rpc.calling)
    BY DEF SmithyInv, ReplyInv
  <1>2. {"diag", "error", "panic", "state", "empty"} \subseteq Outcomes
    BY DEF Outcomes
  <1>3. ASSUME NEW outcome \in {"diag", "error", "panic"}, Fail(outcome), rpc.calling
        PROVE  Contract!Next
    BY <1>2, <1>3, RespondMaps DEF Fail
  <1>4. ASSUME NEW state, Tell(state), reply.class = "ok", rpc.kind # "destroy"
        PROVE  Contract!Next
    <2>1. reply.id \in 1..made
      BY <1>1, <1>4, RpcFields DEF ReplyInv
    <2> QED BY <1>1, <1>2, <1>4, <2>1, RespondMaps DEF Tell
  <1>5. ASSUME Forget, rpc.kind \in {"destroy", "read"}, rpc.calling, mine \notin live
        PROVE  Contract!Next
    BY <1>2, <1>5, RespondMaps DEF Forget
  <1>6. CASE classifyError \/ Undecodable
    BY <1>1, <1>3, <1>6 DEF classifyError, Undecodable
  <1>7. CASE NotFound
    BY <1>1, <1>3, <1>5, <1>7 DEF NotFound, ReplyInv
  <1>8. CASE DestroyDone
    BY <1>1, <1>5, <1>8 DEF DestroyDone, Answered, ReplyInv
  <1>9. CASE CreateDone
    BY <1>3, <1>4, <1>9 DEF CreateDone, Answered
  <1>10. CASE UpdateDone
    BY <1>4, <1>10 DEF UpdateDone, Answered
  <1>11. CASE ReadDone \/ ImportDone
    BY <1>4, <1>11 DEF ReadDone, ImportDone, Answered
  <1> QED BY <1>6, <1>7, <1>8, <1>9, <1>10, <1>11 DEF HandlerStep

LEMMA CoreMaps ==
    ASSUME SmithyInv, CoreCalls
    PROVE  Contract!Next
  <1>1. /\ TypeOK /\ HeldInv /\ ~rpc.calling
        /\ UNCHANGED <<live, made, strays, mine>>
    BY DEF SmithyInv, CoreCalls, applyCreate, applyUpdate, applyDestroy, ReadResource,
           ImportResourceState, RefuseUnsent, MayAsk, Begin, live
  <1>2. SUFFICES ASSUME NEW kind \in Kinds, MayAsk(kind),
                        \/ ~rpc'.calling
                        \/ rpc'.calling /\ rpc'.kind = kind
                 PROVE  Contract!Next
    <2>1. SUFFICES ASSUME NEW kind \in Kinds, MayAsk(kind),
                          \/ rpc' = Ended(kind, "diag")
                          \/ \E op \in Ops : \E plan, m : Begin(kind, op, plan, m)
                   PROVE  \E k \in Kinds : MayAsk(k) /\ (rpc'.calling => rpc'.kind = k)
      BY DEF CoreCalls, applyCreate, applyUpdate, applyDestroy, ReadResource,
             ImportResourceState, RefuseUnsent, Ended, Ops, Kinds
    <2>2. {"diag", "error"} \subseteq Outcomes
      BY DEF Outcomes
    <2>3. CASE rpc' = Ended(kind, "diag")
      BY <2>1, <2>2, <2>3, EndedRpc
    <2>4. ASSUME NEW op \in Ops, NEW plan, NEW m, Begin(kind, op, plan, m)
          PROVE  rpc'.calling => rpc'.kind = kind
      <3>1. CASE rpc' = Ended(kind, "error")
        BY <2>2, <3>1, EndedRpc
      <3>2. ASSUME NEW input \in Bound(op, m),
                   rpc' = [kind |-> kind, calling |-> TRUE, plan |-> plan,
                           input |-> input, tries |-> 1, outcome |-> "none"]
            PROVE  rpc'.kind = kind
        BY <3>2
      <3> QED BY <2>4, <3>1, <3>2 DEF Begin, Ended
    <2> QED BY <2>1, <2>3, <2>4
  <1>3. CASE ~rpc'.calling
    <2>1. CreateOutstanding' => CreateOutstanding
      BY <1>1, <1>3 DEF CreateOutstanding
    <2> QED BY <1>1, <1>3, <2>1, QuietMaps DEF Busy
  <1>4. CASE rpc'.calling /\ rpc'.kind = kind
    <2>1. Busy = "none" /\ Busy' = kind
      BY <1>1, <1>4 DEF Busy
    <2>2. CreateOutstanding' => CreateOutstanding \/ Busy' = "create"
      BY <1>1, <1>4, <2>1 DEF CreateOutstanding
    <2>3. Contract!Outstanding
      BY <2>2, OutstandingMaps
    <2>4. (mine = 0) <=> (kind \in {"create", "import"})
      BY <1>1, <1>2 DEF MayAsk, HeldInv
    <2>5. Contract!Ask(kind) /\ kind \in Contract!Asks
      BY <1>1, <2>1, <2>3, <2>4 DEF Contract!Ask, Contract!Asks, Kinds, Ops, Busy
    <2> QED BY <2>5 DEF Contract!Next
  <1> QED BY <1>2, <1>3, <1>4

\* Whatever the wire protocol, the server implements what the provider
\* promises core.
THEOREM SmithyKeepsContract == Spec => KeepsContract
  <1>1. Init => Contract!Init
    BY DEF Init, NoRpc, live, Contract!Init
  <1>2. SmithyInv /\ [Next]_vars => [Contract!Next]_(Contract!contractVars)
    <2> SUFFICES ASSUME SmithyInv, [Next]_vars
                 PROVE  Contract!Next \/ UNCHANGED Contract!contractVars
      OBVIOUS
    <2>1. CASE UNCHANGED vars
      BY <2>1 DEF vars, live, Contract!contractVars
    <2> QED BY <2>1, CoreMaps, CallMaps, HandlerMaps, WorldMaps DEF Next
  <1> QED BY <1>1, <1>2, SmithyInvariant, PTL DEF Spec, KeepsContract, Contract!Spec

===============================================================================
