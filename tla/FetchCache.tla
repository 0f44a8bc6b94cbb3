------------------------------ MODULE FetchCache ------------------------------
(***************************************************************************)
(* internal/fetchcache: Get for one URL, called by several processes that  *)
(* share the directory UBX_PROVIDER_DYNAMIC_FETCH_CACHE names.             *)
(*                                                                         *)
(* The server behind the URL answers a fetch with whichever revision the   *)
(* instance that is asked has; bodies of two revisions differ in length.   *)
(* Get pins the first body it sees: it writes the body to path ".tmp" and  *)
(* renames that to path.  Names and files are kept apart here, as a file   *)
(* system does: a process writes to the file it opened, whatever name that *)
(* file has by then.                                                       *)
(***************************************************************************)
EXTENDS Naturals, Sequences

CONSTANTS
    Procs,      \* processes of one generation run
    Revisions,  \* the revisions of the document
    Length(_),  \* the length of a revision's body
    Files,      \* bound: the files that exist at one time
    NoFile,     \* a name that is not there, a descriptor that is not open
    NoRevision, \* nothing fetched yet
    DiskFails   \* file operations may fail

ASSUME CacheAssumption ==
    /\ \A r \in Revisions : Length(r) \in Nat \ {0}
    /\ NoFile \notin Files
    /\ NoRevision \notin Revisions
    /\ DiskFails \in BOOLEAN

VARIABLES
    published,  \* the file at path
    staged,     \* the file at path ".tmp"
    content,    \* what each file holds
    proc,       \* where each process is in Get
    served,     \* history: what Get has returned
    swallowed,  \* history: at what Get has ignored an error of the file system
    overlapped, \* history: two processes have been past a miss at once
    collided    \* history: two processes have been at the staging name at once

vars == <<published, staged, content, proc, served, swallowed, overlapped, collided>>

Body(r) == [i \in 1..Length(r) |-> r]

Bodies == {Body(r) : r \in Revisions}

Procedures ==
    [pc : {"idle", "missed", "fetched", "staged", "written"},
     rev : Revisions \cup {NoRevision},
     fd : Files \cup {NoFile}]

\* Where Get meets an error of the file system and goes on: at reading a pinned
\* body, at storing a fetched one.
ErrorPlaces == {"read", "store"}

NotRunning == [pc |-> "idle", rev |-> NoRevision, fd |-> NoFile]

TypeOK ==
    /\ published \in Files \cup {NoFile}
    /\ staged \in Files \cup {NoFile}
    /\ content \in [Files -> Seq(Revisions)]
    /\ proc \in [Procs -> Procedures]
    /\ \A p \in Procs : /\ proc[p].pc \in {"fetched", "staged", "written"}
                              => proc[p].rev \in Revisions
                        /\ proc[p].pc \in {"staged", "written"} => proc[p].fd \in Files
    /\ served \subseteq Seq(Revisions)
    /\ swallowed \subseteq ErrorPlaces
    /\ overlapped \in BOOLEAN
    /\ collided \in BOOLEAN

Init ==
    /\ published = NoFile
    /\ staged = NoFile
    /\ content = [f \in Files |-> <<>>]
    /\ proc = [p \in Procs |-> NotRunning]
    /\ served = {}
    /\ swallowed = {}
    /\ overlapped = FALSE
    /\ collided = FALSE

\* A file nobody can reach any more, or that was never made.
Unused(f) == f \notin {published, staged} \cup {proc[p].fd : p \in Procs}

Idle(p) == proc[p].pc = "idle"

\* Processes other than p that are somewhere in the given steps of Get.
OthersAt(p, steps) == {q \in Procs \ {p} : proc[q].pc \in steps}

PastMiss == {"missed", "fetched", "staged", "written"}

AtStagingName == {"staged", "written"}

Swallow(place) == swallowed' = swallowed \cup {place}

Return(p, body) ==
    /\ served' = served \cup {body}
    /\ proc' = [proc EXCEPT ![p] = NotRunning]

\* ReadFile finds the pinned body.
Hit(p) ==
    /\ Idle(p)
    /\ published # NoFile
    /\ Return(p, content[published])
    /\ UNCHANGED <<published, staged, content, swallowed, overlapped, collided>>

GoPastMiss(p) ==
    /\ proc' = [proc EXCEPT ![p].pc = "missed"]
    /\ overlapped' = (overlapped \/ OthersAt(p, PastMiss) # {})

\* Bug: whether the body is pinned already is not looked at.
MissUnlooked(p) ==
    /\ Idle(p)
    /\ GoPastMiss(p)
    /\ UNCHANGED <<published, staged, content, served, swallowed, collided>>

\* ReadFile finds nothing.
Miss(p) ==
    /\ Idle(p)
    /\ published = NoFile
    /\ GoPastMiss(p)
    /\ UNCHANGED <<published, staged, content, served, swallowed, collided>>

\* Any error of ReadFile counts as a miss: what is pinned is fetched again.
Misread(p) ==
    /\ DiskFails
    /\ Idle(p)
    /\ published # NoFile
    /\ GoPastMiss(p)
    /\ Swallow("read")
    /\ UNCHANGED <<published, staged, content, served, collided>>

\* do: the caller's own fetch, which may fail.
Fetch(p) ==
    /\ proc[p].pc = "missed"
    /\ \E r \in Revisions : proc' = [proc EXCEPT ![p].pc = "fetched", ![p].rev = r]
    /\ UNCHANGED <<published, staged, content, served, swallowed, overlapped, collided>>

FetchFails(p) ==
    /\ proc[p].pc = "missed"
    /\ proc' = [proc EXCEPT ![p] = NotRunning]
    /\ UNCHANGED <<published, staged, content, served, swallowed, overlapped, collided>>

\* MkdirAll, and WriteFile's open: the file at path ".tmp" is created, or
\* truncated if there is one.
Stage(p) ==
    /\ proc[p].pc = "fetched"
    /\ \E f \in Files :
          /\ IF staged = NoFile THEN Unused(f) ELSE f = staged
          /\ staged' = f
          /\ content' = [content EXCEPT ![f] = <<>>]
          /\ proc' = [proc EXCEPT ![p].pc = "staged", ![p].fd = f]
    /\ collided' = (collided \/ OthersAt(p, AtStagingName) # {})
    /\ UNCHANGED <<published, served, swallowed, overlapped>>

\* The directory or the file cannot be made.  The error is not reported.
StageFails(p) ==
    /\ DiskFails
    /\ proc[p].pc = "fetched"
    /\ Return(p, Body(proc[p].rev))
    /\ Swallow("store")
    /\ UNCHANGED <<published, staged, content, overlapped, collided>>

\* A write at offset 0 replaces the beginning of what the file holds.
Overwritten(old, new) == new \o SubSeq(old, Len(new) + 1, Len(old))

Write(p) ==
    /\ proc[p].pc = "staged"
    /\ content' = [content EXCEPT ![proc[p].fd] = Overwritten(@, Body(proc[p].rev))]
    /\ proc' = [proc EXCEPT ![p].pc = "written"]
    /\ UNCHANGED <<published, staged, served, swallowed, overlapped, collided>>

\* Bug: an error of WriteFile does not keep the file from being published.
WriteFailsUnseen(p) ==
    /\ DiskFails
    /\ proc[p].pc = "staged"
    /\ \E n \in 0..(Length(proc[p].rev) - 1) :
          content' = [content EXCEPT ![proc[p].fd] =
                        Overwritten(@, SubSeq(Body(proc[p].rev), 1, n))]
    /\ proc' = [proc EXCEPT ![p].pc = "written"]
    /\ UNCHANGED <<published, staged, served, swallowed, overlapped, collided>>

\* WriteFile fails half-way: what was written stays, under the ".tmp" name.
WriteFails(p) ==
    /\ DiskFails
    /\ proc[p].pc = "staged"
    /\ \E n \in 0..(Length(proc[p].rev) - 1) :
          content' = [content EXCEPT ![proc[p].fd] =
                        Overwritten(@, SubSeq(Body(proc[p].rev), 1, n))]
    /\ Return(p, Body(proc[p].rev))
    /\ Swallow("store")
    /\ UNCHANGED <<published, staged, overlapped, collided>>

\* Bug: the body is staged but not published.
NeverPublish(p) ==
    /\ proc[p].pc = "written"
    /\ Return(p, Body(proc[p].rev))
    /\ UNCHANGED <<published, staged, content, swallowed, overlapped, collided>>

\* Rename, by name: whatever is at path ".tmp" by now becomes the pinned body.
Publish(p) ==
    /\ proc[p].pc = "written"
    /\ staged # NoFile
    /\ published' = staged
    /\ staged' = NoFile
    /\ Return(p, Body(proc[p].rev))
    /\ UNCHANGED <<content, swallowed, overlapped, collided>>

\* Rename fails; its error is not looked at.
PublishFails(p) ==
    /\ proc[p].pc = "written"
    /\ DiskFails \/ staged = NoFile
    /\ Return(p, Body(proc[p].rev))
    /\ Swallow("store")
    /\ UNCHANGED <<published, staged, content, overlapped, collided>>

\* The process dies; its files stay.
Killed(p) ==
    /\ proc[p].pc # "idle"
    /\ proc' = [proc EXCEPT ![p] = NotRunning]
    /\ UNCHANGED <<published, staged, content, served, swallowed, overlapped, collided>>

Next ==
    \E p \in Procs :
        \/ Hit(p) \/ Miss(p) \/ Misread(p)
        \/ Fetch(p) \/ FetchFails(p)
        \/ Stage(p) \/ StageFails(p)
        \/ Write(p) \/ WriteFails(p)
        \/ Publish(p) \/ PublishFails(p)
        \/ Killed(p)

Spec == Init /\ [][Next]_vars

(***************************************************************************)
(* Properties                                                              *)
(***************************************************************************)

\* fetchcache.go's promise, as far as Get keeps it: within the directory's
\* lifetime every fetch of the URL returns the identical bytes the first one
\* saw.  Two processes past a miss at once end that, and so does an error of
\* the file system, which Get does not report.
Pinned == swallowed = {} /\ ~overlapped => \A a, b \in served : a = b

\* The promise as the package comment words it: the same bytes, however many
\* processes ask.
SameForAll == \A a, b \in served : a = b

\* What is pinned is a body the server sent, whatever was killed, overtaken or
\* failed while it was written, as long as no two processes have been between
\* the opening of the staging file and its renaming at once.
PublishedWhole == ~collided => (published # NoFile => content[published] \in Bodies)

\* A body is pinned, and nobody is on the way to pin another.
Settled == published # NoFile /\ \A p \in Procs : Idle(p)

\* However the first calls raced and failed, once they are over the pin is for
\* ever: unless reading it fails, it is never moved, no byte behind it changes
\* and no other body is handed out.
PinSettles ==
    [][Settled => \/ "read" \in swallowed'
                  \/ /\ Settled' /\ content'[published'] = content[published]
                     /\ served' \subseteq served \cup {content[published]}]_vars
=============================================================================
