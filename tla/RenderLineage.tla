--------------------------- MODULE RenderLineage ---------------------------
(***************************************************************************)
(* The renders of one video as RendersService keeps them: the snapshot a   *)
(* version inherits from its parent, deduplication by settings hash,       *)
(* versions of a lineage, and which version is the latest.                 *)
(* API requests run concurrently, one database statement per step.  create *)
(* writes in one READ COMMITTED transaction: what it updates is locked and *)
(* unseen by the others until it commits.  remove writes in two statements *)
(* of their own, and may die between them.                                 *)
(*                                                                         *)
(* What happens to a render between "active" and the end is RenderPipeline.*)
(***************************************************************************)
EXTENDS RenderSettings, Sequences, FiniteSets

CONSTANTS Requests,     \* concurrent API requests
          Candidates,   \* the video's moments; each is a lineage key
          Fresh,        \* the keys randomUUID() can yield for manual clips
          RangeOf,      \* RangeOf[c]: the [startMs, endMs] of a moment
          Duration,     \* video.durationMs
          Inputs,       \* what requests choose of range and settings
          RemovesAlone, \* bound: removals do not overlap other requests
          MaxRenders,   \* bound: rows
          MaxRequests   \* bound: requests

ASSUME KeysAreUnique == Candidates \cap Fresh = {}
ASSUME ChoicesAssumption ==
    /\ Duration \in Nat /\ MinDuration \in Nat /\ MaxDuration \in Nat
    /\ \A input \in Inputs : input.captions \in BOOLEAN \cup {Unset}

VARIABLES renders,      \* the rows, in the order of created_at
          request,      \* request[q]: the request in progress in q
          videoDeleted,
          orphaned,     \* the lineages whose removal died before it promoted
          asked         \* requests made so far

vars == <<renders, request, videoDeleted, orphaned, asked>>

Clip == [startMs : Int, endMs : Int, settings : Settings]

Render == [lineage : Candidates \cup Fresh, version : Nat, latest : BOOLEAN, clip : Clip,
           status : {"active", "COMPLETED", "FAILED"}, deleted : BOOLEAN]

Rows == 1 .. Len(renders)
OfLineage(key) == {i \in Rows : renders[i].lineage = key}
Live == {i \in Rows : ~ renders[i].deleted}

Newest(rows) == CHOOSE i \in rows : \A j \in rows : renders[j].version <= renders[i].version

NoClip == [startMs |-> 0, endMs |-> 0, settings |-> DefaultSettings]
NoRequest == [pc |-> "idle", lineage |-> "none", clip |-> NoClip, force |-> FALSE,
              last |-> 0, rows |-> {}, row |-> 0, wasLatest |-> FALSE]

(* The rows an open transaction has updated are locked.                    *)
Locked == UNION {request[q].rows : q \in Requests}

Goto(q, pc) == request' = [request EXCEPT ![q].pc = pc]
Answer(q) == request' = [request EXCEPT ![q] = NoRequest]

Busy(q) == request[q].pc # "idle"
Removing(q) == request[q].pc \in {"delete", "newest", "promote"}

Begin(q, r) ==
    /\ ~ Busy(q)
    /\ RemovesAlone => \A p \in Requests : ~ Removing(p)
    /\ asked < MaxRequests /\ asked' = asked + 1
    /\ request' = [request EXCEPT ![q] = r]
    /\ UNCHANGED <<renders, videoDeleted, orphaned>>

-----------------------------------------------------------------------------
(* create(), for a moment, a manual range or a new version of a clip.      *)

Create(q, key, range, base) ==
    /\ ~ videoDeleted
    /\ Len(renders) + Cardinality({p \in Requests : Busy(p)}) < MaxRenders
    /\ \E input \in Inputs, force \in BOOLEAN :
          LET start == Or(input.startMs, range.startMs)
              end == Or(input.endMs, range.endMs)
          IN
          /\ {start, end} \subseteq Int /\ Known(input, base)
          /\ ValidRange(start, end, Duration)
          /\ Begin(q, [NoRequest EXCEPT !.pc = "dedupe", !.lineage = key, !.force = force,
                          !.clip = [startMs |-> start, endMs |-> end,
                                    settings |-> BuildRenderSettings(input, base)]])

FromCandidate(q) == \E c \in Candidates : Create(q, c, RangeOf[c], DefaultSettings)

(* Without a parent, both ends have to be given.                           *)
Manual(q) ==
    \E key \in Fresh : /\ OfLineage(key) = {}
                       /\ \A p \in Requests : request[p].lineage # key
                       /\ Create(q, key, [startMs |-> Unset, endMs |-> Unset], DefaultSettings)

(* Also manual() with a parent.                                            *)
Rerender(q) ==
    \E parent \in Live : Create(q, renders[parent].lineage, renders[parent].clip,
                                renders[parent].clip.settings)

Hash(clip) == SettingsHash(clip.startMs, clip.endMs, clip.settings)

Reusable(q) ==
    {i \in Live : /\ Hash(renders[i].clip) = Hash(request[q].clip)
                  /\ renders[i].status \in {"active"} \cup (IF request[q].force THEN {} ELSE {"COMPLETED"})}

(* An equal clip is the answer; a new one has to be afforded.              *)
Deduplicate(q) ==
    /\ request[q].pc = "dedupe"
    /\ \/ Reusable(q) = {} /\ Goto(q, "last")
       \/ Answer(q)
    /\ UNCHANGED <<renders, videoDeleted, orphaned, asked>>

(* The last version of the lineage, removed ones included.                 *)
ReadLast(q) ==
    LET rows == OfLineage(request[q].lineage) IN
    /\ request[q].pc = "last"
    /\ request' = [request EXCEPT ![q].pc = "unset",
                      ![q].last = IF rows = {} THEN 0 ELSE renders[Newest(rows)].version]
    /\ UNCHANGED <<renders, videoDeleted, orphaned, asked>>

UnsetLatest(q) ==
    LET rows == {i \in OfLineage(request[q].lineage) : renders[i].latest} IN
    /\ request[q].pc = "unset"
    /\ rows \cap Locked = {}
    /\ request' = [request EXCEPT ![q].pc = "insert", ![q].rows = rows]
    /\ UNCHANGED <<renders, videoDeleted, orphaned, asked>>

NewRender(q) ==
    [lineage |-> request[q].lineage, version |-> request[q].last + 1, latest |-> TRUE,
     clip |-> request[q].clip, status |-> "active", deleted |-> FALSE]

WithoutLatest(rows) == [i \in Rows |-> [renders[i] EXCEPT !.latest = @ /\ i \notin rows]]

(* Mutant of Insert: without UNIQUE (lineage_key, version).                *)
InsertUnchecked(q) ==
    /\ request[q].pc = "insert"
    /\ renders' = Append(WithoutLatest(request[q].rows), NewRender(q))
    /\ orphaned' = orphaned \ {request[q].lineage}
    /\ Answer(q)
    /\ UNCHANGED <<videoDeleted, asked>>

(* The insert and the commit.  A unique violation rolls the update back and
   the request answers with the newest render of that hash, if any.        *)
Insert(q) ==
    /\ request[q].pc = "insert"
    /\ IF \E i \in OfLineage(request[q].lineage) : renders[i].version = NewRender(q).version
       THEN UNCHANGED <<renders, orphaned>>
       ELSE /\ renders' = Append(WithoutLatest(request[q].rows), NewRender(q))
            /\ orphaned' = orphaned \ {request[q].lineage}
    /\ Answer(q)
    /\ UNCHANGED <<videoDeleted, asked>>

-----------------------------------------------------------------------------
(* remove().                                                               *)

AskRemove(q) ==
    /\ RemovesAlone => \A p \in Requests : ~ Busy(p)
    /\ \E i \in Live :
          Begin(q, [NoRequest EXCEPT !.pc = "delete", !.row = i, !.wasLatest = renders[i].latest,
                                     !.lineage = renders[i].lineage])

Delete(q) ==
    /\ request[q].pc = "delete"
    /\ request[q].row \notin Locked
    /\ renders' = [renders EXCEPT ![request[q].row].deleted = TRUE,
                                  ![request[q].row].latest = FALSE]
    /\ Goto(q, "newest")
    /\ UNCHANGED <<videoDeleted, orphaned, asked>>

(* Mutant of FindNewest: the oldest remaining version is promoted.         *)
FindOldest(q) ==
    LET rows == OfLineage(request[q].lineage) \cap Live
        oldest == CHOOSE i \in rows : \A j \in rows : renders[i].version <= renders[j].version
    IN
    /\ request[q].pc = "newest"
    /\ IF rows # {} /\ request[q].wasLatest
       THEN request' = [request EXCEPT ![q].pc = "promote", ![q].row = oldest]
       ELSE Answer(q)
    /\ UNCHANGED <<renders, videoDeleted, orphaned, asked>>

(* "Promote the newest remaining version", if the removed one was latest
   when it was read.                                                       *)
FindNewest(q) ==
    LET rows == OfLineage(request[q].lineage) \cap Live IN
    /\ request[q].pc = "newest"
    /\ IF rows # {} /\ request[q].wasLatest
       THEN request' = [request EXCEPT ![q].pc = "promote", ![q].row = Newest(rows)]
       ELSE Answer(q)
    /\ UNCHANGED <<renders, videoDeleted, orphaned, asked>>

Promote(q) ==
    /\ request[q].pc = "promote"
    /\ request[q].row \notin Locked
    /\ renders' = [renders EXCEPT ![request[q].row].latest = TRUE]
    /\ orphaned' = orphaned \ {request[q].lineage}
    /\ Answer(q)
    /\ UNCHANGED <<videoDeleted, asked>>

(* The API process dies between the statements.  (In a creation it would
   roll the transaction back.)                                             *)
Die(q) ==
    /\ request[q].pc \in {"newest", "promote"}
    /\ Answer(q)
    /\ orphaned' = orphaned \cup {key \in {request[q].lineage} : request[q].wasLatest}
    /\ UNCHANGED <<renders, videoDeleted, asked>>

-----------------------------------------------------------------------------
(* The worker, a retry, and the removal of the video with all its renders. *)

Becomes(i, status) == renders' = [renders EXCEPT ![i].status = status]

WorkerEnds ==
    /\ \E i \in Live : /\ renders[i].status = "active"
                       /\ i \notin Locked
                       /\ \E end \in {"COMPLETED", "FAILED"} : Becomes(i, end)
    /\ UNCHANGED <<request, videoDeleted, orphaned, asked>>

Retry ==
    /\ ~ videoDeleted
    /\ \E i \in Live : renders[i].status = "FAILED" /\ i \notin Locked /\ Becomes(i, "active")
    /\ UNCHANGED <<request, videoDeleted, orphaned, asked>>

RemoveVideo ==
    /\ ~ videoDeleted /\ Live \cap Locked = {}
    /\ videoDeleted' = TRUE
    /\ renders' = [i \in Rows |-> [renders[i] EXCEPT !.deleted = TRUE]]
    /\ UNCHANGED <<request, orphaned, asked>>

-----------------------------------------------------------------------------
Init == /\ renders = << >>
        /\ request = [q \in Requests |-> NoRequest]
        /\ videoDeleted = FALSE
        /\ orphaned = {}
        /\ asked = 0

Next == \/ \E q \in Requests : \/ FromCandidate(q) \/ Manual(q) \/ Rerender(q)
                               \/ Deduplicate(q) \/ ReadLast(q) \/ UnsetLatest(q) \/ Insert(q)
                               \/ AskRemove(q) \/ Delete(q) \/ FindNewest(q) \/ Promote(q)
                               \/ Die(q)
        \/ WorkerEnds \/ Retry \/ RemoveVideo

Spec == Init /\ [][Next]_vars

-----------------------------------------------------------------------------
(* Properties.                                                             *)

Request == [pc : {"idle", "dedupe", "last", "unset", "insert", "delete", "newest", "promote"},
            lineage : Candidates \cup Fresh \cup {"none"}, clip : Clip, force : BOOLEAN,
            last : Nat, rows : SUBSET Nat, row : Nat, wasLatest : BOOLEAN]

TypeOK == renders \in Seq(Render) /\ request \in [Requests -> Request]

(* The versions of a lineage are 1, 2, 3, ... in the order they were made,
   also when requests that chose the same version run at once and when
   versions in between were removed.                                       *)
VersionsAreConsecutive ==
    \A i \in Rows :
       renders[i].version = Cardinality({j \in OfLineage(renders[i].lineage) : j <= i})

Quiet(key) == \A q \in Requests : request[q].lineage # key

(* renders.service.ts:332: "Promote the newest remaining version in the
   lineage to "latest"": outside requests about it, a lineage's newest
   remaining version is its latest one, and no other.  A lineage whose
   removal died in between has none, until it gets another version.        *)
NewestIsLatest ==
    \A i \in Live :
       LET key == renders[i].lineage IN
       Quiet(key) => (renders[i].latest <=>
                         key \notin orphaned /\ i = Newest(OfLineage(key) \cap Live))

Renderable(clip) ==
    /\ clip.settings.output = Output(clip.settings.aspectRatio)
    /\ 0 <= clip.startMs /\ clip.startMs < clip.endMs /\ clip.endMs <= Duration

(* A version's frame is the one of its aspect ratio, however often its
   lineage changed the ratio, and its range passes the worker's own check
   (render.py:165), whichever ends it took from its parent.                *)
SnapshotIsRenderable == \A i \in Rows : Renderable(renders[i].clip)

-----------------------------------------------------------------------------
(* The inductive invariant behind the first and the last of these.         *)

(* Every version up to the count of its lineage's rows is taken.           *)
VersionsFill ==
    \A key \in Candidates \cup Fresh : \A n \in 1 .. Cardinality(OfLineage(key)) :
       \E i \in OfLineage(key) : renders[i].version = n

(* A request goes on from a lineage that exists and from a clip it checked;
   what it read as the last version may only have become too low.          *)
CreatesSoundly ==
    \A q \in Requests :
       /\ request[q].pc \in {"dedupe", "last", "unset", "insert"} =>
             request[q].lineage \in Candidates \cup Fresh /\ Renderable(request[q].clip)
       /\ request[q].pc \in {"unset", "insert"} =>
             request[q].last <= Cardinality(OfLineage(request[q].lineage))

LineageInv == /\ TypeOK /\ VersionsAreConsecutive /\ VersionsFill
              /\ CreatesSoundly /\ SnapshotIsRenderable

(* And the one behind NewestIsLatest when removals are alone.              *)

LiveOf(key) == OfLineage(key) \cap Live
LatestIsNewest(key) ==
    \A i \in LiveOf(key) :
       renders[i].latest <=> key \notin orphaned /\ i = Newest(LiveOf(key))
NoneIsLatest(key) == \A i \in LiveOf(key) : ~ renders[i].latest

(* How far a removal is; after the video's removal no row is left to it.   *)
RemovesSoundly ==
    \A q \in Requests : Removing(q) =>
       /\ \A p \in Requests \ {q} : ~ Busy(p)
       /\ request[q].lineage \in Candidates \cup Fresh

RemovalReached(q, key) ==
    LET r == request[q]
        gone == LiveOf(key) = {}
    IN
    /\ r.row \in OfLineage(key)
    /\ r.pc = "delete" => gone \/ (r.row \in Live /\ r.wasLatest = renders[r.row].latest)
    /\ r.pc = "delete" \/ (r.pc = "newest" /\ ~ r.wasLatest) => LatestIsNewest(key)
    /\ r.pc = "newest" /\ r.wasLatest => NoneIsLatest(key)
    /\ r.pc = "promote" => r.wasLatest /\ NoneIsLatest(key) /\ (gone \/ r.row = Newest(LiveOf(key)))

(* What a creation unset is all there is, or else its insert fails.        *)
UnsetsAll(q, key) ==
    request[q].pc = "insert" /\ request[q].last = Cardinality(OfLineage(key)) =>
       request[q].rows = {i \in OfLineage(key) : renders[i].latest}

PromotionInv ==
    /\ RemovesSoundly
    /\ \A key \in Candidates \cup Fresh :
          /\ \A q \in Requests : request[q].lineage = key =>
                UnsetsAll(q, key) /\ (Removing(q) => RemovalReached(q, key))
          /\ (\A q \in Requests : Removing(q) => request[q].lineage # key) => LatestIsNewest(key)
=============================================================================
