------------------------ MODULE RenderLineageProofs ------------------------
(***************************************************************************)
(* Versions and snapshots of RenderLineage, for any number of requests,    *)
(* moments, clips and inputs, whether or not removals overlap: versions    *)
(* are consecutive because an insert whose version is taken is rolled back *)
(* and every version below the newest is taken.  When removals do not      *)
(* overlap, the newest remaining version is the latest.                    *)
(***************************************************************************)
EXTENDS RenderLineage, FiniteSetTheorems, WellFoundedInduction, TLAPS

Keys == Candidates \cup Fresh

(* A snapshot built on a snapshot has the frame of its own aspect ratio.   *)
LEMMA BuildsSettings ==
    ASSUME NEW base \in Settings, NEW input \in Inputs, Known(input, base)
    PROVE  /\ BuildRenderSettings(input, base) \in Settings
           /\ LET s == BuildRenderSettings(input, base) IN s.output = Output(s.aspectRatio)
<1> DEFINE ratio == Or(input.aspectRatio, base.aspectRatio)
<1>1. ratio \in AspectRatios /\ Or(input.framingMode, base.framingMode) \in FramingModes
      /\ Or(input.preset, base.preset) \in CaptionPresets
  BY DEF Known
<1>2. Or(input.captions, base.captions) \in BOOLEAN
  BY ChoicesAssumption DEF Or, Settings
<1>3. Output(ratio) \in [width : Nat, height : Nat]
  BY <1>1 DEF Output, AspectRatios
<1> HIDE DEF ratio
<1>4. BuildRenderSettings(input, base) =
        [aspectRatio |-> ratio, framingMode |-> Or(input.framingMode, base.framingMode),
         captions |-> Or(input.captions, base.captions),
         preset |-> Or(input.preset, base.preset), output |-> Output(ratio)]
  BY DEF BuildRenderSettings, ratio
<1>. QED BY <1>1, <1>2, <1>3, <1>4 DEF Settings

LEMMA DefaultsAreSettings == DefaultSettings \in Settings
  BY DEF DefaultSettings, Settings, AspectRatios, FramingModes, CaptionPresets, Output

LEMMA IdleIsRequest == NoClip \in Clip /\ NoRequest \in Request
  BY DefaultsAreSettings DEF NoClip, Clip, NoRequest, Request

LEMMA AsSequence ==
    ASSUME NEW S, NEW n \in Nat, NEW f \in [1 .. n -> S]
    PROVE  f \in Seq(S) /\ Len(f) = n
OBVIOUS

(* The rows of a lineage, and those of them up to one, are finitely many.  *)
LEMMA LineagesAreFinite ==
    ASSUME TypeOK, NEW key
    PROVE  /\ IsFiniteSet(OfLineage(key)) /\ Cardinality(OfLineage(key)) \in Nat
           /\ \A i : /\ IsFiniteSet({j \in OfLineage(key) : j <= i})
                     /\ Cardinality({j \in OfLineage(key) : j <= i}) \in Nat
                     /\ Cardinality({j \in OfLineage(key) : j <= i}) <= Cardinality(OfLineage(key))
<1>1. IsFiniteSet(Rows)
  BY FS_Interval DEF TypeOK, Rows
<1>2. IsFiniteSet(OfLineage(key))
  BY <1>1, FS_Subset DEF OfLineage
<1>. QED BY <1>2, FS_Subset, FS_CardinalityType

-----------------------------------------------------------------------------
(* Steps that neither add a row nor change a version.                      *)

KeepsVersions ==
    /\ renders' \in Seq(Render)
    /\ Len(renders') = Len(renders)
    /\ \A i \in Rows : /\ renders'[i].lineage = renders[i].lineage
                       /\ renders'[i].version = renders[i].version
                       /\ renders'[i].clip = renders[i].clip

LEMMA KeptVersions ==
    ASSUME LineageInv, KeepsVersions
    PROVE  /\ VersionsAreConsecutive' /\ VersionsFill' /\ SnapshotIsRenderable'
           /\ \A key : OfLineage(key)' = OfLineage(key)
<1>1. Rows' = Rows
  BY DEF KeepsVersions, Rows
<1>2. \A key : OfLineage(key)' = OfLineage(key)
  BY <1>1 DEF KeepsVersions, OfLineage
<1>3. VersionsAreConsecutive'
  BY <1>1, <1>2 DEF KeepsVersions, LineageInv, VersionsAreConsecutive
<1>4. VersionsFill'
  <2>1. \A key : OfLineage(key) \subseteq Rows
    BY DEF OfLineage
  <2>. QED BY <1>1, <1>2, <2>1 DEF KeepsVersions, LineageInv, VersionsFill
<1>5. SnapshotIsRenderable'
  BY <1>1 DEF KeepsVersions, LineageInv, SnapshotIsRenderable, Renderable
<1>. QED BY <1>2, <1>3, <1>4, <1>5

(* A request that goes on, and nothing else changes about creations.       *)
LEMMA OthersStaySound ==
    ASSUME LineageInv, KeepsVersions,
           NEW q \in Requests, NEW r \in Request, request' = [request EXCEPT ![q] = r],
           r.pc \in {"dedupe", "last", "unset", "insert"} =>
              r.lineage \in Candidates \cup Fresh /\ Renderable(r.clip),
           r.pc \in {"unset", "insert"} => r.last <= Cardinality(OfLineage(r.lineage))
    PROVE  LineageInv'
<1>1. request' \in [Requests -> Request] /\ request'[q] = r
      /\ \A p \in Requests : p # q => request'[p] = request[p]
  BY DEF LineageInv, TypeOK
<1>2. TypeOK'
  BY <1>1 DEF TypeOK, KeepsVersions
<1>3. \A key : OfLineage(key)' = OfLineage(key)
  BY KeptVersions
<1>4. CreatesSoundly'
  <2> SUFFICES ASSUME NEW p \in Requests
        PROVE /\ request'[p].pc \in {"dedupe", "last", "unset", "insert"} =>
                    /\ request'[p].lineage \in Candidates \cup Fresh
                    /\ Renderable(request'[p].clip)
              /\ request'[p].pc \in {"unset", "insert"} =>
                    request'[p].last <= Cardinality(OfLineage(request'[p].lineage))
    BY <1>3 DEF CreatesSoundly, Renderable
  <2>. QED BY <1>1 DEF LineageInv, CreatesSoundly
<1>. QED BY <1>2, <1>4, KeptVersions DEF LineageInv

(* A row that is written to, its identity and its snapshot apart.          *)
LEMMA RowWritten ==
    ASSUME TypeOK, NEW i, NEW row,
           i \in Rows => /\ row \in Render /\ row.lineage = renders[i].lineage
                         /\ row.version = renders[i].version /\ row.clip = renders[i].clip,
           renders' = [renders EXCEPT ![i] = row]
    PROVE  KeepsVersions
<1>1. renders \in Seq(Render) /\ Len(renders) \in Nat /\ Rows = DOMAIN renders
  BY DEF TypeOK, Rows
<1>2. CASE i \in Rows
  <2>1. renders' \in Seq(Render) /\ Len(renders') = Len(renders)
    BY <1>1, <1>2
  <2>2. \A j \in Rows : renders'[j] = IF j = i THEN row ELSE renders[j]
    BY <1>1, <1>2
  <2>. QED BY <1>2, <2>1, <2>2 DEF KeepsVersions
<1>3. CASE i \notin Rows
  <2>1. renders' = renders
    BY <1>1, <1>3
  <2>. QED BY <1>1, <2>1 DEF KeepsVersions
<1>. QED BY <1>2, <1>3

LEMMA RowFields ==
    ASSUME NEW row \in Render, NEW status \in {"active", "COMPLETED", "FAILED"},
           NEW latest \in BOOLEAN
    PROVE  /\ [row EXCEPT !.status = status] \in Render
           /\ [row EXCEPT !.latest = latest] \in Render
           /\ [row EXCEPT !.deleted = TRUE] \in Render
           /\ [row EXCEPT !.deleted = TRUE, !.latest = FALSE] \in Render
BY DEF Render

LEMMA Becoming ==
    ASSUME LineageInv, NEW i \in Live, NEW status \in {"active", "COMPLETED", "FAILED"},
           Becomes(i, status), UNCHANGED request
    PROVE  LineageInv'
<1>1. i \in Rows /\ renders[i] \in Render
  BY DEF Live, Rows, LineageInv, TypeOK
<1> DEFINE row == [renders[i] EXCEPT !.status = status]
<1>2. renders' = [renders EXCEPT ![i] = row]
  BY DEF Becomes
<1>3. row \in Render
  BY <1>1, RowFields
<1>4. row.lineage = renders[i].lineage /\ row.version = renders[i].version
      /\ row.clip = renders[i].clip
  BY <1>1 DEF Render
<1> HIDE DEF row
<1>5. KeepsVersions
  BY <1>2, <1>3, <1>4, RowWritten DEF LineageInv
<1>. QED BY <1>5, KeptVersions DEF LineageInv, TypeOK, KeepsVersions, CreatesSoundly, Renderable

-----------------------------------------------------------------------------
(* Two steps of their own.                                                 *)

(* The newest version of a lineage has the number of its rows.             *)
LEMMA NewestIsCount ==
    ASSUME LineageInv, NEW key \in Keys, OfLineage(key) # {}
    PROVE  renders[Newest(OfLineage(key))].version = Cardinality(OfLineage(key))
<1> DEFINE rows == OfLineage(key)
           n == Cardinality(rows)
<1>1. n \in Nat \ {0}
  BY LineagesAreFinite, FS_EmptySet DEF LineageInv
<1>2. \A i \in rows : renders[i].version \in Nat /\ renders[i].version <= n
  <2> SUFFICES ASSUME NEW i \in rows PROVE renders[i].version \in Nat /\ renders[i].version <= n
    OBVIOUS
  <2>1. renders[i].lineage = key /\ i \in Rows
    BY DEF OfLineage
  <2>2. renders[i].version = Cardinality({j \in rows : j <= i})
    BY <2>1 DEF LineageInv, VersionsAreConsecutive
  <2>. QED BY <2>2, LineagesAreFinite DEF LineageInv
<1>3. PICK top \in rows : renders[top].version = n
  <2>1. n \in 1 .. n
    BY <1>1
  <2>. QED BY <2>1 DEF LineageInv, VersionsFill, Keys
<1>4. \A j \in rows : renders[j].version <= renders[top].version
  BY <1>2, <1>3
<1>5. Newest(rows) \in rows /\ \A j \in rows : renders[j].version <= renders[Newest(rows)].version
  <2> HIDE DEF rows
  <2>. QED BY <1>3, <1>4 DEF Newest
<1>. QED
  <2> HIDE DEF rows, n
  <2>1. renders[Newest(rows)].version = n
    BY <1>1, <1>2, <1>3, <1>5
  <2>. QED BY <2>1 DEF rows, n

(* Any rows of one lineage include one of the highest version.             *)
LEMMA VersionsHaveMaximum ==
    ASSUME LineageInv, NEW key, NEW rows \in SUBSET OfLineage(key), rows # {}
    PROVE  \E top \in rows : \A j \in rows : renders[j].version <= renders[top].version
<1> DEFINE n == Cardinality(OfLineage(key))
           below == {n - renders[i].version : i \in rows}
<1>1. \A i \in rows : renders[i].version \in Nat /\ renders[i].version <= n /\ n \in Nat
  <2> SUFFICES ASSUME NEW i \in rows
        PROVE  renders[i].version \in Nat /\ renders[i].version <= n /\ n \in Nat
    OBVIOUS
  <2>1. renders[i].lineage = key /\ i \in Rows
    BY DEF OfLineage
  <2>2. renders[i].version = Cardinality({j \in OfLineage(key) : j <= i})
    BY <2>1 DEF LineageInv, VersionsAreConsecutive
  <2>. QED BY <2>2, LineagesAreFinite DEF LineageInv
<1> HIDE DEF n
<1>2. below \in SUBSET Nat /\ below # {}
  BY <1>1
<1> DEFINE lower == {pair \in Nat \X Nat : pair[1] < pair[2]}
<1>3. \E least \in below : \A k \in below : <<k, least>> \notin lower
  <2>1. IsWellFoundedOn(lower, Nat)
    BY NatLessThanWellFounded DEF OpToRel
  <2> HIDE DEF below, lower
  <2>. QED BY <1>2, <2>1, WFMin
<1>4. PICK least \in below : \A k \in below : least <= k
  <2> HIDE DEF below
  <2>1. \A k, m \in Nat : <<k, m>> \notin lower => m <= k
    OBVIOUS
  <2> HIDE DEF lower
  <2>. QED BY <1>2, <1>3, <2>1
<1>5. PICK top \in rows : least = n - renders[top].version
  OBVIOUS
<1>6. \A j \in rows : least <= n - renders[j].version
  BY <1>4
<1>. QED BY <1>1, <1>5, <1>6

(* The rows of a lineage after an insert.                                  *)
LEMMA Appended ==
    ASSUME LineageInv, NEW row \in Render, NEW older, older \in Seq(Render),
           Len(older) = Len(renders), renders' = Append(older, row),
           \A i \in Rows : /\ older[i].lineage = renders[i].lineage
                           /\ older[i].version = renders[i].version
                           /\ older[i].clip = renders[i].clip,
           row.version = Cardinality(OfLineage(row.lineage)) + 1,
           Renderable(row.clip)
    PROVE  /\ VersionsAreConsecutive' /\ VersionsFill' /\ SnapshotIsRenderable'
           /\ renders' \in Seq(Render)
           /\ \A key : /\ Cardinality(OfLineage(key)) \in Nat /\ Cardinality(OfLineage(key)') \in Nat
                       /\ Cardinality(OfLineage(key)) <= Cardinality(OfLineage(key)')
<1> DEFINE new == Len(renders) + 1
           mine == row.lineage
<1>1. /\ renders' \in Seq(Render) /\ Len(renders') = new /\ Len(renders) \in Nat
      /\ renders'[new] = row /\ \A i \in Rows : renders'[i] = older[i]
      /\ Rows' = Rows \cup {new} /\ new \notin Rows
  BY DEF Rows, LineageInv, TypeOK
<1>2. \A key : OfLineage(key)' = IF key = mine THEN OfLineage(key) \cup {new} ELSE OfLineage(key)
  <2> SUFFICES ASSUME NEW key
        PROVE OfLineage(key)' = IF key = mine THEN OfLineage(key) \cup {new} ELSE OfLineage(key)
    OBVIOUS
  <2>1. OfLineage(key)' = {i \in Rows \cup {new} : renders'[i].lineage = key}
    BY <1>1 DEF OfLineage
  <2>2. \A i \in Rows : renders'[i].lineage = renders[i].lineage
    BY <1>1
  <2>3. renders'[new].lineage = mine
    BY <1>1
  <2> HIDE DEF new, mine
  <2>. QED BY <2>1, <2>2, <2>3 DEF OfLineage
<1>3. \A key : new \notin OfLineage(key) /\ OfLineage(key) \subseteq Rows
  BY <1>1 DEF OfLineage
<1>4. \A i \in Rows : renders'[i].lineage = renders[i].lineage
                      /\ renders'[i].version = renders[i].version
                      /\ renders'[i].clip = renders[i].clip
  BY <1>1
<1>5. Cardinality(OfLineage(mine)') = Cardinality(OfLineage(mine)) + 1
  BY <1>2, <1>3, LineagesAreFinite, FS_AddElement DEF LineageInv
<1>6. \A key : Cardinality(OfLineage(key)) \in Nat
  BY LineagesAreFinite DEF LineageInv
<1>7. \A key : /\ Cardinality(OfLineage(key)') \in Nat
               /\ Cardinality(OfLineage(key)) <= Cardinality(OfLineage(key)')
  BY <1>2, <1>5, <1>6
<1>8. VersionsAreConsecutive'
  <2> DEFINE Now(key) == {i \in Rows \cup {new} : renders'[i].lineage = key}
  <2>1. \A key : Now(key) = OfLineage(key)'
    BY <1>1 DEF OfLineage
  <2>2. ASSUME NEW i \in Rows
        PROVE renders'[i].version = Cardinality({j \in Now(renders'[i].lineage) : j <= i})
    <3> DEFINE key == renders[i].lineage
    <3>1. {j \in Now(key) : j <= i} = {j \in OfLineage(key) : j <= i}
      BY <1>1, <1>2, <2>1 DEF Rows
    <3>2. renders[i].version = Cardinality({j \in OfLineage(key) : j <= i})
      BY DEF LineageInv, VersionsAreConsecutive
    <3>3. renders'[i].version = renders[i].version /\ renders'[i].lineage = key
      BY <1>4
    <3> HIDE DEF Now, key
    <3>. QED BY <3>1, <3>2, <3>3
  <2>3. renders'[new].version = Cardinality({j \in Now(renders'[new].lineage) : j <= new})
    <3>1. {j \in Now(mine) : j <= new} = OfLineage(mine)'
      BY <1>1, <1>2, <1>3, <2>1 DEF Rows
    <3>2. renders'[new].version = Cardinality(OfLineage(mine)')
      BY <1>1, <1>5
    <3>3. renders'[new].lineage = mine
      BY <1>1
    <3> HIDE DEF Now, mine
    <3>. QED BY <3>1, <3>2, <3>3
  <2>4. VersionsAreConsecutive' =
          (\A i \in Rows \cup {new} :
              renders'[i].version = Cardinality({j \in Now(renders'[i].lineage) : j <= i}))
    BY <1>1 DEF VersionsAreConsecutive, OfLineage
  <2>. QED BY <2>2, <2>3, <2>4
<1>9. VersionsFill'
  <2> SUFFICES ASSUME NEW key \in Keys, NEW n \in 1 .. Cardinality(OfLineage(key)')
        PROVE \E i \in OfLineage(key)' : renders'[i].version = n
    BY DEF VersionsFill, Keys
  <2>1. CASE n \in 1 .. Cardinality(OfLineage(key))
    <3>1. PICK i \in OfLineage(key) : renders[i].version = n
      BY <2>1 DEF LineageInv, VersionsFill, Keys
    <3>. QED BY <1>2, <1>3, <1>4, <3>1
  <2>2. CASE n \notin 1 .. Cardinality(OfLineage(key))
    <3>1. key = mine /\ n = Cardinality(OfLineage(mine)) + 1
      BY <1>2, <1>5, <1>6, <2>2
    <3>. QED BY <1>1, <1>2, <3>1
  <2>. QED BY <2>1, <2>2
<1>10. SnapshotIsRenderable'
  <2>1. \A i \in Rows : Renderable(renders'[i].clip)
    BY <1>4 DEF LineageInv, SnapshotIsRenderable
  <2>. QED BY <1>1, <2>1 DEF SnapshotIsRenderable, Renderable
<1>. QED BY <1>1, <1>6, <1>7, <1>8, <1>9, <1>10

-----------------------------------------------------------------------------
(* The invariant, action by action.                                        *)

LEMMA RowsUntouched == LineageInv /\ renders' = renders => KeepsVersions
  BY DEF LineageInv, TypeOK, KeepsVersions

(* A request that only moves on, without a further read.                   *)
LEMMA Moving ==
    ASSUME LineageInv, NEW q \in Requests, KeepsVersions,
           \/ /\ \E pc \in {"last", "newest"} : request' = [request EXCEPT ![q].pc = pc]
              /\ request[q].pc \in {"dedupe", "delete"}
              /\ request'[q].pc = "last" => request[q].pc = "dedupe"
           \/ request' = [request EXCEPT ![q] = NoRequest]
           \/ UNCHANGED request
    PROVE  LineageInv'
<1>1. CASE request' = [request EXCEPT ![q] = NoRequest]
  <2>1. NoRequest \in Request /\ NoRequest.pc = "idle"
    BY IdleIsRequest DEF NoRequest
  <2>. QED BY <1>1, <2>1, OthersStaySound
<1>2. CASE UNCHANGED request
  <2>1. request' = [request EXCEPT ![q] = request[q]] /\ request[q] \in Request
    BY <1>2 DEF LineageInv, TypeOK
  <2>. QED BY <2>1, OthersStaySound DEF LineageInv, CreatesSoundly
<1>3. ASSUME NEW pc \in {"last", "newest"}, request' = [request EXCEPT ![q].pc = pc],
             request[q].pc \in {"dedupe", "delete"},
             request'[q].pc = "last" => request[q].pc = "dedupe"
      PROVE  LineageInv'
  <2> DEFINE r == [request[q] EXCEPT !.pc = pc]
  <2>1. request[q] \in Request
    BY DEF LineageInv, TypeOK
  <2>2. r \in Request
    BY <2>1 DEF Request
  <2>3. r.pc = pc /\ r.lineage = request[q].lineage /\ r.clip = request[q].clip
    BY <2>1 DEF Request
  <2>4. request' = [request EXCEPT ![q] = r]
    BY <1>3
  <2>5. pc = "last" => request[q].pc = "dedupe"
    BY <1>3, <2>1, <2>3, <2>4 DEF LineageInv, TypeOK
  <2> HIDE DEF r
  <2>. QED BY <2>2, <2>3, <2>4, <2>5, OthersStaySound DEF LineageInv, CreatesSoundly
<1>. QED BY <1>1, <1>2, <1>3

LEMMA Creating ==
    ASSUME LineageInv, NEW q \in Requests, NEW key \in Keys, NEW range, NEW base \in Settings,
           Create(q, key, range, base)
    PROVE  LineageInv'
<1>1. PICK input \in Inputs, force \in BOOLEAN :
        LET start == Or(input.startMs, range.startMs)
            end == Or(input.endMs, range.endMs)
        IN
        /\ {start, end} \subseteq Int /\ Known(input, base)
        /\ ValidRange(start, end, Duration)
        /\ Begin(q, [NoRequest EXCEPT !.pc = "dedupe", !.lineage = key, !.force = force,
                        !.clip = [startMs |-> start, endMs |-> end,
                                  settings |-> BuildRenderSettings(input, base)]])
  BY DEF Create
<1> DEFINE start == Or(input.startMs, range.startMs)
           end == Or(input.endMs, range.endMs)
           settings == BuildRenderSettings(input, base)
           clip == [startMs |-> start, endMs |-> end, settings |-> settings]
           r == [NoRequest EXCEPT !.pc = "dedupe", !.lineage = key, !.force = force, !.clip = clip]
<1>2. settings \in Settings /\ settings.output = Output(settings.aspectRatio)
  BY <1>1, BuildsSettings
<1>3. start \in Int /\ end \in Int /\ 0 <= start /\ start < end /\ end <= Duration
  BY <1>1 DEF ValidRange
<1> HIDE DEF start, end, settings
<1>4. clip \in Clip /\ Renderable(clip)
  BY <1>2, <1>3 DEF Clip, Renderable
<1>5. request' = [request EXCEPT ![q] = r] /\ renders' = renders
  BY <1>1 DEF Begin, start, end, settings
<1> HIDE DEF clip
<1>6. r \in Request
  BY <1>4 DEF NoRequest, Request, Keys
<1>7. r.pc = "dedupe" /\ r.lineage = key /\ r.clip = clip
  BY DEF NoRequest
<1> HIDE DEF r
<1>. QED BY <1>4, <1>5, <1>6, <1>7, RowsUntouched, OthersStaySound DEF Keys

LEMMA ReadingLast ==
    ASSUME LineageInv, NEW q \in Requests, ReadLast(q)
    PROVE  LineageInv'
<1> DEFINE key == request[q].lineage
           rows == OfLineage(key)
           last == IF rows = {} THEN 0 ELSE renders[Newest(rows)].version
           r == [request[q] EXCEPT !.pc = "unset", !.last = last]
<1>1. request[q] \in Request /\ request[q].pc = "last" /\ key \in Keys /\ Renderable(request[q].clip)
  BY DEF ReadLast, LineageInv, TypeOK, CreatesSoundly, Keys
<1>2. last \in Nat /\ last <= Cardinality(rows)
  <2>1. Cardinality(rows) \in Nat
    BY LineagesAreFinite DEF LineageInv
  <2>2. rows # {} => renders[Newest(rows)].version = Cardinality(rows)
    BY <1>1, NewestIsCount
  <2> HIDE DEF rows
  <2>. QED BY <2>1, <2>2
<1>3. request' = [request EXCEPT ![q] = r]
  BY DEF ReadLast
<1> HIDE DEF last
<1>4. r \in Request
  BY <1>1, <1>2 DEF Request
<1>5. r.pc = "unset" /\ r.lineage = key /\ r.clip = request[q].clip /\ r.last = last
  BY <1>1 DEF Request
<1>6. KeepsVersions
  BY RowsUntouched DEF ReadLast
<1> HIDE DEF r
<1>. QED BY <1>1, <1>2, <1>3, <1>4, <1>5, <1>6, OthersStaySound DEF Keys

LEMMA Unsetting ==
    ASSUME LineageInv, NEW q \in Requests, UnsetLatest(q)
    PROVE  LineageInv'
<1> DEFINE rows == {i \in OfLineage(request[q].lineage) : renders[i].latest}
           r == [request[q] EXCEPT !.pc = "insert", !.rows = rows]
<1>1. request[q] \in Request /\ request[q].pc = "unset"
  BY DEF UnsetLatest, LineageInv, TypeOK
<1>2. rows \in SUBSET Nat
  BY DEF OfLineage, Rows
<1>3. request' = [request EXCEPT ![q] = r]
  BY DEF UnsetLatest
<1> HIDE DEF rows
<1>4. r \in Request
  BY <1>1, <1>2 DEF Request
<1>5. /\ r.pc = "insert" /\ r.lineage = request[q].lineage
      /\ r.clip = request[q].clip /\ r.last = request[q].last
  BY <1>1 DEF Request
<1>6. KeepsVersions
  BY RowsUntouched DEF UnsetLatest
<1> HIDE DEF r
<1>. QED BY <1>1, <1>3, <1>4, <1>5, <1>6, OthersStaySound DEF LineageInv, CreatesSoundly

(* The unique index on (lineage_key, version): the version a request read
   and went beyond is either taken or the next one.                        *)
LEMMA Inserting ==
    ASSUME LineageInv, NEW q \in Requests, Insert(q)
    PROVE  LineageInv'
<1> DEFINE key == request[q].lineage
           row == NewRender(q)
           older == WithoutLatest(request[q].rows)
           taken == \E i \in OfLineage(key) : renders[i].version = row.version
<1>1. /\ request[q] \in Request /\ request[q].pc = "insert" /\ key \in Keys
      /\ Renderable(request[q].clip) /\ request[q].last <= Cardinality(OfLineage(key))
      /\ request' = [request EXCEPT ![q] = NoRequest]
  BY DEF Insert, Answer, LineageInv, TypeOK, CreatesSoundly, Keys
<1>2. CASE taken
  <2>1. renders' = renders
    BY <1>2 DEF Insert
  <2>. QED BY <1>1, <2>1, RowsUntouched, Moving
<1>3. CASE ~ taken
  <2>1. renders' = Append(older, row)
    BY <1>3 DEF Insert
  <2>2. row \in Render /\ row.lineage = key /\ row.clip = request[q].clip
        /\ row.version = request[q].last + 1
    BY <1>1 DEF NewRender, Render, Request, Keys
  <2>3. row.version = Cardinality(OfLineage(key)) + 1
    <3>1. Cardinality(OfLineage(key)) \in Nat /\ request[q].last \in Nat
      BY <1>1, LineagesAreFinite DEF LineageInv, Request
    <3>2. request[q].last + 1 \notin 1 .. Cardinality(OfLineage(key))
      BY <1>1, <1>3, <2>2 DEF LineageInv, VersionsFill, Keys
    <3>. QED BY <1>1, <2>2, <3>1, <3>2
  <2>4. older \in Seq(Render) /\ Len(older) = Len(renders)
        /\ \A i \in Rows : /\ older[i].lineage = renders[i].lineage
                           /\ older[i].version = renders[i].version
                           /\ older[i].clip = renders[i].clip
    <3>1. renders \in Seq(Render) /\ Len(renders) \in Nat
      BY DEF LineageInv, TypeOK
    <3>2. ASSUME NEW i \in Rows
          PROVE /\ older[i] \in Render /\ older[i].lineage = renders[i].lineage
                /\ older[i].version = renders[i].version /\ older[i].clip = renders[i].clip
      <4> DEFINE latest == renders[i].latest /\ i \notin request[q].rows
      <4>1. renders[i] \in Render
        BY <3>1 DEF Rows
      <4>2. older[i] = [renders[i] EXCEPT !.latest = latest]
        BY DEF WithoutLatest
      <4>3. latest \in BOOLEAN
        OBVIOUS
      <4> HIDE DEF latest, older
      <4>4. older[i] \in Render
        BY <4>1, <4>2, <4>3, RowFields
      <4>. QED BY <4>1, <4>2, <4>4 DEF Render
    <3>3. DOMAIN older = 1 .. Len(renders) /\ older = [i \in 1 .. Len(renders) |-> older[i]]
      BY DEF WithoutLatest, Rows
    <3> HIDE DEF older
    <3>4. older \in Seq(Render)
      BY <3>1, <3>2, <3>3, AsSequence DEF Rows
    <3>. QED BY <3>1, <3>2, <3>3, <3>4
  <2> HIDE DEF row, older
  <2>5. /\ VersionsAreConsecutive' /\ VersionsFill' /\ SnapshotIsRenderable'
        /\ renders' \in Seq(Render)
        /\ \A k : /\ Cardinality(OfLineage(k)) \in Nat /\ Cardinality(OfLineage(k)') \in Nat
                  /\ Cardinality(OfLineage(k)) <= Cardinality(OfLineage(k)')
    BY <1>1, <2>1, <2>2, <2>3, <2>4, Appended
  <2>6. TypeOK'
    BY <1>1, <2>5, IdleIsRequest DEF TypeOK, LineageInv
  <2>7. CreatesSoundly'
    <3> SUFFICES ASSUME NEW p \in Requests
          PROVE /\ request'[p].pc \in {"dedupe", "last", "unset", "insert"} =>
                      request'[p].lineage \in Keys /\ Renderable(request'[p].clip)
                /\ request'[p].pc \in {"unset", "insert"} =>
                      \A k : k = request'[p].lineage => request'[p].last <= Cardinality(OfLineage(k)')
      BY DEF CreatesSoundly, Renderable, Keys
    <3>1. CASE p = q
      <4>1. request'[p].pc = "idle"
        BY <1>1, <3>1 DEF NoRequest, LineageInv, TypeOK
      <4>. QED BY <4>1
    <3>2. CASE p # q
      <4>1. request'[p] = request[p] /\ request[p].last \in Nat
        BY <1>1, <3>2 DEF LineageInv, TypeOK, Request
      <4>. QED BY <2>5, <4>1 DEF LineageInv, CreatesSoundly, Keys
    <3>. QED BY <3>1, <3>2
  <2>. QED BY <2>5, <2>6, <2>7 DEF LineageInv
<1>. QED BY <1>2, <1>3

(* remove(): a soft delete and a promotion touch no version.               *)
LEMMA RemovingARender ==
    ASSUME LineageInv, NEW q \in Requests,
           AskRemove(q) \/ Delete(q) \/ FindNewest(q) \/ Promote(q) \/ Die(q)
    PROVE  LineageInv'
<1>0. request[q] \in Request /\ \A i \in Rows : renders[i] \in Render
  BY DEF LineageInv, TypeOK, Rows
<1>1. CASE AskRemove(q)
  <2>1. PICK i \in Live : Begin(q, [NoRequest EXCEPT !.pc = "delete", !.row = i,
                                       !.wasLatest = renders[i].latest,
                                       !.lineage = renders[i].lineage])
    BY <1>1 DEF AskRemove
  <2> DEFINE latest == renders[i].latest
             key == renders[i].lineage
             r == [NoRequest EXCEPT !.pc = "delete", !.row = i, !.wasLatest = latest, !.lineage = key]
  <2>2. latest \in BOOLEAN /\ key \in Keys /\ i \in Nat
    BY <1>0 DEF Live, Rows, Render, Keys
  <2>3. request' = [request EXCEPT ![q] = r] /\ renders' = renders
    BY <2>1 DEF Begin
  <2> HIDE DEF latest, key
  <2>4. r \in Request /\ r.pc = "delete"
    BY <2>2, IdleIsRequest DEF NoRequest, Request, Keys
  <2> HIDE DEF r
  <2>. QED BY <2>3, <2>4, RowsUntouched, OthersStaySound
<1>2. CASE Delete(q)
  <2> DEFINE i == request[q].row
             row == [renders[i] EXCEPT !.deleted = TRUE, !.latest = FALSE]
  <2>1. renders' = [renders EXCEPT ![i] = row] /\ request' = [request EXCEPT ![q].pc = "newest"]
        /\ request[q].pc = "delete"
    BY <1>2 DEF Delete, Goto
  <2>2. i \in Rows => /\ row \in Render /\ row.lineage = renders[i].lineage
                      /\ row.version = renders[i].version /\ row.clip = renders[i].clip
    <3> SUFFICES ASSUME i \in Rows
          PROVE /\ row \in Render /\ row.lineage = renders[i].lineage
                /\ row.version = renders[i].version /\ row.clip = renders[i].clip
      OBVIOUS
    <3>1. row \in Render
      BY <1>0, RowFields
    <3>. QED BY <1>0, <3>1 DEF Render
  <2>3. request'[q].pc = "newest"
    BY <1>0, <2>1 DEF LineageInv, TypeOK, Request
  <2> HIDE DEF row
  <2>4. KeepsVersions
    BY <2>1, <2>2, RowWritten DEF LineageInv
  <2>. QED BY <2>1, <2>3, <2>4, Moving
<1>3. CASE FindNewest(q)
  <2>1. request[q].pc = "newest" /\ renders' = renders
    BY <1>3 DEF FindNewest
  <2>2. CASE request' = [request EXCEPT ![q] = NoRequest]
    BY <2>1, <2>2, RowsUntouched, Moving
  <2>3. ASSUME NEW top, top \in Nat,
               request' = [request EXCEPT ![q].pc = "promote", ![q].row = top]
        PROVE  LineageInv'
    <3> DEFINE r == [request[q] EXCEPT !.pc = "promote", !.row = top]
    <3>1. request' = [request EXCEPT ![q] = r]
      BY <2>3
    <3>2. r \in Request /\ r.pc = "promote"
      BY <1>0, <2>3 DEF Request
    <3> HIDE DEF r
    <3>. QED BY <2>1, <3>1, <3>2, RowsUntouched, OthersStaySound
  <2> DEFINE rows == OfLineage(request[q].lineage) \cap Live
  <2>4. CASE rows # {} /\ request[q].wasLatest
    <3>1. request' = [request EXCEPT ![q].pc = "promote", ![q].row = Newest(rows)]
      BY <1>3, <2>4 DEF FindNewest
    <3>2. Newest(rows) \in Nat
      <4>1. PICK top \in rows : \A j \in rows : renders[j].version <= renders[top].version
        BY <2>4, VersionsHaveMaximum DEF OfLineage
      <4>2. Newest(rows) \in rows
        <5> HIDE DEF rows
        <5>. QED BY <4>1 DEF Newest
      <4>. QED BY <4>2 DEF OfLineage, Rows
    <3>. QED BY <2>3, <3>1, <3>2
  <2>5. CASE ~ (rows # {} /\ request[q].wasLatest)
    BY <1>3, <2>2, <2>5 DEF FindNewest, Answer
  <2>. QED BY <2>4, <2>5
<1>4. CASE Promote(q)
  <2> DEFINE i == request[q].row
             row == [renders[i] EXCEPT !.latest = TRUE]
  <2>1. renders' = [renders EXCEPT ![i] = row] /\ request' = [request EXCEPT ![q] = NoRequest]
    BY <1>4 DEF Promote, Answer
  <2>2. i \in Rows => /\ row \in Render /\ row.lineage = renders[i].lineage
                      /\ row.version = renders[i].version /\ row.clip = renders[i].clip
    <3> SUFFICES ASSUME i \in Rows
          PROVE /\ row \in Render /\ row.lineage = renders[i].lineage
                /\ row.version = renders[i].version /\ row.clip = renders[i].clip
      OBVIOUS
    <3>1. row \in Render
      BY <1>0, RowFields
    <3>. QED BY <1>0, <3>1 DEF Render
  <2> HIDE DEF row
  <2>3. KeepsVersions
    BY <2>1, <2>2, RowWritten DEF LineageInv
  <2>. QED BY <2>1, <2>3, Moving
<1>5. CASE Die(q)
  <2>1. renders' = renders /\ request' = [request EXCEPT ![q] = NoRequest]
    BY <1>5 DEF Die, Answer
  <2>. QED BY <2>1, RowsUntouched, Moving
<1>. QED BY <1>1, <1>2, <1>3, <1>4, <1>5

LEMMA RemovingTheVideo ==
    ASSUME LineageInv, RemoveVideo
    PROVE  LineageInv'
<1>1. renders \in Seq(Render) /\ Len(renders) \in Nat /\ UNCHANGED request
  BY DEF LineageInv, TypeOK, RemoveVideo
<1>2. renders' = [i \in 1 .. Len(renders) |-> [renders[i] EXCEPT !.deleted = TRUE]]
  BY DEF RemoveVideo, Rows
<1>3. ASSUME NEW i \in Rows
      PROVE /\ renders'[i] \in Render /\ renders'[i].lineage = renders[i].lineage
            /\ renders'[i].version = renders[i].version /\ renders'[i].clip = renders[i].clip
  <2>1. renders[i] \in Render /\ renders'[i] = [renders[i] EXCEPT !.deleted = TRUE]
    BY <1>1, <1>2 DEF Rows
  <2>2. renders'[i] \in Render
    BY <2>1, RowFields
  <2>. QED BY <2>1, <2>2 DEF Render
<1>4. renders' \in Seq(Render) /\ Len(renders') = Len(renders)
  <2>1. renders' = [i \in 1 .. Len(renders) |-> renders'[i]]
    BY <1>2
  <2>. QED BY <1>1, <1>3, <2>1, AsSequence DEF Rows
<1>5. KeepsVersions
  BY <1>3, <1>4 DEF KeepsVersions
<1>. QED BY <1>1, <1>5, KeptVersions
         DEF LineageInv, TypeOK, KeepsVersions, CreatesSoundly, Renderable

LEMMA InitEstablishes == Init => LineageInv
<1> SUFFICES ASSUME Init PROVE LineageInv
  OBVIOUS
<1>1. renders = << >> /\ Rows = {} /\ \A q \in Requests : request[q] = NoRequest
  BY DEF Init, Rows
<1>2. TypeOK
  BY <1>1, IdleIsRequest DEF Init, TypeOK
<1>3. VersionsFill
  <2>1. \A key : OfLineage(key) = {}
    BY <1>1 DEF OfLineage
  <2>. QED BY <2>1, FS_EmptySet DEF VersionsFill
<1>4. CreatesSoundly
  BY <1>1 DEF CreatesSoundly, NoRequest
<1>. QED BY <1>1, <1>2, <1>3, <1>4
         DEF LineageInv, VersionsAreConsecutive, SnapshotIsRenderable

LEMMA NextPreserves == LineageInv /\ [Next]_vars => LineageInv'
<1> SUFFICES ASSUME LineageInv, [Next]_vars PROVE LineageInv'
  OBVIOUS
<1>1. ASSUME NEW q \in Requests,
             FromCandidate(q) \/ Manual(q) \/ Rerender(q)
      PROVE  LineageInv'
  <2>1. CASE FromCandidate(q)
    BY <2>1, Creating, DefaultsAreSettings DEF FromCandidate, Keys
  <2>2. CASE Manual(q)
    BY <2>2, Creating, DefaultsAreSettings DEF Manual, Keys
  <2>3. CASE Rerender(q)
    <3>1. PICK parent \in Live :
            Create(q, renders[parent].lineage, renders[parent].clip, renders[parent].clip.settings)
      BY <2>3 DEF Rerender
    <3>2. renders[parent] \in Render
      BY DEF Live, Rows, LineageInv, TypeOK
    <3>3. renders[parent].lineage \in Keys /\ renders[parent].clip.settings \in Settings
      BY <3>2 DEF Render, Clip, Keys
    <3>. QED BY <3>1, <3>3, Creating
  <2>. QED BY <1>1, <2>1, <2>2, <2>3
<1>2. ASSUME NEW q \in Requests, Deduplicate(q)
      PROVE  LineageInv'
  <2>1. KeepsVersions /\ request[q].pc = "dedupe"
    BY <1>2, RowsUntouched DEF Deduplicate
  <2>. QED BY <1>2, <2>1, Moving DEF Deduplicate, Answer, Goto
<1>3. ASSUME NEW q \in Requests, ReadLast(q) \/ UnsetLatest(q) \/ Insert(q)
      PROVE  LineageInv'
  BY <1>3, ReadingLast, Unsetting, Inserting
<1>4. CASE WorkerEnds
  BY <1>4, Becoming DEF WorkerEnds
<1>5. CASE Retry
  BY <1>5, Becoming DEF Retry
<1>6. CASE UNCHANGED vars
  <2>1. KeepsVersions
    BY <1>6, RowsUntouched DEF vars
  <2>. QED BY <1>6, <2>1, KeptVersions
           DEF vars, LineageInv, TypeOK, KeepsVersions, CreatesSoundly, Renderable
<1>. QED BY <1>1, <1>2, <1>3, <1>4, <1>5, <1>6, RemovingARender, RemovingTheVideo DEF Next

-----------------------------------------------------------------------------
(* Types, versions, fillings, requests and snapshots stay together as
   LineageInv says, whatever create() and remove() interleave with.        *)
THEOREM LineageInvHolds == Spec => []LineageInv
  BY InitEstablishes, NextPreserves, PTL DEF Spec

(* The versions of a lineage are 1, 2, 3, ... in the order in which
   RendersService.create committed them.                                   *)
THEOREM VersionsAreConsecutiveHolds == Spec => []VersionsAreConsecutive
<1>1. LineageInv => VersionsAreConsecutive
  BY DEF LineageInv
<1>. QED BY <1>1, LineageInvHolds, PTL

(* Every stored snapshot has the frame of its aspect ratio and a range that
   the worker accepts, whatever it inherited.                              *)
THEOREM SnapshotIsRenderableHolds == Spec => []SnapshotIsRenderable
<1>1. LineageInv => SnapshotIsRenderable
  BY DEF LineageInv
<1>. QED BY <1>1, LineageInvHolds, PTL

-----------------------------------------------------------------------------
(* The latest version of a lineage, when removals are alone.               *)

LEMMA VersionsGrow ==
    ASSUME LineageInv, NEW key, NEW i \in OfLineage(key), NEW k \in OfLineage(key)
    PROVE  /\ renders[i].version \in Nat
           /\ i < k => renders[i].version < renders[k].version
<1> DEFINE upTo(n) == {j \in OfLineage(key) : j <= n}
<1>1. \A n \in OfLineage(key) : renders[n].version = Cardinality(upTo(n))
  BY DEF LineageInv, VersionsAreConsecutive, OfLineage
<1>2. \A n : IsFiniteSet(upTo(n)) /\ Cardinality(upTo(n)) \in Nat
  BY LineagesAreFinite DEF LineageInv
<1>3. i \in Nat /\ k \in Nat
  BY DEF OfLineage, Rows
<1>4. ASSUME i < k PROVE Cardinality(upTo(i)) < Cardinality(upTo(k))
  <2>1. upTo(i) \cup {k} \subseteq upTo(k) /\ k \notin upTo(i)
    BY <1>3, <1>4 DEF OfLineage, Rows
  <2>2. Cardinality(upTo(i) \cup {k}) = Cardinality(upTo(i)) + 1
    BY <1>2, <2>1, FS_AddElement
  <2>3. Cardinality(upTo(i) \cup {k}) <= Cardinality(upTo(k))
    BY <1>2, <2>1, FS_Subset
  <2> HIDE DEF upTo
  <2>. QED BY <1>2, <2>2, <2>3
<1> HIDE DEF upTo
<1>. QED BY <1>1, <1>2, <1>4

(* The newest of some rows of a lineage is the one of the highest version. *)
LEMMA NewestIs ==
    ASSUME LineageInv, NEW key, NEW rows \in SUBSET OfLineage(key)
    PROVE  /\ rows # {} => Newest(rows) \in rows
           /\ \A i \in rows : i = Newest(rows) <=>
                 \A j \in rows : renders[j].version <= renders[i].version
<1>1. ASSUME rows # {}
      PROVE  /\ Newest(rows) \in rows
             /\ \A j \in rows : renders[j].version <= renders[Newest(rows)].version
  <2>1. \E top \in rows : \A j \in rows : renders[j].version <= renders[top].version
    BY <1>1, VersionsHaveMaximum
  <2>. QED BY <2>1 DEF Newest
<1>2. ASSUME NEW i \in rows, NEW k \in rows, renders[i].version = renders[k].version
      PROVE  i = k
  <2>1. i \in Nat /\ k \in Nat
    BY DEF OfLineage, Rows
  <2>2. renders[i].version \in Nat /\ ~ (i < k) /\ ~ (k < i)
    BY <1>2, VersionsGrow
  <2>. QED BY <2>1, <2>2
<1>3. ASSUME NEW i \in rows, \A j \in rows : renders[j].version <= renders[i].version
      PROVE  i = Newest(rows)
  <2>1. Newest(rows) \in rows
    BY <1>1
  <2>2. renders[Newest(rows)].version \in Nat /\ renders[i].version \in Nat
    BY <2>1, VersionsGrow
  <2>3. renders[Newest(rows)].version = renders[i].version
    BY <1>1, <1>3, <2>1, <2>2
  <2>. QED BY <1>2, <2>1, <2>3
<1>. QED BY <1>1, <1>3

HighestIsNewest ==
    \A key : \A i \in LiveOf(key) :
       i = Newest(LiveOf(key)) <=> \A j \in LiveOf(key) : renders[j].version <= renders[i].version

LEMMA Highest == LineageInv => HighestIsNewest
<1> SUFFICES ASSUME LineageInv, NEW key, NEW i \in LiveOf(key)
      PROVE  i = Newest(LiveOf(key)) <=> \A j \in LiveOf(key) : renders[j].version <= renders[i].version
  BY DEF HighestIsNewest
<1>1. LiveOf(key) \in SUBSET OfLineage(key)
  BY DEF LiveOf
<1>. QED BY <1>1, NewestIs

LEMMA HighestNext == LineageInv' => HighestIsNewest'
  BY Highest, PTL

(* A step that changes no latest, and removes all rows or none.            *)
KeepsLatest ==
    /\ KeepsVersions /\ orphaned' = orphaned
    /\ \A i \in Rows : renders'[i].latest = renders[i].latest
    /\ \/ \A i \in Rows : renders'[i].deleted = renders[i].deleted
       \/ \A i \in Rows : renders'[i].deleted

LEMMA LatestKept ==
    ASSUME LineageInv, LineageInv', KeepsLatest, NEW key
    PROVE  /\ OfLineage(key)' = OfLineage(key)
           /\ {i \in OfLineage(key) : renders[i].latest}' = {i \in OfLineage(key) : renders[i].latest}
           /\ \/ LiveOf(key)' = {}
              \/ /\ Live' = Live /\ LiveOf(key)' = LiveOf(key)
                 /\ \A i \in LiveOf(key) : i = Newest(LiveOf(key)) => i = Newest(LiveOf(key))'
           /\ LatestIsNewest(key) => LatestIsNewest(key)'
           /\ NoneIsLatest(key) => NoneIsLatest(key)'
<1>1. Rows' = Rows /\ OfLineage(key) \subseteq Rows
  BY DEF KeepsLatest, KeepsVersions, Rows, OfLineage
<1>2. OfLineage(key)' = OfLineage(key)
  BY KeptVersions DEF KeepsLatest
<1>3. Live' = Live \/ Live' = {}
  BY <1>1 DEF KeepsLatest, Live
<1>4. {i \in OfLineage(key) : renders[i].latest}' = {i \in OfLineage(key) : renders[i].latest}
  BY <1>1, <1>2 DEF KeepsLatest
<1>5. CASE Live' = {}
  <2>1. LiveOf(key)' = {}
    BY <1>5 DEF LiveOf
  <2>. QED BY <1>2, <1>4, <2>1 DEF LatestIsNewest, NoneIsLatest
<1>6. CASE Live' = Live
  <2>1. LiveOf(key)' = LiveOf(key) /\ LiveOf(key) \subseteq Rows
    BY <1>1, <1>2, <1>6 DEF LiveOf
  <2>2. \A i \in LiveOf(key) : renders'[i].version = renders[i].version
                               /\ renders'[i].latest = renders[i].latest
    BY <2>1 DEF KeepsLatest, KeepsVersions
  <2>3. \A i \in LiveOf(key) : i = Newest(LiveOf(key)) <=>
           \A j \in LiveOf(key) : renders[j].version <= renders[i].version
    BY Highest DEF HighestIsNewest
  <2>4. \A i \in LiveOf(key)' : i = Newest(LiveOf(key))' <=>
           \A j \in LiveOf(key)' : renders'[j].version <= renders'[i].version
    BY HighestNext DEF HighestIsNewest
  <2>5. \A i \in LiveOf(key) : i = Newest(LiveOf(key)) <=> i = Newest(LiveOf(key))'
    BY <2>1, <2>2, <2>3, <2>4
  <2>6. LatestIsNewest(key) => LatestIsNewest(key)'
    <3>1. key \in orphaned' <=> key \in orphaned
      BY DEF KeepsLatest
    <3>. QED BY <2>1, <2>2, <2>5, <3>1 DEF LatestIsNewest
  <2>7. NoneIsLatest(key) => NoneIsLatest(key)'
    BY <2>1, <2>2 DEF NoneIsLatest
  <2>. QED BY <1>2, <1>4, <1>6, <2>1, <2>5, <2>6, <2>7
<1>. QED BY <1>3, <1>5, <1>6

(* What keeps the latest versions as they are, and the removals.           *)
LEMMA PromotionFramed ==
    ASSUME LineageInv, LineageInv', PromotionInv, KeepsLatest,
           \A q \in Requests : Removing(q) \/ Removing(q)' => request'[q] = request[q],
           \A q \in Requests : Busy(q)' => Busy(q) \/ \A p \in Requests : ~ Removing(p),
           \A q \in Requests : request'[q].pc = "insert" =>
              \/ request'[q] = request[q]
              \/ request'[q].rows = {i \in OfLineage(request'[q].lineage) : renders[i].latest}
    PROVE  PromotionInv'
<1>1. \A q \in Requests : Removing(q)' <=> Removing(q)
  BY DEF Removing
<1>2. RemovesSoundly'
  BY <1>1 DEF RemovesSoundly, PromotionInv
<1>3. ASSUME NEW q \in Requests, NEW key \in Keys, request'[q].lineage = key
      PROVE  UnsetsAll(q, key)' /\ (Removing(q)' => RemovalReached(q, key)')
  <2>1. /\ OfLineage(key)' = OfLineage(key)
        /\ {i \in OfLineage(key) : renders[i].latest}' = {i \in OfLineage(key) : renders[i].latest}
        /\ \/ LiveOf(key)' = {}
           \/ /\ Live' = Live /\ LiveOf(key)' = LiveOf(key)
              /\ \A i \in LiveOf(key) : i = Newest(LiveOf(key)) => i = Newest(LiveOf(key))'
        /\ LatestIsNewest(key) => LatestIsNewest(key)'
        /\ NoneIsLatest(key) => NoneIsLatest(key)'
    BY LatestKept
  <2>2. UnsetsAll(q, key)'
    BY <1>3, <2>1 DEF PromotionInv, UnsetsAll, Keys
  <2>3. ASSUME Removing(q)' PROVE RemovalReached(q, key)'
    <3>1. request'[q] = request[q] /\ Removing(q)
      BY <1>1, <2>3
    <3>2. RemovalReached(q, key)
      BY <1>3, <3>1 DEF PromotionInv, Keys
    <3>3. request[q].row \in OfLineage(key) /\ request[q].row \in Rows
      BY <3>2 DEF RemovalReached, OfLineage
    <3>4. renders'[request[q].row].latest = renders[request[q].row].latest
      BY <3>3 DEF KeepsLatest
    <3>5. LiveOf(key) # {} => Newest(LiveOf(key)) \in LiveOf(key)
      BY NewestIs DEF LiveOf
    <3>. QED BY <2>1, <3>1, <3>2, <3>3, <3>4, <3>5 DEF RemovalReached
  <2>. QED BY <2>2, <2>3
<1>4. ASSUME NEW key \in Keys, \A q \in Requests : Removing(q)' => request'[q].lineage # key
      PROVE  LatestIsNewest(key)'
  <2>1. LatestIsNewest(key)
    BY <1>1, <1>4 DEF PromotionInv, Keys
  <2>. QED BY <2>1, LatestKept
<1>. QED BY <1>2, <1>3, <1>4 DEF PromotionInv, Keys

(* Steps that leave the rows be.                                           *)
LEMMA PromotionElsewhere ==
    ASSUME LineageInv, LineageInv', PromotionInv,
           \/ \E q \in Requests : \/ FromCandidate(q) \/ Manual(q) \/ Rerender(q)
                                  \/ Deduplicate(q) \/ ReadLast(q) \/ UnsetLatest(q)
           \/ WorkerEnds \/ Retry \/ RemoveVideo \/ UNCHANGED vars,
           RemovesAlone
    PROVE  PromotionInv'
<1>1. request \in [Requests -> Request] /\ renders \in Seq(Render) /\ Rows = DOMAIN renders
  BY DEF LineageInv, TypeOK, Rows
<1>2. CASE \E q \in Requests : FromCandidate(q) \/ Manual(q) \/ Rerender(q)
  <2>0. PICK q \in Requests : FromCandidate(q) \/ Manual(q) \/ Rerender(q)
    BY <1>2
  <2>1. PICK r : Begin(q, r) /\ r.pc = "dedupe"
    <3>1. PICK key, range, base : Create(q, key, range, base)
      BY <2>0 DEF FromCandidate, Manual, Rerender
    <3>2. PICK input \in Inputs, force \in BOOLEAN :
            LET start == Or(input.startMs, range.startMs)
                end == Or(input.endMs, range.endMs)
            IN Begin(q, [NoRequest EXCEPT !.pc = "dedupe", !.lineage = key, !.force = force,
                            !.clip = [startMs |-> start, endMs |-> end,
                                      settings |-> BuildRenderSettings(input, base)]])
      BY <3>1 DEF Create
    <3> DEFINE clip == [startMs |-> Or(input.startMs, range.startMs),
                        endMs |-> Or(input.endMs, range.endMs),
                        settings |-> BuildRenderSettings(input, base)]
               r == [NoRequest EXCEPT !.pc = "dedupe", !.lineage = key, !.force = force, !.clip = clip]
    <3>3. Begin(q, r)
      BY <3>2
    <3> HIDE DEF clip
    <3>4. r.pc = "dedupe"
      BY DEF NoRequest
    <3> HIDE DEF r
    <3>. QED BY <3>3, <3>4
  <2>2. /\ \A p \in Requests : ~ Removing(p) /\ UNCHANGED <<renders, orphaned>>
        /\ request'[q] = r /\ \A p \in Requests \ {q} : request'[p] = request[p]
    BY <1>1, <2>1 DEF Begin
  <2>3. KeepsLatest
    BY <2>2, RowsUntouched DEF KeepsLatest
  <2>. QED BY <2>1, <2>2, <2>3, PromotionFramed DEF Removing
<1>3. ASSUME NEW q \in Requests, Deduplicate(q) \/ ReadLast(q) \/ UnsetLatest(q)
      PROVE  PromotionInv'
  <2>1. /\ request[q].pc \in {"dedupe", "last", "unset"} /\ UNCHANGED <<renders, orphaned>>
        /\ \A p \in Requests \ {q} : request'[p] = request[p]
    BY <1>1, <1>3 DEF Deduplicate, ReadLast, UnsetLatest, Answer, Goto
  <2>2. request'[q].pc \in {"idle", "last", "unset", "insert"}
    BY <1>1, <1>3 DEF Deduplicate, ReadLast, UnsetLatest, Answer, Goto, NoRequest, Request
  <2>3. request'[q].pc = "insert" =>
          request'[q].rows = {i \in OfLineage(request'[q].lineage) : renders[i].latest}
    BY <1>1, <1>3 DEF Deduplicate, ReadLast, UnsetLatest, Answer, Goto, NoRequest, Request
  <2>4. KeepsLatest
    BY <2>1, RowsUntouched DEF KeepsLatest
  <2>. QED BY <2>1, <2>2, <2>3, <2>4, PromotionFramed DEF Removing, Busy
<1>4. CASE WorkerEnds \/ Retry \/ RemoveVideo \/ UNCHANGED vars
  <2>1. UNCHANGED <<request, orphaned>>
    BY <1>4 DEF WorkerEnds, Retry, RemoveVideo, vars
  <2>2. CASE WorkerEnds \/ Retry
    <3>1. PICK i \in Live, status \in {"active", "COMPLETED", "FAILED"} : Becomes(i, status)
      BY <2>2 DEF WorkerEnds, Retry
    <3> DEFINE row == [renders[i] EXCEPT !.status = status]
    <3>2. i \in Rows /\ renders[i] \in Render /\ renders' = [renders EXCEPT ![i] = row]
      BY <1>1, <3>1 DEF Becomes, Live
    <3>3. /\ row \in Render /\ row.lineage = renders[i].lineage /\ row.version = renders[i].version
          /\ row.clip = renders[i].clip /\ row.latest = renders[i].latest
          /\ row.deleted = renders[i].deleted
      BY <3>2 DEF Render
    <3> HIDE DEF row
    <3>4. KeepsVersions
      BY <3>2, <3>3, RowWritten DEF LineageInv
    <3>5. \A j \in Rows : renders'[j].latest = renders[j].latest /\ renders'[j].deleted = renders[j].deleted
      BY <1>1, <3>2, <3>3
    <3>6. KeepsLatest
      BY <2>1, <3>4, <3>5 DEF KeepsLatest
    <3>. QED BY <2>1, <3>6, PromotionFramed DEF Busy, Removing
  <2>3. CASE RemoveVideo
    <3>1. ASSUME NEW i \in Rows
          PROVE /\ renders'[i].lineage = renders[i].lineage /\ renders'[i].version = renders[i].version
                /\ renders'[i].clip = renders[i].clip /\ renders'[i].latest = renders[i].latest
                /\ renders'[i].deleted
      <4>1. renders[i] \in Render
        BY <1>1
      <4>2. renders'[i] = [renders[i] EXCEPT !.deleted = TRUE]
        BY <2>3 DEF RemoveVideo
      <4>. QED BY <4>1, <4>2 DEF Render
    <3>2. Rows' = Rows
      BY <1>1, <2>3 DEF RemoveVideo, Rows
    <3>3. renders' \in Seq(Render) /\ Len(renders') = Len(renders)
      BY <1>1, <2>3, <3>2 DEF LineageInv, TypeOK, RemoveVideo, Rows
    <3>4. KeepsLatest
      BY <2>1, <3>1, <3>3 DEF KeepsLatest, KeepsVersions
    <3>. QED BY <2>1, <3>4, PromotionFramed DEF Busy, Removing
  <2>4. CASE UNCHANGED vars
    <3>1. KeepsLatest
      BY <2>4, RowsUntouched DEF vars, KeepsLatest
    <3>. QED BY <2>1, <3>1, PromotionFramed DEF Busy, Removing
  <2>. QED BY <1>4, <2>2, <2>3, <2>4
<1>. QED BY <1>2, <1>3, <1>4

(* An insert that succeeds read the last version there is, so it unset
   every latest one, and its own is the highest.                           *)
LEMMA PromotionInserted ==
    ASSUME LineageInv, LineageInv', PromotionInv, NEW q \in Requests, Insert(q)
    PROVE  PromotionInv'
<1>0. PICK mine \in Keys : mine = request[q].lineage
  BY DEF Insert, LineageInv, CreatesSoundly, Keys
<1> DEFINE row == NewRender(q)
           new == Len(renders) + 1
           older == WithoutLatest(request[q].rows)
           taken == \E i \in OfLineage(mine) : renders[i].version = row.version
<1>1. /\ request \in [Requests -> Request] /\ renders \in Seq(Render) /\ Rows = DOMAIN renders
      /\ Len(renders) \in Nat /\ request[q].pc = "insert"
      /\ request[q].last \in Nat /\ request[q].last <= Cardinality(OfLineage(mine))
  BY <1>0 DEF Insert, LineageInv, TypeOK, Rows, CreatesSoundly, Keys, Request
<1>2. request'[q].pc = "idle" /\ \A p \in Requests \ {q} : request'[p] = request[p]
  BY <1>1 DEF Insert, Answer, NoRequest
<1>3. \A p \in Requests : ~ Removing(p) /\ ~ Removing(p)'
  BY <1>1, <1>2 DEF PromotionInv, RemovesSoundly, Removing, Busy
<1>4. CASE taken
  <2>1. UNCHANGED <<renders, orphaned>>
    BY <1>0, <1>4 DEF Insert
  <2>2. KeepsLatest
    BY <2>1, RowsUntouched DEF KeepsLatest
  <2>. QED BY <1>2, <1>3, <2>2, PromotionFramed DEF Busy
<1>5. CASE ~ taken
  <2>1. renders' = Append(older, row) /\ orphaned' = orphaned \ {mine}
    BY <1>0, <1>5 DEF Insert
  <2>2. /\ row.lineage = mine /\ row.latest /\ ~ row.deleted /\ row.version = request[q].last + 1
    BY <1>0 DEF NewRender
  <2>3. request[q].last = Cardinality(OfLineage(mine)) /\ Cardinality(OfLineage(mine)) \in Nat
    <3>1. Cardinality(OfLineage(mine)) \in Nat
      BY LineagesAreFinite DEF LineageInv
    <3>2. request[q].last + 1 \notin 1 .. Cardinality(OfLineage(mine))
      BY <1>1, <1>5, <2>2 DEF LineageInv, VersionsFill, Keys
    <3>. QED BY <1>1, <3>1, <3>2
  <2>4. request[q].rows = {i \in OfLineage(mine) : renders[i].latest}
    BY <1>0, <1>1, <2>3 DEF PromotionInv, UnsetsAll, Keys
  <2>5. ASSUME NEW i \in Rows
        PROVE  /\ renders'[i].lineage = renders[i].lineage /\ renders'[i].version = renders[i].version
               /\ renders'[i].deleted = renders[i].deleted
               /\ renders'[i].latest = (renders[i].latest /\ renders[i].lineage # mine)
    <3> DEFINE latest == renders[i].latest /\ i \notin request[q].rows
    <3>1. DOMAIN older = Rows /\ older[i] = [renders[i] EXCEPT !.latest = latest]
      BY DEF WithoutLatest
    <3>2. renders'[i] = older[i]
      <4>1. Len(older) = Len(renders) /\ DOMAIN older = 1 .. Len(renders)
        BY <1>1, <3>1 DEF Rows, WithoutLatest
      <4>. QED BY <1>1, <2>1, <4>1 DEF Rows
    <3>3. renders[i] \in Render /\ latest = (renders[i].latest /\ renders[i].lineage # mine)
      BY <1>1, <2>4 DEF OfLineage
    <3> HIDE DEF latest, older
    <3>. QED BY <3>1, <3>2, <3>3 DEF Render
  <2>6. Rows' = Rows \cup {new} /\ new \notin Rows /\ renders'[new] = row
    <3>1. Len(older) = Len(renders)
      BY <1>1 DEF Rows, WithoutLatest
    <3> HIDE DEF older, row
    <3>2. Len(renders') = new /\ renders'[new] = row
      BY <1>1, <2>1, <3>1
    <3>. QED BY <1>1, <3>2 DEF Rows
  <2> HIDE DEF row, older, new
  <2>7. ASSUME NEW key, key # mine
        PROVE  /\ OfLineage(key)' = OfLineage(key) /\ LiveOf(key)' = LiveOf(key)
               /\ \A i \in OfLineage(key) : renders'[i].latest = renders[i].latest
    <3>1. OfLineage(key)' = OfLineage(key)
      BY <2>2, <2>5, <2>6, <2>7 DEF OfLineage
    <3>2. OfLineage(key) \subseteq Rows
      BY DEF OfLineage
    <3>3. \A i \in OfLineage(key) : /\ i \in Live' <=> i \in Live
                                   /\ renders'[i].latest = renders[i].latest
      <4> SUFFICES ASSUME NEW i \in OfLineage(key)
            PROVE  (i \in Live' <=> i \in Live) /\ renders'[i].latest = renders[i].latest
        OBVIOUS
      <4>1. i \in Rows /\ renders[i].lineage = key /\ renders[i] \in Render
        BY <1>1 DEF OfLineage
      <4>. QED BY <2>5, <2>6, <2>7, <4>1 DEF Live, Render
    <3>. QED BY <3>1, <3>2, <3>3 DEF LiveOf
  <2>8. /\ OfLineage(mine)' = OfLineage(mine) \cup {new}
        /\ \A i \in OfLineage(mine) : ~ renders'[i].latest
    <3>1. {i \in Rows \cup {new} : renders'[i].lineage = mine} = OfLineage(mine) \cup {new}
      BY <2>2, <2>5, <2>6 DEF OfLineage
    <3>. QED BY <2>5, <2>6, <3>1 DEF OfLineage
  <2>9. LatestIsNewest(mine)'
    <3> SUFFICES ASSUME NEW i \in LiveOf(mine)'
          PROVE  renders'[i].latest <=> i = Newest(LiveOf(mine))'
      BY <2>1 DEF LatestIsNewest
    <3>1. new \in LiveOf(mine)' /\ renders'[new].latest
      BY <2>2, <2>6, <2>8 DEF LiveOf, Live
    <3>2. LiveOf(mine)' \subseteq OfLineage(mine) \cup {new}
      BY <2>8 DEF LiveOf
    <3>3. \A j \in LiveOf(mine)' : renders'[j].version <= renders'[new].version
      <4> SUFFICES ASSUME NEW j \in OfLineage(mine)
            PROVE  renders'[j].version <= renders'[new].version
        BY <2>2, <2>6, <3>2, <1>1
      <4>1. j \in Rows /\ renders[j].lineage = mine
        BY DEF OfLineage
      <4>2. renders[j].version <= Cardinality(OfLineage(mine)) /\ renders[j].version \in Nat
        <5>1. renders[j].version = Cardinality({k \in OfLineage(mine) : k <= j})
          BY <4>1 DEF LineageInv, VersionsAreConsecutive
        <5>. QED BY <5>1, LineagesAreFinite DEF LineageInv
      <4>. QED BY <2>2, <2>3, <2>5, <2>6, <4>1, <4>2
    <3>4. new = Newest(LiveOf(mine))'
      BY <3>1, <3>3, HighestNext DEF HighestIsNewest
    <3>5. CASE i = new
      BY <3>1, <3>4, <3>5
    <3>6. CASE i # new
      BY <2>8, <3>2, <3>4, <3>6
    <3>. QED BY <3>5, <3>6
  <2>10. ASSUME NEW key \in Keys, key # mine PROVE LatestIsNewest(key)'
    <3>1. LatestIsNewest(key)
      BY <1>3 DEF PromotionInv, Keys
    <3>2. LiveOf(key)' = LiveOf(key) /\ \A i \in LiveOf(key) : i \in Rows /\ renders'[i].latest = renders[i].latest
      BY <2>7, <2>10 DEF LiveOf, OfLineage
    <3>3. \A i \in LiveOf(key) : i = Newest(LiveOf(key)) <=>
             \A j \in LiveOf(key) : renders[j].version <= renders[i].version
      BY Highest DEF HighestIsNewest
    <3>4. \A i \in LiveOf(key)' : i = Newest(LiveOf(key))' <=>
             \A j \in LiveOf(key)' : renders'[j].version <= renders'[i].version
      BY HighestNext DEF HighestIsNewest
    <3>5. \A i \in LiveOf(key) : i = Newest(LiveOf(key)) <=> i = Newest(LiveOf(key))'
      BY <2>5, <3>2, <3>3, <3>4
    <3>6. key \in orphaned' <=> key \in orphaned
      BY <2>1, <2>10
    <3>. QED BY <3>1, <3>2, <3>5, <3>6 DEF LatestIsNewest
  <2>11. ASSUME NEW p \in Requests, NEW key \in Keys, request'[p].lineage = key
         PROVE  UnsetsAll(p, key)'
    <3> SUFFICES ASSUME request'[p].pc = "insert", request'[p].last = Cardinality(OfLineage(key)')
          PROVE  request'[p].rows = {i \in OfLineage(key) : renders[i].latest}'
      BY DEF UnsetsAll
    <3>1. p # q /\ request'[p] = request[p]
      BY <1>2
    <3>2. CASE key = mine
      <4>1. request[p].last <= Cardinality(OfLineage(mine)) /\ request[p].last \in Nat
        BY <1>1, <2>11, <3>1, <3>2 DEF LineageInv, CreatesSoundly, Request
      <4>2. Cardinality(OfLineage(mine)') = Cardinality(OfLineage(mine)) + 1
        <5>1. IsFiniteSet(OfLineage(mine)) /\ new \notin OfLineage(mine)
          BY <2>6, LineagesAreFinite DEF LineageInv, OfLineage
        <5>. QED BY <2>8, <5>1, FS_AddElement
      <4>. QED BY <2>3, <3>1, <3>2, <4>1, <4>2
    <3>3. CASE key # mine
      BY <2>7, <2>11, <3>1, <3>3 DEF PromotionInv, UnsetsAll, Keys
    <3>. QED BY <3>2, <3>3
  <2>12. RemovesSoundly'
    BY <1>3 DEF RemovesSoundly
  <2>. QED BY <1>3, <2>9, <2>10, <2>11, <2>12 DEF PromotionInv, Keys
<1>. QED BY <1>4, <1>5

(* A removal's steps: all other requests are idle.                         *)
LEMMA RemovalStep ==
    ASSUME NEW q \in Requests, NEW key \in Keys,
           \A p \in Requests \ {q} : ~ Busy(p)',
           request'[q].pc \in {"idle", "delete", "newest", "promote"},
           Removing(q)' => request'[q].lineage = key /\ RemovalReached(q, key)',
           ~ Removing(q)' => LatestIsNewest(key)',
           \A k \in Keys \ {key} : LatestIsNewest(k)'
    PROVE  PromotionInv'
<1>1. \A p \in Requests : request'[p].pc # "insert" /\ (Removing(p)' => p = q)
  BY DEF Busy, Removing
<1>2. RemovesSoundly'
  BY <1>1 DEF RemovesSoundly, Keys
<1>3. ASSUME NEW k \in Keys, NEW p \in Requests, request'[p].lineage = k
      PROVE  UnsetsAll(p, k)' /\ (Removing(p)' => RemovalReached(p, k)')
  <2>1. UnsetsAll(p, k)'
    BY <1>1 DEF UnsetsAll
  <2>2. ASSUME Removing(p)' PROVE RemovalReached(p, k)'
    <3>1. p = q /\ k = key
      BY <1>1, <1>3, <2>2
    <3>. QED BY <2>2, <3>1
  <2>. QED BY <2>1, <2>2
<1>4. ASSUME NEW k \in Keys, \A p \in Requests : Removing(p)' => request'[p].lineage # k
      PROVE  LatestIsNewest(k)'
  BY <1>4
<1>. QED BY <1>2, <1>3, <1>4 DEF PromotionInv, Keys

(* The highest of the live rows when versions are kept.                    *)
LEMMA NewestAfter ==
    ASSUME LineageInv, LineageInv', KeepsVersions, NEW key
    PROVE  /\ OfLineage(key)' = OfLineage(key)
           /\ \A i \in LiveOf(key)' : i \in Rows /\ (i = Newest(LiveOf(key))' <=>
                \A j \in LiveOf(key)' : renders[j].version <= renders[i].version)
<1>1. Rows' = Rows /\ OfLineage(key)' = OfLineage(key)
  BY KeptVersions DEF KeepsVersions, Rows
<1>2. LiveOf(key)' \subseteq Rows
  BY <1>1 DEF LiveOf, OfLineage
<1>3. \A i \in LiveOf(key)' : i = Newest(LiveOf(key))' <=>
         \A j \in LiveOf(key)' : renders'[j].version <= renders'[i].version
  BY HighestNext DEF HighestIsNewest
<1>. QED BY <1>1, <1>2, <1>3 DEF KeepsVersions

(* What is written to one row of a lineage leaves the others as they are.  *)
LEMMA OtherLineages ==
    ASSUME LineageInv, LineageInv', KeepsVersions, NEW i, NEW key, NEW k, k # key,
           i \in OfLineage(key),
           \A j \in Rows \ {i} : renders'[j] = renders[j],
           k \in orphaned' <=> k \in orphaned,
           LatestIsNewest(k)
    PROVE  LatestIsNewest(k)'
<1>1. OfLineage(k)' = OfLineage(k) /\ Rows' = Rows /\ OfLineage(k) \subseteq Rows \ {i}
  BY KeptVersions DEF KeepsVersions, Rows, OfLineage
<1>2. LiveOf(k)' = LiveOf(k) /\ \A j \in LiveOf(k) : renders'[j] = renders[j]
  BY <1>1 DEF LiveOf, Live
<1>3. \A j \in LiveOf(k) : j = Newest(LiveOf(k)) <=>
         \A l \in LiveOf(k) : renders[l].version <= renders[j].version
  BY Highest DEF HighestIsNewest
<1>4. \A j \in LiveOf(k) : j = Newest(LiveOf(k)) <=> j = Newest(LiveOf(k))'
  BY <1>2, <1>3, NewestAfter
<1>. QED BY <1>2, <1>4 DEF LatestIsNewest

LEMMA PromotionAsked ==
    ASSUME RemovesAlone, LineageInv, LineageInv', PromotionInv, NEW q \in Requests, AskRemove(q)
    PROVE  PromotionInv'
<1>1. PICK i \in Live : Begin(q, [NoRequest EXCEPT !.pc = "delete", !.row = i,
                                     !.wasLatest = renders[i].latest,
                                     !.lineage = renders[i].lineage])
  BY DEF AskRemove
<1>2. i \in Rows /\ renders[i] \in Render /\ request \in [Requests -> Request]
  BY DEF Live, LineageInv, TypeOK, Rows
<1>3. PICK key \in Keys : key = renders[i].lineage
  BY <1>2 DEF Render, Keys
<1>4. (\A p \in Requests : ~ Busy(p)) /\ UNCHANGED <<renders, orphaned>>
  BY <1>1 DEF AskRemove, Begin
<1>5. /\ request'[q].pc = "delete" /\ request'[q].row = i /\ request'[q].wasLatest = renders[i].latest
      /\ request'[q].lineage = key
      /\ \A p \in Requests \ {q} : request'[p] = request[p]
  BY <1>1, <1>2, <1>3 DEF Begin, NoRequest
<1>6. KeepsLatest
  BY <1>4, RowsUntouched DEF KeepsLatest
<1>7. \A k \in Keys : LatestIsNewest(k)'
  <2>1. \A k \in Keys : LatestIsNewest(k)
    BY <1>4 DEF PromotionInv, Busy, Removing, Keys
  <2>. QED BY <1>6, <2>1, LatestKept
<1>8. RemovalReached(q, key)'
  <2>1. i \in OfLineage(key)' /\ i \in Live'
    BY <1>2, <1>3, <1>4 DEF OfLineage, Live, Rows
  <2>. QED BY <1>4, <1>5, <1>7, <2>1 DEF RemovalReached
<1>. QED BY <1>4, <1>5, <1>7, <1>8, RemovalStep DEF Busy, Removing

LEMMA PromotionDeleted ==
    ASSUME LineageInv, LineageInv', PromotionInv, NEW q \in Requests, Delete(q)
    PROVE  PromotionInv'
<1> DEFINE i == request[q].row
           row == [renders[i] EXCEPT !.deleted = TRUE, !.latest = FALSE]
<1>1. /\ request[q].pc = "delete" /\ Removing(q) /\ orphaned' = orphaned
      /\ renders' = [renders EXCEPT ![i] = row]
  BY DEF Delete, Removing
<1>2. PICK key \in Keys : request[q].lineage = key
  BY <1>1 DEF PromotionInv, RemovesSoundly, Keys
<1>3. /\ i \in OfLineage(key) /\ LatestIsNewest(key)
      /\ LiveOf(key) = {} \/ (i \in Live /\ request[q].wasLatest = renders[i].latest)
      /\ \A p \in Requests \ {q} : ~ Busy(p)
  BY <1>1, <1>2 DEF PromotionInv, RemovesSoundly, RemovalReached, Keys
<1>4. /\ i \in Rows /\ renders[i] \in Render /\ request \in [Requests -> Request]
      /\ renders \in Seq(Render) /\ Rows = DOMAIN renders
  BY <1>3 DEF OfLineage, LineageInv, TypeOK, Rows
<1>5. /\ request'[q].pc = "newest" /\ request'[q].row = i /\ request'[q].lineage = key
      /\ request'[q].wasLatest = request[q].wasLatest
      /\ \A p \in Requests \ {q} : request'[p] = request[p]
  BY <1>2, <1>4 DEF Delete, Goto, Request
<1>6. /\ row \in Render /\ row.lineage = renders[i].lineage /\ row.version = renders[i].version
      /\ row.clip = renders[i].clip /\ row.deleted /\ ~ row.latest
  BY <1>4 DEF Render
<1> HIDE DEF row
<1>7. KeepsVersions
  BY <1>1, <1>6, RowWritten DEF LineageInv
<1>8. renders'[i] = row /\ \A j \in Rows \ {i} : renders'[j] = renders[j]
  BY <1>1, <1>4
<1>9. PICK n \in Rows : n = i
  BY <1>4
<1> HIDE DEF i
<1>10. Rows' = Rows /\ OfLineage(key)' = OfLineage(key)
  BY <1>7, KeptVersions DEF KeepsVersions, Rows
<1>11. LiveOf(key)' = LiveOf(key) \ {n}
  BY <1>3, <1>6, <1>8, <1>9, <1>10 DEF LiveOf, Live, OfLineage
<1>12. \A j \in LiveOf(key)' : renders'[j].latest = renders[j].latest
  BY <1>8, <1>9, <1>11 DEF LiveOf, OfLineage
<1>13. \A j \in LiveOf(key) : j = Newest(LiveOf(key)) <=>
          \A l \in LiveOf(key) : renders[l].version <= renders[j].version
  BY Highest DEF HighestIsNewest
<1>14. \A j \in LiveOf(key)' : j = Newest(LiveOf(key))' <=>
          \A l \in LiveOf(key)' : renders[l].version <= renders[j].version
  BY <1>7, NewestAfter
<1>15. LiveOf(key) # {} => /\ n \in LiveOf(key) /\ request[q].wasLatest = renders[n].latest
                           /\ Newest(LiveOf(key)) \in LiveOf(key)
  BY <1>3, <1>9, NewestIs DEF LiveOf
<1>16. ASSUME request[q].wasLatest PROVE NoneIsLatest(key)'
  BY <1>3, <1>11, <1>12, <1>15, <1>16 DEF LatestIsNewest, NoneIsLatest
<1>17. ASSUME ~ request[q].wasLatest PROVE LatestIsNewest(key)'
  <2> SUFFICES ASSUME NEW j \in LiveOf(key)'
        PROVE  renders'[j].latest <=> key \notin orphaned /\ j = Newest(LiveOf(key))'
    BY <1>1 DEF LatestIsNewest
  <2>0. CASE key \in orphaned
    BY <1>3, <1>11, <1>12, <2>0 DEF LatestIsNewest
  <2> SUFFICES ASSUME key \notin orphaned
        PROVE  renders'[j].latest <=> j = Newest(LiveOf(key))'
    BY <2>0
  <2> DEFINE top == Newest(LiveOf(key))
  <2>1. /\ j \in LiveOf(key) /\ top \in LiveOf(key) /\ top # n
        /\ renders[j].latest <=> j = top
    BY <1>3, <1>11, <1>15, <1>17 DEF LatestIsNewest
  <2>2. top \in LiveOf(key)' /\ \A l \in LiveOf(key) : renders[l].version <= renders[top].version
    BY <1>11, <1>13, <2>1
  <2> HIDE DEF top
  <2>3. top = Newest(LiveOf(key))'
    BY <1>11, <1>14, <2>2
  <2>. QED BY <1>12, <2>1, <2>3
<1>18. ASSUME NEW k \in Keys \ {key} PROVE LatestIsNewest(k)'
  <2>1. LatestIsNewest(k)
    BY <1>2, <1>3 DEF PromotionInv, Removing, Busy, Keys
  <2>. QED BY <1>1, <1>3, <1>7, <1>8, <1>9, <1>18, <2>1, OtherLineages
<1>19. RemovalReached(q, key)'
  BY <1>3, <1>5, <1>10, <1>16, <1>17 DEF RemovalReached
<1>. QED BY <1>3, <1>5, <1>18, <1>19, RemovalStep DEF Busy, Removing

LEMMA PromotionFound ==
    ASSUME LineageInv, LineageInv', PromotionInv, NEW q \in Requests, FindNewest(q)
    PROVE  PromotionInv'
<1>1. request[q].pc = "newest" /\ Removing(q) /\ UNCHANGED <<renders, orphaned>>
  BY DEF FindNewest, Removing
<1>2. PICK key \in Keys : request[q].lineage = key
  BY <1>1 DEF PromotionInv, RemovesSoundly, Keys
<1>3. /\ request[q].wasLatest => NoneIsLatest(key)
      /\ ~ request[q].wasLatest => LatestIsNewest(key)
      /\ \A p \in Requests \ {q} : ~ Busy(p)
  BY <1>1, <1>2 DEF PromotionInv, RemovesSoundly, RemovalReached, Keys
<1>4. request \in [Requests -> Request]
  BY DEF LineageInv, TypeOK
<1>5. KeepsLatest
  BY <1>1, RowsUntouched DEF KeepsLatest
<1>6. /\ OfLineage(key)' = OfLineage(key)
      /\ \/ LiveOf(key)' = {}
         \/ LiveOf(key)' = LiveOf(key) /\ \A i \in LiveOf(key) : i = Newest(LiveOf(key)) => i = Newest(LiveOf(key))'
      /\ LatestIsNewest(key) => LatestIsNewest(key)'
      /\ NoneIsLatest(key) => NoneIsLatest(key)'
  BY <1>5, LatestKept
<1>7. ASSUME NEW k \in Keys \ {key} PROVE LatestIsNewest(k)'
  <2>1. LatestIsNewest(k)
    BY <1>2, <1>3 DEF PromotionInv, Removing, Busy, Keys
  <2>. QED BY <1>5, <2>1, LatestKept
<1>8. \A p \in Requests \ {q} : request'[p] = request[p]
  BY <1>4 DEF FindNewest, Answer
<1>9. CASE LiveOf(key) # {} /\ request[q].wasLatest
  <2>1. request' = [request EXCEPT ![q].pc = "promote", ![q].row = Newest(LiveOf(key))]
    BY <1>2, <1>9 DEF FindNewest, LiveOf
  <2>2. /\ request'[q].pc = "promote" /\ request'[q].row = Newest(LiveOf(key))
        /\ request'[q].lineage = key /\ request'[q].wasLatest = request[q].wasLatest
    BY <1>2, <1>4, <2>1 DEF Request
  <2>3. Newest(LiveOf(key)) \in LiveOf(key)
    BY <1>9, NewestIs DEF LiveOf
  <2>4. RemovalReached(q, key)'
    BY <1>3, <1>6, <1>9, <2>2, <2>3 DEF RemovalReached, LiveOf
  <2>. QED BY <1>3, <1>7, <1>8, <2>2, <2>4, RemovalStep DEF Busy, Removing
<1>10. CASE ~ (LiveOf(key) # {} /\ request[q].wasLatest)
  <2>1. Answer(q)
    BY <1>2, <1>10 DEF FindNewest, LiveOf
  <2>2. request'[q].pc = "idle"
    BY <1>4, <2>1 DEF Answer, NoRequest
  <2>3. LatestIsNewest(key)
    BY <1>3, <1>10 DEF LatestIsNewest
  <2>. QED BY <1>3, <1>6, <1>7, <1>8, <2>2, <2>3, RemovalStep DEF Busy, Removing
<1>. QED BY <1>9, <1>10

LEMMA PromotionMade ==
    ASSUME LineageInv, LineageInv', PromotionInv, NEW q \in Requests, Promote(q)
    PROVE  PromotionInv'
<1> DEFINE i == request[q].row
           row == [renders[i] EXCEPT !.latest = TRUE]
<1>1. /\ request[q].pc = "promote" /\ Removing(q)
      /\ orphaned' = orphaned \ {request[q].lineage}
      /\ renders' = [renders EXCEPT ![i] = row]
  BY DEF Promote, Removing
<1>2. PICK key \in Keys : request[q].lineage = key
  BY <1>1 DEF PromotionInv, RemovesSoundly, Keys
<1>3. /\ i \in OfLineage(key) /\ NoneIsLatest(key)
      /\ LiveOf(key) = {} \/ i = Newest(LiveOf(key))
      /\ \A p \in Requests \ {q} : ~ Busy(p)
  BY <1>1, <1>2 DEF PromotionInv, RemovesSoundly, RemovalReached, Keys
<1>4. /\ i \in Rows /\ renders[i] \in Render /\ request \in [Requests -> Request]
      /\ renders \in Seq(Render) /\ Rows = DOMAIN renders
  BY <1>3 DEF OfLineage, LineageInv, TypeOK, Rows
<1>5. request'[q].pc = "idle" /\ \A p \in Requests \ {q} : request'[p] = request[p]
  BY <1>4 DEF Promote, Answer, NoRequest
<1>6. /\ row \in Render /\ row.lineage = renders[i].lineage /\ row.version = renders[i].version
      /\ row.clip = renders[i].clip /\ row.deleted = renders[i].deleted /\ row.latest
  BY <1>4 DEF Render
<1> HIDE DEF row
<1>7. KeepsVersions
  BY <1>1, <1>6, RowWritten DEF LineageInv
<1>8. renders'[i] = row /\ \A j \in Rows \ {i} : renders'[j] = renders[j]
  BY <1>1, <1>4
<1>9. PICK n \in Rows : n = i
  BY <1>4
<1> HIDE DEF i
<1>10. Rows' = Rows /\ OfLineage(key)' = OfLineage(key)
  BY <1>7, KeptVersions DEF KeepsVersions, Rows
<1>11. LiveOf(key)' = LiveOf(key)
  <2>1. \A j \in Rows : renders'[j].deleted = renders[j].deleted
    BY <1>6, <1>8
  <2>. QED BY <1>10, <2>1 DEF LiveOf, Live
<1>12. \A j \in LiveOf(key) : j = Newest(LiveOf(key)) <=>
          \A l \in LiveOf(key) : renders[l].version <= renders[j].version
  BY Highest DEF HighestIsNewest
<1>13. \A j \in LiveOf(key)' : j = Newest(LiveOf(key))' <=>
          \A l \in LiveOf(key)' : renders[l].version <= renders[j].version
  BY <1>7, NewestAfter
<1>14. ASSUME NEW j \in LiveOf(key)'
       PROVE  renders'[j].latest <=> j = Newest(LiveOf(key))'
  <2>1. j \in LiveOf(key) /\ n = Newest(LiveOf(key)) /\ ~ renders[j].latest /\ j \in Rows
    BY <1>3, <1>9, <1>11, <1>14 DEF NoneIsLatest, LiveOf, OfLineage
  <2>2. j = Newest(LiveOf(key))' <=> j = n
    BY <1>11, <1>12, <1>13, <2>1
  <2>3. CASE j = n
    BY <1>6, <1>8, <1>9, <2>2, <2>3
  <2>4. CASE j # n
    BY <1>8, <1>9, <2>1, <2>2, <2>4
  <2>. QED BY <2>3, <2>4
<1>15. LatestIsNewest(key)'
  BY <1>1, <1>2, <1>14 DEF LatestIsNewest
<1>16. ASSUME NEW k \in Keys \ {key} PROVE LatestIsNewest(k)'
  <2>1. LatestIsNewest(k)
    BY <1>2, <1>3 DEF PromotionInv, Removing, Busy, Keys
  <2>. QED BY <1>1, <1>2, <1>3, <1>7, <1>8, <1>9, <1>16, <2>1, OtherLineages
<1>. QED BY <1>3, <1>5, <1>15, <1>16, RemovalStep DEF Busy, Removing

(* A removal that stops half way leaves its lineage without a latest.      *)
LEMMA PromotionLost ==
    ASSUME LineageInv, LineageInv', PromotionInv, NEW q \in Requests, Die(q)
    PROVE  PromotionInv'
<1>1. request[q].pc \in {"newest", "promote"} /\ Removing(q) /\ renders' = renders
  BY DEF Die, Removing
<1>2. PICK key \in Keys : request[q].lineage = key
  BY <1>1 DEF PromotionInv, RemovesSoundly, Keys
<1>3. /\ request[q].wasLatest => NoneIsLatest(key)
      /\ ~ request[q].wasLatest => LatestIsNewest(key)
      /\ \A p \in Requests \ {q} : ~ Busy(p)
  BY <1>1, <1>2 DEF PromotionInv, RemovesSoundly, RemovalReached, Keys
<1>4. request'[q].pc = "idle" /\ \A p \in Requests \ {q} : request'[p] = request[p]
  BY DEF Die, Answer, NoRequest, LineageInv, TypeOK
<1>5. /\ orphaned' = IF request[q].wasLatest THEN orphaned \cup {key} ELSE orphaned
      /\ \A k \in Keys \ {key} : k \in orphaned' <=> k \in orphaned
  BY <1>2 DEF Die
<1>6. \A k : LiveOf(k)' = LiveOf(k) /\ Newest(LiveOf(k))' = Newest(LiveOf(k))
  BY <1>1 DEF LiveOf, OfLineage, Live, Rows, Newest
<1>7. LatestIsNewest(key)'
  BY <1>1, <1>3, <1>5, <1>6 DEF LatestIsNewest, NoneIsLatest
<1>8. ASSUME NEW k \in Keys \ {key} PROVE LatestIsNewest(k)'
  <2>1. LatestIsNewest(k)
    BY <1>2, <1>3 DEF PromotionInv, Removing, Busy, Keys
  <2>. QED BY <1>1, <1>5, <1>6, <1>8, <2>1 DEF LatestIsNewest
<1>. QED BY <1>3, <1>4, <1>7, <1>8, RemovalStep DEF Busy, Removing

(* Removals that overlap no other request of the video: how far each is, and
   what a creation is about to unset.                                      *)
THEOREM PromotionInvHolds == ASSUME RemovesAlone PROVE Spec => []PromotionInv
<1>1. Init => PromotionInv
  <2> SUFFICES ASSUME Init PROVE PromotionInv
    OBVIOUS
  <2>1. (\A q \in Requests : request[q].pc = "idle") /\ \A key : LiveOf(key) = {}
    BY DEF Init, NoRequest, LiveOf, OfLineage, Rows
  <2>. QED BY <2>1 DEF PromotionInv, RemovesSoundly, UnsetsAll, Removing, LatestIsNewest
<1>2. LineageInv /\ LineageInv' /\ PromotionInv /\ [Next]_vars => PromotionInv'
  BY PromotionElsewhere, PromotionInserted, PromotionAsked, PromotionDeleted, PromotionFound,
     PromotionMade, PromotionLost DEF Next
<1>. QED BY <1>1, <1>2, LineageInvHolds, PTL DEF Spec

(* remove() promotes the newest remaining version, and create() unsets the
   one before: between requests the newest remaining version of a lineage
   is its latest one, as long as a removal overlaps no other request; one
   that dies half way leaves none, until the lineage gets another version. *)
THEOREM NewestIsLatestHolds == ASSUME RemovesAlone PROVE Spec => []NewestIsLatest
<1>1. LineageInv /\ PromotionInv => NewestIsLatest
  <2> SUFFICES ASSUME LineageInv, PromotionInv, NEW i \in Live, Quiet(renders[i].lineage)
        PROVE  renders[i].latest <=> /\ renders[i].lineage \notin orphaned
                                     /\ i = Newest(LiveOf(renders[i].lineage))
    BY DEF NewestIsLatest, LiveOf
  <2>1. PICK key \in Keys : key = renders[i].lineage
    <3>1. renders[i] \in Render
      BY DEF LineageInv, TypeOK, Live, Rows
    <3>. QED BY <3>1 DEF Render, Keys
  <2>2. LatestIsNewest(key)
    BY <2>1 DEF Quiet, PromotionInv, Keys
  <2>3. i \in LiveOf(key)
    BY <2>1 DEF LiveOf, Live, OfLineage
  <2>. QED BY <2>1, <2>2, <2>3 DEF LatestIsNewest
<1>. QED BY <1>1, PromotionInvHolds, LineageInvHolds, PTL
=============================================================================
