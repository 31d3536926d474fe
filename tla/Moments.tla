------------------------------ MODULE Moments ------------------------------
(***************************************************************************)
(* From the words of a transcript to the moments that an analysis run      *)
(* publishes: normalize.py, chunking.py, refine.py, scoring.py and the     *)
(* order in which analysis/pipeline.py applies them.  Times are whole      *)
(* numbers of one unit.  Of a word's text only its kind matters: a filler, *)
(* a dangling conjunction or pronoun, the end of a sentence, or none.  A   *)
(* speaker is a number, 0 when the provider names none.                    *)
(***************************************************************************)
EXTENDS Integers, TLC, SequencesExt, FiniteSetsExt

CONSTANTS Duration,     \* the source's duration
          Gap,          \* GAP_SPLIT_MS (1,200)
          LongSegment,  \* MAX_SEGMENT_MS (20,000)
          ManyWords,    \* MAX_SEGMENT_WORDS (55)
          Slack,        \* 50 ms
          WindowSize,   \* analysis_window_ms
          Overlap,      \* analysis_overlap_ms
          Snap,         \* 400 ms
          MinLength,    \* candidate_min_ms
          MaxLength,    \* candidate_max_ms
          PreRoll,      \* pre_roll_ms
          PostRoll,     \* post_roll_ms
          Same,         \* dedupe_iou, in percent
          Transcripts,  \* bound: what the providers return, words and segments
          Picks,        \* bound: what the model names of a transcript, a set of sequences
          Proposals     \* bound: the candidates to deduplicate, a set of sequences

Word == [start : Int, end : Int, kind : {"plain", "dangling", "filler", "terminal"},
         speaker : Nat]

(* A provider's segment; only its times are used.                          *)
Stretch == [start : Int, end : Int]

(* A proposal names two segments of a window.                              *)
Pick == [from : Nat, to : Nat, score : Int, complete : Int]

Candidate == [start : Int, end : Int, score : Int, complete : Int, widened : BOOLEAN]

ASSUME MomentsAssumption ==
    /\ {Duration, Gap, LongSegment, ManyWords, Slack, WindowSize, Overlap, Snap, MinLength,
        MaxLength, PreRoll, PostRoll, Same} \subseteq Nat
    /\ 0 \notin {Duration, WindowSize}
    /\ Transcripts \subseteq [words : Seq(Word), segments : Seq(Stretch)]
    /\ Picks \subseteq Seq(Pick)
    /\ Proposals \subseteq Seq(Candidate)

(* Python's sorted, which is stable: each element goes behind those that come
   before it.                                                              *)
Sorted(seq, Before(_, _)) ==
    LET Precedes(i, j) == Before(seq[i], seq[j]) \/ (~ Before(seq[j], seq[i]) /\ i < j)
        Place(i) == Cardinality({j \in DOMAIN seq : Precedes(j, i)}) + 1
    IN
    [k \in DOMAIN seq |-> seq[CHOOSE i \in DOMAIN seq : Place(i) = k]]

(* normalize_words: sorted, clamped to the source, and cut where the next
   word begins.                                                            *)
Clamped(word) ==
    LET start == Min({Max({word.start, 0}), Duration}) IN
    [word EXCEPT !.start = start, !.end = Max({start, Min({@, Duration})})]

Earlier(v, w) == v.start < w.start \/ (v.start = w.start /\ v.end < w.end)

NormalizeWords(raw) ==
    LET sorted == Sorted(raw, Earlier)
        words == [i \in DOMAIN sorted |-> Clamped(sorted[i])]
    IN
    [i \in DOMAIN words |->
        IF i = Len(words) THEN words[i]
        ELSE [words[i] EXCEPT !.end = Min({@, words[i + 1].start})]]

(* segments_from_words: groups of words.                                   *)
Splits(open, word) ==
    /\ open # <<>>
    /\ \/ word.start - Last(open).end > Gap
       \/ word.end - Head(open).start > LongSegment
       \/ Len(open) >= ManyWords
       \/ 0 \notin {word.speaker, Last(open).speaker} /\ word.speaker # Last(open).speaker

Group(acc, word) ==
    LET split == Splits(acc.open, word)
        done == IF split THEN Append(acc.done, acc.open) ELSE acc.done
        open == IF split THEN <<word>> ELSE Append(acc.open, word)
    IN
    IF word.kind = "terminal" /\ Len(open) >= 3
    THEN [done |-> Append(done, open), open |-> <<>>]
    ELSE [done |-> done, open |-> open]

SegmentsFromWords(words) ==
    LET all == FoldLeft(Group, [done |-> <<>>, open |-> <<>>], words)
    IN  IF all.open = <<>> THEN all.done ELSE Append(all.done, all.open)

(* A provider's segments, in order, take the words that start before they
   end, but, after their first word, none that starts well before they do.
   Place 0 is that of the words left over.                                 *)
Placed(words, stretches) ==
    [i \in DOMAIN words |->
        LET taken == {k \in DOMAIN stretches : words[i].start < stretches[k].end} IN
        [word |-> words[i], place |-> IF taken = {} THEN 0 ELSE Min(taken),
         early |-> taken # {} /\ words[i].start < stretches[Min(taken)].start - Slack]]

(* What was taken is a group; too long a one, and what is left over, is split. *)
Closed(acc) ==
    IF acc.at = 0 \/ Last(acc.open).end - Head(acc.open).start > LongSegment
    THEN acc.done \o SegmentsFromWords(acc.open) ELSE Append(acc.done, acc.open)

Cover(acc, x) ==
    IF x.place # acc.at THEN [done |-> Closed(acc), open |-> <<x.word>>, at |-> x.place]
    ELSE IF x.early THEN acc ELSE [acc EXCEPT !.open = Append(@, x.word)]

SegmentsOfProvider(words, stretches) ==
    Closed(FoldLeft(Cover, [done |-> <<>>, open |-> <<>>, at |-> 0], Placed(words, stretches)))

(* normalize: the groups become segments.                                  *)
Segments(words, stretches) ==
    LET groups == IF stretches = <<>> THEN SegmentsFromWords(words)
                  ELSE SegmentsOfProvider(words, Sorted(stretches, Earlier))
    IN
    [i \in DOMAIN groups |->
        LET group == groups[i] IN
        [start |-> Head(group).start,
         end |-> Max({Last(group).end, Head(group).start + 1}),
         first |-> Head(group).kind, last |-> Last(group).kind]]

(* make_windows: the segments of each window that has any.                 *)
MakeWindows(segments) ==
    LET step == Max({1, WindowSize - Overlap})
        end == Max({segments[i].end : i \in DOMAIN segments})
        Start(k) == segments[1].start + k * step
        last == Min({k \in 0 .. Duration + 1 : Start(k) + WindowSize >= end})
        Of(k) == {i \in DOMAIN segments : segments[i].start \in Start(k) .. Start(k) + WindowSize - 1}
    IN
    IF segments = <<>> THEN {} ELSE {Of(k) : k \in 0 .. last} \ {{}}

-----------------------------------------------------------------------------
(* refine: a proposed range is moved to the bounds of segments, then to the
   bounds of words.  A range that is dropped is empty.                      *)

(* bisect_right of the segments' starts.                                   *)
StartedBy(segments, time) == Max({1} \cup {i \in DOMAIN segments : segments[i].start <= time})

Snapped(start, end, segments) ==
    LET si == StartedBy(segments, start + Snap)
        first == IF segments[si].end <= start /\ si < Len(segments) THEN si + 1 ELSE si
    IN
    <<first, Max({first, StartedBy(segments, Max({start, end - Snap}))})>>

Length(segments, a, b) == segments[b].end - segments[a].start

(* Up to two lines are pulled in before a dangling start.                  *)
PullIn(segments, a, b) ==
    LET Pulls(i) == segments[i].first = "dangling" /\ i > 1 /\ Length(segments, i - 1, b) <= MaxLength
    IN
    IF ~ Pulls(a) THEN a ELSE IF ~ Pulls(a - 1) THEN a - 1 ELSE a - 2

(* The end moves on to the end of a sentence, both bounds out to the least
   length, the end back to the greatest.                                    *)
ToSentence(segments, a, b) ==
    Min({e \in b .. Len(segments) : \/ segments[e].last = "terminal"
                                    \/ e = Len(segments)
                                    \/ Length(segments, a, e + 1) > MaxLength})

Forward(segments, a, b) ==
    Min({e \in b .. Len(segments) : \/ Length(segments, a, e) >= MinLength
                                    \/ e = Len(segments)
                                    \/ Length(segments, a, e + 1) > MaxLength})

Backward(segments, a, b) ==
    Max({s \in 1 .. a : \/ Length(segments, s, b) >= MinLength
                        \/ s = 1
                        \/ Length(segments, s - 1, b) > MaxLength})

Trim(segments, a, b) ==
    LET fitting == {e \in a .. b : Length(segments, a, e) <= MaxLength}
        terminal == {e \in fitting : segments[e].last = "terminal"}
    IN
    IF Length(segments, a, b) <= MaxLength THEN b
    ELSE IF terminal # {} THEN Max(terminal)
    ELSE IF fitting # {} THEN Max(fitting) ELSE a

(* A single overlong segment is cut at the last word that fits.            *)
Cut(words, start, end) ==
    LET fit == {words[i].end : i \in {j \in DOMAIN words : /\ start <= words[j].start
                                                           /\ words[j].end <= start + MaxLength}}
    IN
    IF end - start <= MaxLength THEN end
    ELSE IF fit = {} THEN start + MaxLength ELSE Max(fit)

WithoutFillers(words, start, end) ==
    LET spoken == {words[i].start : i \in {j \in DOMAIN words : /\ words[j].start \in start .. end - 1
                                                                /\ words[j].kind # "filler"}}
    IN
    IF spoken = {} THEN start ELSE Min(spoken)

(* Mutant of RollIn: the pre-roll does not stop at the word before.        *)
RollInFreely(words, start) == Max({0, start - PreRoll})

(* The rolls stop at the neighbouring words.                               *)
RollIn(words, start) ==
    LET before == {i \in DOMAIN words : words[i].start < start}
        previous == IF before = {} THEN 0 ELSE words[Max(before)].end
    IN
    Max({0, start - PreRoll, Min({previous, start})})

RollOut(words, end) ==
    LET next == Min({Duration} \cup {words[i].start : i \in {j \in DOMAIN words : words[j].start >= end}})
    IN
    Min({Duration, end + PostRoll, Max({next, end})})

Refine(start, end, segments, words) ==
    LET snapped == Snapped(start, end, segments)
        a0 == PullIn(segments, snapped[1], snapped[2])
        b0 == Forward(segments, a0, ToSentence(segments, a0, snapped[2]))
        a == Backward(segments, a0, b0)
        b == Trim(segments, a, b0)
        cut == Cut(words, segments[a].start, segments[b].end)
        s == RollIn(words, WithoutFillers(words, segments[a].start, cut))
        e == Min({s + MaxLength, RollOut(words, cut)})
        short == /\ e - s < MinLength
                 /\ Last(segments).end - segments[1].start >= MinLength
    IN
    IF segments = <<>> \/ short \/ e <= s THEN <<0, 0>> ELSE <<s, e>>

-----------------------------------------------------------------------------
(* dedupe: candidates from the strongest down.                             *)
Alike(c, d) ==
    LET shared == Min({c.end, d.end}) - Max({c.start, d.start})
        union == Max({c.end, d.end}) - Min({c.start, d.start})
    IN
    union > 0 /\ 100 * Max({0, shared}) > Same * union

(* Mutant of Keep: a candidate is compared with the last one kept only.    *)
KeepUnlikeLast(kept, c) ==
    IF kept # <<>> /\ Alike(Last(kept), c) THEN kept ELSE Append(kept, c)

(* A more complete duplicate widens the one that is kept.                  *)
Keep(kept, c) ==
    LET like == {k \in DOMAIN kept : Alike(kept[k], c)}
        k == Min(like)
        start == Min({kept[k].start, c.start})
        end == Max({kept[k].end, c.end})
    IN
    IF like = {} THEN Append(kept, c)
    ELSE IF c.complete > kept[k].complete /\ end - start <= MaxLength
    THEN [kept EXCEPT ![k].start = start, ![k].end = end, ![k].widened = TRUE]
    ELSE kept

Dedupe(proposed) ==
    LET Stronger(c, d) == c.score > d.score \/ (c.score = d.score /\ c.start < d.start)
    IN
    FoldLeft(Keep, <<>>, Sorted(proposed, Stronger))

-----------------------------------------------------------------------------
(* run_analysis: what the model named becomes candidates, whichever way round
   it named the segments, unless they are of no one window.  A candidate whose
   range is empty is dropped, here and when it has been refined.            *)
Remain(remaining, c) == IF c.end <= c.start THEN remaining ELSE Append(remaining, c)

Proposed(picks, segments) ==
    LET windows == MakeWindows(segments)
        Known(pick) == \E window \in windows : {pick.from, pick.to} \subseteq window
        Start(pick) == IF Known(pick) THEN segments[Min({pick.from, pick.to})].start ELSE 0
        End(pick) == IF Known(pick) THEN segments[Max({pick.from, pick.to})].end ELSE 0
    IN
    FoldLeft(Remain, <<>>,
             [i \in DOMAIN picks |->
                [start |-> Start(picks[i]), end |-> Min({Duration, End(picks[i])}),
                 score |-> picks[i].score, complete |-> picks[i].complete, widened |-> FALSE]])

MovedTo(c, range) == [c EXCEPT !.start = range[1], !.end = range[2]]

(* Deduplicated, refined, and deduplicated again.                          *)
RunAnalysis(picks, segments, words) ==
    LET kept == Dedupe(Proposed(picks, segments))
        Refined(c) == MovedTo(c, Refine(c.start, c.end, segments, words))
    IN
    Dedupe(FoldLeft(Remain, <<>>, [i \in DOMAIN kept |-> Refined(kept[i])]))

-----------------------------------------------------------------------------
(* Properties.                                                             *)

(* Every segment is read in some window.                                   *)
EverySegmentIsRead(segments) == UNION MakeWindows(segments) = DOMAIN segments

(* A moment lies in the source, is no longer than allowed, begins in no
   word, and ends in none unless it was cut at the greatest length or the word
   starts together with a line of no length, which is made to last an instant. *)
Natural(moment, words, segments) ==
    LET Inside(i, time) == words[i].start < time /\ time < words[i].end
        Instant(i) == \E k \in DOMAIN segments : /\ segments[k].start = words[i].start
                                                 /\ segments[k].end = words[i].start + 1
    IN
    /\ 0 <= moment.start /\ moment.start < moment.end /\ moment.end <= Duration
    /\ moment.end - moment.start <= MaxLength
    /\ \A i \in DOMAIN words :
          /\ ~ Inside(i, moment.start)
          /\ Inside(i, moment.end) => moment.end - moment.start = MaxLength \/ Instant(i)

(* No two that are kept are alike, unless one was widened after the other
   had been compared with it.                                              *)
Distinct(kept) ==
    \A i, j \in DOMAIN kept :
       i < j /\ Alike(kept[i], kept[j]) => kept[i].widened \/ kept[j].widened

AreSound(moments, words, segments) ==
    /\ Distinct(moments)
    /\ \A i \in DOMAIN moments : Natural(moments[i], words, segments)

AnalysesAreSound ==
    \A raw \in Transcripts :
       LET words == NormalizeWords(raw.words)
           segments == Segments(words, raw.segments)
       IN
       /\ EverySegmentIsRead(segments)
       /\ \A picks \in Picks : AreSound(RunAnalysis(picks, segments, words), words, segments)

KeptAreDistinct == \A proposed \in Proposals : Distinct(Dedupe(proposed))
=============================================================================
