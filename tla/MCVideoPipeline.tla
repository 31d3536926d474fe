-------------------------- MODULE MCVideoPipeline --------------------------
(* One video, two slots for whatever jobs there are, and queues that give a
   job two attempts instead of three or five.                              *)
EXTENDS VideoPipeline, TLC

CONSTANTS w1, w2, q1, q2

MCMaxAttempts == [ingest |-> 2, transcription |-> 2, analysis |-> 2]

(* What a run allows: faults in all; failing calls and broke users, dying
   workers, locks lost by a running worker; user requests, removals.       *)
Allow(faults, errors, crashes, lostLocks, requests, removals) ==
    [faults |-> faults, errors |-> errors, crashes |-> crashes, lostLocks |-> lostLocks,
     requests |-> requests, removals |-> removals]

UserBound == Allow(3, 3, 0, 0, 2, 1)
FaultBound == Allow(2, 1, 1, 1, 0, 0)

(* Every call of a stage up to the enqueue that ends it, and the writes of
   its job_runs row.                                                        *)
StageCalls == {"read", "claim", "probe", "charge", "prepare", "version", "ensure", "mark",
               "provider", "save", "activate", "discard-audio", "load", "llm", "publish",
               "advance", "enqueue", "ensure-next", "record"}

(* And the refund that follows a failure.                                  *)
StageAndRefundCalls == StageCalls \cup {"refund"}

(* Three words anywhere in the source and around its bounds, of any kind and
   overlapping or far apart, and a sentence with a word after it; the sentence
   also of two speakers, and in the segments of a provider, which overlap,
   leave words out or end before the words do.                             *)
MCWord(start, length, kind) == [start |-> start, end |-> start + length, kind |-> kind, speaker |-> 0]

MCTranscripts ==
    LET Words == {MCWord(s, n, k) : s \in {-1, 1, 3, 6}, n \in {1, 3},
                                  k \in {"plain", "dangling", "filler", "terminal"}}
        Sentences == {<<MCWord(6, n, k), MCWord(s, 1, l), MCWord(s + 1, m, "plain"),
                        MCWord(4, 1, "terminal")>> :
                         n \in {1, 3}, k \in {"plain", "dangling"}, s \in {0, 1},
                         l \in {"plain", "filler"}, m \in {1, 2}}
        Stretches == {<<[start |-> a, end |-> b], [start |-> c, end |-> c + 3]>> :
                         a \in {0, 3}, b \in {3, 5, 9}, c \in {1, 4}}
        Spoken(words) == [i \in DOMAIN words |-> [words[i] EXCEPT !.speaker = 1 + (i % 2)]]
    IN
    {[words |-> words, segments |-> <<>>] :
        words \in {<<a, b, c>> \in Words \X Words \X Words : a.start <= b.start /\ b.start <= c.start}}
    \cup {[words |-> words, segments |-> <<>>] : words \in Sentences \cup {Spoken(s) : s \in Sentences}}
    \cup {[words |-> words, segments |-> stretches] : words \in Sentences, stretches \in Stretches}

(* One proposal, or two or three that overlap and differ in strength.      *)
MCPicks ==
    LET P(a, b, r, c) == [from |-> a, to |-> b, score |-> r, complete |-> c] IN
    {<<P(2, 2, 1, 0)>>, <<P(3, 2, 1, 0)>>, <<P(1, 3, 1, 0)>>, <<P(1, 2, 2, 0), P(2, 3, 1, 1)>>,
     <<P(1, 1, 3, 0), P(1, 2, 2, 1), P(2, 2, 1, 0)>>}

MCProposals ==
    LET Candidates == {[start |-> s, end |-> s + n, score |-> r, complete |-> c, widened |-> FALSE] :
                          s \in {0, 1, 3}, n \in {3, 4}, r \in 1 .. 2, c \in 0 .. 1}
    IN
    {<<c, d, e>> : c \in Candidates, d \in Candidates, e \in Candidates}

Symmetry == Permutations(Slots) \cup Permutations(Requests)
=============================================================================
