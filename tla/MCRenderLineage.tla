-------------------------- MODULE MCRenderLineage --------------------------
(* A moment and a manual clip of a video of 12 units, two requests at once;
   a request changes nothing, the frame or the range, or asks for more than
   the video has.                                                          *)
EXTENDS RenderLineage, TLC

CONSTANTS q1, q2, moment, manual

MCRangeOf == [c \in Candidates |-> [startMs |-> 0, endMs |-> 4]]

Same == [startMs |-> Unset, endMs |-> Unset, aspectRatio |-> Unset, framingMode |-> Unset,
         captions |-> Unset, preset |-> Unset]

MCInputs == {Same, [Same EXCEPT !.aspectRatio = "1:1"],
             [Same EXCEPT !.startMs = 4, !.endMs = 9], [Same EXCEPT !.endMs = 13]}

Symmetry == Permutations(Requests)
=============================================================================
