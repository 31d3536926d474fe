--------------------------- MODULE RenderSettings ---------------------------
(***************************************************************************)
(* What a render looks like: the settings snapshot that is built from a    *)
(* request and a base (the parent's snapshot, or the defaults), the range  *)
(* checks, and the hash by which an identical request is recognised        *)
(* (common/render-settings.ts, common/idempotency.ts).  Requests name only *)
(* what they change; everything else is Unset.                             *)
(***************************************************************************)
EXTENDS Integers

CONSTANTS Unset,        \* undefined
          MinDuration,  \* config.renderMinDurationMs
          MaxDuration   \* config.renderMaxDurationMs

CaptionPresets == {"bold-default", "karaoke", "minimal", "impact"}
FramingModes == {"auto", "center", "fit"}
AspectRatios == {"9:16", "4:5", "1:1", "16:9"}

Output(ratio) == CASE ratio = "9:16" -> [width |-> 1080, height |-> 1920]
                   [] ratio = "4:5"  -> [width |-> 1080, height |-> 1350]
                   [] ratio = "1:1"  -> [width |-> 1080, height |-> 1080]
                   [] ratio = "16:9" -> [width |-> 1920, height |-> 1080]

Settings == [aspectRatio : AspectRatios, framingMode : FramingModes, captions : BOOLEAN,
             preset : CaptionPresets, output : [width : Nat, height : Nat]]

DefaultSettings == [aspectRatio |-> "9:16", framingMode |-> "auto", captions |-> TRUE,
                    preset |-> "bold-default", output |-> Output("9:16")]

(* The ?? operator.                                                        *)
Or(chosen, base) == IF chosen = Unset THEN base ELSE chosen

(* Mutant of BuildRenderSettings: the base's frame is kept.                *)
BuildOnBase(input, base) ==
    [base EXCEPT !.aspectRatio = Or(input.aspectRatio, @), !.captions = Or(input.captions, @)]

BuildRenderSettings(input, base) ==
    LET ratio == Or(input.aspectRatio, base.aspectRatio) IN
    [aspectRatio |-> ratio,
     framingMode |-> Or(input.framingMode, base.framingMode),
     captions |-> Or(input.captions, base.captions),
     preset |-> Or(input.preset, base.preset),
     output |-> Output(ratio)]

(* What buildRenderSettings throws at.                                     *)
Known(input, base) == /\ Or(input.aspectRatio, base.aspectRatio) \in AspectRatios
                      /\ Or(input.framingMode, base.framingMode) \in FramingModes
                      /\ Or(input.preset, base.preset) \in CaptionPresets

(* Mutant of ValidRange: the end of the video is not looked at.            *)
ValidLength(start, end, duration) ==
    start >= 0 /\ end - start \in MinDuration .. MaxDuration

ValidRange(start, end, duration) ==
    /\ start >= 0 /\ start < end /\ end <= duration
    /\ end - start \in MinDuration .. MaxDuration

(* SHA-256 of canonical JSON: equal exactly for equal ranges and settings,
   whatever the order of the keys.  The video and the pipeline version are
   the same for all renders here.                                          *)
SettingsHash(start, end, s) ==
    <<start, end, s.aspectRatio, s.framingMode, s.captions, s.preset, s.output.width, s.output.height>>
=============================================================================
