------------------------------- MODULE UiMask -------------------------------
(****************************************************************************)
(* The regions kept out of interpolation (src/src/ui_mask.cpp): how their text  *)
(* is read and written back, and what they cover of a frame.                  *)
(*                                                                          *)
(* A text is a sequence of regions; a region is its comma-separated fields    *)
(* and whether it ends in px.  A field is a count of hundred-thousandths, or  *)
(* NotANumber for anything but digits, a point and a sign.                    *)
(****************************************************************************)
EXTENDS Integers, Sequences, SequencesExt

CONSTANT NotANumber

Unit == 100000

Blank == [fields |-> <<>>, px |-> FALSE]

\* Four numbers, none negative, right and bottom beyond left and top.
WellFormed(r) ==
    /\ Len(r.fields) = 4
    /\ \A k \in 1..4 : r.fields[k] # NotANumber
    /\ \A k \in 1..4 : r.fields[k] >= 0
    /\ r.fields[3] > r.fields[1]
    /\ r.fields[4] > r.fields[2]

\* A value above 1 makes the four of them pixels.
RectOf(r) ==
    [left |-> r.fields[1], top |-> r.fields[2], right |-> r.fields[3], bottom |-> r.fields[4],
     pixels |-> r.px \/ \E k \in 1..4 : r.fields[k] > Unit]

\* Blank regions are skipped; one that is not well formed leaves no region at all.
ParseUiMaskRects(text) ==
    LET regions == SelectSeq(text, LAMBDA r : r # Blank)
        ok == \A i \in DOMAIN regions : WellFormed(regions[i])
    IN  [ok |-> ok,
         rects |-> IF ok THEN [i \in DOMAIN regions |-> RectOf(regions[i])] ELSE <<>>]

\* A coordinate in whole pixels, within the frame, rounded away from the region.
Resolve(value, pixels, extent, round_up) ==
    LET scaled == IF pixels THEN value ELSE value * extent
        clamped == IF scaled > extent * Unit THEN extent * Unit ELSE scaled
    IN  IF round_up THEN (clamped + Unit - 1) \div Unit ELSE clamped \div Unit

ResolveUiMaskRect(rect, width, height) ==
    [left |-> Resolve(rect.left, rect.pixels, width, FALSE),
     top |-> Resolve(rect.top, rect.pixels, height, FALSE),
     right |-> Resolve(rect.right, rect.pixels, width, TRUE),
     bottom |-> Resolve(rect.bottom, rect.pixels, height, TRUE)]

\* The pixels covered, right and bottom exclusive.
RasterizeUiMask(rects, width, height) ==
    UNION {LET b == ResolveUiMaskRect(rects[i], width, height)
           IN  (b.left .. b.right - 1) \X (b.top .. b.bottom - 1) : i \in DOMAIN rects}

\* CreateUiMaskTexture: without a size or without coverage, one clear texel.
UiMaskTexture(rects, width, height) ==
    LET covered == IF width > 0 /\ height > 0 THEN RasterizeUiMask(rects, width, height) ELSE {}
    IN  [active |-> covered # {}, covered |-> covered,
         size |-> IF covered = {} THEN <<1, 1>> ELSE <<width, height>>]

\* A fraction with four significant digits; below a ten-thousandth a stream
\* writes an exponent.
FormatFraction(value) ==
    IF value > 0 /\ 10000 * value < Unit THEN NotANumber
    ELSE IF 10 * value >= Unit THEN ((value + 5) \div 10) * 10
    ELSE value

FormatPixels(value) == ((value + Unit \div 2) \div Unit) * Unit

FormatUiMaskRects(rects) ==
    [i \in DOMAIN rects |->
        LET Format(value) == IF rects[i].pixels THEN FormatPixels(value) ELSE FormatFraction(value)
        IN  [fields |-> <<Format(rects[i].left), Format(rects[i].top),
                          Format(rects[i].right), Format(rects[i].bottom)>>,
             px |-> rects[i].pixels]]

==============================================================================
