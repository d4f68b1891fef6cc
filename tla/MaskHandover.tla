----------------------------- MODULE MaskHandover -----------------------------
(****************************************************************************)
(* How a mask goes from the launcher's field (src/src/gui_main.cpp,             *)
(* BeginGeneration) to the pipeline's command line (src/src/main.cpp).          *)
(****************************************************************************)
EXTENDS UiMask

CONSTANT MaskTexts   \* What the user may type.

VARIABLES
    mask_text,       \* The launcher's mask field.
    argument,        \* The value of --ui-mask, as text.
    session          \* "none", "starting", "running", or "refused" by the pipeline.

mask_vars == <<mask_text, argument, session>>

MaskInit ==
    /\ mask_text = <<>>
    /\ argument = <<>>
    /\ session = "none"

EditMask ==
    /\ session # "starting"
    /\ mask_text' \in MaskTexts
    /\ UNCHANGED <<argument, session>>

\* BeginGeneration checks the field and hands the regions on as formatted text.
BeginWithMask ==
    /\ session \in {"none", "refused"}
    /\ ParseUiMaskRects(mask_text).ok
    /\ argument' = FormatUiMaskRects(ParseUiMaskRects(mask_text).rects)
    /\ session' = "starting"
    /\ UNCHANGED mask_text

\* The pipeline reads its command line.
PipelineReadsMask ==
    /\ session = "starting"
    /\ session' = IF ParseUiMaskRects(argument).ok THEN "running" ELSE "refused"
    /\ UNCHANGED <<mask_text, argument>>

EndSession == session = "running" /\ session' = "none" /\ UNCHANGED <<mask_text, argument>>

MaskNext == EditMask \/ BeginWithMask \/ PipelineReadsMask \/ EndSession

MaskSpec == MaskInit /\ [][MaskNext]_mask_vars

\* The launcher checks the mask so that a typo surfaces there instead of as a
\* silent exit code of the child process (src/src/gui_main.cpp:2396-2397): a mask it
\* accepted is one the pipeline accepts.
AcceptedMaskRuns == session # "refused"
==============================================================================
