---------------------------- MODULE CommandLine ----------------------------
(***************************************************************************)
(* The command line of osss.exe (main.cpp) and the argument lists that the *)
(* launcher builds for it (gui_main.cpp).  An argument is a flag with its  *)
(* value.  "setting" stands for every flag whose branch assigns one field  *)
(* of Options (--target-fps, --max-multiplier, --buffer, --pacing, ...):   *)
(* they are parsed alike.  The flags that behave differently keep their    *)
(* own names.                                                              *)
(***************************************************************************)
EXTENDS Sequences, FiniteSets, SequencesExt

CONSTANTS
    None,            \* no value: a disengaged optional
    DefaultSetting,  \* what Options holds before any argument
    Unreadable       \* the text of a mask that ParseUiMaskRects refuses

NoOptions ==
    [setting |-> DefaultSetting, masks |-> {}, auto |-> FALSE,
     profile |-> FALSE, window |-> None, title |-> None, failed |-> FALSE]

(* The flags with a branch of their own; the loop refuses any other.       *)
Flags == {"setting", "ui-mask", "ui-mask-auto", "profile", "hwnd", "title"}

(* One turn of the loop of ParseOptions.  A branch assigns, except that of *)
(* --ui-mask, which adds its rectangles to those already there.            *)
AfterArgument(options, argument) ==
    LET value == argument[2] IN
    CASE argument[1] = "setting" -> [options EXCEPT !.setting = value]
      [] argument[1] = "ui-mask" ->
            IF value = Unreadable
            THEN [options EXCEPT !.failed = TRUE]
            ELSE [options EXCEPT !.masks = @ \cup {value}]
      [] argument[1] = "ui-mask-auto" -> [options EXCEPT !.auto = value]
      [] argument[1] = "profile" -> [options EXCEPT !.profile = TRUE]
      [] argument[1] = "hwnd" -> [options EXCEPT !.window = value]
      [] argument[1] = "title" -> [options EXCEPT !.title = value]

(* The whole line; naming a target both ways is refused at the end.        *)
ParseOptions(arguments) ==
    LET options == FoldLeft(AfterArgument, NoOptions, arguments) IN
    [options EXCEPT !.failed = @ \/ (options.window # None /\ options.title # None)]

(* A mutant of Merged: the profile is put after the real command line.     *)
ProfileLast(stored, arguments) ==
    arguments \o stored

(* wmain puts the stored arguments first and parses the whole again.       *)
Merged(stored, arguments) ==
    stored \o arguments

(* What RunFrameGeneration is given: with --profile the arguments that are *)
(* stored for the target's executable, when there are any, come first.     *)
PreparedOptions(arguments, stored) ==
    LET explicit == ParseOptions(arguments) IN
    IF explicit.failed \/ ~explicit.profile \/ stored = None
    THEN explicit
    ELSE ParseOptions(Merged(stored, arguments))

-----------------------------------------------------------------------------
(* The mask field of the launcher: one --ui-mask, or none.                 *)
MaskArguments(shown) ==
    IF shown.mask = None THEN <<>> ELSE << <<"ui-mask", shown.mask>> >>

(* What Save profile stores: the settings, never a target or a stop event. *)
(* The text of the mask field goes in as it is, and --ui-mask-auto says on *)
(* or off.                                                                 *)
ProfileArgumentsFor(shown) ==
    << <<"setting", shown.setting>> >> \o MaskArguments(shown)
    \o << <<"ui-mask-auto", shown.auto>> >>

(* The command line of BeginGeneration: every setting is written out, but  *)
(* the automatic mask only when its box is checked.                        *)
LaunchArguments(shown, target) ==
    << <<"hwnd", target>>, <<"setting", shown.setting>> >>
    \o (IF shown.profile THEN << <<"profile", "auto">> >> ELSE <<>>)
    \o MaskArguments(shown)
    \o (IF shown.auto THEN << <<"ui-mask-auto", TRUE>> >> ELSE <<>>)
=============================================================================
