---------------------------- MODULE ProfileStore ----------------------------
(***************************************************************************)
(* profiles.txt (app_profile.cpp): the arguments stored for each           *)
(* executable, saved by writing profiles.txt.tmp and renaming it.  The     *)
(* savers are processes: the launcher, and each osss.exe --save-profile.   *)
(* They share the two names and take no lock, so the steps of two saves    *)
(* interleave; Launcher says which of them can be killed.  A file's        *)
(* content is what ParseProfiles makes of it, or Torn: text that is not    *)
(* all of what one FormatProfiles produced.                                *)
(***************************************************************************)
EXTENDS CommandLine

CONSTANTS
    Savers,       \* the processes that save profiles
    Executables,  \* the executables that profiles are stored for
    Torn          \* the content of a file that was only partly written

VARIABLES
    file,        \* profiles.txt; a file that is absent holds no entry
    temporary,   \* profiles.txt.tmp, None when it is absent
    save,        \* where each saver is in LoadProfiles .. SaveProfiles
    overlapped,  \* two savers have been at the temporary file at once
    unflushed    \* a write that failed as the file was closed went unnoticed

store == <<file, temporary, save, overlapped, unflushed>>

NoEntries == [executable \in Executables |-> None]

NotSaving == [step |-> "idle", entries |-> NoEntries, shared |-> FALSE]

StoreInit ==
    /\ file = NoEntries
    /\ temporary = None
    /\ save = [s \in Savers |-> NotSaving]
    /\ overlapped = FALSE
    /\ unflushed = FALSE

OthersWriting(s) == {o \in Savers \ {s} : save[o].step = "open"}

(* Another save has the temporary file open, or has yet to rename it.      *)
OthersAtIt(s) == {o \in Savers \ {s} : save[o].step \in {"open", "written"}}

(* LoadProfiles and SetProfileArguments.  A file that does not parse ends  *)
(* the save before anything is written; a torn one may parse all the same, *)
(* and then some of its entries are missing.                               *)
LoadForSave(s, executable, arguments) ==
    /\ save[s].step = "idle"
    /\ \E entries \in IF file = Torn THEN {NoEntries} ELSE {file} :
          save' = [save EXCEPT ![s] =
                      [step |-> "loaded",
                       entries |-> [entries EXCEPT ![executable] = arguments],
                       shared |-> FALSE]]
    /\ UNCHANGED <<file, temporary, overlapped, unflushed>>

(* A mutant of OpenTemporary: the save writes over the profile file.       *)
OpenInPlace(s) ==
    /\ save[s].step = "loaded"
    /\ file' = Torn
    /\ temporary' = Torn
    /\ save' = [save EXCEPT ![s].step = "open"]
    /\ UNCHANGED <<overlapped, unflushed>>

(* The temporary file is opened and emptied.  Another saver may have it    *)
(* open: a stream is opened for shared writing.                            *)
OpenTemporary(s) ==
    /\ save[s].step = "loaded"
    /\ \/ /\ temporary' = Torn
          /\ save' = [o \in Savers |->
                        IF o = s
                        THEN [save[s] EXCEPT !.step = "open",
                                             !.shared = OthersWriting(s) # {}]
                        ELSE [save[o] EXCEPT !.shared = @ \/ o \in OthersWriting(s)]]
          /\ overlapped' = (overlapped \/ OthersAtIt(s) # {})
       \/ /\ save' = [save EXCEPT ![s] = NotSaving]
          /\ UNCHANGED <<temporary, overlapped>>
    /\ UNCHANGED <<file, unflushed>>

(* The text is written and the stream closed.  Writers that had the file   *)
(* open together may leave a mixture.  The state of the stream is tested   *)
(* before it is closed: what fails as the buffer is flushed is not seen.   *)
WriteTemporary(s) ==
    /\ save[s].step = "open"
    /\ \/ /\ temporary' = save[s].entries
          /\ save' = [save EXCEPT ![s].step = "written"]
          /\ UNCHANGED unflushed
       \/ /\ save[s].shared
          /\ temporary' = Torn
          /\ save' = [save EXCEPT ![s].step = "written"]
          /\ UNCHANGED unflushed
       \/ /\ temporary' = Torn
          /\ save' = [save EXCEPT ![s].step = "written"]
          /\ unflushed' = TRUE
       \/ /\ temporary' = Torn
          /\ save' = [save EXCEPT ![s] = NotSaving]
          /\ UNCHANGED unflushed
    /\ UNCHANGED <<file, overlapped>>

(* The rename.  It fails when there is nothing to rename, when another     *)
(* saver has the file open (the removal then fails as well), or for the    *)
(* system's own reasons; the temporary file is then removed.               *)
ReplaceFile(s) ==
    /\ save[s].step = "written"
    /\ \/ /\ temporary # None /\ OthersWriting(s) = {}
          /\ file' = temporary
          /\ temporary' = None
       \/ /\ temporary' = IF OthersWriting(s) = {} THEN None ELSE temporary
          /\ UNCHANGED file
    /\ save' = [save EXCEPT ![s] = NotSaving]
    /\ UNCHANGED <<overlapped, unflushed>>

(* SaveProfiles, step by step.                                             *)
SaveProfiles(s) ==
    OpenTemporary(s) \/ WriteTemporary(s) \/ ReplaceFile(s)

(* The process of a saver ends before the save is complete.                *)
Killed(s) ==
    /\ save[s].step # "idle"
    /\ save' = [save EXCEPT ![s] = NotSaving]
    /\ UNCHANGED <<file, temporary, overlapped, unflushed>>

(* What LoadProfiles and FindProfileArguments give a reader: None without  *)
(* an entry.  Of a torn file, nothing is known to be left.                 *)
StoredFor(executable) ==
    IF file = Torn \/ executable \notin Executables THEN None ELSE file[executable]

-----------------------------------------------------------------------------
(* An interrupted save never costs the profiles (app_profile.cpp, 222):    *)
(* whatever step of a save failed, and wherever a terminal that saves was   *)
(* killed, profiles.txt holds the whole of one save, unless two saves were *)
(* at the temporary file at once or a flush failed as it was closed, the   *)
(* two cases the code does not see.                                        *)
InterruptedSaveKeepsFile ==
    file = Torn => overlapped \/ unflushed
=============================================================================
