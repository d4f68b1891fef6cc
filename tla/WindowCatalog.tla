---------------------------- MODULE WindowCatalog ----------------------------
(****************************************************************************)
(* Which window a session captures and which rate it aims for: the catalogs   *)
(* of src/src (window_catalog.cpp and one file per desktop) and what main.cpp   *)
(* and portable_main.cpp make of them.                                        *)
(*                                                                          *)
(* A process name or a title is a number, its place in the order of the       *)
(* lower-cased strings; 0 is the empty one.  A fragment is the set of strings *)
(* that contain it.  Rates are thousandths of a hertz, 0 when unknown.        *)
(****************************************************************************)
EXTENDS Integers, FiniteSets, TLAPS

Names == Nat
Unknown == 0

WindowEntry == [handle : Nat, process_id : Nat, process : Names, title : Names]

\* CollectWindow: what EnumWindows offers and the catalog keeps.
Capturable(w, own_process) ==
    /\ w.visible
    /\ ~w.iconic
    /\ ~w.cloaked
    /\ ~w.disabled
    /\ w.entry.title # Unknown
    /\ w.entry.process_id # own_process

ListCapturableWindows(windows, own_process) ==
    {w.entry : w \in {v \in windows : Capturable(v, own_process)}}

\* The order of the list: by process, an unidentified one last, then by title.
Before(left, right) ==
    IF left.process # right.process
    THEN IF (left.process = Unknown) # (right.process = Unknown)
         THEN right.process = Unknown
         ELSE left.process < right.process
    ELSE left.title < right.title

\* The X11 list, which leaves an unidentified process first.
BeforeX11(left, right) ==
    IF left.process # right.process THEN left.process < right.process
                                    ELSE left.title < right.title

ByExecutable(entries, fragment) == {e \in entries : e.process \in fragment}
ByTitle(entries, fragment) ==
    {e \in entries : e.process \notin fragment /\ e.title \in fragment}

\* The ranking: an executable match wins outright.  An empty fragment matches
\* nothing.
SelectWindowsMatching(entries, fragment) ==
    IF Unknown \in fragment THEN {}
    ELSE IF ByExecutable(entries, fragment) # {} THEN ByExecutable(entries, fragment)
    ELSE ByTitle(entries, fragment)

NoTarget == [handle |-> 0, error |-> "no target"]
Target(entry) == [handle |-> entry.handle, error |-> "none"]

\* The handle a session starts on: the window named by --hwnd while it exists, or
\* the only one that matches --title.
ResolveTarget(hwnd, existing, entries, fragment) ==
    IF hwnd # 0
    THEN IF hwnd \in existing THEN [handle |-> hwnd, error |-> "none"] ELSE NoTarget
    ELSE LET matches == SelectWindowsMatching(entries, fragment) IN
         IF Cardinality(matches) = 1 THEN Target(CHOOSE e \in matches : TRUE) ELSE NoTarget

--------------------------------------------------------------------------------
MinimumTargetFps == 24000
MaximumTargetFps == 1000000

IsValid(rate) == MinimumTargetFps <= rate /\ rate <= MaximumTargetFps

ValidDisplayRate(rate) == IF IsValid(rate) THEN rate ELSE 0

\* What three tries come to: a display that is added between the size and the
\* query makes the buffer insufficient, and the next try asks for the size again.
Decisive(tries) ==
    IF \A k \in 1..3 : tries[k] = "insufficient" THEN "insufficient"
    ELSE tries[CHOOSE k \in 1..3 : /\ tries[k] # "insufficient"
                                   /\ \A j \in 1..(k - 1) : tries[j] = "insufficient"]

\* Three tries with the flag for virtual refresh rates; an older system calls it
\* invalid and is asked three times without it.
Answered(virtual, plain) ==
    \/ Decisive(virtual) = "ok"
    \/ Decisive(virtual) \in {"invalid", "insufficient"} /\ Decisive(plain) = "ok"

\* The rate of the monitor's path, or of its target mode.
QueryRationalDisplayRate(path, mode) ==
    IF ValidDisplayRate(path) # 0 THEN path ELSE ValidDisplayRate(mode)

\* WindowDisplayRefreshInfo: the whole hertz of the display settings stand in for a
\* rational rate, unchecked; 0 and 1 mean that the display does not say.
DisplayRefresh(rational, whole_hertz) ==
    IF rational # 0 THEN rational
    ELSE IF whole_hertz > 1 THEN 1000 * whole_hertz ELSE 0

\* On X11 the fastest screen the window starts on, else the fastest there is.
ActiveRefreshRate(screens) ==
    LET under == {s.rate : s \in {t \in screens : t.contains_window}}
        rates == IF \E r \in under : r > 1000 THEN under ELSE {s.rate : s \in screens}
    IN  IF rates = {} THEN 0 ELSE CHOOSE r \in rates : \A q \in rates : q <= r

\* FromFps throws on a rate it does not accept; 60 Hz when there is none.
PortableRefresh(refresh) ==
    LET rate == IF refresh > 1000 THEN refresh ELSE 60000 IN
    IF IsValid(rate) THEN [rate |-> rate, error |-> "none"] ELSE [rate |-> 0, error |-> "out of range"]

\* ResolveTargetRate: the rate asked for, else that of the display.
ResolveTargetRate(target_fps, display) ==
    LET rate == IF target_fps # 0 THEN target_fps ELSE display IN
    IF IsValid(rate) THEN [rate |-> rate, error |-> "none"] ELSE [rate |-> 0, error |-> "no rate"]

\* The portable session: the display's rate times the multiplier, within the range.
PortableTarget(target_fps, display, multiplier) ==
    LET wanted == display * multiplier IN
    IF target_fps # 0 THEN target_fps
    ELSE IF wanted < MinimumTargetFps THEN MinimumTargetFps
    ELSE IF wanted > MaximumTargetFps THEN MaximumTargetFps ELSE wanted

--------------------------------------------------------------------------------
\* std::sort requires a strict weak order of its comparator: this one never puts two
\* windows before each other, and neither it nor "neither comes first" loses
\* transitivity over the windows whose process could not be identified.
THEOREM OrderIsStrictWeak ==
    ASSUME NEW a \in WindowEntry, NEW b \in WindowEntry, NEW c \in WindowEntry
    PROVE  /\ ~Before(a, a)
           /\ Before(a, b) => ~Before(b, a)
           /\ Before(a, b) /\ Before(b, c) => Before(a, c)
           /\ ~Before(a, b) /\ ~Before(b, a) /\ ~Before(b, c) /\ ~Before(c, b)
                  => ~Before(a, c) /\ ~Before(c, a)
<1>1. /\ a.process \in Nat /\ b.process \in Nat /\ c.process \in Nat
      /\ a.title \in Nat /\ b.title \in Nat /\ c.title \in Nat
  BY DEF WindowEntry, Names
<1> QED
  BY <1>1, SMT DEF Before, Unknown

\* A title never makes an unambiguous request ambiguous: when a fragment names an
\* executable, a window that carries it in its title only changes nothing, the
\* terminal whose title is the command line included (window_catalog.h).
THEOREM TitleNeverCompetes ==
    ASSUME NEW entries, NEW fragment, NEW terminal,
           ByExecutable(entries, fragment) # {}, terminal.process \notin fragment
    PROVE  SelectWindowsMatching(entries \cup {terminal}, fragment)
               = SelectWindowsMatching(entries, fragment)
<1>1. ByExecutable(entries \cup {terminal}, fragment) = ByExecutable(entries, fragment)
  BY DEF ByExecutable
<1> QED
  BY <1>1 DEF SelectWindowsMatching

\* The target of a portable session is one the output clock accepts, for every
\* multiplier and every display whose own rate is accepted.
THEOREM PortableTargetIsValid ==
    ASSUME NEW target_fps \in Nat, NEW display \in Nat, NEW multiplier \in Nat,
           target_fps = 0 \/ IsValid(target_fps), IsValid(display)
    PROVE  IsValid(PortableTarget(target_fps, display, multiplier))
<1>1. display * multiplier \in Nat
  OBVIOUS
<1> QED
  BY <1>1, SMT DEF PortableTarget, IsValid, MinimumTargetFps, MaximumTargetFps
==============================================================================
