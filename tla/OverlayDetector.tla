-------------------------- MODULE OverlayDetector --------------------------
(***************************************************************************)
(* The automatic static-overlay detector: the compute shader               *)
(* UpdateUiPersistence (motion_interpolator.cpp), dispatched once per      *)
(* source pair over the cells of the fine flow, and the mask that MaskAt   *)
(* and the fusion take from its scores.  Scores are in hundredths, motion  *)
(* in hundredths of a source pixel.  All the cells run at once on the      *)
(* surface of the pair before; the images are abstracted to what a cell    *)
(* sees of them: whether it was still, and the motion around it.           *)
(***************************************************************************)
EXTENDS Integers, FiniteSets

CONSTANTS
    Cells,       \* the cells of the fine flow
    Near,        \* for each cell the cells within one step, and itself
    Motions,     \* values of the strongest confident flow around a cell
    Scenes,      \* what the cells may see of it in one pair
    Rise,        \* kAutoRise
    Fall,        \* kAutoFall
    Full,        \* the score saturates at 1
    MaskLow,     \* kAutoMaskLow: up to this score the mask is clear
    Threshold,   \* kAutoNeighbourMotion
    MaxDetections     \* a bound on the pairs, in guards only

(* Nothing more is needed of the constants than that the score stays       *)
(* positive between its ends, that two falls clear a full score, and that  *)
(* the search has a reach, so that there is a fastest motion.              *)
ASSUME DetectorAssumption ==
    /\ Rise \in Nat /\ Fall \in Nat /\ Full \in Nat /\ MaskLow \in Nat
    /\ Threshold \in Nat /\ Motions \subseteq Nat
    /\ \E fastest \in Motions : \A m \in Motions : m <= fastest
    /\ Scenes \subseteq [Cells -> Motions]
    /\ 2 * Fall >= Full - MaskLow
    /\ MaxDetections \in Nat
    /\ Near \in [Cells -> SUBSET Cells]
    /\ \A c \in Cells : c \in Near[c]

VARIABLES
    published,  \* ui_persistence_ at the index in use: what this pair reads
    fresh,      \* the other surface: what this pair's dispatch has written
    moved,      \* how many pairs in a row each cell has moved, up to 2
    quiet,      \* pairs since the scene around any cell last moved
    pairs       \* how many pairs there were

detector_vars == <<published, fresh, moved, quiet, pairs>>

Sample == [score : 0..Full, dilated : 0..Full, evidence : Nat]

ClearedSurface == [c \in Cells |-> [score |-> 0, dilated |-> 0, evidence |-> 0]]

Greater(a, b) == IF a >= b THEN a ELSE b

Saturate(x) == IF x < 0 THEN 0 ELSE IF x > Full THEN Full ELSE x

(* A mutant of Evidence: what was seen once is never forgotten.            *)
NeverForgotten(seen, remembered) == Greater(seen, remembered)

(* The motion a cell goes by: what it sees, or four fifths of what it      *)
(* remembers.                                                              *)
Evidence(seen, remembered) == Greater(seen, (4 * remembered) \div 5)

(* A cell is overlay-like when it is still and there is motion around it.  *)
Score(previous, still, evidence) ==
    Saturate(previous + IF still /\ evidence > Threshold THEN Rise ELSE -Fall)

(* A mutant of NeighbourBest: the dilation reads what it has itself made.  *)
DilatedBest(surface, c) ==
    CHOOSE best \in {surface[n].dilated : n \in Near[c]} :
        \A n \in Near[c] : surface[n].dilated <= best

(* The best raw score, on the surface read, of the cell and those around.  *)
NeighbourBest(surface, c) ==
    CHOOSE best \in {surface[n].score : n \in Near[c]} :
        \A n \in Near[c] : surface[n].score <= best

(* One cell of the dispatch.  The mask spreads by a cell, only into cells  *)
(* that held still in this pair.                                           *)
Updated(surface, c, still, seen) ==
    LET evidence == Evidence(seen, surface[c].evidence)
        score == Score(surface[c].score, still, evidence) IN
    [score |-> score,
     dilated |-> IF still THEN Greater(score, NeighbourBest(surface, c)) ELSE score,
     evidence |-> evidence]

DetectorInit ==
    /\ published = ClearedSurface
    /\ fresh = ClearedSurface
    /\ moved = [c \in Cells |-> 0]
    /\ quiet = 0
    /\ pairs = 0

(* PreparePair publishes what the pair before wrote and dispatches the     *)
(* update from it into the other surface.                                  *)
DetectPair(still, seen) ==
    /\ pairs < MaxDetections
    /\ published' = fresh
    /\ fresh' = [c \in Cells |-> Updated(fresh, c, still[c], seen[c])]
    /\ moved' = [c \in Cells |-> IF still[c] THEN 0
                                 ELSE IF moved[c] = 0 THEN 1 ELSE 2]
    /\ quiet' = IF \E c \in Cells : seen[c] > Threshold THEN 0 ELSE quiet + 1
    /\ pairs' = pairs + 1

(* ClearUiPersistence: both surfaces, when the detector is switched on and *)
(* when the surfaces are created.                                          *)
ClearUiPersistence ==
    /\ published' = ClearedSurface
    /\ fresh' = ClearedSurface
    /\ UNCHANGED <<moved, quiet, pairs>>

DetectorNext ==
    \/ \E still \in [Cells -> BOOLEAN], seen \in Scenes : DetectPair(still, seen)
    \/ ClearUiPersistence

DetectorSpec == DetectorInit /\ [][DetectorNext]_detector_vars

-----------------------------------------------------------------------------
(* AutoMaskFromScore: the mask is clear up to kAutoMaskLow.                *)
Masked(c) == fresh[c].dilated > MaskLow

TypeOK ==
    /\ published \in [Cells -> Sample]
    /\ fresh \in [Cells -> Sample]
    /\ moved \in [Cells -> 0..2]
    /\ quiet \in Nat
    /\ pairs \in Nat

(* The mask lies only where it was earned (motion_interpolator.cpp, 54 and *)
(* 803): a region that starts moving is released within two pairs,         *)
(* whatever lies beside it, and the mask never spreads further than one    *)
(* cell from a cell whose own score carries it.                            *)
MaskIsEarned ==
    \A c \in Cells :
        Masked(c) =>
            /\ moved[c] < 2
            /\ \E n \in Near[c] :
                  fresh[n].score > MaskLow \/ published[n].score > MaskLow

(* The pairs for which a motion is remembered.                             *)
MemoryOf[m \in Nat] == IF m <= Threshold THEN 0 ELSE 1 + MemoryOf[(4 * m) \div 5]

(* The pairs for which the strongest motion is remembered.                 *)
MemoryPairs ==
    CHOOSE most \in {MemoryOf[m] : m \in Motions} : \A m \in Motions : MemoryOf[m] <= most

(* Quiet gameplay ends up unmasked (motion_interpolator.cpp, 53): once the *)
(* motion that was remembered has decayed, two falls and one dilation      *)
(* clear every cell, however long it had been armed.                       *)
QuietIsReleased ==
    quiet >= MemoryPairs + 2 => \A c \in Cells : ~Masked(c)
=============================================================================
