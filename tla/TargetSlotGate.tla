--------------------------- MODULE TargetSlotGate ---------------------------
(****************************************************************************)
(* The gate that rations output slots when the multiplier ceiling keeps the   *)
(* allowed rate below the target rate (src/src/adaptive_scheduler.cpp, class    *)
(* TargetSlotGate).  Its state is a record; rates are whole numbers of frames  *)
(* in a window of fixed length, and credit is counted in units of              *)
(* 1/TargetRate of a slot, which makes the arithmetic exact.                   *)
(****************************************************************************)
EXTENDS Integers

CONSTANT TargetRate       \* The output rate.

ASSUME TargetAssumption == TargetRate \in Nat \ {0}

\* TargetSlotGate::Reset.
FreshGate == [credit |-> 0, initialized |-> FALSE, even_slot |-> 0,
              even_interval |-> 0, even_initialized |-> FALSE]

\* The source is fast enough for every slot to be filled.
Unbound(allowed) == allowed >= TargetRate

\* Credit after this slot's share is added, before the slot is paid for.  The
\* first share after a reset completes a whole slot.
CreditFor(g, allowed) ==
    (IF g.initialized THEN g.credit ELSE TargetRate - allowed) + allowed

AllowSpread(g, allowed) == Unbound(allowed) \/ (allowed > 0 /\ CreditFor(g, allowed) >= TargetRate)

\* Mutations of AfterSpread: an admitted slot is not paid for, or the share of a
\* declined slot is forgotten.
AfterSpreadUnpaid(g, allowed) ==
    LET credit == CreditFor(g, allowed)
    IN  IF Unbound(allowed) THEN [g EXCEPT !.credit = 0, !.initialized = FALSE]
        ELSE IF allowed <= 0 THEN g
        ELSE [g EXCEPT !.credit = IF credit > TargetRate THEN TargetRate ELSE credit,
                       !.initialized = TRUE]

AfterSpreadForgetful(g, allowed) ==
    IF Unbound(allowed) THEN [g EXCEPT !.credit = 0, !.initialized = FALSE]
    ELSE IF allowed <= 0 THEN g
    ELSE [g EXCEPT !.credit = 0, !.initialized = TRUE]

\* The gate after Allow.
AfterSpread(g, allowed) ==
    LET credit == CreditFor(g, allowed)
        left == IF credit < TargetRate THEN credit
                ELSE IF credit - TargetRate > TargetRate THEN TargetRate
                ELSE credit - TargetRate
    IN  IF Unbound(allowed) THEN [g EXCEPT !.credit = 0, !.initialized = FALSE]
        ELSE IF allowed <= 0 THEN g
        ELSE [g EXCEPT !.credit = left, !.initialized = TRUE]

\* One slot in how many: the rates' quotient, rounded up.
Interval(allowed) == (TargetRate + allowed - 1) \div allowed

\* The position in the cadence, started over when the interval changes.
EvenSlot(g, allowed) ==
    IF g.even_initialized /\ g.even_interval = Interval(allowed)
    THEN g.even_slot ELSE 0

AllowEven(g, allowed) == Unbound(allowed) \/ (allowed > 0 /\ EvenSlot(g, allowed) = 0)

\* The gate after AllowEven.
AfterEven(g, allowed) ==
    IF Unbound(allowed)
    THEN [g EXCEPT !.even_slot = 0, !.even_interval = 0, !.even_initialized = FALSE]
    ELSE IF allowed <= 0 THEN g
    ELSE [g EXCEPT !.even_slot = (EvenSlot(g, allowed) + 1) % Interval(allowed),
                   !.even_interval = Interval(allowed),
                   !.even_initialized = TRUE]

Gate == [credit : Nat, initialized : BOOLEAN, even_slot : Nat,
         even_interval : Nat, even_initialized : BOOLEAN]

==============================================================================
