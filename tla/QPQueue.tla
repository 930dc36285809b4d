------------------------------- MODULE QPQueue -------------------------------
(***************************************************************************)
(* The queue of one qPoS round (QPQueue): a sequence of staker IDs, one    *)
(* per slot, each slot QP_TARGET_SPACING seconds long, and a bit per slot  *)
(* that says whether its block was produced.  Slots count from 0, as in    *)
(* the code; vStakerIDs is a sequence, so slot s is vStakerIDs[s + 1].     *)
(***************************************************************************)
EXTENDS Integers, FiniteSets, Sequences

CONSTANT QP_TARGET_SPACING

ASSUME SpacingAssumption == QP_TARGET_SPACING \in Nat \ {0}

\* vchBlockStats is the set of positions of the bits that are on.
NullQueue ==
    [nSlotTime0 |-> 0, vStakerIDs |-> << >>, nCurrentSlot |-> 0, vchBlockStats |-> {}]

MakeQueue(nSlotTime0, vStakerIDs) ==
    [nSlotTime0 |-> nSlotTime0, vStakerIDs |-> vStakerIDs,
     nCurrentSlot |-> 0, vchBlockStats |-> {}]

Size(q) == Len(q.vStakerIDs)

\* vchBlockStats is resized to whole bytes.
StatsBits(q) == 8 * ((Size(q) + 7) \div 8)

\* The bits are right-aligned in the byte vector.
BitForSlot(q, nSlot) == nSlot + StatsBits(q) - Size(q)

BitIsOn(q, nBit) == nBit < StatsBits(q) /\ nBit \in q.vchBlockStats

\* SetBit reports nothing set when the bit lies outside the vector.
CanSetBit(q, nBit) == nBit < StatsBits(q)

SlotProduced(q, nSlot) ==
    [q EXCEPT !.vchBlockStats = @ \cup {BitForSlot(q, nSlot)}]

GetStatusForSlot(q, nSlot) ==
    IF nSlot >= Size(q) THEN "invalid"
    ELSE IF nSlot > q.nCurrentSlot THEN "future"
    ELSE IF BitIsOn(q, BitForSlot(q, nSlot)) THEN "produced"
    ELSE IF nSlot = q.nCurrentSlot THEN "current"
    ELSE "missed"

\* The slots of an ID; GetSlotForID returns the first, or fails if there is none.
SlotsOf(q, nID) == {s \in 0..(Size(q) - 1) : q.vStakerIDs[s + 1] = nID}

HasSlotForID(q, nID) == SlotsOf(q, nID) # {}

GetSlotForID(q, nID) == CHOOSE s \in SlotsOf(q, nID) : \A u \in SlotsOf(q, nID) : s <= u

SlotStart(q, nSlot) == q.nSlotTime0 + QP_TARGET_SPACING * nSlot

SlotEnd(q, nSlot) == SlotStart(q, nSlot) + QP_TARGET_SPACING - 1

InWindow(q, nSlot, nTime) == SlotStart(q, nSlot) <= nTime /\ nTime <= SlotEnd(q, nSlot)

GetMaxTime(q) == q.nSlotTime0 + QP_TARGET_SPACING * Size(q) - 1

HasSlotForTime(q, nTime) == q.nSlotTime0 <= nTime /\ nTime <= GetMaxTime(q)

GetSlotForTime(q, nTime) == (nTime - q.nSlotTime0) \div QP_TARGET_SPACING

GetCurrentSlotEnd(q) == SlotEnd(q, q.nCurrentSlot)

TimeIsInCurrentSlotWindow(q, nTime) == InWindow(q, q.nCurrentSlot, nTime)

GetCurrentID(q) == q.vStakerIDs[q.nCurrentSlot + 1]

\* Fault: the slot after the last one exists.
CanIncrementSlotPast(q) == q.nCurrentSlot < Size(q)

CanIncrementSlot(q) == q.nCurrentSlot + 1 < Size(q)

IncrementSlot(q) == [q EXCEPT !.nCurrentSlot = @ + 1]

=============================================================================
