---------------------------- MODULE TimeManager ----------------------------
(* The timers of a loop (time_manager_t in lib/net/timer.cc): slots by time  *)
(* point, each with its callbacks in the order they were added, and          *)
(* registrations that name a callback by its slot and its place there.       *)
(*                                                                           *)
(* Time points are counted from the last multiple of the precision, in units *)
(* of it. 0 and what is before it is due; a registration whose time has      *)
(* passed by a unit has Past.                                                *)
EXTENDS Naturals, Integers, Sequences

CONSTANTS Horizon,   \* no timer is set for later
          Owners     \* who sets timers

ASSUME HorizonAssumption == Horizon \in Nat

(* The elements of a sequence that are in S, in their order.                 *)
Only(seq, S) ==
  LET kept[i \in 0..Len(seq)] == IF i = 0 THEN <<>>
                                 ELSE IF seq[i] \in S THEN Append(kept[i - 1], seq[i])
                                 ELSE kept[i - 1]
  IN  kept[Len(seq)]

Past == -1
Registration == [id : {-1} \cup Nat, timepoint : Past..Horizon + 1]
NotRegistered == [id |-> -1, timepoint |-> Past]

Slots == [0..Horizon + 1 -> Seq([owner : Owners, on : BOOLEAN])]
NoTimers == [t \in 0..Horizon + 1 |-> <<>>]

(* insert, of a timer made with this span: the alignment adds what is left   *)
(* of the unit, nothing when now is exactly a multiple of the precision.     *)
Timepoint(span, exact) == span + IF exact THEN 0 ELSE 1
Insert(slots, owner, t) == [slots EXCEPT ![t] = Append(@, [owner |-> owner, on |-> TRUE])]

(* Mutant: the place is counted from 0.                                      *)
RegisteredFrom0(slots, t) == [id |-> Len(slots[t]), timepoint |-> t]
Registered(slots, t) == [id |-> Len(slots[t]) + 1, timepoint |-> t]

(* cancel: a slot that is not there any more is passed over. What is written *)
(* past the end of a slot is no callback's.                                  *)
Cancel(slots, reg) ==
  IF reg.timepoint = Past \/ slots[reg.timepoint] = <<>> THEN slots
  ELSE [slots EXCEPT ![reg.timepoint][reg.id].on = FALSE]

(* tick: the callbacks that are on of the slot whose time has come, in order; *)
(* then the slot is deleted.                                                  *)
Due(slots) == Only(slots[0], [owner : Owners, on : {TRUE}])
AfterTick(slots) == [slots EXCEPT ![0] = <<>>]

(* get_current_time: the next unit begins, after the ticks of this one, with *)
(* nothing left that is due.                                                 *)
Later(slots) == [t \in DOMAIN slots |-> IF t + 1 \in DOMAIN slots THEN slots[t + 1] ELSE <<>>]
LaterRegistration(reg) ==
  [reg EXCEPT !.timepoint = IF @ = Past THEN Past ELSE @ - 1]

Places(slots) == UNION {{t} \X DOMAIN slots[t] : t \in DOMAIN slots}
Armed(slots, owner) ==
  {p \in Places(slots) : slots[p[1]][p[2]] = [owner |-> owner, on |-> TRUE]}
============================================================================
