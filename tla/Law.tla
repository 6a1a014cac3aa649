-------------------------------- MODULE Law ---------------------------------
(* uf/core/law.py: the three states of a reading, the one rule by which every *)
(* discriminator picks one, and the frame, which only PRESENT may carry.      *)
(* `present` is the discriminator's answer: "yes", "no", or "unproven".       *)
EXTENDS Json

States == {"PRESENT", "ABSENT", "UNREAD"}

Classify(readOk, present) ==
    IF readOk /\ present = "yes" THEN "PRESENT"
    ELSE IF readOk /\ present = "no" THEN "ABSENT"
    ELSE "UNREAD"

FrameStatus(value, ceiling) == IF value <= ceiling THEN "OK" ELSE "CRIT"
Frame(value, ceiling) ==
    [value |-> value, ceiling |-> ceiling, status |-> FrameStatus(value, ceiling)]

\* CPU frames name their own bands; the ceiling is the true maximum.
CpuFrame(used) ==
    [value |-> used, ceiling |-> 100,
     status |-> IF used >= 85 THEN "CRIT" ELSE IF used >= 70 THEN "WARN" ELSE "OK"]

\* What a call yields that raises instead of returning a reading.
Raised == [state |-> "RAISED", payload |-> Null, frames |-> <<>>]

\* A frame off PRESENT is refused at construction.
Reading(state, payload, frames) ==
    IF state # "PRESENT" /\ frames # <<>> THEN Raised
    ELSE [state |-> state, payload |-> payload, frames |-> frames]

\* The ways a discriminator ends.
ReadFailed(v) == Reading(Classify(FALSE, "unproven"), v, <<>>)
Judged(present, v) == Reading(Classify(TRUE, present), v, <<>>)
Framed(payload, frame) == Reading(Classify(TRUE, "yes"), payload, <<frame>>)
==============================================================================
