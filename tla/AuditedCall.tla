---------------------------- MODULE AuditedCall ----------------------------
(***************************************************************************)
(* What the audit log promises of a call that sends a command to devices,  *)
(* without the addresses, the pool, the credentials and the inventory: the *)
(* verdict is on record before anything is sent, nothing is sent to a      *)
(* device once its outcome is recorded, a success is recorded where the    *)
(* last attempt sent the whole command and nowhere else, and nothing is    *)
(* handed back that is not on record.  When the call has ended, so has     *)
(* everything done for it.  It does not promise that a command runs once:  *)
(* what an attempt sent before it failed is in no record.                  *)
(*                                                                         *)
(* It is the promise of audit.py:1-18 and of server.py:63-74, as far as    *)
(* the code keeps it.                                                      *)
(***************************************************************************)
EXTENDS Naturals, Sequences

CONSTANTS Names,        \* the devices a call may name
          Outcomes      \* what may be recorded of one

VARIABLES busy,         \* a call is being served
          verdict,      \* the verdict on record for it, or "none"
          size,         \* the pieces of its command
          touched,      \* the devices that anything was sent to
          ran,          \* by device: the pieces that the last attempt has sent
          records,      \* by device: the outcomes on record
          given         \* the devices of which an answer was handed back

vars == <<busy, verdict, size, touched, ran, records, given>>

Init ==
  /\ busy = FALSE
  /\ verdict = "none"
  /\ size = 0
  /\ touched = {}
  /\ ran = [d \in Names |-> 0]
  /\ records = [d \in Names |-> <<>>]
  /\ given = {}

Begin ==
  /\ ~busy
  /\ busy' = TRUE
  /\ verdict' = "none"
  /\ size' \in Nat
  /\ touched' = {}
  /\ ran' = [d \in Names |-> 0]
  /\ records' = [d \in Names |-> <<>>]
  /\ given' = {}

\* A call that is denied ends with the record of it.
Judge ==
  /\ busy /\ verdict = "none"
  /\ verdict' \in {"ALLOWED", "DENIED"}
  /\ busy' = (verdict' = "ALLOWED")
  /\ UNCHANGED <<size, touched, ran, records, given>>

AtWork(d) == busy /\ verdict = "ALLOWED" /\ records[d] = <<>>

\* An attempt begins, the first or one after another that did not send it all.
Attempt(d) ==
  /\ AtWork(d)
  /\ ran[d] = 0 \/ ran[d] < size
  /\ touched' = touched \cup {d}
  /\ ran' = [ran EXCEPT ![d] = 0]
  /\ UNCHANGED <<busy, verdict, size, records, given>>

Run(d) ==
  /\ AtWork(d)
  /\ d \in touched /\ ran[d] < size
  /\ ran' = [ran EXCEPT ![d] = @ + 1]
  /\ UNCHANGED <<busy, verdict, size, touched, records, given>>

\* A success is recorded where an attempt sent it all, and of no other device.
Record(d) ==
  /\ AtWork(d)
  /\ \E outcome \in Outcomes :
         /\ outcome = "SUCCESS" => d \in touched /\ ran[d] = size
         /\ size > 0 /\ ran[d] = size => outcome = "SUCCESS"
         /\ records' = [records EXCEPT ![d] = <<outcome>>]
  /\ UNCHANGED <<busy, verdict, size, touched, ran, given>>

\* The answer of a single device is what its call returns.
HandBack(d) ==
  /\ busy
  /\ records[d] # <<>>
  /\ given' = given \cup {d}
  /\ busy' \in BOOLEAN
  /\ UNCHANGED <<verdict, size, touched, ran, records>>

\* The call returns or raises, at any point: records and answers may be missing.
End ==
  /\ busy
  /\ busy' = FALSE
  /\ UNCHANGED <<verdict, size, touched, ran, records, given>>

Next ==
  \/ Begin \/ Judge \/ End
  \/ \E d \in Names : Attempt(d) \/ Run(d) \/ Record(d) \/ HandBack(d)

Spec == Init /\ [][Next]_vars
============================================================================
