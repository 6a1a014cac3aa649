----------------------------- MODULE ShellRead -----------------------------
(***************************************************************************)
(* The serial reads of one poll over one shared shell: run_batch() and     *)
(* _read_one() of src/uf/core/transport.py over resync(),                  *)
(* execute_command() and _wait_for_prompt() of src/uf/core/ssh_client.py.  *)
(*                                                                         *)
(* There is no framing: the device executes the lines it is sent in order  *)
(* and prints; the client decides from the prompt alone where an answer    *)
(* ends.  What a command prints is abstracted to two pieces of its JSON    *)
(* body and a prompt; a bare newline prints a prompt.  Each piece holds a  *)
(* complete inner object, as the nested payloads of `| json' do.           *)
(***************************************************************************)
EXTENDS Integers, Sequences, SequencesExt

CONSTANTS
  Reads,      \* commands of the batch, which are told apart by their number
  Residue     \* bound of the model: prompts the bring-up left outstanding

ASSUME ReadsAssumption   == Reads \in Nat \ {0}
ASSUME ResidueAssumption == Residue \in Nat

VARIABLES
  device,    \* what the device has been told to print and has not
  channel,   \* what it has printed and the client has not read
  pc,        \* where _read_one() stands
  read,      \* the number of the current read
  output,    \* what _wait_for_prompt() has collected
  value,     \* what run_batch() files under each read
  residue,   \* prompts outstanding when the batch begins
  late,      \* some wait gave up on the device (history)
  quiet      \* nothing was outstanding when this read drained (history)

vars == <<device, channel, pc, read, output, value, residue, late, quiet>>

Body(k, part) == [kind |-> "body", of |-> k, part |-> part]
Prompt        == [kind |-> "prompt", of |-> 0, part |-> 0]
Answer(k)     == <<Body(k, 1), Body(k, 2), Prompt>>
Pieces        == {Prompt} \cup {Body(k, p) : k \in 1..Reads, p \in 1..2}

Whole(k)    == [kind |-> "whole", of |-> k]
Fragment(k) == [kind |-> "fragment", of |-> k]
Error       == [kind |-> "error", of |-> 0]     \* {"_error": ...}, read as UNREAD
Unfilled    == [kind |-> "unfilled", of |-> 0]
Values == {Error, Unfilled} \cup {Whole(k) : k \in 1..Reads}
            \cup {Fragment(k) : k \in 1..Reads}

(***************************************************************************)
(* _extract_json(): the first '{' whose matching brace is in the output    *)
(* wins; one that never closes is passed over for the next '{', which is   *)
(* an inner one.                                                           *)
(***************************************************************************)
Extracted(text) ==
  LET bodies == {i \in DOMAIN text : text[i].kind = "body"}
      firsts == {i \in bodies : \A j \in bodies : i <= j}   \* one, if any
      first  == CHOOSE i \in firsts : TRUE
      k      == text[first].of
  IN  IF firsts = {} THEN Error
      ELSE IF text[first].part = 1 /\ Body(k, 2) \in ToSet(text) THEN Whole(k)
      ELSE Fragment(k)

Init ==
  /\ residue \in 0..Residue
  /\ device = [i \in 1..residue |-> Prompt]
  /\ channel = <<>>
  /\ pc = "drain"               \* the first read does not resync
  /\ read = 1
  /\ output = <<>>
  /\ value = [k \in 1..Reads |-> Unfilled]
  /\ late = FALSE
  /\ quiet = FALSE

DevicePrints ==
  /\ device # <<>>
  /\ channel' = Append(channel, Head(device))
  /\ device' = Tail(device)
  /\ UNCHANGED <<pc, read, output, value, residue, late, quiet>>

\* One recv() takes some of what is there, in order.
Receives(n) == n \in DOMAIN channel /\ channel' = SubSeq(channel, n + 1, Len(channel))
Received(n) == SubSeq(channel, 1, n)

HasPrompt(text) == Prompt \in ToSet(text)

(***************************************************************************)
(* resync(), between the reads.                                            *)
(***************************************************************************)
ResyncSkips ==
  /\ pc = "resync"
  /\ pc' = "drain"
  /\ UNCHANGED <<device, channel, read, output, value, residue, late, quiet>>

ResyncDrains ==
  /\ pc = "resync"
  /\ channel' = <<>>
  /\ pc' = "nudge"
  /\ UNCHANGED <<device, read, output, value, residue, late, quiet>>

ResyncNudges ==
  /\ pc = "nudge"
  /\ device' = Append(device, Prompt)
  /\ pc' = "await"
  /\ UNCHANGED <<channel, read, output, value, residue, late, quiet>>

\* It nudges the device for every piece that is not a prompt.
ResyncReadsNudging(n) ==
  /\ pc = "await"
  /\ Receives(n)
  /\ pc' = IF HasPrompt(Received(n)) THEN "drain" ELSE "nudge"
  /\ UNCHANGED <<device, read, output, value, residue, late, quiet>>

\* Any prompt will do, also one that an earlier line printed.
ResyncReads(n) ==
  /\ pc = "await"
  /\ Receives(n)
  /\ pc' = IF HasPrompt(Received(n)) THEN "drain" ELSE "await"
  /\ UNCHANGED <<device, read, output, value, residue, late, quiet>>

ResyncWaits ==
  /\ pc = "await"
  /\ HasPrompt(channel)
  /\ late' = TRUE
  /\ pc' = "drain"
  /\ UNCHANGED <<device, channel, read, output, value, residue, quiet>>

\* After `settle' it returns anyway.
ResyncGivesUp ==
  /\ pc = "await"
  /\ late' = TRUE
  /\ pc' = "drain"
  /\ UNCHANGED <<device, channel, read, output, value, residue, quiet>>

(***************************************************************************)
(* execute_command() and the parse of its output.                          *)
(***************************************************************************)
SendsUndrained ==
  /\ pc = "drain"
  /\ quiet' = (device = <<>>)
  /\ pc' = "send"
  /\ UNCHANGED <<device, channel, read, output, value, residue, late>>

Drains ==
  /\ pc = "drain"
  /\ channel' = <<>>
  /\ quiet' = (device = <<>>)
  /\ pc' = "send"
  /\ UNCHANGED <<device, read, output, value, residue, late>>

Sends ==
  /\ pc = "send"
  /\ device' = device \o Answer(read)
  /\ output' = <<>>
  /\ pc' = "wait"
  /\ UNCHANGED <<channel, read, value, residue, late, quiet>>

\* The value is filed and the next command's turn comes.
Files(text) ==
  /\ value' = [value EXCEPT ![read] = Extracted(text)]
  /\ IF read = Reads
     THEN pc' = "done" /\ read' = read
     ELSE pc' = "resync" /\ read' = read + 1

WaitReadsOnce(n) ==
  /\ pc = "wait"
  /\ Receives(n)
  /\ output' = output \o Received(n)
  /\ pc' = "settle"
  /\ UNCHANGED <<device, read, value, residue, late, quiet>>

\* The answer is read until the output holds a prompt.
WaitReads(n) ==
  /\ pc = "wait"
  /\ Receives(n)
  /\ output' = output \o Received(n)
  /\ pc' = IF HasPrompt(output') THEN "settle" ELSE "wait"
  /\ UNCHANGED <<device, read, value, residue, late, quiet>>

\* A short settle: one more recv() if something came, and the output is parsed.
SettleReads(n) ==
  /\ pc = "settle"
  /\ Receives(n)
  /\ Files(output \o Received(n))
  /\ UNCHANGED <<device, output, residue, late, quiet>>

SettleEnds ==
  /\ pc = "settle"
  /\ channel = <<>>
  /\ Files(output)
  /\ UNCHANGED <<device, channel, output, residue, late, quiet>>

\* expect_prompt_timeout passes: what has come so far is parsed all the same.
WaitGivesUp ==
  /\ pc = "wait"
  /\ late' = TRUE
  /\ Files(output)
  /\ UNCHANGED <<device, channel, output, residue, quiet>>

Receive == \E n \in DOMAIN channel : ResyncReads(n) \/ WaitReads(n) \/ SettleReads(n)

ClientStep ==
  \/ ResyncDrains \/ ResyncNudges \/ ResyncGivesUp
  \/ Drains \/ Sends
  \/ Receive \/ SettleEnds \/ WaitGivesUp

Next == DevicePrints \/ ClientStep

\* The client runs and its clock advances; the device owes nothing.
Spec == Init /\ [][Next]_vars /\ WF_vars(ClientStep)

(***************************************************************************)
(* Properties.                                                             *)
(***************************************************************************)
TypeOK ==
  /\ device \in Seq(Pieces) /\ channel \in Seq(Pieces) /\ output \in Seq(Pieces)
  /\ pc \in {"resync", "nudge", "await", "drain", "send", "wait", "settle", "done"}
  /\ read \in 1..Reads
  /\ value \in [1..Reads -> Values]
  /\ residue \in 0..Residue
  /\ late \in BOOLEAN /\ quiet \in BOOLEAN

\* With a device that answers every wait in time, and a clean shell to begin
\* with, each read is filed whole under its own command, however the pieces of
\* the answers are cut up by recv().
PunctualReadsAreWhole ==
  ~late /\ residue = 0 => \A k \in 1..Reads : value[k] \in {Unfilled, Whole(k)}

\* A prompt left over from the bring-up makes a read return early, but as long
\* as no wait gives up nothing of one command is ever filed under another: the
\* resync takes the stray prompt up (the desync that the comments of
\* execute_command and _read_one describe).  With two stray prompts it does not
\* hold: a resync takes up one.
NoReadIsAnothers ==
  ~late /\ residue <= 1 =>
    \A k \in 1..Reads : value[k].of \in {0, k}

\* A late answer does no lasting harm: when the device had caught up by the time
\* the shell was drained for a read, that read tells of its own command or of
\* none (execute_command's drain).
LateIsForgotten ==
  [][ value'[read] # value[read] /\ quiet => value'[read].of \in {0, read} ]_vars

\* Where the batch stands: each read goes through the same places in turn.
Place(where) ==
  CASE where = "resync" -> 0 [] where = "nudge" -> 1 [] where = "await" -> 2
    [] where = "drain" -> 3 [] where = "send" -> 4 [] where = "wait" -> 5
    [] where = "settle" -> 6 [] OTHER -> 7
Stand  == 8 * read + Place(pc)
Unread == Len(channel) + Len(device)

\* The batch never goes back: it is further on, or stays where it is and pieces
\* were read, or one was printed.  So each line is sent once, and what is left of
\* the batch can be counted, whatever the device prints, and when.
BatchAdvances ==
  [][ \/ Stand' > Stand
      \/ Stand' = Stand /\ Unread' < Unread
      \/ Stand' = Stand /\ Unread' = Unread /\ Len(device') < Len(device) ]_vars

\* The batch always comes to its end, even over a device that went silent: no
\* wait of the client is without a bound ("safe to call on every read in a
\* poll", resync).
BatchEnds == <>(pc = "done")

\* A read that did not get its whole answer is an error and is filed as UNREAD:
\* "No complete object anywhere -> the caller records _error (UNREAD), never
\* ABSENT" (transport.py:92), "a single garbled command should degrade to
\* UNREAD on its own" (transport.py:305).
ReadIsWholeOrUnread ==
  \A k \in 1..Reads : value[k] \in {Unfilled, Error, Whole(k)}
============================================================================
