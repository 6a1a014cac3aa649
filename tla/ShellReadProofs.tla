-------------------------- MODULE ShellReadProofs --------------------------
(***************************************************************************)
(* Proofs about the serial reads over one shell, for any number of reads.  *)
(* All three rest on one view: what the device has yet to print and what   *)
(* it has printed form one line of pieces, of which the client takes the   *)
(* front, however recv() cuts it up.                                       *)
(***************************************************************************)
EXTENDS ShellRead, SequenceTheorems, TLAPS

\* What belongs to one command, or to none.
Own(k) == {Prompt, Body(k, 1), Body(k, 2)}

\* What the client has not read yet, in the order in which it will.
Outstanding == channel \o device

---------------------------------------------------------------------------
(***************************************************************************)
(* Sequences.                                                              *)
(***************************************************************************)
\* The pieces that a cut leaves on either side.
LEMMA CutProperties ==
  ASSUME NEW S, NEW s \in Seq(S), NEW n \in 0..Len(s)
  PROVE  /\ SubSeq(s, 1, n) \in Seq(S) /\ SubSeq(s, n + 1, Len(s)) \in Seq(S)
         /\ Len(SubSeq(s, 1, n)) = n /\ Len(SubSeq(s, n + 1, Len(s))) = Len(s) - n
         /\ \A i \in 1..n : SubSeq(s, 1, n)[i] = s[i]
         /\ \A i \in 1..(Len(s) - n) : SubSeq(s, n + 1, Len(s))[i] = s[n + i]
<1>1. /\ Len(s) \in Nat /\ n \in Int /\ n + 1 \in Int
      /\ \A i \in 1..n : s[i] \in S
      /\ \A i \in (n + 1)..Len(s) : s[i] \in S
  BY ElementOfSeq, LenProperties
<1>2. /\ SubSeq(s, 1, n) \in Seq(S)
      /\ Len(SubSeq(s, 1, n)) = IF 1 <= n THEN n - 1 + 1 ELSE 0
      /\ \A i \in 1..(n - 1 + 1) : SubSeq(s, 1, n)[i] = s[1 + i - 1]
  BY <1>1, SubSeqProperties
<1>3. /\ SubSeq(s, n + 1, Len(s)) \in Seq(S)
      /\ Len(SubSeq(s, n + 1, Len(s)))
           = IF n + 1 <= Len(s) THEN Len(s) - (n + 1) + 1 ELSE 0
      /\ \A i \in 1..(Len(s) - (n + 1) + 1) :
           SubSeq(s, n + 1, Len(s))[i] = s[(n + 1) + i - 1]
  BY <1>1, SubSeqProperties
<1> QED
  BY <1>1, <1>2, <1>3

\* Where the pieces of the two halves of a line stand in it.
LEMMA JoinProperties ==
  ASSUME NEW S, NEW s \in Seq(S), NEW t \in Seq(S)
  PROVE  /\ Len(s) \in Nat /\ Len(t) \in Nat /\ Len(s \o t) = Len(s) + Len(t)
         /\ DOMAIN s = 1..Len(s) /\ DOMAIN t = 1..Len(t) /\ DOMAIN (s \o t) = 1..Len(s \o t)
         /\ \A i \in 1..Len(s) : (s \o t)[i] = s[i]
         /\ \A i \in 1..Len(t) : (s \o t)[Len(s) + i] = t[i]
<1>1. s \o t \in Seq(S) /\ Len(s \o t) = Len(s) + Len(t)
  BY ConcatProperties
<1>2. /\ Len(s) \in Nat /\ Len(t) \in Nat
      /\ DOMAIN s = 1..Len(s) /\ DOMAIN t = 1..Len(t)
      /\ DOMAIN (s \o t) = 1..Len(s \o t)
  BY <1>1, LenProperties
<1>3. \A i \in 1..(Len(s) + Len(t)) :
        (s \o t)[i] = IF i <= Len(s) THEN s[i] ELSE t[i - Len(s)]
  BY ConcatProperties
<1>4. \A i \in 1..Len(s) : (s \o t)[i] = s[i]
  BY <1>2, <1>3
<1>5. \A i \in 1..Len(t) : (s \o t)[Len(s) + i] = t[i]
  <2> SUFFICES ASSUME NEW i \in 1..Len(t)
               PROVE  (s \o t)[Len(s) + i] = t[i]
    OBVIOUS
  <2>1. /\ Len(s) + i \in 1..(Len(s) + Len(t)) /\ ~(Len(s) + i <= Len(s))
        /\ (Len(s) + i) - Len(s) = i
    BY <1>2
  <2> QED
    BY <1>3, <2>1
<1> QED
  BY <1>1, <1>2, <1>4, <1>5

\* An answer is two pieces of a body and a prompt.
LEMMA AnswerProperties ==
  ASSUME NEW k
  PROVE  /\ Answer(k) \in Seq(Own(k)) /\ Len(Answer(k)) = 3
         /\ Answer(k)[1] = Body(k, 1) /\ Answer(k)[2] = Body(k, 2)
         /\ Answer(k)[3] = Prompt
BY DEF Answer, Own

\* A piece of a body is not a prompt.
LEMMA BodyIsNoPrompt == \A k, p : Body(k, p) # Prompt
BY DEF Body, Prompt

\* What belongs to a command of the batch is a piece the device can print.
LEMMA OwnInPieces == \A k \in 1..Reads : Own(k) \subseteq Pieces
BY DEF Own, Pieces

---------------------------------------------------------------------------
(***************************************************************************)
(* _extract_json.                                                          *)
(***************************************************************************)
\* What is extracted comes from some piece of the text.
LEMMA ExtractedFromBody ==
  ASSUME NEW text
  PROVE  \/ Extracted(text) = Error
         \/ \E i \in DOMAIN text : /\ text[i].kind = "body"
                                   /\ Extracted(text) \in {Whole(text[i].of), Fragment(text[i].of)}
<1> DEFINE bodies == {i \in DOMAIN text : text[i].kind = "body"}
           firsts == {i \in bodies : \A j \in bodies : i <= j}
           first  == CHOOSE i \in firsts : TRUE
<1>1. CASE firsts = {}
  BY <1>1 DEF Extracted
<1>2. CASE firsts # {}
  <2>1. first \in firsts
    BY <1>2
  <2>2. Extracted(text) \in {Whole(text[first].of), Fragment(text[first].of)}
    BY <1>2 DEF Extracted
  <2> QED
    BY <2>1, <2>2
<1> QED
  BY <1>1, <1>2

\* From the pieces of one command comes a value of that command, or an error.
LEMMA ExtractedOwn ==
  ASSUME NEW k, NEW text \in Seq(Own(k))
  PROVE  Extracted(text) \in {Error, Whole(k), Fragment(k)}
<1>1. \A i \in DOMAIN text : text[i] \in Own(k)
  BY ElementOfSeq, LenProperties
<1>2. \A i \in DOMAIN text : text[i].kind = "body" => text[i].of = k
  BY <1>1 DEF Own, Prompt, Body
<1> QED
  BY <1>2, ExtractedFromBody

\* From any text the client can collect comes a value of the table.
LEMMA ExtractedValue ==
  ASSUME NEW text \in Seq(Pieces)
  PROVE  Extracted(text) \in Values
<1>1. \A i \in DOMAIN text : text[i] \in Pieces
  BY ElementOfSeq, LenProperties
<1>2. \A i \in DOMAIN text : text[i].kind = "body" => text[i].of \in 1..Reads
  BY <1>1 DEF Pieces, Prompt, Body
<1> QED
  BY <1>2, ExtractedFromBody DEF Values

\* The whole answer gives the whole value.
LEMMA ExtractedWhole ==
  ASSUME NEW k
  PROVE  Extracted(Answer(k)) = Whole(k)
<1> DEFINE text == Answer(k)
           bodies == {i \in DOMAIN text : text[i].kind = "body"}
           firsts == {i \in bodies : \A j \in bodies : i <= j}
           first  == CHOOSE i \in firsts : TRUE
<1>1. /\ DOMAIN text = 1..3
      /\ text[1] = Body(k, 1) /\ text[2] = Body(k, 2) /\ text[3] = Prompt
  BY AnswerProperties, LenProperties
<1> HIDE DEF text
<1>2. text[1].kind = "body" /\ text[1].part = 1 /\ text[1].of = k /\ 1 \in DOMAIN text
  BY <1>1 DEF Body
<1>3. 1 \in firsts /\ \A i \in firsts : i = 1
  BY <1>1, <1>2
<1>4. first = 1
  BY <1>3
<1>5. Body(k, 2) \in ToSet(text)
  BY <1>1 DEF ToSet
<1>6. Extracted(text) = Whole(k)
  BY <1>2, <1>3, <1>4, <1>5 DEF Extracted
<1> QED
  BY <1>6 DEF text
---------------------------------------------------------------------------
(***************************************************************************)
(* The line of pieces.                                                     *)
(***************************************************************************)
\* Printing moves a piece along the line and changes nothing of it.
LEMMA PrintKeepsLine ==
  ASSUME NEW S, device \in Seq(S), channel \in Seq(S), DevicePrints
  PROVE  /\ device' \in Seq(S) /\ channel' \in Seq(S)
         /\ Outstanding' = Outstanding
<1>1. device # <<>> /\ channel' = Append(channel, Head(device)) /\ device' = Tail(device)
  BY DEF DevicePrints
<1>2. /\ Head(device) \in S /\ Tail(device) \in Seq(S)
      /\ Len(Tail(device)) = Len(device) - 1
      /\ \A i \in 1..Len(Tail(device)) : Tail(device)[i] = device[i + 1]
  BY <1>1, HeadTailProperties
<1>3. /\ channel' \in Seq(S) /\ Len(channel') = Len(channel) + 1
      /\ \A i \in 1..Len(channel) : channel'[i] = channel[i]
      /\ channel'[Len(channel) + 1] = Head(device)
  BY <1>1, <1>2, AppendProperties
<1>4. Head(device) = device[1]
  BY <1>1
<1>5. /\ channel \o device \in Seq(S) /\ channel' \o device' \in Seq(S)
      /\ Len(channel \o device) = Len(channel) + Len(device)
      /\ Len(channel' \o device') = Len(channel') + Len(device')
      /\ \A i \in 1..(Len(channel) + Len(device)) :
           (channel \o device)[i] = IF i <= Len(channel) THEN channel[i]
                                    ELSE device[i - Len(channel)]
      /\ \A i \in 1..(Len(channel') + Len(device')) :
           (channel' \o device')[i] = IF i <= Len(channel') THEN channel'[i]
                                      ELSE device'[i - Len(channel')]
  BY <1>1, <1>2, <1>3, ConcatProperties
<1>6. Len(channel) \in Nat /\ Len(device) \in Nat /\ Len(device) # 0
  BY <1>1, EmptySeq, LenProperties
<1>7. \A i \in 1..(Len(channel) + Len(device)) :
        (channel' \o device')[i] = (channel \o device)[i]
  <2> SUFFICES ASSUME NEW i \in 1..(Len(channel) + Len(device))
               PROVE  (channel' \o device')[i] = (channel \o device)[i]
    OBVIOUS
  <2>1. CASE i <= Len(channel)
    BY <2>1, <1>1, <1>2, <1>3, <1>5, <1>6
  <2>2. CASE i = Len(channel) + 1
    BY <2>2, <1>1, <1>2, <1>3, <1>4, <1>5, <1>6
  <2>3. CASE i > Len(channel) + 1
    <3>1. i - Len(channel') \in 1..Len(Tail(device))
      BY <2>3, <1>2, <1>3, <1>6
    <3>2. Tail(device)[i - Len(channel')] = device[i - Len(channel)]
      BY <3>1, <1>2, <1>3, <1>6
    <3> QED
      BY <2>3, <3>2, <1>1, <1>2, <1>3, <1>5, <1>6
  <2>4. i <= Len(channel) \/ i = Len(channel) + 1 \/ i > Len(channel) + 1
    BY <1>6
  <2> QED
    BY <2>1, <2>2, <2>3, <2>4, Zenon
<1>8. channel' \o device' = channel \o device
  BY <1>1, <1>2, <1>3, <1>5, <1>6, <1>7, SeqEqual
<1> QED
  BY <1>1, <1>2, <1>3, <1>8 DEF Outstanding

\* A recv() takes the front of the channel and leaves the rest of it.
LEMMA ReceiveTakesFront ==
  ASSUME NEW S, channel \in Seq(S), NEW n \in DOMAIN channel, Receives(n)
  PROVE  /\ n \in 1..Len(channel)
         /\ Received(n) \in Seq(S) /\ channel' \in Seq(S)
         /\ Len(Received(n)) = n
         /\ Received(n) \o channel' = channel
<1>1. n \in 1..Len(channel) /\ n \in 0..Len(channel) /\ Len(channel) \in Nat
  BY LenProperties
<1>2. /\ Received(n) \in Seq(S) /\ channel' \in Seq(S) /\ Len(Received(n)) = n
  BY <1>1, CutProperties DEF Receives, Received
<1>3. SubSeq(channel, 1, n) \o SubSeq(channel, n + 1, Len(channel))
        = SubSeq(channel, 1, Len(channel))
  <2>1. /\ 1 \in 1..(Len(channel) + 1) /\ n \in (1 - 1)..Len(channel)
        /\ Len(channel) \in n..Len(channel)
    BY <1>1
  <2> QED
    BY <2>1, ConcatAdjacentSubSeq
<1>4. SubSeq(channel, 1, Len(channel)) = channel
  BY SubSeqFull
<1>5. Received(n) \o channel' = channel
  BY <1>3, <1>4 DEF Receives, Received
<1> QED
  BY <1>1, <1>2, <1>5

\* So it takes the front of the line.
LEMMA ReceiveTakesFrontOfLine ==
  ASSUME NEW S, channel \in Seq(S), device \in Seq(S), device' = device,
         NEW n \in DOMAIN channel, Receives(n)
  PROVE  /\ Received(n) \in Seq(S) /\ Len(Received(n)) \in Nat \ {0}
         /\ Outstanding' \in Seq(S)
         /\ Received(n) \o Outstanding' = Outstanding
<1>1. /\ Received(n) \in Seq(S) /\ channel' \in Seq(S)
      /\ Len(Received(n)) \in Nat \ {0}
      /\ Received(n) \o channel' = channel
  BY ReceiveTakesFront, LenProperties
<1>2. channel' \o device \in Seq(S)
  BY <1>1, ConcatProperties
<1>3. (Received(n) \o channel') \o device = Received(n) \o (channel' \o device)
  <2>1. \A s, t, u \in Seq(S) : (s \o t) \o u = s \o (t \o u)
    BY ConcatAssociative
  <2> QED
    BY <1>1, <2>1
<1>4. Outstanding' = channel' \o device
  BY DEF Outstanding
<1>5. Received(n) \o Outstanding' = Outstanding
  BY <1>1, <1>3, <1>4 DEF Outstanding
<1> QED
  BY <1>1, <1>2, <1>4, <1>5

---------------------------------------------------------------------------
(***************************************************************************)
(* Types.                                                                  *)
(***************************************************************************)
\* Filing what was extracted from pieces keeps the types and ends the read.
LEMMA FilesTypes ==
  ASSUME TypeOK, NEW text \in Seq(Pieces), Files(text)
  PROVE  /\ pc' \in {"resync", "done"}
         /\ read' \in 1..Reads
         /\ value' \in [1..Reads -> Values]
         /\ value'[read] = Extracted(text)
         /\ \A k \in 1..Reads : k # read => value'[k] = value[k]
         /\ pc' = "resync" => read' = read + 1
<1>1. Extracted(text) \in Values
  BY ExtractedValue
<1>2. value' \in [1..Reads -> Values]
  BY <1>1 DEF Files, TypeOK
<1>3. read' \in 1..Reads
  BY ReadsAssumption DEF Files, TypeOK
<1> QED
  BY <1>2, <1>3 DEF Files, TypeOK

\* The pieces the client collects are pieces.
LEMMA ReceiveTypes ==
  ASSUME TypeOK, NEW n \in DOMAIN channel, Receives(n)
  PROVE  /\ Received(n) \in Seq(Pieces) /\ channel' \in Seq(Pieces)
         /\ output \o Received(n) \in Seq(Pieces)
BY ReceiveTakesFront, ConcatProperties DEF TypeOK

\* A batch starts with the prompts of the bring-up and nothing filed.
LEMMA InitTypes == Init => TypeOK
<1> SUFFICES ASSUME Init
             PROVE  TypeOK
  OBVIOUS
<1>1. residue \in Nat /\ residue \in 0..Residue
  BY ResidueAssumption DEF Init
<1>2. Prompt \in Pieces
  BY DEF Pieces
<1>3. [i \in 1..residue |-> Prompt] \in Seq(Pieces)
  BY <1>1, <1>2
<1>4. value \in [1..Reads -> Values]
  BY DEF Init, Values
<1>5. read \in 1..Reads
  BY ReadsAssumption DEF Init
<1>6. <<>> \in Seq(Pieces)
  BY EmptySeq
<1> QED
  BY <1>1, <1>3, <1>4, <1>5, <1>6 DEF Init, TypeOK

\* Every step keeps the types.
LEMMA NextTypes == TypeOK /\ [Next]_vars => TypeOK'
<1> SUFFICES ASSUME TypeOK, [Next]_vars
             PROVE  TypeOK'
  OBVIOUS
<1>1. CASE DevicePrints
  BY <1>1, PrintKeepsLine DEF DevicePrints, TypeOK
<1>2. CASE ResyncDrains
  BY <1>2, EmptySeq DEF ResyncDrains, TypeOK
<1>3. CASE ResyncNudges
  <2>1. Append(device, Prompt) \in Seq(Pieces)
    BY AppendProperties DEF TypeOK, Pieces
  <2> QED
    BY <1>3, <2>1 DEF ResyncNudges, TypeOK
<1>4. CASE ResyncGivesUp
  BY <1>4 DEF ResyncGivesUp, TypeOK
<1>5. CASE Drains
  <2>1. quiet' \in BOOLEAN
    BY <1>5 DEF Drains
  <2> QED
    BY <1>5, <2>1, EmptySeq DEF Drains, TypeOK
<1>6. CASE Sends
  <2>1. Answer(read) \in Seq(Pieces)
    BY AnswerProperties, OwnInPieces, SeqMonotonic DEF TypeOK
  <2>2. device' \in Seq(Pieces)
    BY <1>6, <2>1, ConcatProperties DEF Sends, TypeOK
  <2> QED
    BY <1>6, <2>2, EmptySeq DEF Sends, TypeOK
<1>7. ASSUME NEW n \in DOMAIN channel, ResyncReads(n)
      PROVE  TypeOK'
  BY <1>7, ReceiveTypes DEF ResyncReads, TypeOK
<1>8. ASSUME NEW n \in DOMAIN channel, WaitReads(n)
      PROVE  TypeOK'
  BY <1>8, ReceiveTypes DEF WaitReads, TypeOK
<1>9. ASSUME NEW n \in DOMAIN channel, SettleReads(n)
      PROVE  TypeOK'
  BY <1>9, ReceiveTypes, FilesTypes DEF SettleReads, TypeOK
<1>10. CASE SettleEnds
  BY <1>10, FilesTypes DEF SettleEnds, TypeOK
<1>11. CASE WaitGivesUp
  BY <1>11, FilesTypes DEF WaitGivesUp, TypeOK
<1>12. CASE UNCHANGED vars
  BY <1>12 DEF vars, TypeOK
<1> QED
  BY <1>1, <1>2, <1>3, <1>4, <1>5, <1>6, <1>7, <1>8, <1>9, <1>10, <1>11, <1>12
  DEF Next, ClientStep, Receive

\* The types hold in every behaviour of the batch.
THEOREM Typed == Spec => []TypeOK
<1>1. Init => TypeOK
  BY InitTypes
<1>2. TypeOK /\ [Next]_vars => TypeOK'
  BY NextTypes
<1> QED
  BY <1>1, <1>2, PTL DEF Spec

---------------------------------------------------------------------------
(***************************************************************************)
(* A device that has caught up is forgotten.                               *)
(***************************************************************************)
\* Nothing of an earlier command is under way in a read that began quiet.
QuietFits ==
  quiet =>
    /\ pc = "send" => device = <<>> /\ channel = <<>>
    /\ pc \in {"wait", "settle"} =>
         device \in Seq(Own(read)) /\ channel \in Seq(Own(read)) /\ output \in Seq(Own(read))

\* Every step keeps a quiet read to its own command.
LEMMA NextQuietFits == TypeOK /\ QuietFits /\ [Next]_vars => QuietFits'
<1> SUFFICES ASSUME TypeOK, QuietFits, [Next]_vars, quiet'
             PROVE  /\ pc' = "send" => device' = <<>> /\ channel' = <<>>
                    /\ pc' \in {"wait", "settle"} =>
                         /\ device' \in Seq(Own(read')) /\ channel' \in Seq(Own(read'))
                         /\ output' \in Seq(Own(read'))
  BY Zenon DEF QuietFits
<1>1. CASE DevicePrints
  <2>1. quiet /\ pc' = pc /\ read' = read /\ output' = output /\ device # <<>>
    BY <1>1 DEF DevicePrints
  <2>2. CASE pc \in {"wait", "settle"}
    BY <1>1, <2>1, <2>2, PrintKeepsLine DEF QuietFits
  <2> QED
    BY <2>1, <2>2 DEF QuietFits
<1>2. CASE ResyncDrains \/ ResyncNudges \/ ResyncGivesUp
  BY <1>2 DEF ResyncDrains, ResyncNudges, ResyncGivesUp
<1>3. CASE Drains
  BY <1>3 DEF Drains
<1>4. CASE Sends
  <2>1. /\ device = <<>> /\ channel = <<>> /\ channel' = channel /\ read' = read
        /\ device' = device \o Answer(read) /\ output' = <<>> /\ pc' = "wait"
    BY <1>4 DEF Sends, QuietFits
  <2>2. <<>> \in Seq(Own(read)) /\ Answer(read) \in Seq(Own(read))
    BY EmptySeq, AnswerProperties
  <2>3. device' \in Seq(Own(read))
    BY <2>1, <2>2, ConcatEmptySeq
  <2> QED
    BY <2>1, <2>2, <2>3
<1>5. ASSUME NEW n \in DOMAIN channel, ResyncReads(n)
      PROVE  pc' \in {"drain", "await"}
  BY <1>5 DEF ResyncReads
<1>6. ASSUME NEW n \in DOMAIN channel, WaitReads(n)
      PROVE  /\ pc' \in {"wait", "settle"} /\ device' \in Seq(Own(read'))
             /\ channel' \in Seq(Own(read')) /\ output' \in Seq(Own(read'))
  <2>1. /\ device \in Seq(Own(read)) /\ channel \in Seq(Own(read))
        /\ output \in Seq(Own(read)) /\ read' = read /\ device' = device
        /\ output' = output \o Received(n) /\ Receives(n) /\ pc' \in {"wait", "settle"}
    BY <1>6 DEF WaitReads, QuietFits
  <2>2. Received(n) \in Seq(Own(read)) /\ channel' \in Seq(Own(read))
    BY <2>1, ReceiveTakesFront
  <2>3. output' \in Seq(Own(read))
    BY <2>1, <2>2, ConcatProperties
  <2> QED
    BY <2>1, <2>2, <2>3
<1>7. ASSUME NEW n \in DOMAIN channel, SettleReads(n)
      PROVE  pc' \in {"resync", "done"}
  BY <1>7 DEF SettleReads, Files
<1>8. CASE SettleEnds \/ WaitGivesUp
  <2>1. pc' \in {"resync", "done"}
    BY <1>8 DEF SettleEnds, WaitGivesUp, Files
  <2> QED
    BY <2>1
<1>9. CASE UNCHANGED vars
  BY <1>9 DEF vars, QuietFits
<1> QED
  BY <1>1, <1>2, <1>3, <1>4, <1>5, <1>6, <1>7, <1>8, <1>9
  DEF Next, ClientStep, Receive

\* What a quiet read files is its own.
LEMMA QuietReadIsOwn ==
  ASSUME TypeOK, QuietFits, quiet, [Next]_vars, value'[read] # value[read]
  PROVE  value'[read].of \in {0, read}
<1>1. ASSUME pc \in {"wait", "settle"}, NEW text \in Seq(Own(read)), Files(text)
      PROVE  value'[read].of \in {0, read}
  <2>1. value'[read] = Extracted(text)
    BY <1>1 DEF Files, TypeOK
  <2>2. Extracted(text) \in {Error, Whole(read), Fragment(read)}
    BY ExtractedOwn
  <2> QED
    BY <2>1, <2>2 DEF Error, Whole, Fragment
<1>2. ASSUME NEW n \in DOMAIN channel, SettleReads(n)
      PROVE  value'[read].of \in {0, read}
  <2>1. /\ pc = "settle" /\ channel \in Seq(Own(read)) /\ output \in Seq(Own(read))
        /\ Receives(n) /\ Files(output \o Received(n))
    BY <1>2 DEF SettleReads, QuietFits
  <2>2. output \o Received(n) \in Seq(Own(read))
    BY <2>1, ReceiveTakesFront, ConcatProperties
  <2> QED
    BY <1>1, <2>1, <2>2
<1>3. CASE SettleEnds \/ WaitGivesUp
  <2>1. pc \in {"wait", "settle"} /\ output \in Seq(Own(read)) /\ Files(output)
    BY <1>3 DEF SettleEnds, WaitGivesUp, QuietFits
  <2> QED
    BY <1>1, <2>1
<1>4. ASSUME value' = value
      PROVE  value'[read].of \in {0, read}
  BY <1>4
<1>5. \/ value' = value \/ SettleEnds \/ WaitGivesUp
      \/ \E n \in DOMAIN channel : SettleReads(n)
  BY DEF Next, ClientStep, Receive, DevicePrints, ResyncDrains, ResyncNudges,
         ResyncGivesUp, Drains, Sends, ResyncReads, WaitReads, vars
<1> QED
  BY <1>2, <1>3, <1>4, <1>5

\* A late answer does no lasting harm: a read that began with nothing under way
\* tells of its own command or of none, whatever waits gave up before it.
THEOREM LateAnswersAreForgotten == Spec => LateIsForgotten
<1>1. Init => TypeOK /\ QuietFits
  BY InitTypes DEF Init, QuietFits
<1>2. TypeOK /\ QuietFits /\ [Next]_vars => TypeOK' /\ QuietFits'
  BY NextTypes, NextQuietFits
<1>3. TypeOK /\ QuietFits /\ [Next]_vars
        => [value'[read] # value[read] /\ quiet => value'[read].of \in {0, read}]_vars
  BY QuietReadIsOwn
<1> QED
  BY <1>1, <1>2, <1>3, PTL DEF Spec, LateIsForgotten

---------------------------------------------------------------------------
(***************************************************************************)
(* What every step does to the line, in a word each.                       *)
(***************************************************************************)
\* The line is made of pieces, and is empty when both its halves are.
LEMMA LineTypes ==
  ASSUME TypeOK
  PROVE  /\ Outstanding \in Seq(Pieces)
         /\ Outstanding = <<>> <=> channel = <<>> /\ device = <<>>
<1>1. channel \o device \in Seq(Pieces)
  BY ConcatProperties DEF TypeOK
<1>2. channel \o device = <<>> <=> channel = <<>> /\ device = <<>>
  BY ConcatEqualIffEmpty DEF TypeOK
<1> QED
  BY <1>1, <1>2 DEF Outstanding

\* A recv() during resync takes the front of the line.
LEMMA ResyncTakesFront ==
  ASSUME TypeOK, NEW n \in DOMAIN channel, ResyncReads(n)
  PROVE  /\ Received(n) \in Seq(Pieces) /\ Len(Received(n)) \in Nat \ {0}
         /\ Outstanding' \in Seq(Pieces)
         /\ Received(n) \o Outstanding' = Outstanding
<1>1. Receives(n) /\ device' = device
  BY DEF ResyncReads
<1>2. channel \in Seq(Pieces) /\ device \in Seq(Pieces)
  BY DEF TypeOK
<1> QED
  BY <1>1, <1>2, ReceiveTakesFrontOfLine

\* A recv() during a read moves the front of the line into the output.
LEMMA ReadMovesFront ==
  ASSUME TypeOK, device' = device, NEW n \in DOMAIN channel, Receives(n)
  PROVE  /\ output \o Received(n) \in Seq(Pieces)
         /\ Outstanding' \in Seq(Pieces)
         /\ (output \o Received(n)) \o Outstanding' = output \o Outstanding
         /\ Len(output \o Received(n)) > Len(output)
<1>1. channel \in Seq(Pieces) /\ device \in Seq(Pieces) /\ output \in Seq(Pieces)
  BY DEF TypeOK
<1>2. /\ Received(n) \in Seq(Pieces) /\ Len(Received(n)) \in Nat \ {0}
      /\ Outstanding' \in Seq(Pieces)
      /\ Received(n) \o Outstanding' = Outstanding
  BY <1>1, ReceiveTakesFrontOfLine
<1>3. \A s, t, u \in Seq(Pieces) : (s \o t) \o u = s \o (t \o u)
  BY ConcatAssociative
<1>4. (output \o Received(n)) \o Outstanding' = output \o (Received(n) \o Outstanding')
  BY <1>1, <1>2, <1>3
<1>5. /\ output \o Received(n) \in Seq(Pieces)
      /\ Len(output \o Received(n)) = Len(output) + Len(Received(n))
  BY <1>1, <1>2, ConcatProperties
<1>6. Len(output) \in Nat
  BY <1>1, LenProperties
<1> QED
  BY <1>2, <1>4, <1>5, <1>6

\* A nudge puts a prompt at the end of the line.
LEMMA NudgeAppends ==
  ASSUME TypeOK, ResyncNudges
  PROVE  Outstanding' = Append(Outstanding, Prompt)
<1>1. /\ device' = Append(device, Prompt) /\ channel' = channel
      /\ channel \in Seq(Pieces) /\ device \in Seq(Pieces)
      /\ Prompt \in Pieces /\ <<Prompt>> \in Seq(Pieces)
      /\ channel \o device \in Seq(Pieces)
  BY LineTypes DEF ResyncNudges, TypeOK, Pieces, Outstanding
<1>2. \A s \in Seq(Pieces) : Append(s, Prompt) = s \o <<Prompt>>
  BY <1>1, AppendIsConcat
<1>3. \A s, t, u \in Seq(Pieces) : (s \o t) \o u = s \o (t \o u)
  BY ConcatAssociative
<1>4. channel \o Append(device, Prompt) = (channel \o device) \o <<Prompt>>
  BY <1>1, <1>2, <1>3
<1>5. Append(channel \o device, Prompt) = (channel \o device) \o <<Prompt>>
  BY <1>1, <1>2
<1> QED
  BY <1>1, <1>4, <1>5 DEF Outstanding

\* A command puts its answer at the end of the line.
LEMMA SendAppends ==
  ASSUME TypeOK, Sends
  PROVE  Outstanding' = Outstanding \o Answer(read)
<1>1. /\ device' = device \o Answer(read) /\ channel' = channel
      /\ channel \in Seq(Pieces) /\ device \in Seq(Pieces)
  BY DEF Sends, TypeOK
<1>2. Answer(read) \in Seq(Pieces)
  BY AnswerProperties, OwnInPieces, SeqMonotonic DEF TypeOK
<1>3. \A s, t, u \in Seq(Pieces) : (s \o t) \o u = s \o (t \o u)
  BY ConcatAssociative
<1>4. channel \o (device \o Answer(read)) = (channel \o device) \o Answer(read)
  BY <1>1, <1>2, <1>3
<1> QED
  BY <1>1, <1>4 DEF Outstanding

---------------------------------------------------------------------------
(***************************************************************************)
(* A punctual device and a clean shell.                                    *)
(***************************************************************************)
\* The line holds exactly what the client waits for, and nothing in between.
Punctual ==
  /\ pc \in {"resync", "nudge", "drain", "send", "done"} => Outstanding = <<>>
  /\ pc = "await" => Outstanding = <<Prompt>>
  /\ pc = "wait" => output \o Outstanding = Answer(read)
  /\ pc = "settle" => Outstanding = <<>> /\ output = Answer(read)
  /\ \A k \in 1..Reads : value[k] \in {Unfilled, Whole(k)}

PunctualFits == ~late /\ residue = 0 => Punctual

\* The prompt is the last piece of an answer: output that holds it holds all.
LEMMA PromptEndsAnswer ==
  ASSUME NEW k, NEW S, NEW s \in Seq(S), NEW t \in Seq(S),
         s \o t = Answer(k), HasPrompt(s)
  PROVE  t = <<>> /\ s = Answer(k)
<1>1. /\ Len(s) + Len(t) = 3
      /\ \A i \in 1..Len(s) : s[i] = Answer(k)[i]
      /\ Len(s) \in Nat /\ Len(t) \in Nat
  <2>1. Len(s \o t) = 3
    BY AnswerProperties
  <2>2. /\ Len(s) \in Nat /\ Len(t) \in Nat /\ Len(s \o t) = Len(s) + Len(t)
        /\ \A i \in 1..Len(s) : (s \o t)[i] = s[i]
    BY JoinProperties
  <2> QED
    BY <2>1, <2>2
<1>2. PICK i \in DOMAIN s : s[i] = Prompt
  BY DEF HasPrompt, ToSet
<1>3. i \in 1..Len(s)
  BY <1>2, LenProperties
<1>4. Answer(k)[1] # Prompt /\ Answer(k)[2] # Prompt
  BY AnswerProperties, BodyIsNoPrompt
<1>5. i # 1 /\ i # 2
  BY <1>1, <1>2, <1>3, <1>4
<1>6. Len(t) = 0
  BY <1>1, <1>3, <1>5
<1>7. t = <<>>
  BY <1>6, EmptySeq
<1> QED
  BY <1>7, ConcatEmptySeq

\* One prompt can only be received whole.
LEMMA OnePromptIsTaken ==
  ASSUME NEW S, NEW s \in Seq(S), NEW t \in Seq(S), Len(s) \in Nat \ {0},
         Len(s \o t) = 1, (s \o t)[1] = Prompt
  PROVE  t = <<>> /\ HasPrompt(s)
<1>1. /\ Len(s) \in Nat /\ Len(t) \in Nat /\ Len(s \o t) = Len(s) + Len(t)
      /\ DOMAIN s = 1..Len(s)
      /\ \A i \in 1..Len(s) : (s \o t)[i] = s[i]
  BY JoinProperties
<1>2. Len(s) = 1 /\ Len(t) = 0
  BY <1>1
<1>3. 1 \in DOMAIN s /\ s[1] = Prompt
  BY <1>1, <1>2
<1> QED
  BY <1>2, <1>3, EmptySeq DEF HasPrompt, ToSet

\* With a punctual device every step leaves on the line what is waited for.
LEMMA NextPunctual ==
  ASSUME TypeOK, Punctual, [Next]_vars, ~late'
  PROVE  Punctual'
<1>1. CASE DevicePrints
  <2>1. Outstanding' = Outstanding
    BY <1>1, PrintKeepsLine DEF TypeOK
  <2> QED
    BY <1>1, <2>1 DEF DevicePrints, Punctual
<1>2. CASE ResyncDrains
  <2>1. channel = <<>> /\ device = <<>> /\ channel' = <<>> /\ device' = <<>>
    BY <1>2, LineTypes DEF ResyncDrains, Punctual
  <2>2. Outstanding' = Outstanding
    BY <2>1 DEF Outstanding
  <2> QED
    BY <1>2, <2>2 DEF ResyncDrains, Punctual
<1>3. CASE ResyncNudges
  <2>1. Outstanding' = <<Prompt>>
    BY <1>3, NudgeAppends DEF ResyncNudges, Punctual
  <2> QED
    BY <1>3, <2>1 DEF ResyncNudges, Punctual
<1>4. CASE ResyncGivesUp \/ WaitGivesUp
  BY <1>4 DEF ResyncGivesUp, WaitGivesUp
<1>5. CASE Drains
  <2>1. channel = <<>> /\ device = <<>> /\ channel' = <<>> /\ device' = <<>>
    BY <1>5, LineTypes DEF Drains, Punctual
  <2>2. Outstanding' = Outstanding
    BY <2>1 DEF Outstanding
  <2> QED
    BY <1>5, <2>2 DEF Drains, Punctual
<1>6. CASE Sends
  <2>1. Answer(read) \in Seq(Pieces)
    BY AnswerProperties, OwnInPieces, SeqMonotonic DEF TypeOK
  <2>2. Outstanding' = Answer(read) /\ output' = <<>>
    BY <1>6, <2>1, SendAppends, ConcatEmptySeq DEF Sends, Punctual
  <2>3. output' \o Outstanding' = Answer(read)
    BY <2>1, <2>2, ConcatEmptySeq
  <2> QED
    BY <1>6, <2>3 DEF Sends, Punctual
<1>7. ASSUME NEW n \in DOMAIN channel, ResyncReads(n)
      PROVE  Punctual'
  <2>1. Outstanding = <<Prompt>> /\ pc = "await"
    BY <1>7 DEF ResyncReads, Punctual
  <2>2. /\ Received(n) \in Seq(Pieces) /\ Len(Received(n)) \in Nat \ {0}
        /\ Outstanding' \in Seq(Pieces)
        /\ Received(n) \o Outstanding' = Outstanding
    BY <1>7, ResyncTakesFront
  <2>3. Len(Outstanding) = 1 /\ Outstanding[1] = Prompt
    BY <2>1
  <2>4. Outstanding' = <<>> /\ HasPrompt(Received(n))
    BY <2>2, <2>3, OnePromptIsTaken
  <2> QED
    BY <1>7, <2>1, <2>4 DEF ResyncReads, Punctual
<1>8. ASSUME NEW n \in DOMAIN channel, WaitReads(n)
      PROVE  Punctual'
  <2>1. /\ pc = "wait" /\ output \o Outstanding = Answer(read) /\ Receives(n)
        /\ device' = device /\ output' = output \o Received(n)
        /\ read' = read /\ value' = value
        /\ pc' = IF HasPrompt(output') THEN "settle" ELSE "wait"
    BY <1>8 DEF WaitReads, Punctual
  <2>2. /\ output' \in Seq(Pieces) /\ Outstanding' \in Seq(Pieces)
        /\ output' \o Outstanding' = Answer(read)
    BY <2>1, ReadMovesFront
  <2>3. HasPrompt(output') => Outstanding' = <<>> /\ output' = Answer(read)
    BY <2>2, PromptEndsAnswer
  <2> QED
    BY <2>1, <2>2, <2>3 DEF Punctual
<1>9. ASSUME NEW n \in DOMAIN channel
      PROVE  ~SettleReads(n)
  <2>1. SUFFICES ASSUME SettleReads(n)
                 PROVE  FALSE
    OBVIOUS
  <2>2. channel = <<>>
    BY <2>1, LineTypes DEF SettleReads, Punctual
  <2> QED
    BY <1>9, <2>2
<1>10. CASE SettleEnds
  <2>1. /\ pc = "settle" /\ Outstanding = <<>> /\ output = Answer(read) /\ Files(output)
        /\ device' = device /\ channel' = channel /\ output \in Seq(Pieces)
    BY <1>10 DEF SettleEnds, Punctual, TypeOK
  <2>2. Outstanding' = <<>>
    BY <2>1 DEF Outstanding
  <2>3. value'[read] = Whole(read) /\ pc' \in {"resync", "done"}
    BY <2>1, FilesTypes, ExtractedWhole DEF TypeOK
  <2>4. \A k \in 1..Reads : value'[k] \in {Unfilled, Whole(k)}
    BY <2>1, <2>3, FilesTypes DEF Punctual
  <2> QED
    BY <2>2, <2>3, <2>4 DEF Punctual
<1>11. CASE UNCHANGED vars
  BY <1>11 DEF vars, Punctual, Outstanding
<1> QED
  BY <1>1, <1>2, <1>3, <1>4, <1>5, <1>6, <1>7, <1>8, <1>9, <1>10, <1>11
  DEF Next, ClientStep, Receive

\* A wait that gave up is never forgotten, and the bring-up lies behind.
LEMMA LateStays ==
  ASSUME [Next]_vars, TypeOK
  PROVE  residue' = residue /\ (~late' => ~late)
BY DEF Next, ClientStep, Receive, DevicePrints, ResyncDrains, ResyncNudges, ResyncGivesUp,
       Drains, Sends, ResyncReads, WaitReads, SettleReads, SettleEnds, WaitGivesUp, vars

\* Over a clean shell with a device that answers every wait in time, each read
\* is filed whole under its own command, whatever recv() makes of the answers.
THEOREM PunctualReads == Spec => []PunctualReadsAreWhole
<1>1. Init => TypeOK /\ PunctualFits
  <2> SUFFICES ASSUME Init, residue = 0
               PROVE  Punctual
    BY InitTypes DEF PunctualFits
  <2>1. device = <<>> /\ channel = <<>>
    BY DEF Init
  <2>2. Outstanding = <<>>
    BY <2>1 DEF Outstanding
  <2> QED
    BY <2>2 DEF Init, Punctual
<1>2. TypeOK /\ PunctualFits /\ [Next]_vars => TypeOK' /\ PunctualFits'
  BY NextTypes, NextPunctual, LateStays DEF PunctualFits
<1>3. PunctualFits => PunctualReadsAreWhole
  BY DEF PunctualFits, Punctual, PunctualReadsAreWhole
<1> QED
  BY <1>1, <1>2, <1>3, PTL DEF Spec

---------------------------------------------------------------------------
(***************************************************************************)
(* A punctual device and one stray prompt.                                 *)
(***************************************************************************)
\* Where prompts can stand on the line: alone, at its ends, at its end, or
\* behind the last answer and once more where a nudge asked for one.
AtMostAPrompt(t)  == Len(t) <= 1 /\ \A i \in DOMAIN t : t[i] = Prompt
AtTheEnds(t)      == \A i \in DOMAIN t : t[i] = Prompt => i \in {1, Len(t)}
AtTheEnd(t)       == \A i \in DOMAIN t : t[i] = Prompt => i = Len(t)
AtTheEndTwice(t)  ==
  /\ Len(t) > 0 /\ t[Len(t)] = Prompt
  /\ \A i \in DOMAIN t : t[i] = Prompt => i >= Len(t) - 1

Tidy ==
  /\ pc \in {"drain", "send"} => AtMostAPrompt(Outstanding)
  /\ pc \in {"wait", "settle"} =>
       output \o Outstanding \in Seq(Own(read)) /\ AtTheEnds(output \o Outstanding)
  /\ pc = "settle" => output # <<>>
  /\ pc \in {"resync", "nudge"} => AtTheEnd(Outstanding)
  /\ pc = "await" => AtTheEndTwice(Outstanding)
  /\ \A k \in 1..Reads : value[k].of \in {0, k}

TidyFits == ~late /\ residue <= 1 => Tidy

\* What lies behind the front of a line.
LEMMA RestOfLine ==
  ASSUME NEW S, NEW s \in Seq(S), NEW t \in Seq(S)
  PROVE  /\ AtMostAPrompt(s \o t) => AtMostAPrompt(t)
         /\ AtTheEnd(s \o t) => AtTheEnd(t)
         /\ AtTheEnds(s \o t) /\ Len(s) > 0 => AtTheEnd(t)
<1>1. /\ Len(s) \in Nat /\ Len(t) \in Nat /\ Len(s \o t) = Len(s) + Len(t)
      /\ DOMAIN t = 1..Len(t) /\ DOMAIN (s \o t) = 1..Len(s \o t)
  BY JoinProperties
<1>2. \A i \in DOMAIN t : Len(s) + i \in DOMAIN (s \o t) /\ t[i] = (s \o t)[Len(s) + i]
  BY <1>1, JoinProperties
<1>3. AtMostAPrompt(s \o t) => AtMostAPrompt(t)
  BY <1>1, <1>2 DEF AtMostAPrompt
<1>4. ASSUME NEW i \in DOMAIN t, t[i] = Prompt,
             AtTheEnd(s \o t) \/ (AtTheEnds(s \o t) /\ Len(s) > 0)
      PROVE  i = Len(t)
  <2>1. (s \o t)[Len(s) + i] = Prompt /\ Len(s) + i \in DOMAIN (s \o t)
    BY <1>2, <1>4
  <2>2. \/ Len(s) + i = Len(s \o t)
        \/ Len(s) + i = 1 /\ Len(s) > 0
    BY <1>4, <2>1 DEF AtTheEnd, AtTheEnds
  <2> QED
    BY <1>1, <1>4, <2>2
<1>5. AtTheEnd(s \o t) \/ (AtTheEnds(s \o t) /\ Len(s) > 0) => AtTheEnd(t)
  BY <1>4 DEF AtTheEnd
<1> QED
  BY <1>3, <1>5

\* Once a prompt of a nudged line has been read at most a prompt is left, and
\* until then the line goes on waiting for one.
LEMMA RestOfNudgedLine ==
  ASSUME NEW S, NEW s \in Seq(S), NEW t \in Seq(S), AtTheEndTwice(s \o t)
  PROVE  /\ HasPrompt(s) => AtMostAPrompt(t)
         /\ ~HasPrompt(s) => AtTheEndTwice(t)
<1>1. /\ Len(s) \in Nat /\ Len(t) \in Nat /\ Len(s \o t) = Len(s) + Len(t)
      /\ DOMAIN s = 1..Len(s) /\ DOMAIN t = 1..Len(t)
      /\ DOMAIN (s \o t) = 1..Len(s \o t)
      /\ \A i \in 1..Len(s) : (s \o t)[i] = s[i]
      /\ \A i \in 1..Len(t) : (s \o t)[Len(s) + i] = t[i]
  BY JoinProperties
<1>2. /\ Len(s \o t) > 0 /\ (s \o t)[Len(s \o t)] = Prompt
      /\ \A i \in 1..Len(s \o t) : (s \o t)[i] = Prompt => i >= Len(s \o t) - 1
  BY <1>1 DEF AtTheEndTwice
<1>3. Len(t) > 0 => t[Len(t)] = Prompt
  BY <1>1, <1>2
<1>4. ASSUME HasPrompt(s)
      PROVE  AtMostAPrompt(t)
  <2>1. PICK i \in 1..Len(s) : s[i] = Prompt
    BY <1>1, <1>4 DEF HasPrompt, ToSet
  <2>2. i \in 1..Len(s \o t) /\ (s \o t)[i] = Prompt
    BY <1>1, <2>1
  <2>3. i >= Len(s \o t) - 1
    BY <1>2, <2>2
  <2>4. Len(t) <= 1
    BY <1>1, <2>1, <2>3
  <2> QED
    BY <1>1, <1>3, <2>4 DEF AtMostAPrompt
<1>5. ASSUME ~HasPrompt(s)
      PROVE  AtTheEndTwice(t)
  <2>1. \A i \in 1..Len(s) : s[i] # Prompt
    BY <1>1, <1>5 DEF HasPrompt, ToSet
  <2>2. Len(t) > 0
    BY <1>1, <1>2, <2>1
  <2>3. ASSUME NEW i \in 1..Len(t), t[i] = Prompt
        PROVE  i >= Len(t) - 1
    <3>1. (s \o t)[Len(s) + i] = Prompt
      BY <1>1, <2>3
    <3>2. Len(s) + i \in 1..Len(s \o t)
      BY <1>1
    <3>3. Len(s) + i >= Len(s \o t) - 1
      BY <1>2, <3>1, <3>2
    <3> QED
      BY <1>1, <3>3
  <2> QED
    BY <1>1, <1>3, <2>2, <2>3 DEF AtTheEndTwice
<1> QED
  BY <1>4, <1>5

\* A nudge behind a line that ends its last answer.
LEMMA NudgedLine ==
  ASSUME NEW S, NEW s \in Seq(S), Prompt \in S, AtTheEnd(s)
  PROVE  AtTheEndTwice(Append(s, Prompt))
<1>1. /\ Append(s, Prompt) \in Seq(S) /\ Len(s) \in Nat /\ DOMAIN s = 1..Len(s)
      /\ Len(Append(s, Prompt)) = Len(s) + 1
      /\ \A i \in 1..Len(s) : Append(s, Prompt)[i] = s[i]
      /\ Append(s, Prompt)[Len(s) + 1] = Prompt
  BY AppendProperties, LenProperties
<1>2. DOMAIN Append(s, Prompt) = 1..(Len(s) + 1)
  BY <1>1, LenProperties
<1>3. \A i \in 1..(Len(s) + 1) : Append(s, Prompt)[i] = Prompt => i >= Len(s)
  BY <1>1 DEF AtTheEnd
<1> QED
  BY <1>1, <1>2, <1>3 DEF AtTheEndTwice

\* A command behind at most a stray prompt.
LEMMA AnsweredLine ==
  ASSUME NEW k, NEW S, NEW s \in Seq(S), AtMostAPrompt(s)
  PROVE  s \o Answer(k) \in Seq(Own(k)) /\ AtTheEnds(s \o Answer(k))
<1>1. Len(s) \in Nat /\ DOMAIN s = 1..Len(s) /\ s \in [1..Len(s) -> S]
  BY LenProperties
<1>2. s \in Seq(Own(k))
  <2>1. \A i \in 1..Len(s) : s[i] \in Own(k)
    BY <1>1 DEF AtMostAPrompt, Own
  <2>2. s \in [1..Len(s) -> Own(k)]
    BY <1>1, <2>1
  <2> QED
    BY <1>1, <2>2
<1>3. Answer(k) \in Seq(Own(k)) /\ Len(Answer(k)) = 3
  BY AnswerProperties
<1>4. Answer(k)[1] # Prompt /\ Answer(k)[2] # Prompt
  BY AnswerProperties, BodyIsNoPrompt
<1> DEFINE a == Answer(k)
<1> HIDE DEF a
<1>5. /\ Len(s \o a) = Len(s) + Len(a)
      /\ DOMAIN (s \o a) = 1..Len(s \o a)
      /\ \A i \in 1..Len(a) : (s \o a)[Len(s) + i] = a[i]
      /\ s \o a \in Seq(Own(k))
  <2>1. a \in Seq(Own(k))
    BY <1>3 DEF a
  <2> QED
    BY <1>2, <2>1, JoinProperties, ConcatProperties
<1>6. Len(a) = 3 /\ a[1] # Prompt /\ a[2] # Prompt /\ Len(s) <= 1
  BY <1>3, <1>4 DEF a, AtMostAPrompt
<1>7. (s \o a)[Len(s) + 1] # Prompt /\ (s \o a)[Len(s) + 2] # Prompt
  BY <1>5, <1>6
<1>8. ASSUME NEW i \in 1..(Len(s) + 3), (s \o a)[i] = Prompt
      PROVE  i \in {1, Len(s) + 3}
  <2>1. i # Len(s) + 1 /\ i # Len(s) + 2
    BY <1>7, <1>8
  <2> QED
    BY <1>1, <1>6, <2>1
<1>9. AtTheEnds(s \o a)
  BY <1>5, <1>6, <1>8 DEF AtTheEnds
<1> QED
  BY <1>5, <1>9 DEF a

\* The front of a line that belongs to a command belongs to it.
LEMMA FrontIsOwn ==
  ASSUME NEW S, NEW T, NEW s \in Seq(S), NEW t \in Seq(S), s \o t \in Seq(T)
  PROVE  s \in Seq(T)
<1>1. /\ Len(s) \in Nat /\ Len(t) \in Nat /\ Len(s \o t) = Len(s) + Len(t)
      /\ \A i \in 1..Len(s) : (s \o t)[i] = s[i]
  BY JoinProperties
<1>2. \A i \in 1..Len(s \o t) : (s \o t)[i] \in T
  BY ElementOfSeq
<1>3. \A i \in 1..Len(s) : s[i] \in T
  BY <1>1, <1>2
<1>4. s \in [1..Len(s) -> T]
  BY <1>3, LenProperties
<1> QED
  BY <1>1, <1>4

\* Filing text of the command that is read keeps every value with its command.
LEMMA FilesOwn ==
  ASSUME TypeOK, NEW text \in Seq(Own(read)), Files(text),
         \A k \in 1..Reads : value[k].of \in {0, k}
  PROVE  \A k \in 1..Reads : value'[k].of \in {0, k}
<1>1. value'[read].of \in {0, read}
  <2>1. value'[read] = Extracted(text)
    BY DEF Files, TypeOK
  <2>2. Extracted(text) \in {Error, Whole(read), Fragment(read)}
    BY ExtractedOwn
  <2> QED
    BY <2>1, <2>2 DEF Error, Whole, Fragment
<1>2. \A k \in 1..Reads : k # read => value'[k] = value[k]
  BY DEF Files, TypeOK
<1> QED
  BY <1>1, <1>2

\* With a punctual device and a stray prompt every step keeps the line tidy.
LEMMA NextTidy ==
  ASSUME TypeOK, Tidy, [Next]_vars, ~late'
  PROVE  Tidy'
<1>1. CASE DevicePrints
  <2>1. Outstanding' = Outstanding
    BY <1>1, PrintKeepsLine DEF TypeOK
  <2>2. (output \o Outstanding)' = output \o Outstanding
    BY <1>1, <2>1 DEF DevicePrints
  <2> QED
    BY <1>1, <2>1, <2>2 DEF DevicePrints, Tidy
<1>2. CASE ResyncDrains \/ Drains
  <2>1. channel \in Seq(Pieces) /\ device \in Seq(Pieces) /\ channel' = <<>> /\ device' = device
    BY <1>2 DEF ResyncDrains, Drains, TypeOK
  <2>2. Outstanding' = device
    BY <2>1, ConcatEmptySeq DEF Outstanding
  <2>3. /\ AtMostAPrompt(Outstanding) => AtMostAPrompt(Outstanding')
        /\ AtTheEnd(Outstanding) => AtTheEnd(Outstanding')
    BY <2>1, <2>2, RestOfLine DEF Outstanding
  <2> QED
    BY <1>2, <2>3 DEF ResyncDrains, Drains, Tidy
<1>3. CASE ResyncNudges
  <2>1. AtTheEnd(Outstanding) /\ Prompt \in Pieces
    BY <1>3 DEF ResyncNudges, Tidy, Pieces
  <2>2. AtTheEndTwice(Outstanding')
    BY <1>3, <2>1, LineTypes, NudgeAppends, NudgedLine
  <2> QED
    BY <1>3, <2>2 DEF ResyncNudges, Tidy
<1>4. CASE ResyncGivesUp \/ WaitGivesUp
  BY <1>4 DEF ResyncGivesUp, WaitGivesUp
<1>5. CASE Sends
  <2>1. AtMostAPrompt(Outstanding) /\ pc' = "wait" /\ output' = <<>> /\ read' = read /\ value' = value
    BY <1>5 DEF Sends, Tidy
  <2>2. /\ Outstanding \o Answer(read) \in Seq(Own(read))
        /\ AtTheEnds(Outstanding \o Answer(read))
    BY <2>1, LineTypes, AnsweredLine
  <2>3. output' \o Outstanding' = Outstanding \o Answer(read)
    BY <1>5, <2>1, <2>2, SendAppends, ConcatEmptySeq
  <2> QED
    BY <2>1, <2>2, <2>3 DEF Tidy
<1>6. ASSUME NEW n \in DOMAIN channel, ResyncReads(n)
      PROVE  Tidy'
  <2>1. pc = "await" /\ AtTheEndTwice(Outstanding)
    BY <1>6 DEF ResyncReads, Tidy
  <2>2. /\ Received(n) \in Seq(Pieces) /\ Outstanding' \in Seq(Pieces)
        /\ Received(n) \o Outstanding' = Outstanding
    BY <1>6, ResyncTakesFront
  <2>3. /\ HasPrompt(Received(n)) => AtMostAPrompt(Outstanding')
        /\ ~HasPrompt(Received(n)) => AtTheEndTwice(Outstanding')
    BY <2>1, <2>2, RestOfNudgedLine
  <2> QED
    BY <1>6, <2>3 DEF ResyncReads, Tidy
<1>7. ASSUME NEW n \in DOMAIN channel, WaitReads(n)
      PROVE  Tidy'
  <2>1. /\ pc' \in {"wait", "settle"} /\ Receives(n) /\ device' = device
        /\ output' = output \o Received(n) /\ read' = read /\ value' = value
        /\ output \o Outstanding \in Seq(Own(read)) /\ AtTheEnds(output \o Outstanding)
    BY <1>7 DEF WaitReads, Tidy
  <2>2. /\ output' \o Outstanding' = output \o Outstanding
        /\ Len(output \o Received(n)) > Len(output)
    BY <2>1, ReadMovesFront
  <2>3. output' # <<>>
    BY <2>1, <2>2, LenProperties, EmptySeq DEF TypeOK
  <2> QED
    BY <2>1, <2>2, <2>3 DEF Tidy
<1>8. ASSUME NEW n \in DOMAIN channel, SettleReads(n)
      PROVE  Tidy'
  <2>1. /\ Receives(n) /\ device' = device /\ Files(output \o Received(n))
        /\ output \o Outstanding \in Seq(Own(read)) /\ AtTheEnds(output \o Outstanding)
        /\ \A k \in 1..Reads : value[k].of \in {0, k}
    BY <1>8 DEF SettleReads, Tidy
  <2>2. /\ output \o Received(n) \in Seq(Pieces) /\ Outstanding' \in Seq(Pieces)
        /\ (output \o Received(n)) \o Outstanding' = output \o Outstanding
        /\ Len(output \o Received(n)) > Len(output) /\ Len(output) \in Nat
    BY <2>1, ReadMovesFront, LenProperties DEF TypeOK
  <2>3. AtTheEnd(Outstanding')
    <3> DEFINE text == output \o Received(n)
    <3>1. text \in Seq(Pieces) /\ Len(text) > 0 /\ text \o Outstanding' = output \o Outstanding
      BY <2>2, LenProperties
    <3> HIDE DEF text
    <3>2. AtTheEnds(text \o Outstanding')
      BY <2>1, <3>1, Zenon
    <3> QED
      BY <2>2, <3>1, <3>2, RestOfLine
  <2>4. output \o Received(n) \in Seq(Own(read))
    BY <2>1, <2>2, FrontIsOwn
  <2>5. \A k \in 1..Reads : value'[k].of \in {0, k}
    BY <2>1, <2>4, FilesOwn
  <2>6. pc' \in {"resync", "done"}
    BY <2>1 DEF Files
  <2> QED
    BY <2>3, <2>5, <2>6 DEF Tidy
<1>9. CASE SettleEnds
  <2>1. /\ device' = device /\ channel' = channel /\ Files(output) /\ output # <<>>
        /\ output \o Outstanding \in Seq(Own(read)) /\ AtTheEnds(output \o Outstanding)
        /\ \A k \in 1..Reads : value[k].of \in {0, k}
        /\ output \in Seq(Pieces)
    BY <1>9 DEF SettleEnds, Tidy, TypeOK
  <2>2. Len(output) > 0
    BY <2>1, EmptySeq
  <2>3. AtTheEnd(Outstanding) /\ output \in Seq(Own(read))
    BY <2>1, <2>2, LineTypes, RestOfLine, FrontIsOwn
  <2>4. Outstanding' = Outstanding
    BY <2>1 DEF Outstanding
  <2>5. \A k \in 1..Reads : value'[k].of \in {0, k}
    BY <2>1, <2>3, FilesOwn
  <2>6. pc' \in {"resync", "done"}
    BY <2>1 DEF Files
  <2> QED
    BY <2>3, <2>4, <2>5, <2>6 DEF Tidy
<1>10. CASE UNCHANGED vars
  BY <1>10 DEF vars, Tidy, Outstanding
<1> QED
  BY <1>1, <1>2, <1>3, <1>4, <1>5, <1>6, <1>7, <1>8, <1>9, <1>10
  DEF Next, ClientStep, Receive

\* The bring-up left at most a prompt on the line, and nothing is filed yet.
LEMMA InitTidy ==
  ASSUME Init, residue <= 1
  PROVE  Tidy
<1>1. residue \in {0, 1} /\ channel = <<>> /\ device = [i \in 1..residue |-> Prompt]
  BY ResidueAssumption DEF Init
<1>2. device \in Seq({Prompt})
  BY <1>1
<1>3. Outstanding = device
  BY <1>1, <1>2, ConcatEmptySeq DEF Outstanding
<1>4. Len(device) <= 1 /\ \A i \in DOMAIN device : device[i] = Prompt
  BY <1>1
<1> QED
  BY <1>3, <1>4 DEF Init, Tidy, AtMostAPrompt, Unfilled

\* A prompt left over from the bring-up makes a read return early, but while no
\* wait gives up nothing of one command is ever filed under another.
THEOREM ReadsAreNotCrossed == Spec => []NoReadIsAnothers
<1>1. Init => TypeOK /\ TidyFits
  BY InitTypes, InitTidy DEF TidyFits
<1>2. TypeOK /\ TidyFits /\ [Next]_vars => TypeOK' /\ TidyFits'
  BY NextTypes, NextTidy, LateStays DEF TidyFits
<1>3. TidyFits => NoReadIsAnothers
  BY DEF TidyFits, Tidy, NoReadIsAnothers
<1> QED
  BY <1>1, <1>2, <1>3, PTL DEF Spec


---------------------------------------------------------------------------
(***************************************************************************)
(* The batch goes forward.                                                 *)
(***************************************************************************)
\* One step of it is further on, or leaves less to read, or less to print.
Moves ==
  \/ Stand' > Stand
  \/ Stand' = Stand /\ Unread' < Unread
  \/ Stand' = Stand /\ Unread' = Unread /\ Len(device') < Len(device)

\* A read that files its value ends the batch or gives the next read its turn.
LEMMA FilesAdvances ==
  ASSUME TypeOK, pc \in {"wait", "settle"}, NEW text, Files(text)
  PROVE  Stand' > Stand
BY DEF TypeOK, Files, Stand, Place

\* A recv() leaves less in the channel than there was.
LEMMA ReceiveShortens ==
  ASSUME TypeOK, device' = device, NEW n \in DOMAIN channel, Receives(n)
  PROVE  Unread' < Unread
<1>1. channel \in Seq(Pieces) /\ Len(device) \in Nat /\ Len(channel) \in Nat
  BY LenProperties DEF TypeOK
<1>2. n \in 1..Len(channel) /\ n \in 0..Len(channel)
  BY <1>1, LenProperties
<1>3. Len(channel') = Len(channel) - n
  BY <1>1, <1>2, CutProperties DEF Receives
<1> QED
  BY <1>1, <1>2, <1>3 DEF Unread

\* A piece that is printed is still to be read, and not to be printed again.
LEMMA PrintShortens ==
  ASSUME TypeOK, DevicePrints
  PROVE  Stand' = Stand /\ Unread' = Unread /\ Len(device') < Len(device)
<1>1. /\ device \in Seq(Pieces) /\ device # <<>> /\ channel \in Seq(Pieces)
      /\ Len(device) \in Nat \ {0} /\ Len(channel) \in Nat
  BY EmptySeq, LenProperties DEF TypeOK, DevicePrints
<1>2. Len(device') = Len(device) - 1
  BY <1>1, HeadTailProperties DEF DevicePrints
<1>3. Head(device) \in Pieces
  BY <1>1, HeadTailProperties
<1>4. Len(channel') = Len(channel) + 1
  BY <1>1, <1>3, AppendProperties DEF DevicePrints
<1> QED
  BY <1>1, <1>2, <1>4 DEF DevicePrints, Stand, Unread

\* Whatever the device prints, and whoever gives up on it, no read is begun
\* again and no line is sent twice: the argument behind BatchEnds.
THEOREM BatchGoesForward == Spec => BatchAdvances
<1>1. TypeOK /\ [Next]_vars => [Moves]_vars
  <2> SUFFICES ASSUME TypeOK, Next
               PROVE  Moves
    OBVIOUS
  <2>1. CASE DevicePrints
    BY <2>1, PrintShortens DEF Moves
  <2>2. CASE \/ ResyncDrains \/ ResyncNudges \/ ResyncGivesUp \/ Drains \/ Sends
    BY <2>2 DEF ResyncDrains, ResyncNudges, ResyncGivesUp, Drains, Sends, TypeOK, Stand,
                Place, Moves
  <2>3. ASSUME NEW n \in DOMAIN channel, ResyncReads(n)
        PROVE  Moves
    <3>1. Stand' > Stand \/ Stand' = Stand
      BY <2>3 DEF ResyncReads, TypeOK, Stand, Place
    <3> QED
      BY <2>3, <3>1, ReceiveShortens DEF ResyncReads, Moves
  <2>4. ASSUME NEW n \in DOMAIN channel, WaitReads(n)
        PROVE  Moves
    <3>1. Stand' > Stand \/ Stand' = Stand
      BY <2>4 DEF WaitReads, TypeOK, Stand, Place
    <3> QED
      BY <2>4, <3>1, ReceiveShortens DEF WaitReads, Moves
  <2>5. ASSUME NEW n \in DOMAIN channel, SettleReads(n)
        PROVE  Moves
    BY <2>5, FilesAdvances DEF SettleReads, Moves
  <2>6. CASE SettleEnds \/ WaitGivesUp
    BY <2>6, FilesAdvances DEF SettleEnds, WaitGivesUp, Moves
  <2> QED
    BY <2>1, <2>2, <2>3, <2>4, <2>5, <2>6 DEF Next, ClientStep, Receive
<1> QED
  BY <1>1, Typed, PTL DEF Spec, BatchAdvances, Moves
===========================================================================
