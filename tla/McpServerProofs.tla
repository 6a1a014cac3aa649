-------------------------- MODULE McpServerProofs ---------------------------
(* The audit policy of the server for every inventory, every number of calls, *)
(* devices and threads, and every failure to connect, to send or to write a   *)
(* record.                                                                    *)
EXTENDS McpServer, FiniteSetTheorems, TLAPS

\* What a line on the wire is, and the last one sent to a device.
Lines == (Nat \ {0}) \X Nat
Latest(d) == wire[d][Len(wire[d])]

\* A line put after the others is the last, and they stay in order if it follows.
LEMMA AppendInOrder ==
  ASSUME NEW s \in Seq(Lines), NEW n \in Nat, NEW x \in Lines, InOrder(s, n),
         s = <<>> => x[2] = 0,
         s # <<>> => Follows(s[Len(s)], x) /\ (s[Len(s)][2] = 0 \/ s[Len(s)][2] < n)
  PROVE  InOrder(Append(s, x), n)
<1> DEFINE t == Append(s, x)
<1>0. Len(s) \in Nat /\ t \in Seq(Lines) /\ Len(t) = Len(s) + 1 /\ t # <<>>
  OBVIOUS
<1>1. Head(t)[2] = 0
  <2>1. CASE s = <<>>
    BY <2>1
  <2>2. CASE s # <<>>
    <3>1. Head(t) = Head(s)
      BY <2>2
    <3> QED BY <2>2, <3>1 DEF InOrder
  <2> QED BY <2>1, <2>2
<1>2. ASSUME NEW i \in 1..(Len(t) - 1)
      PROVE  Follows(t[i], t[i + 1]) /\ (t[i][2] = 0 \/ t[i][2] < n)
  <2>1. CASE i < Len(s)
    <3>1. t[i] = s[i] /\ t[i + 1] = s[i + 1] /\ i \in 1..(Len(s) - 1)
      BY <1>0, <2>1
    <3> QED BY <3>1 DEF InOrder
  <2>2. CASE i = Len(s)
    <3>1. t[i] = s[Len(s)] /\ t[i + 1] = x /\ s # <<>>
      BY <1>0, <2>2
    <3> QED BY <3>1
  <2> QED BY <1>0, <2>1, <2>2
<1> HIDE DEF t
<1>3. InOrder(t, n)
  BY <1>0, <1>1, <1>2 DEF InOrder
<1> QED BY <1>3 DEF t

\* What nothing is sent to, and no other call has replaced, is where it was.
LEMMA StillWired ==
  ASSUME UNCHANGED <<wire, call>>
  PROVE  Pieces' = Pieces /\ \A e \in Names : Ran(e)' = Ran(e) /\ Latest(e)' = Latest(e)
  BY DEF Pieces, Ran, Latest

\* A device that nothing was sent to has run nothing.
LEMMA Untouched == ASSUME NEW d, wire[d] = <<>> PROVE Ran(d) = 0
  BY DEF Ran

\* What is on a wire that is not empty.
LEMMA Touched ==
  ASSUME NEW d \in Names, wire[d] \in Seq(Lines), wire[d] # <<>>
  PROVE  Latest(d) \in Lines /\ Ran(d) = Latest(d)[2] /\ Ran(d) \in Nat
<1>1. Len(wire[d]) \in 1..Len(wire[d])
  OBVIOUS
<1>2. Latest(d) \in Lines /\ Ran(d) = Latest(d)[2]
  BY <1>1 DEF Ran, Latest
<1> QED BY <1>2 DEF Lines

\* A line is sent to one device.
LEMMA LineSent ==
  ASSUME NEW d \in Names, NEW line \in Nat, wire \in [Names -> Seq(Lines)],
         cand[d] \in Nat \ {0}, Wires(d, line), UNCHANGED call
  PROVE  /\ Pieces' = Pieces
         /\ <<cand[d], line>> \in Lines
         /\ wire' \in [Names -> Seq(Lines)]
         /\ wire'[d] = Append(wire[d], <<cand[d], line>>) /\ wire'[d] # <<>>
         /\ Ran(d)' = line /\ Latest(d)' = <<cand[d], line>>
         /\ \A e \in Names \ {d} : wire'[e] = wire[e] /\ Ran(e)' = Ran(e) /\ Latest(e)' = Latest(e)
<1> DEFINE x == <<cand[d], line>>
<1>1. x \in Lines /\ x[2] = line
  BY DEF Lines
<1>2. wire[d] \in Seq(Lines) /\ wire' = [wire EXCEPT ![d] = Append(wire[d], x)]
  BY DEF Wires
<1> HIDE DEF x
<1>3. Append(wire[d], x) \in Seq(Lines) /\ Append(wire[d], x) # <<>>
  BY <1>1, <1>2
<1>4. Append(wire[d], x)[Len(Append(wire[d], x))] = x
  BY <1>1, <1>2
<1>5. wire'[d] = Append(wire[d], x) /\ wire' \in [Names -> Seq(Lines)]
  BY <1>2, <1>3
<1>6. \A e \in Names \ {d} : wire'[e] = wire[e]
  BY <1>2
<1>7. Latest(d)' = x /\ Ran(d)' = line
  BY <1>1, <1>3, <1>4, <1>5 DEF Latest, Ran
<1>8. \A e \in Names \ {d} : Ran(e)' = Ran(e) /\ Latest(e)' = Latest(e)
  BY <1>6 DEF Latest, Ran
<1>9. Pieces' = Pieces
  BY DEF Pieces
<1> QED BY <1>1, <1>3, <1>5, <1>6, <1>7, <1>8, <1>9 DEF x

\* A call that is made has a number of pieces.
LEMMA CallHasPieces ==
  ASSUME NEW tool, NEW target, NEW command \in Commands, NEW save,
         Invoke(tool, target, command, save)
  PROVE  Pieces' \in Nat
  BY CommandsAssumption DEF Invoke, Pieces

\* Every step of the server leaves every part of its state of its kind.
THEOREM ServerTypes == Spec => []TypeOK
<1> USE DEF TypeOK, Stages
<1>1. \A o \in Outcomes, said \in Answers : [outcome |-> o, answer |-> said] \in Pends
  BY DEF Pends
<1>2. NoPend \in Pends /\ <<>> \in Seq(Outcomes)
  BY DEF NoPend, Pends
<1>3. \A o \in {"INVENTORY_ERROR", "AUTH_FAILURE", "ERROR", "SUCCESS"} : o \in Outcomes
  BY DEF Outcomes
<1>4. "output" \in Answers /\ "error" \in Answers
  BY DEF Answers
<1>5. Init => TypeOK
  BY <1>2 DEF Init, Blank, Pieces, NoCall
<1>6. TypeOK /\ [Next]_vars => TypeOK'
  <2> SUFFICES ASSUME TypeOK, [Next]_vars PROVE TypeOK'
    OBVIOUS
  <2> USE DEF perDevice, shared, Ends
  <2>1. CASE Invokes
    <3> HIDE DEF Stages
    <3>1. PICK command \in Commands : \E tool, target, save : Invoke(tool, target, command, save)
      BY <2>1, Zenon DEF Invokes
    <3>2. /\ at' = Blank("none") /\ cand' = Blank(1) /\ pend' = Blank(NoPend)
          /\ outcomes' = Blank(<<>>) /\ wire' = Blank(<<>>) /\ results' = Blank("none")
      BY <3>1 DEF Invoke
    <3>3. calls' \in Nat /\ main' = "validated" /\ attempt' = "none" /\ Pieces' \in Nat
      BY <3>1, CallHasPieces DEF Invoke
    <3>4. at' \in [Names -> Stages] /\ \A d \in Names : at'[d] = "none"
      BY <3>2 DEF Blank, Stages
    <3>5. pend' \in [Names -> Pends] /\ outcomes' \in [Names -> Seq(Outcomes)]
      BY <3>2, <1>2 DEF Blank
    <3>6. /\ cand' \in [Names -> Nat \ {0}] /\ wire' \in [Names -> Seq((Nat \ {0}) \X Nat)]
          /\ results' \in [Names -> Answers \cup {"none", "saved", "failed"}]
      BY <3>2 DEF Blank
    <3> QED BY <3>3, <3>4, <3>5, <3>6
  <2>0. UNCHANGED call => Pieces' = Pieces
    BY DEF Pieces
  <2>2. CASE Informs
    BY <2>0, <2>2 DEF Informs
  <2>3. CASE ServerStep
    BY <2>0, <2>3 DEF ServerStep, AttemptUnwritten, Denies, Allows, ListsNames, InventoryFails,
            GroupReturns
  <2>4. ASSUME NEW d \in Names, DeviceStep(d) PROVE TypeOK'
    <3>0. ASSUME NEW o \in Outcomes, NEW said \in Answers, Settles(d, o, said)
          PROVE /\ at' \in [Names -> Stages] /\ pend' \in [Names -> Pends]
                /\ \A e \in Names : at'[e] = "log" => pend'[e].outcome \in Outcomes
      <4>1. [outcome |-> o, answer |-> said] \in Pends
        BY <1>1
      <4>2. at' \in [Names -> Stages] /\ pend' \in [Names -> Pends]
        BY <3>0, <4>1 DEF Settles
      <4>3. \A e \in Names : at'[e] = "log" => pend'[e].outcome \in Outcomes
        BY <3>0 DEF Settles
      <4> QED BY <4>2, <4>3
    <3> HIDE DEF Stages
    <3>a. ASSUME UNCHANGED call PROVE Pieces' \in Nat
      BY <2>0, <3>a
    <3>b. ASSUME NEW line \in Nat, Wires(d, line), UNCHANGED call
          PROVE  Pieces' \in Nat /\ wire' \in [Names -> Seq((Nat \ {0}) \X Nat)]
      BY <3>b, LineSent DEF Lines
    <3>1. CASE Takes(d) \/ Connects(d) \/ ShellOpens(d) \/ OutcomeUnwritten(d) \/ Reads(d)
      BY <3>1, <3>a DEF Takes, Connects, ShellOpens, OutcomeUnwritten, Reads, Stages
    <3>2. CASE LooksUp(d)
      <4>1. CASE at' = [at EXCEPT ![d] = "connect"] /\ UNCHANGED pend
        BY <3>a, <3>2, <4>1 DEF LooksUp, Stages
      <4>2. CASE Settles(d, "INVENTORY_ERROR", "error")
        BY <3>a, <3>2, <4>2, <3>0, <1>3, <1>4 DEF LooksUp
      <4> QED BY <3>2, <4>1, <4>2 DEF LooksUp
    <3>3. CASE LookupFails(d)
      <4>1. CASE at' = [at EXCEPT ![d] = "raised"] /\ UNCHANGED pend
        BY <3>a, <3>3, <4>1 DEF LookupFails, Stages
      <4>2. CASE Settles(d, "INVENTORY_ERROR", "error")
        BY <3>a, <3>3, <4>2, <3>0, <1>3, <1>4 DEF LookupFails
      <4> QED BY <3>3, <4>1, <4>2 DEF LookupFails
    <3>4. CASE AuthFails(d)
      BY <3>a, <3>4, <3>0, <1>3, <1>4 DEF AuthFails
    <3>5. CASE Finishes(d)
      BY <3>5, <3>0, <3>a, <1>3, <1>4 DEF Finishes
    <3>6. CASE ConnectFails(d) \/ ShellFails(d) \/ SendFails(d) \/ PromptFails(d)
      <4>1. Advances(d)
        BY <3>6 DEF ConnectFails, ShellFails, SendFails, PromptFails
      <4>2. /\ at' \in [Names -> Stages] /\ pend' \in [Names -> Pends]
            /\ cand' \in [Names -> Nat \ {0}]
            /\ \A e \in Names : at'[e] = "log" => pend'[e].outcome \in Outcomes
        <5>1. CASE Settles(d, "ERROR", "error") /\ UNCHANGED cand
          BY <5>1, <3>0, <1>3, <1>4
        <5>2. CASE /\ cand' = [cand EXCEPT ![d] = @ + 1]
                   /\ at' = [at EXCEPT ![d] = "connect"]
                   /\ UNCHANGED pend
          BY <5>2 DEF Stages
        <5> QED BY <4>1, <5>1, <5>2 DEF Advances
      <4>3. UNCHANGED wire \/ Wires(d, 0)
        BY <3>6 DEF ConnectFails, ShellFails, SendFails, PromptFails
      <4>4. UNCHANGED call
        BY <3>6 DEF ConnectFails, ShellFails, SendFails, PromptFails
      <4>5. Pieces' \in Nat /\ wire' \in [Names -> Seq((Nat \ {0}) \X Nat)]
        BY <4>3, <4>4, <3>a, <3>b
      <4> QED BY <3>6, <4>2, <4>5 DEF ConnectFails, ShellFails, SendFails, PromptFails
    <3>7. CASE Sends(d) \/ Unpages(d)
      <4>1. Ran(d) \in Nat
        <5>1. wire[d] \in Seq(Lines)
          BY DEF Lines
        <5> QED BY <5>1, Untouched, Touched
      <4>2. \E line \in Nat : Wires(d, line)
        BY <3>7, <4>1 DEF Sends, Unpages
      <4>3. UNCHANGED call
        BY <3>7 DEF Sends, Unpages
      <4>4. Pieces' \in Nat /\ wire' \in [Names -> Seq((Nat \ {0}) \X Nat)]
        BY <4>2, <4>3, <3>b
      <4> QED BY <3>7, <4>4 DEF Sends, Unpages, Stages
    <3>8. CASE Logs(d)
      <4>1. pend[d].outcome \in Outcomes
        BY <3>8 DEF Logs
      <4>2. Append(outcomes[d], pend[d].outcome) \in Seq(Outcomes)
        BY <4>1
      <4> QED BY <3>8, <3>a, <4>2 DEF Logs, Stages
    <3>9. CASE Gathers(d) \/ SingleReturns(d)
      <4> DEFINE Results == Answers \cup {"none", "saved", "failed"}
      <4>1. pend[d].answer \in Results
        BY DEF Pends
      <4>2. \/ UNCHANGED results
            \/ \E said \in {"saved", "failed", pend[d].answer} :
                   results' = [results EXCEPT ![d] = said]
        BY <3>9 DEF Gathers, SingleReturns
      <4>3. results' \in [Names -> Results]
        <5> HIDE DEF Results
        <5>1. "saved" \in Results /\ "failed" \in Results /\ results \in [Names -> Results]
          BY DEF Results
        <5> QED BY <4>1, <4>2, <5>1
      <4>4. at' \in [Names -> Stages] /\ \A e \in Names : at'[e] = "log" => at[e] = "log"
        BY <3>9 DEF Gathers, SingleReturns, Stages
      <4> QED BY <3>9, <3>a, <4>3, <4>4 DEF Gathers, SingleReturns
    <3> QED BY <2>4, <3>1, <3>2, <3>3, <3>4, <3>5, <3>6, <3>7, <3>8, <3>9 DEF DeviceStep,
               Proceeds
  <2>5. ASSUME NEW session \in open, CollectsGarbage(session[1], session[2]) PROVE TypeOK'
    BY <2>0, <2>5 DEF CollectsGarbage
  <2>6. CASE UNCHANGED vars
    BY <2>0, <2>6 DEF vars
  <2> QED BY <2>1, <2>2, <2>3, <2>4, <2>5, <2>6 DEF Next
<1> QED BY <1>5, <1>6, PTL DEF Spec

-----------------------------------------------------------------------------
Shape ==
    /\ DOMAIN at = Names /\ DOMAIN cand = Names /\ DOMAIN pend = Names
    /\ DOMAIN outcomes = Names /\ DOMAIN wire = Names /\ DOMAIN results = Names

\* The stages before any address, on the way to one, and at one.
Before == {"none", "queued", "lookup"}
Nearing == {"connect", "shell", "prompt"}
Sending == {"ready", "sent"}

\* The outcome to be recorded tells what the last address was sent.
Told(d) ==
    /\ pend[d].outcome = "SUCCESS" => wire[d] # <<>> /\ Ran(d) = Pieces
    /\ Pieces > 0 /\ Ran(d) = Pieces => pend[d].outcome = "SUCCESS"
Withheld(d) == outcomes[d] = <<>> /\ results[d] \notin Answers \cup {"saved"}

\* What a device's stage says of what it was sent, its record and its answer.
Staged(d) ==
    /\ InOrder(wire[d], Pieces)
    /\ at[d] \in Before => wire[d] = <<>>
    /\ at[d] \in Nearing => /\ wire[d] # <<>> => Latest(d)[1] < cand[d]
                            /\ Ran(d) = 0 \/ Ran(d) < Pieces
    /\ at[d] \in Sending => /\ wire[d] # <<>> /\ Latest(d)[1] = cand[d]
                            /\ Ran(d) = 0 \/ Ran(d) <= Pieces
    /\ at[d] \in {"log", "done"} => Told(d)
    /\ at[d] \in Before \cup Nearing \cup Sending \cup {"log", "raised"} => Withheld(d)
    /\ at[d] = "done" => outcomes[d] = <<pend[d].outcome>>
    /\ at[d] = "gathered" => Withheld(d) \/ (outcomes[d] = <<pend[d].outcome>> /\ Told(d))
StageInv == \A d \in Names : Staged(d)

\* No device is touched but under the record that allowed the call.
AllowedInv ==
    /\ \A d \in Names : at[d] # "none" => attempt = "ALLOWED"
    /\ main = "validated" => \A d \in Names : at[d] = "none"
    /\ main = "names" => attempt = "ALLOWED" /\ \A d \in Names : at[d] = "none"

\* A stage is one of the stages.
AtInv == \A d \in Names : at[d] \in Stages

AuditInv == Shape /\ AtInv /\ StageInv /\ AllowedInv

-----------------------------------------------------------------------------
\* A first record is the only one.
LEMMA FirstIsOnly ==
  ASSUME NEW x PROVE Append(<<>>, x) = <<x>> /\ <<x>> # <<>> /\ Len(<<x>>) = 1
  OBVIOUS

\* Nothing is in order, and nothing was run.
LEMMA NothingInOrder == \A n : InOrder(<<>>, n)
  BY DEF InOrder

\* Nothing is touched or recorded yet.
LEMMA InitAudit == Init => AuditInv
<1> SUFFICES ASSUME Init PROVE AuditInv
  OBVIOUS
<1>1. Shape /\ AtInv /\ AllowedInv
  BY DEF Init, Shape, AtInv, AllowedInv, Blank, Stages
<1>2. ASSUME NEW d \in Names PROVE Staged(d)
  <2>1. at[d] = "none" /\ wire[d] = <<>> /\ outcomes[d] = <<>> /\ results[d] = "none"
    BY DEF Init, Blank
  <2> QED BY <2>1, NothingInOrder DEF Staged, Withheld, Before, Nearing, Sending, Answers
<1> QED BY <1>1, <1>2 DEF AuditInv, StageInv

\* The invariant says what the policy promises.
LEMMA AuditImpliesFailsClosed == AuditInv => FailsClosed
<1> SUFFICES ASSUME AuditInv, NEW d \in Names
             PROVE  /\ InOrder(wire[d], Pieces) /\ (wire[d] # <<>> => attempt = "ALLOWED")
                    /\ Len(outcomes[d]) <= 1
                    /\ results[d] \in Answers \cup {"saved"} => outcomes[d] = <<pend[d].outcome>>
                    /\ outcomes[d] = <<"SUCCESS">> => wire[d] # <<>> /\ Ran(d) = Pieces
                    /\ outcomes[d] # <<>> /\ Pieces > 0 /\ Ran(d) = Pieces
                           => outcomes[d] = <<"SUCCESS">>
  BY DEF FailsClosed, RunsRecorded, AnswersRecorded
<1> USE DEF AuditInv, AtInv, StageInv, Staged, Stages, Before, Nearing, Sending
<1>1. \/ Withheld(d)
      \/ at[d] \in {"done", "gathered"} /\ outcomes[d] = <<pend[d].outcome>> /\ Told(d)
  BY DEF Withheld
<1>2. <<pend[d].outcome>> = <<"SUCCESS">> <=> pend[d].outcome = "SUCCESS"
  OBVIOUS
<1>3. Len(outcomes[d]) <= 1
  <2>1. CASE outcomes[d] = <<>>
    BY <2>1
  <2>2. CASE outcomes[d] = <<pend[d].outcome>>
    <3>1. Len(outcomes[d]) = 1
      BY <2>2, FirstIsOnly, Zenon
    <3> QED BY <3>1
  <2> QED BY <1>1, <2>1, <2>2 DEF Withheld
<1>4. InOrder(wire[d], Pieces) /\ (wire[d] # <<>> => attempt = "ALLOWED")
  BY DEF AllowedInv
<1>5. CASE Withheld(d)
  <2>1. outcomes[d] # <<"SUCCESS">>
    BY <1>5, FirstIsOnly DEF Withheld
  <2> QED BY <1>3, <1>4, <1>5, <2>1 DEF Withheld
<1>6. CASE outcomes[d] = <<pend[d].outcome>> /\ Told(d)
  BY <1>2, <1>3, <1>4, <1>6 DEF Told
<1> QED BY <1>1, <1>5, <1>6

\* A step of the thread that serves the call, and the calls themselves.
LEMMA MainAudit ==
  ASSUME AuditInv,
         Invokes \/ Informs \/ ServerStep \/ \E session \in open :
                                                CollectsGarbage(session[1], session[2])
  PROVE  AuditInv'
<1> USE DEF AuditInv, Shape, AtInv, StageInv, AllowedInv, perDevice, Ends
<1>0. ASSUME UNCHANGED <<call, at, cand, pend, outcomes, wire, results>> PROVE StageInv'
  BY <1>0, StillWired DEF Staged, Told, Withheld
<1>1. ASSUME NEW tool, NEW target, NEW command, NEW save, Invoke(tool, target, command, save)
      PROVE AuditInv'
  <2>1. Shape' /\ AtInv' /\ AllowedInv'
    BY <1>1 DEF Invoke, Blank, Stages
  <2>2. ASSUME NEW d \in Names PROVE Staged(d)'
    <3>1. at'[d] = "none" /\ wire'[d] = <<>> /\ outcomes'[d] = <<>> /\ results'[d] = "none"
      BY <1>1 DEF Invoke, Blank
    <3> QED BY <3>1, NothingInOrder DEF Staged, Withheld, Before, Nearing, Sending, Answers
  <2> QED BY <2>1, <2>2
<1>2. CASE Informs
  BY <1>0, <1>2 DEF Informs
<1>3. CASE AttemptUnwritten
  BY <1>0, <1>3 DEF AttemptUnwritten
<1>4. CASE Denies
  BY <1>0, <1>4 DEF Denies
<1>5. ASSUME UNCHANGED <<call, cand, pend, outcomes, wire, results>>,
             \A d \in Names : at[d] = "none" /\ at'[d] \in Before
      PROVE  StageInv'
  BY <1>5, StillWired DEF Staged, Told, Withheld, Before, Nearing, Sending
<1>6. CASE Allows
  BY <1>5, <1>6 DEF Allows, Before, Stages
<1>7. CASE ListsNames
  BY <1>0, <1>5, <1>7 DEF ListsNames, Before, Stages
<1>8. CASE InventoryFails
  BY <1>0, <1>8 DEF InventoryFails
<1>9. CASE GroupReturns
  BY <1>0, <1>9 DEF GroupReturns
<1>10. CASE \E session \in open : CollectsGarbage(session[1], session[2])
  BY <1>0, <1>10 DEF CollectsGarbage, shared
<1> QED
  <2> HIDE DEF AuditInv, Ends
  <2> QED BY <1>1, <1>2, <1>3, <1>4, <1>6, <1>7, <1>8, <1>9, <1>10 DEF Invokes, ServerStep

\* A line keeps what the device was sent in order.
LEMMA LineInOrder ==
  ASSUME NEW d \in Names, NEW line \in Nat, TypeOK, InOrder(wire[d], Pieces),
         Wires(d, line), UNCHANGED call,
         wire[d] = <<>> => line = 0,
         wire[d] # <<>> => /\ Follows(Latest(d), <<cand[d], line>>)
                           /\ Ran(d) = 0 \/ Ran(d) < Pieces
  PROVE  InOrder(wire'[d], Pieces')
<1>1. wire \in [Names -> Seq(Lines)] /\ cand[d] \in Nat \ {0} /\ Pieces \in Nat
  BY DEF TypeOK, Lines
<1>2. /\ Pieces' = Pieces /\ <<cand[d], line>> \in Lines
      /\ wire'[d] = Append(wire[d], <<cand[d], line>>)
  BY <1>1, LineSent
<1>3. wire[d] \in Seq(Lines)
  BY <1>1
<1>4. wire[d] # <<>> => Ran(d) = Latest(d)[2]
  BY <1>3, Touched
<1>5. <<cand[d], line>>[2] = line
  OBVIOUS
<1> QED BY <1>1, <1>2, <1>3, <1>4, <1>5, AppendInOrder DEF Latest

\* A step of one device's collection.
LEMMA DeviceAudit ==
  ASSUME AuditInv, TypeOK, NEW d \in Names, DeviceStep(d) PROVE AuditInv'
<1> USE DEF AuditInv, Shape, AtInv, StageInv, AllowedInv, shared, Settles, Ends, Stages,
            Before, Nearing, Sending
<1>a. wire \in [Names -> Seq(Lines)] /\ cand[d] \in Nat \ {0} /\ Pieces \in Nat
  BY DEF TypeOK, Lines
<1>b. /\ wire[d] = <<>> => Ran(d) = 0
      /\ wire[d] # <<>> => Latest(d) \in Lines /\ Ran(d) = Latest(d)[2]
      /\ Ran(d) \in Nat
  BY <1>a, Untouched, Touched
<1>c. wire[d] # <<>> => Latest(d)[1] \in Nat
  BY <1>b DEF Lines
<1>d. ASSUME UNCHANGED <<wire, call>>
      PROVE  Pieces' = Pieces /\ \A e \in Names : Ran(e)' = Ran(e) /\ Latest(e)' = Latest(e)
  BY <1>d, StillWired
<1>e. ASSUME NEW line \in Nat, Wires(d, line), UNCHANGED call
      PROVE  /\ Pieces' = Pieces /\ wire'[d] # <<>> /\ DOMAIN wire' = Names
             /\ Ran(d)' = line /\ Latest(d)'[1] = cand[d]
             /\ \A e \in Names \ {d} :
                    wire'[e] = wire[e] /\ Ran(e)' = Ran(e) /\ Latest(e)' = Latest(e)
  <2> HIDE DEF AuditInv
  <2>1. /\ Pieces' = Pieces /\ wire' \in [Names -> Seq(Lines)] /\ wire'[d] # <<>>
        /\ Ran(d)' = line /\ Latest(d)' = <<cand[d], line>>
        /\ \A e \in Names \ {d} :
               wire'[e] = wire[e] /\ Ran(e)' = Ran(e) /\ Latest(e)' = Latest(e)
    BY <1>a, <1>e, LineSent
  <2> QED BY <2>1
<1> USE DEF Staged, Told, Withheld
\* The next address, or no other: the device was sent nothing yet at the next one.
<1>f. ASSUME UNCHANGED <<call, main, attempt, outcomes, results>>, Advances(d),
             at[d] \in Nearing \cup Sending,
             Pieces' = Pieces, DOMAIN wire' = Names, InOrder(wire'[d], Pieces'),
             wire'[d] # <<>> => Latest(d)'[1] \in Nat /\ Latest(d)'[1] <= cand[d],
             Ran(d)' = 0 \/ Ran(d)' < Pieces,
             \A e \in Names \ {d} :
                 wire'[e] = wire[e] /\ Ran(e)' = Ran(e) /\ Latest(e)' = Latest(e)
      PROVE  AuditInv'
  <2>1. PICK stage \in {"connect", "log"} : at' = [at EXCEPT ![d] = stage]
    BY <1>f DEF Advances
  <2>2. ASSUME NEW e \in Names, e # d PROVE Staged(e)'
    <3>1. at'[e] = at[e] /\ cand'[e] = cand[e] /\ pend'[e] = pend[e]
      BY <1>f, <2>2 DEF Advances
    <3>2. /\ wire'[e] = wire[e] /\ Ran(e)' = Ran(e) /\ Latest(e)' = Latest(e)
          /\ outcomes'[e] = outcomes[e] /\ results'[e] = results[e] /\ Pieces' = Pieces
      BY <1>f, <2>2
    <3>3. Staged(e)
      OBVIOUS
    <3> QED BY <3>1, <3>2, <3>3
  <2>3. Staged(d)'
    <3>1. CASE at'[d] = "connect" /\ cand'[d] = cand[d] + 1
      BY <1>a, <1>f, <3>1
    <3>2. CASE at'[d] = "log" /\ pend'[d].outcome = "ERROR"
      BY <1>a, <1>f, <3>2
    <3> QED BY <1>f, <3>1, <3>2 DEF Advances
  <2>4. Shape' /\ AtInv' /\ AllowedInv'
    BY <1>f, <2>1 DEF Advances
  <2> QED BY <2>2, <2>3, <2>4
<1> HIDE DEF Lines
<1>1. CASE Takes(d)
  BY <1>1, <1>b, <1>d DEF Takes
<1>2. CASE LooksUp(d)
  BY <1>2, <1>b, <1>d DEF LooksUp
<1>3. CASE LookupFails(d)
  BY <1>3, <1>b, <1>d DEF LookupFails
<1>4. CASE Connects(d) \/ ShellOpens(d)
  BY <1>4, <1>d DEF Connects, ShellOpens
<1>5. CASE AuthFails(d)
  BY <1>5, <1>a, <1>b, <1>d DEF AuthFails
<1>6. CASE ConnectFails(d) \/ ShellFails(d) \/ SendFails(d)
  <2>1. /\ UNCHANGED <<wire, call, main, attempt, outcomes, results>> /\ Advances(d)
        /\ at[d] \in Nearing \/ (at[d] = "ready" /\ Ran(d) < Pieces)
    BY <1>6 DEF ConnectFails, ShellFails, SendFails
  <2>2. /\ wire[d] # <<>> => Latest(d)[1] \in Nat /\ Latest(d)[1] <= cand[d]
        /\ Ran(d) = 0 \/ Ran(d) < Pieces
    BY <2>1, <1>a, <1>c
  <2>3. InOrder(wire[d], Pieces) /\ DOMAIN wire = Names
    OBVIOUS
  <2> HIDE DEF AuditInv
  <2> QED BY <2>1, <2>2, <2>3, <1>d, <1>f
<1>7. CASE Unpages(d)
  <2>1. Wires(d, 0) /\ UNCHANGED call
    BY <1>7 DEF Unpages
  <2>2. wire[d] # <<>> => Follows(Latest(d), <<cand[d], 0>>) /\ (Ran(d) = 0 \/ Ran(d) < Pieces)
    BY <1>7 DEF Unpages, Follows
  <2>3. InOrder(wire'[d], Pieces')
    BY <2>1, <2>2, LineInOrder
  <2> QED BY <1>7, <2>1, <2>3, <1>a, <1>e DEF Unpages
<1>8. CASE PromptFails(d)
  <2>1. /\ UNCHANGED <<call, main, attempt, outcomes, results>> /\ Advances(d)
        /\ at[d] = "prompt" /\ (Wires(d, 0) \/ UNCHANGED wire)
    BY <1>8 DEF PromptFails
  <2>2. CASE UNCHANGED wire
    <3>1. /\ wire[d] # <<>> => Latest(d)[1] \in Nat /\ Latest(d)[1] <= cand[d]
          /\ Ran(d) = 0 \/ Ran(d) < Pieces
      BY <2>1, <1>a, <1>c
    <3>2. InOrder(wire[d], Pieces) /\ DOMAIN wire = Names
      OBVIOUS
    <3> HIDE DEF AuditInv
    <3> QED BY <2>1, <2>2, <3>1, <3>2, <1>d, <1>f
  <2>3. CASE Wires(d, 0)
    <3>1. wire[d] # <<>> => Follows(Latest(d), <<cand[d], 0>>) /\ (Ran(d) = 0 \/ Ran(d) < Pieces)
      BY <2>1 DEF Follows
    <3>2. InOrder(wire'[d], Pieces')
      BY <2>1, <2>3, <3>1, LineInOrder
    <3>3. cand[d] \in Nat /\ cand[d] <= cand[d]
      BY <1>a
    <3> HIDE DEF AuditInv
    <3> QED BY <2>1, <2>3, <3>2, <3>3, <1>e, <1>f
  <2> QED BY <2>1, <2>2, <2>3
<1>9. CASE Sends(d)
  <2>1. Wires(d, Ran(d) + 1) /\ UNCHANGED call /\ Ran(d) < Pieces /\ Ran(d) + 1 \in Nat
    BY <1>9, <1>b DEF Sends
  <2>2. wire[d] # <<>> /\ Follows(Latest(d), <<cand[d], Ran(d) + 1>>)
    BY <1>9, <1>b DEF Sends, Follows
  <2>3. InOrder(wire'[d], Pieces')
    BY <2>1, <2>2, LineInOrder
  <2> QED BY <1>9, <2>1, <2>3, <1>a, <1>b, <1>e DEF Sends
<1>10. CASE Reads(d)
  BY <1>10, <1>d DEF Reads
<1>11. CASE Finishes(d)
  BY <1>11, <1>d DEF Finishes
<1>12. CASE Logs(d)
  <2>1. outcomes'[d] = Append(outcomes[d], pend[d].outcome) /\ outcomes[d] = <<>>
    BY <1>12 DEF Logs
  <2>2. outcomes'[d] = <<pend[d].outcome>>
    BY <2>1, FirstIsOnly, Zenon
  <2> QED BY <1>12, <2>2, <1>d DEF Logs
<1>13. CASE OutcomeUnwritten(d)
  BY <1>13, <1>d DEF OutcomeUnwritten
<1>14. CASE Gathers(d)
  BY <1>14, <1>d DEF Gathers, Answers
<1>15. CASE SingleReturns(d)
  BY <1>15, <1>d DEF SingleReturns
<1> QED
  <2> HIDE DEF AuditInv, Ends, Settles
  <2> QED BY <1>1, <1>2, <1>3, <1>4, <1>5, <1>6, <1>7, <1>8, <1>9, <1>10, <1>11, <1>12,
             <1>13, <1>14, <1>15 DEF DeviceStep, Proceeds

\* The records, what was sent and the stages agree throughout.
LEMMA AuditInvariant == Spec => []AuditInv
<1>1. TypeOK /\ AuditInv /\ [Next]_vars => AuditInv'
  <2> SUFFICES ASSUME TypeOK, AuditInv, [Next]_vars PROVE AuditInv'
    OBVIOUS
  <2>1. CASE UNCHANGED vars
    BY <2>1, StillWired DEF vars, AuditInv, Shape, AtInv, StageInv, AllowedInv, Staged, Told,
                            Withheld
  <2> QED BY <2>1, MainAudit, DeviceAudit DEF Next
<1> QED BY InitAudit, <1>1, ServerTypes, PTL DEF Spec

\* A device is sent anything, and what it said is handed back or saved, only under
\* records that were written; the command goes whole to one address at most.
THEOREM AuditFailsClosed == Spec => []FailsClosed
  BY AuditInvariant, AuditImpliesFailsClosed, PTL

-----------------------------------------------------------------------------
\* The stages at which nothing is under way for a device.
AtRest == {"none", "done", "raised", "gathered"}

\* What the call has to know of its devices for the log's promise: it ends with
\* nothing under way, and nothing is handed back before its device is gathered.
CallInv ==
    /\ main \in {"idle", "validated", "names", "pool"}
    /\ main = "validated" => attempt = "none"
    /\ main = "names" => call.tool # "single"
    /\ \A d \in Names : at[d] \notin AtRest => main = "pool"
    /\ main = "pool" /\ call.tool = "single" =>
           \A d \in Names : d # call.target => at[d] = "none"
    /\ main # "idle" => \A d \in Names : at[d] # "gathered" => d \notin Given

\* A call holds its devices until they are at rest.
LEMMA CallHolds == Spec => []CallInv
<1>1. Init => CallInv
  BY DEF Init, CallInv, AtRest, Blank
<1>2. AuditInv /\ CallInv /\ [Next]_vars => CallInv'
  <2> SUFFICES ASSUME AuditInv, CallInv, [Next]_vars PROVE CallInv'
    OBVIOUS
  <2> USE DEF CallInv, AtRest, AuditInv, Shape, AtInv, Stages, shared, perDevice, Ends, Settles,
              Advances
  <2>0. ASSUME UNCHANGED results PROVE Given' = Given
    BY <2>0 DEF Given
  <2>1. ASSUME NEW tool, NEW target, NEW command, NEW save,
               Invoke(tool, target, command, save)
        PROVE  CallInv'
    BY <2>1 DEF Invoke, Blank, Given, Answers
  <2>2. CASE Informs
    BY <2>2, <2>0 DEF Informs
  <2>3. CASE ServerStep
    <3>1. CASE AttemptUnwritten \/ Denies \/ InventoryFails
      BY <3>1, <2>0 DEF AttemptUnwritten, Denies, InventoryFails
    <3>2. CASE Allows
      BY <3>2, <2>0 DEF Allows, AllowedInv
    <3>3. CASE ListsNames
      BY <3>3, <2>0 DEF ListsNames, AllowedInv
    <3>4. CASE GroupReturns
      BY <3>4, <2>0 DEF GroupReturns
    <3> QED BY <2>3, <3>1, <3>2, <3>3, <3>4 DEF ServerStep
  <2>4. ASSUME NEW d \in Names, DeviceStep(d) PROVE CallInv'
    <3>1. CASE Takes(d) \/ LooksUp(d) \/ LookupFails(d)
      BY <3>1, <2>0 DEF Takes, LooksUp, LookupFails
    <3>2. CASE Connects(d) \/ AuthFails(d) \/ ConnectFails(d) \/ ShellFails(d) \/ ShellOpens(d)
      BY <3>2, <2>0 DEF Connects, AuthFails, ConnectFails, ShellFails, ShellOpens
    <3>3. CASE Unpages(d) \/ PromptFails(d) \/ Sends(d) \/ SendFails(d) \/ Reads(d) \/ Finishes(d)
      BY <3>3, <2>0 DEF Unpages, PromptFails, Sends, SendFails, Reads, Finishes
    <3>6. CASE Logs(d) \/ OutcomeUnwritten(d)
      BY <3>6, <2>0 DEF Logs, OutcomeUnwritten
    <3>4. CASE Gathers(d)
      BY <3>4 DEF Gathers, Given
    <3>5. CASE SingleReturns(d)
      BY <3>5 DEF SingleReturns
    <3> QED BY <2>4, <3>1, <3>2, <3>3, <3>4, <3>5, <3>6 DEF DeviceStep, Proceeds
  <2>5. ASSUME NEW session \in open, CollectsGarbage(session[1], session[2]) PROVE CallInv'
    BY <2>5, <2>0 DEF CollectsGarbage
  <2>6. CASE UNCHANGED vars
    BY <2>6, <2>0 DEF vars
  <2> QED
    <3> HIDE DEF CallInv
    <3> QED BY <2>1, <2>2, <2>3, <2>4, <2>5, <2>6 DEF Next, Invokes
<1> QED BY <1>1, <1>2, AuditInvariant, PTL DEF Spec

-----------------------------------------------------------------------------
\* The abstract log sees a device only by its wire, its records and its answer.
Sizes == [d \in Names |-> Ran(d)]
Contacted == {d \in Names : wire[d] # <<>>}
logged == <<call, wire, outcomes, results>>

\* What those leave alone, the abstract state of the devices does not show.
LEMMA LoggedAlone ==
  ASSUME UNCHANGED logged
  PROVE  /\ Pieces' = Pieces /\ Sizes' = Sizes /\ Contacted' = Contacted
         /\ outcomes' = outcomes /\ Given' = Given
  BY StillWired DEF logged, Sizes, Contacted, Given

\* A step of a call that is not of a device: it begins, is judged, or ends.
LEMMA CallLogs ==
  ASSUME AuditInv, CallInv,
         Invokes \/ Informs \/ ServerStep \/ \E session \in open :
                                                CollectsGarbage(session[1], session[2])
  PROVE  [Log!Next]_(Log!vars)
<1> USE LoggedAlone DEF Log!vars, Log!Next, Log!End, Log!Judge, Ends, perDevice, logged, Sizes,
                        Contacted
<1>1. ASSUME NEW tool, NEW target, NEW command \in Commands, NEW save,
             Invoke(tool, target, command, save)
      PROVE [Log!Next]_(Log!vars)
  <2>1. /\ main = "idle" /\ main' = "validated" /\ attempt' = "none"
        /\ wire' = Blank(<<>>) /\ outcomes' = Blank(<<>>) /\ results' = Blank("none")
    BY <1>1 DEF Invoke
  <2>2. \A d \in Names : Ran(d)' = 0 /\ wire'[d] = <<>>
    BY <2>1 DEF Blank, Ran
  <2>3. Sizes' = [d \in Names |-> 0] /\ Contacted' = {}
    BY <2>2
  <2>4. Given' = {}
    BY <2>1 DEF Blank, Given, Answers
  <2>5. Pieces' \in Nat
    BY <1>1, CallHasPieces
  <2>6. Log!Begin
    BY <2>1, <2>3, <2>4, <2>5 DEF Log!Begin, Blank
  <2> QED BY <2>6
<1>2. CASE Informs
  BY <1>2 DEF Informs
<1>3. CASE AttemptUnwritten \/ InventoryFails \/ GroupReturns
  BY <1>3 DEF AttemptUnwritten, InventoryFails, GroupReturns
<1>4. CASE Denies \/ Allows
  BY <1>4 DEF Denies, Allows, CallInv
<1>5. CASE ListsNames
  BY <1>5 DEF ListsNames
<1>6. CASE \E session \in open : CollectsGarbage(session[1], session[2])
  BY <1>6 DEF CollectsGarbage, shared
<1> QED
  <2> HIDE DEF Ends, Log!vars, Log!Next
  <2> QED BY <1>1, <1>2, <1>3, <1>4, <1>5, <1>6 DEF Invokes, ServerStep

\* A line is an attempt begun, or a piece run.
LEMMA LineLogs ==
  ASSUME AuditInv, TypeOK, CallInv, NEW d \in Names, NEW line \in Nat, Wires(d, line),
         at[d] \in Nearing \cup Sending, UNCHANGED <<call, main, attempt, outcomes, results>>,
         \/ line = 0 /\ (Ran(d) = 0 \/ Ran(d) < Pieces)
         \/ line = Ran(d) + 1 /\ wire[d] # <<>> /\ Ran(d) < Pieces
  PROVE  [Log!Next]_(Log!vars)
<1>1. wire \in [Names -> Seq(Lines)] /\ cand[d] \in Nat \ {0} /\ DOMAIN wire = Names
  BY DEF TypeOK, Lines, AuditInv, Shape
<1>2. /\ Pieces' = Pieces /\ wire'[d] # <<>> /\ Ran(d)' = line
      /\ \A e \in Names \ {d} : wire'[e] = wire[e] /\ Ran(e)' = Ran(e)
  BY <1>1, LineSent
<1>3. Sizes' = [Sizes EXCEPT ![d] = line] /\ Sizes[d] = Ran(d)
  BY <1>2 DEF Sizes
<1>4. Contacted' = Contacted \cup {d} /\ (wire[d] # <<>> => Contacted' = Contacted)
  BY <1>2 DEF Contacted
<1>5. main = "pool" /\ attempt = "ALLOWED" /\ outcomes[d] = <<>>
  BY DEF CallInv, AtRest, AuditInv, AllowedInv, StageInv, Staged, Withheld, Nearing, Sending
<1>6. Given' = Given
  BY DEF Given
<1>7. CASE line = 0 /\ (Ran(d) = 0 \/ Ran(d) < Pieces)
  <2>1. Log!Attempt(d)
    BY <1>2, <1>3, <1>4, <1>5, <1>6, <1>7 DEF Log!Attempt, Log!AtWork, Sizes, Contacted
  <2> QED BY <2>1 DEF Log!Next
<1>8. CASE line = Ran(d) + 1 /\ wire[d] # <<>> /\ Ran(d) < Pieces
  <2>1. Log!Run(d)
    BY <1>2, <1>3, <1>4, <1>5, <1>6, <1>8 DEF Log!Run, Log!AtWork, Sizes, Contacted
  <2> QED BY <2>1 DEF Log!Next
<1> QED BY <1>7, <1>8

\* A step of one device's collection: it begins an attempt, runs a piece, records
\* what came of it, hands it back, or does nothing the log is about.
LEMMA DeviceLogs ==
  ASSUME AuditInv, TypeOK, CallInv, NEW d \in Names, DeviceStep(d)
  PROVE  [Log!Next]_(Log!vars)
<1> USE DEF Log!vars, Ends, shared, logged
<1>0. attempt = "ALLOWED" /\ (at[d] \notin AtRest => main = "pool")
  BY DEF AuditInv, AllowedInv, CallInv, DeviceStep, Proceeds, Takes, LooksUp, LookupFails,
         Connects, AuthFails, ConnectFails, ShellFails, ShellOpens, Unpages, PromptFails, Sends,
         SendFails, Reads, Finishes, Logs, OutcomeUnwritten, Gathers, SingleReturns
<1>1. CASE UNCHANGED logged /\ UNCHANGED <<main, attempt>>
  BY <1>1, LoggedAlone DEF Sizes, Contacted
<1>a. at[d] \in Nearing => Ran(d) = 0 \/ Ran(d) < Pieces
  BY DEF AuditInv, StageInv, Staged
<1>b. wire[d] \in Seq(Lines)
  BY DEF TypeOK, Lines
<1>c. Ran(d) \in Nat
  BY <1>b, Untouched, Touched
<1>2. CASE Unpages(d) \/ PromptFails(d)
  <2>1. at[d] = "prompt" /\ UNCHANGED <<call, main, attempt, outcomes, results>>
    BY <1>2 DEF Unpages, PromptFails
  <2>2. Wires(d, 0) \/ UNCHANGED wire
    BY <1>2 DEF Unpages, PromptFails
  <2>3. CASE UNCHANGED wire
    BY <1>1, <2>1, <2>3
  <2> HIDE DEF Log!vars
  <2>4. CASE Wires(d, 0)
    BY <1>a, <2>1, <2>4, LineLogs DEF Nearing, Sending
  <2> QED BY <2>2, <2>3, <2>4
<1>3. CASE Sends(d)
  <2>1. /\ at[d] = "ready" /\ UNCHANGED <<call, main, attempt, outcomes, results>>
        /\ Ran(d) < Pieces /\ Wires(d, Ran(d) + 1) /\ Ran(d) + 1 \in Nat
    BY <1>3, <1>c DEF Sends
  <2>2. wire[d] # <<>>
    BY <2>1 DEF AuditInv, StageInv, Staged, Sending
  <2> HIDE DEF Log!vars
  <2> QED BY <2>1, <2>2, LineLogs DEF Nearing, Sending
<1>4. CASE Logs(d)
  <2>1. /\ outcomes[d] = <<>> /\ main = "pool" /\ pend[d].outcome \in Outcomes /\ Told(d)
        /\ outcomes' = [outcomes EXCEPT ![d] = Append(@, pend[d].outcome)]
    BY <1>0, <1>4 DEF Logs, AuditInv, StageInv, Staged, Withheld, AtRest, TypeOK
  <2>2. outcomes' = [outcomes EXCEPT ![d] = <<pend[d].outcome>>]
    BY <2>1, FirstIsOnly, Zenon DEF AuditInv, Shape
  <2>3. Given' = Given /\ Pieces' = Pieces /\ Sizes' = Sizes /\ Contacted' = Contacted
    BY <1>4, StillWired DEF Logs, Given, Sizes, Contacted
  <2>4. UNCHANGED <<main, attempt>>
    BY <1>4 DEF Logs
  <2>5. Log!Record(d)
    BY <1>0, <2>1, <2>2, <2>3, <2>4 DEF Log!Record, Log!AtWork, Sizes, Contacted, Told
  <2> QED BY <2>5 DEF Log!Next
<1>5. CASE Gathers(d) \/ SingleReturns(d)
  <2>1. /\ main = "pool" /\ at[d] \in {"done", "raised"}
        /\ UNCHANGED <<call, wire, outcomes, attempt>>
        /\ main' = "pool" \/ main' = "idle"
    BY <1>5 DEF Gathers, SingleReturns
  <2>2. Pieces' = Pieces /\ Sizes' = Sizes /\ Contacted' = Contacted
    BY <2>1, StillWired DEF Sizes, Contacted
  <2>3. CASE at[d] = "done"
    <3>1. outcomes[d] # <<>>
      <4>1. outcomes[d] = <<pend[d].outcome>>
        BY <2>3 DEF AuditInv, StageInv, Staged
      <4> QED BY <4>1, FirstIsOnly, Zenon
    <3>2. \E said : results' = [results EXCEPT ![d] = said]
      BY <1>5, <2>3 DEF Gathers, SingleReturns
    <3>3. d \notin Given
      BY <2>1, <2>3 DEF CallInv
    <3>4. Given' = Given \/ Given' = Given \cup {d}
      BY <3>2, <3>3 DEF Given, AuditInv, Shape
    <3>5. CASE Given' = Given \cup {d}
      BY <2>1, <2>2, <3>1, <3>5 DEF Log!Next, Log!HandBack, Sizes, Contacted
    <3>6. CASE Given' = Given
      BY <2>1, <2>2, <3>6 DEF Log!Next, Log!End, Sizes, Contacted
    <3> QED BY <3>4, <3>5, <3>6
  <2>4. CASE at[d] = "raised"
    <3>1. Given' = Given
      <4>1. UNCHANGED results \/ results' = [results EXCEPT ![d] = "failed"]
        BY <1>5, <2>4 DEF Gathers, SingleReturns
      <4>2. d \notin Given
        BY <2>1, <2>4 DEF CallInv
      <4> QED BY <4>1, <4>2 DEF Given, Answers, AuditInv, Shape
    <3> QED BY <2>1, <2>2, <3>1 DEF Log!Next, Log!End, Sizes, Contacted
  <2> QED BY <2>1, <2>3, <2>4
<1> QED BY <1>1, <1>2, <1>3, <1>4, <1>5 DEF DeviceStep, Proceeds, Takes, LooksUp, LookupFails,
           Connects, AuthFails, ConnectFails, ShellFails, ShellOpens, SendFails, Reads, Finishes,
           OutcomeUnwritten

-----------------------------------------------------------------------------
\* Every call keeps to its record as the log promises (audit.py, _collect_one),
\* whatever is sent again after a failure, and has nothing under way once it has
\* returned or raised.
THEOREM ServerKeepsLog == Spec => KeepsLog
<1>1. Init => Log!Init
  <2> SUFFICES ASSUME Init PROVE Log!Init
    OBVIOUS
  <2>1. \A d \in Names : wire[d] = <<>> /\ Ran(d) = 0
    BY DEF Init, Blank, Ran
  <2>2. Pieces = 0 /\ Sizes = [d \in Names |-> 0] /\ Contacted = {}
    BY <2>1 DEF Init, Pieces, Sizes, Contacted
  <2> QED BY <2>2 DEF Init, Log!Init, Blank, Given, Answers, Sizes, Contacted
<1>2. AuditInv /\ TypeOK /\ CallInv /\ [Next]_vars => [Log!Next]_(Log!vars)
  <2> SUFFICES ASSUME AuditInv, TypeOK, CallInv, [Next]_vars PROVE [Log!Next]_(Log!vars)
    OBVIOUS
  <2>1. CASE UNCHANGED vars
    BY <2>1, LoggedAlone DEF vars, logged, Log!vars, Sizes, Contacted
  <2> QED BY <2>1, CallLogs, DeviceLogs DEF Next
<1> QED BY <1>1, <1>2, AuditInvariant, ServerTypes, CallHolds, PTL DEF Spec, KeepsLog, Log!Spec
-----------------------------------------------------------------------------
\* The stages at which an address is being tried.
Tried == Nearing \cup Sending

\* The address being tried is one of the device's, from the first one on, and
\* the inventory is one that the source listed.
CandInv ==
    /\ inventory \in Listings \cup {Unbuilt}
    /\ \A d \in Names : at[d] \in {"none", "queued", "lookup"} => cand[d] = 1
    /\ \A d \in Names : at[d] \in Tried => cand[d] \in 1..Hosts(d)

\* A device has a number of addresses, and one that has any has a first one.
LEMMA HostsCount ==
  ASSUME NEW d \in Names
  PROVE  Hosts(d) \in Nat /\ (ConnectCandidates(d) # <<>> => Hosts(d) >= 1)
<1>1. ConnectCandidates(d) \in Seq(STRING)
  BY CandidatesAssumption
<1> HIDE DEF ConnectCandidates
<1> QED BY <1>1 DEF Hosts

\* Every address that is tried is there.
LEMMA AddressesThere == Spec => []CandInv
<1>1. Init => CandInv
  BY DEF Init, CandInv, Blank, Tried, Nearing, Sending
<1>2. AuditInv /\ TypeOK /\ CandInv /\ [Next]_vars => CandInv'
  <2> SUFFICES ASSUME AuditInv, TypeOK, CandInv, [Next]_vars PROVE CandInv'
    OBVIOUS
  <2> USE DEF CandInv, Tried, Nearing, Sending, AuditInv, Shape, AtInv, Stages, shared, perDevice, Ends, Settles,
              ReadsInventory
  <2>1. ASSUME NEW tool, NEW target, NEW command, NEW save, Invoke(tool, target, command, save)
        PROVE  CandInv'
    BY <2>1 DEF Invoke, Blank
  <2>2. CASE Informs
    BY <2>2 DEF Informs
  <2>3. CASE ServerStep
    BY <2>3 DEF ServerStep, AttemptUnwritten, Denies, InventoryFails, Allows, ListsNames,
            GroupReturns, AllowedInv
  <2>4. ASSUME NEW d \in Names, DeviceStep(d) PROVE CandInv'
    <3>0. Hosts(d) \in Nat /\ cand[d] \in Nat /\ (ConnectCandidates(d) # <<>> => Hosts(d) >= 1)
      BY HostsCount DEF TypeOK
    <3> HIDE DEF Hosts
    <3>1. CASE Takes(d) \/ LookupFails(d)
      BY <3>1 DEF Takes, LookupFails
    <3>2. CASE LooksUp(d)
      BY <3>0, <3>2 DEF LooksUp
    <3>3. CASE Connects(d) \/ AuthFails(d) \/ ShellOpens(d)
      BY <3>3 DEF Connects, AuthFails, ShellOpens
    <3>4. CASE ConnectFails(d) \/ ShellFails(d) \/ PromptFails(d) \/ SendFails(d)
      <4>1. Advances(d) /\ UNCHANGED inventory
        BY <3>4 DEF ConnectFails, ShellFails, PromptFails, SendFails
      <4>2. cand[d] < Len(ConnectCandidates(d)) => cand[d] + 1 \in 1..Hosts(d)
        BY <3>0 DEF Hosts
      <4> QED BY <4>1, <4>2 DEF Advances, TypeOK
    <3>5. CASE Unpages(d) \/ Sends(d) \/ Reads(d) \/ Finishes(d) \/ Logs(d) \/ OutcomeUnwritten(d)
      BY <3>5 DEF Unpages, Sends, Reads, Finishes, Logs, OutcomeUnwritten
    <3>6. CASE Gathers(d) \/ SingleReturns(d)
      BY <3>6 DEF Gathers, SingleReturns
    <3> QED BY <2>4, <3>1, <3>2, <3>3, <3>4, <3>5, <3>6 DEF DeviceStep, Proceeds
  <2>5. ASSUME NEW session \in open, CollectsGarbage(session[1], session[2]) PROVE CandInv'
    BY <2>5 DEF CollectsGarbage
  <2>6. CASE UNCHANGED vars
    BY <2>6 DEF vars
  <2> QED
    <3> HIDE DEF CandInv
    <3> QED BY <2>1, <2>2, <2>3, <2>4, <2>5, <2>6 DEF Next, Invokes
<1> QED BY <1>1, <1>2, AuditInvariant, ServerTypes, PTL DEF Spec

\* One device is further than it was, and nothing else has moved.
Forward(d) ==
    /\ MainPlace' = MainPlace
    /\ Further(d)
    /\ \A e \in Names \ {d} : at'[e] = at[e] /\ cand'[e] = cand[e] /\ wire'[e] = wire[e]

\* A step of a device leaves the others where they are.
LEMMA OthersStay ==
  ASSUME AuditInv, TypeOK, NEW d \in Names, DeviceStep(d), NEW e \in Names \ {d}
  PROVE  at'[e] = at[e] /\ cand'[e] = cand[e] /\ wire'[e] = wire[e]
<1> USE DEF shared, Settles, Advances, Wires, AuditInv, Shape
<1>1. CASE Takes(d) \/ LooksUp(d) \/ LookupFails(d) \/ Connects(d) \/ AuthFails(d)
  BY <1>1 DEF Takes, LooksUp, LookupFails, Connects, AuthFails
<1>2. CASE ConnectFails(d) \/ ShellFails(d) \/ ShellOpens(d) \/ Unpages(d)
  BY <1>2 DEF ConnectFails, ShellFails, ShellOpens, Unpages
<1>3. CASE PromptFails(d) \/ Sends(d) \/ SendFails(d) \/ Reads(d) \/ Finishes(d)
  BY <1>3 DEF PromptFails, Sends, SendFails, Reads, Finishes
<1>4. CASE Logs(d) \/ OutcomeUnwritten(d) \/ Gathers(d) \/ SingleReturns(d)
  BY <1>4 DEF Logs, OutcomeUnwritten, Gathers, SingleReturns
<1> QED BY <1>1, <1>2, <1>3, <1>4 DEF DeviceStep, Proceeds

\* A device that moves is further than it was, or ends the call.
LEMMA DeviceAdvances ==
  ASSUME AuditInv, TypeOK, NEW d \in Names, DeviceStep(d)
  PROVE  MainPlace' > MainPlace \/ Forward(d)
<1>1. CASE SingleReturns(d)
  BY <1>1 DEF SingleReturns, Ends, MainPlace
<1>2. UNCHANGED main /\ Further(d) => Forward(d)
  BY OthersStay DEF Forward, MainPlace
<1>a. wire \in [Names -> Seq(Lines)] /\ cand[d] \in Nat \ {0} /\ wire[d] \in Seq(Lines)
  BY DEF TypeOK, Lines
<1>b. Ran(d) \in Nat
  BY <1>a, Untouched, Touched
<1>c. DOMAIN at = Names /\ DOMAIN cand = Names
  BY DEF AuditInv, Shape
<1>3. CASE Takes(d) \/ LooksUp(d) \/ LookupFails(d)
  <2>1. UNCHANGED main /\ at[d] \in {"queued", "lookup"}
    BY <1>3 DEF Takes, LooksUp, LookupFails, shared
  <2>2. at[d] = "queued" => at'[d] = "lookup"
    BY <1>3, <1>c DEF Takes, LooksUp, LookupFails
  <2>3. at[d] = "lookup" => at'[d] \in {"connect", "log", "raised"}
    BY <1>3, <1>c DEF Takes, LooksUp, LookupFails, Settles
  <2>4. Further(d)
    BY <2>1, <2>2, <2>3 DEF Further, Phase
  <2> QED BY <1>2, <2>1, <2>4
<1>4. CASE AuthFails(d) \/ Finishes(d) \/ Logs(d) \/ OutcomeUnwritten(d) \/ Gathers(d)
  <2>1. UNCHANGED main
    BY <1>4 DEF AuthFails, Finishes, Logs, OutcomeUnwritten, Gathers, shared
  <2>2. \/ at[d] \in {"connect", "ready"} /\ at'[d] = "log"
        \/ at[d] = "log" /\ at'[d] \in {"done", "raised"}
        \/ at[d] \in {"done", "raised"} /\ at'[d] = "gathered"
    BY <1>4, <1>c DEF AuthFails, Finishes, Logs, OutcomeUnwritten, Gathers, Settles
  <2>3. Further(d)
    BY <2>2 DEF Further, Phase
  <2> QED BY <1>2, <2>1, <2>3
<1>5. CASE ConnectFails(d) \/ ShellFails(d) \/ PromptFails(d) \/ SendFails(d)
  <2>1. UNCHANGED main /\ at[d] \in {"connect", "shell", "prompt", "ready"} /\ Advances(d)
    BY <1>5 DEF ConnectFails, ShellFails, PromptFails, SendFails, shared
  <2>2. at'[d] = "log" \/ (at'[d] = "connect" /\ cand'[d] > cand[d])
    BY <1>a, <1>c, <2>1 DEF Advances, Settles
  <2>3. Further(d)
    BY <2>1, <2>2 DEF Further, Phase
  <2> QED BY <1>2, <2>1, <2>3
<1>6. CASE Connects(d) \/ ShellOpens(d) \/ Unpages(d) \/ Sends(d) \/ Reads(d)
  <2>1. UNCHANGED <<main, call>> /\ cand'[d] = cand[d]
    BY <1>6 DEF Connects, ShellOpens, Unpages, Sends, Reads, shared
  <2>2. CASE Connects(d) \/ ShellOpens(d) \/ Reads(d)
    <3>1. Ran(d)' = Ran(d)
      BY <2>1, <2>2, StillWired DEF Connects, ShellOpens, Reads
    <3>2. \/ at[d] = "connect" /\ at'[d] = "shell"
          \/ at[d] = "shell" /\ at'[d] = "prompt"
          \/ at[d] = "sent" /\ at'[d] = "ready"
      BY <1>c, <2>2 DEF Connects, ShellOpens, Reads
    <3>3. Further(d)
      BY <1>b, <2>1, <3>1, <3>2 DEF Further, Phase, Place
    <3> QED BY <1>2, <2>1, <3>3
  <2>3. CASE Unpages(d) \/ Sends(d)
    <3>1. PICK line \in Nat : /\ Wires(d, line)
                             /\ \/ line = 0 /\ at[d] = "prompt" /\ at'[d] = "ready"
                                \/ line = Ran(d) + 1 /\ at[d] = "ready" /\ at'[d] = "sent"
      BY <1>b, <1>c, <2>3 DEF Unpages, Sends
    <3>2. Ran(d)' = line
      BY <1>a, <2>1, <3>1, LineSent
    <3>3. Further(d)
      BY <1>b, <2>1, <3>1, <3>2 DEF Further, Phase, Place
    <3> QED BY <1>2, <2>1, <3>3
  <2> QED BY <1>6, <2>2, <2>3
<1> QED BY <1>1, <1>3, <1>4, <1>5, <1>6 DEF DeviceStep, Proceeds

\* What the places are counted to: an address is one of the device's, and no more
\* pieces run than there are.
Bounded ==
    \A d \in Names :
        /\ at[d] \in Tried => cand[d] \in 1..Hosts(d)
        /\ at[d] \in Sending => Ran(d) \in 0..Pieces

\* No call goes back, and its places are counted, so that it can take only so many
\* steps; the sessions left behind are collected once.
THEOREM CallsGoForward == Spec => CallsAdvance /\ []Bounded
<1> DEFINE Moves == \/ MainPlace' > MainPlace
                    \/ /\ MainPlace' = MainPlace
                       /\ \E d \in Names :
                              /\ Further(d)
                              /\ \A e \in Names \ {d} :
                                     at'[e] = at[e] /\ cand'[e] = cand[e] /\ wire'[e] = wire[e]
                    \/ Tidies
<1>1. AuditInv /\ TypeOK /\ [Next]_vars => [main # "idle" => Moves]_vars
  <2> SUFFICES ASSUME AuditInv, TypeOK, Next, main # "idle"
               PROVE  Moves
    BY DEF Moves
  <2>1. CASE ServerStep
    BY <2>1 DEF ServerStep, AttemptUnwritten, Denies, InventoryFails, Allows, ListsNames,
                GroupReturns, Ends, MainPlace
  <2>2. ASSUME NEW d \in Names, DeviceStep(d) PROVE Moves
    BY <2>2, DeviceAdvances DEF Forward
  <2>3. ASSUME NEW session \in open, CollectsGarbage(session[1], session[2]) PROVE Moves
    BY <2>3 DEF CollectsGarbage, Tidies, shared
  <2>4. ~Invokes /\ ~Informs
    BY DEF Invokes, Informs, Invoke
  <2> QED BY <2>1, <2>2, <2>3, <2>4 DEF Next
<1>2. AuditInv /\ TypeOK /\ CandInv => Bounded
  <2> SUFFICES ASSUME AuditInv, TypeOK, CandInv, NEW d \in Names
               PROVE  /\ at[d] \in Tried => cand[d] \in 1..Hosts(d)
                      /\ at[d] \in Sending => Ran(d) \in 0..Pieces
    BY DEF Bounded
  <2>1. wire[d] \in Seq(Lines) /\ Pieces \in Nat
    BY DEF TypeOK, Lines
  <2>2. Ran(d) \in Nat
    BY <2>1, Untouched, Touched
  <2>3. at[d] \in Sending => Ran(d) = 0 \/ Ran(d) <= Pieces
    BY DEF AuditInv, StageInv, Staged
  <2> QED BY <2>1, <2>2, <2>3 DEF CandInv
<1> QED BY <1>1, <1>2, AuditInvariant, ServerTypes, AddressesThere, PTL DEF Spec, CallsAdvance
-----------------------------------------------------------------------------
\* A call for one device has its collection under way, or the result of it.
SingleInv ==
    /\ main # "idle" => call.tool \in {"single", "group"}
    /\ main \in {"validated", "pool"} /\ call.tool = "single" => call.target \in Names
    /\ main = "pool" /\ call.tool = "single" =>
           at[call.target] \notin {"none", "queued", "gathered"}

LEMMA SingleUnderWay == Spec => []SingleInv
<1>1. Init => SingleInv
  BY DEF Init, SingleInv
<1>2. AuditInv /\ CallInv /\ SingleInv /\ [Next]_vars => SingleInv'
  <2> SUFFICES ASSUME AuditInv, CallInv, SingleInv, [Next]_vars PROVE SingleInv'
    OBVIOUS
  <2> USE DEF SingleInv, AuditInv, Shape, shared, perDevice, Ends, Settles, Advances
  <2>1. CASE Invokes
    <3>1. ASSUME NEW command, NEW target \in Names, Invoke("single", target, command, FALSE)
          PROVE  SingleInv'
      BY <3>1 DEF Invoke
    <3>2. ASSUME NEW command, NEW target, NEW save, Invoke("group", target, command, save)
          PROVE  SingleInv'
      BY <3>2 DEF Invoke
    <3> HIDE DEF SingleInv
    <3> QED BY <2>1, <3>1, <3>2 DEF Invokes
  <2>2. CASE Informs
    BY <2>2 DEF Informs
  <2>3. CASE ServerStep
    BY <2>3 DEF ServerStep, AttemptUnwritten, Denies, InventoryFails, Allows, ListsNames,
                GroupReturns, CallInv
  <2>4. ASSUME NEW d \in Names, DeviceStep(d) PROVE SingleInv'
    <3>1. CASE Takes(d) \/ LooksUp(d) \/ LookupFails(d)
      BY <3>1 DEF Takes, LooksUp, LookupFails
    <3>2. CASE Connects(d) \/ AuthFails(d) \/ ConnectFails(d) \/ ShellFails(d) \/ ShellOpens(d)
      BY <3>2 DEF Connects, AuthFails, ConnectFails, ShellFails, ShellOpens
    <3>3. CASE Unpages(d) \/ PromptFails(d) \/ Sends(d) \/ SendFails(d) \/ Reads(d) \/ Finishes(d)
      BY <3>3 DEF Unpages, PromptFails, Sends, SendFails, Reads, Finishes
    <3>5. CASE Logs(d) \/ OutcomeUnwritten(d)
      BY <3>5 DEF Logs, OutcomeUnwritten
    <3>4. CASE Gathers(d) \/ SingleReturns(d)
      BY <3>4 DEF Gathers, SingleReturns
    <3> QED BY <2>4, <3>1, <3>2, <3>3, <3>4, <3>5 DEF DeviceStep, Proceeds
  <2>5. ASSUME NEW session \in open, CollectsGarbage(session[1], session[2]) PROVE SingleInv'
    BY <2>5 DEF CollectsGarbage
  <2>6. CASE UNCHANGED vars
    BY <2>6 DEF vars
  <2> QED
    <3> HIDE DEF SingleInv
    <3> QED BY <2>1, <2>2, <2>3, <2>4, <2>5, <2>6 DEF Next
<1> QED BY <1>1, <1>2, AuditInvariant, CallHolds, PTL DEF Spec

\* In a pool there is always something to do: a result to hand back, a device at
\* work, one that has finished, or one in the queue and a thread for it.  Nobody
\* waits for a thread that waits, however few there are.
PoolMoves ==
    main = "pool" =>
        \/ call.tool = "group" /\ \A d \in Names : at[d] \in {"none", "gathered"}
        \/ \E d \in Names :
               \/ d \in Active
               \/ at[d] \in {"done", "raised"} /\ (call.tool = "group" \/ d = call.target)
               \/ at[d] = "queued" /\ Cardinality(Active) < Workers

THEOREM PoolNeverStuck == Spec => []PoolMoves
<1>1. AuditInv /\ SingleInv => PoolMoves
  <2> SUFFICES ASSUME AuditInv, SingleInv, main = "pool" PROVE PoolMoves
    BY DEF PoolMoves
  <2>1. CASE Active # {}
    BY <2>1 DEF PoolMoves, Active
  <2>2. CASE Active = {}
    <3>1. Cardinality(Active) < Workers
      BY <2>2, FS_EmptySet, WorkersAssumption
    <3>2. \A d \in Names : at[d] \in {"none", "queued", "done", "raised", "gathered"}
      BY <2>2 DEF AuditInv, AtInv, Stages, Active
    <3> HIDE DEF Active
    <3> QED BY <3>1, <3>2 DEF PoolMoves, SingleInv
  <2> QED BY <2>1, <2>2
<1> QED BY <1>1, AuditInvariant, SingleUnderWay, PTL
=============================================================================
