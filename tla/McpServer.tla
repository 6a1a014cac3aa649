----------------------------- MODULE McpServer ------------------------------
(* uf/mcpssh: one server process.  It runs one tool call at a time; the group *)
(* call spreads its devices over a pool of threads.  server.py with the       *)
(* audit log, the validator, the inventory, the credentials and the SSH       *)
(* client it drives once per address.                                         *)
EXTENDS Naturals, Sequences, FiniteSets

CONSTANTS Nodes,         \* by name, listed or not: [crawled, mgmt, peers, scopes, groups]
          NoAddress,
          Listings,      \* the sets of names that the source may list when asked
          Environment,   \* by scope and field: "unset", "empty" or "set"
          Targets,       \* what group calls name: devices and groups, known or not
          Commands,      \* [unsafe, denied, pipes, listed, pieces]
          AllowPipe, PipeModifiers,
          Workers,       \* max_workers
          MaxCalls

Names == DOMAIN Nodes
Unbuilt == {NoAddress}   \* in place of a set of names

ASSUME WorkersAssumption == Workers \in Nat \ {0}
ASSUME ListingsAssumption == \A names \in Listings : names \subseteq Names
ASSUME NodesAssumption == \A d \in Names : Nodes[d].peers \in Seq(STRING)
ASSUME CommandsAssumption == \A c \in Commands : c.pieces \in Nat

VARIABLES inventory,  \* the names listed when it was built, once per process
          calls,      \* calls so far
          main,       \* where the thread that serves the call is
          call,       \* the call: [tool, target, command, save]
          attempt,    \* the verdict written for it, or "none"
          at,         \* where the collection of each device is
          cand,       \* the address it tries, by place in the candidates
          pend,       \* the outcome it is about to write, and its answer then
          outcomes,   \* the outcome records written, by device
          wire,       \* what was sent, by device: <<place of the address, line>>,
                      \* the pagers as line 0, then the pieces of the command
          open,       \* sessions that are logged in: <<device, address>>
          results,    \* what the call hands back, by device
          answer      \* how the call ended

vars == <<inventory, calls, main, call, attempt, at, cand, pend, outcomes, wire,
          open, results, answer>>
perDevice == <<at, cand, pend, outcomes, wire, open, results>>

NoCall == [tool |-> "none"]
NoPend == [outcome |-> "none", answer |-> "none"]
Blank(x) == [d \in Names |-> x]

-----------------------------------------------------------------------------
\* security.py: deny by default, in this order.
Reason(c) ==
    IF c.unsafe THEN "UNSAFE_CHAR"
    ELSE IF c.denied THEN "DENY_MATCH"
    ELSE IF c.pipes # <<>> /\ ~AllowPipe THEN "PIPE_NOT_ALLOWED"
    ELSE IF Len(c.pipes) > 1 THEN "MULTIPLE_PIPES"
    ELSE IF c.pipes # <<>> /\ Head(c.pipes) \notin PipeModifiers THEN "INVALID_PIPE_MODIFIER"
    ELSE IF c.listed THEN "ALLOWED" ELSE "NO_ALLOW_MATCH"
Permitted(c) == Reason(c) = "ALLOWED"

\* inventory.py: management address first, else only what neighbours reported.
ConnectCandidates(d) ==
    LET n == Nodes[d]
    IN IF n.crawled /\ n.mgmt # NoAddress
       THEN <<n.mgmt>> \o SelectSeq(n.peers, LAMBDA ip : ip # n.mgmt)
       ELSE n.peers
ASSUME CandidatesAssumption == \A d \in Names : ConnectCandidates(d) \in Seq(STRING)
DeviceNames(names, target) ==
    IF target \in names THEN {target} ELSE {d \in names : target \in Nodes[d].groups}

\* credentials.py: the most specific scope that defines a field, even as empty.
Lookup(d, field) ==
    LET scopes == Append(Nodes[d].scopes, "global")
        defined == {i \in DOMAIN scopes : Environment[scopes[i]][field] # "unset"}
    IN IF defined = {} THEN "unset"
       ELSE Environment[scopes[CHOOSE i \in defined : \A j \in defined : i <= j]][field]
Resolves(d) == /\ Lookup(d, "USERNAME") = "set"
               /\ Lookup(d, "PASSWORD") = "set" \/ Lookup(d, "KEY_FILE") = "set"

\* A comma parts a command, and is no character the validator refuses; there may
\* be no piece at all.
Pieces == IF call = NoCall THEN 0 ELSE call.command.pieces
Ran(d) == IF wire[d] = <<>> THEN 0 ELSE wire[d][Len(wire[d])][2]

\* The inventory is built at first need and kept; a failed build is not.
ReadsInventory(names) ==
    IF inventory # Unbuilt THEN names = inventory /\ UNCHANGED inventory
    ELSE names \in Listings /\ inventory' = names

-----------------------------------------------------------------------------
Init ==
    /\ inventory = Unbuilt
    /\ calls = 0
    /\ main = "idle"
    /\ call = NoCall
    /\ attempt = "none"
    /\ at = Blank("none")
    /\ cand = Blank(1)
    /\ pend = Blank(NoPend)
    /\ outcomes = Blank(<<>>)
    /\ wire = Blank(<<>>)
    /\ open = {}
    /\ results = Blank("none")
    /\ answer = "none"

\* send_show_command, or send_show_command_to_group.
Invoke(tool, target, command, save) ==
    /\ main = "idle"
    /\ calls < MaxCalls
    /\ calls' = calls + 1
    /\ main' = "validated"
    /\ call' = [tool |-> tool, target |-> target, command |-> command, save |-> save]
    /\ attempt' = "none"
    /\ at' = Blank("none")
    /\ cand' = Blank(1)
    /\ pend' = Blank(NoPend)
    /\ outcomes' = Blank(<<>>)
    /\ wire' = Blank(<<>>)
    /\ results' = Blank("none")
    /\ answer' = "none"
    /\ UNCHANGED <<inventory, open>>

\* Tools that touch no device: one record, then an answer out of the inventory,
\* or without it (ping, read_device_output).
Informs ==
    /\ main = "idle"
    /\ calls < MaxCalls
    /\ calls' = calls + 1
    /\ \/ UNCHANGED inventory
       \/ \E names \in Listings : ReadsInventory(names)
    /\ answer' \in {"results", "raised"}
    /\ UNCHANGED <<main, call, attempt>> /\ UNCHANGED perDevice

Ends(how) == main' = "idle" /\ answer' = how

\* A record that cannot be written raises, out of the tool.
AttemptUnwritten ==
    /\ main = "validated"
    /\ Ends("raised")
    /\ UNCHANGED <<inventory, calls, call, attempt>> /\ UNCHANGED perDevice

Denies ==
    /\ main = "validated"
    /\ ~Permitted(call.command)
    /\ attempt' = "DENIED"
    /\ Ends("denied")
    /\ UNCHANGED <<inventory, calls, call>> /\ UNCHANGED perDevice

\* A single device is collected by the thread that serves the call.
Allows ==
    /\ main = "validated"
    /\ Permitted(call.command)
    /\ attempt' = "ALLOWED"
    /\ main' = IF call.tool = "single" THEN "pool" ELSE "names"
    /\ at' = [d \in Names |-> IF call.tool = "single" /\ d = call.target THEN "lookup" ELSE "none"]
    /\ UNCHANGED <<inventory, calls, call, cand, pend, outcomes, wire, open, results, answer>>

ListsNames ==
    /\ main = "names"
    /\ \E names \in Listings :
           /\ ReadsInventory(names)
           /\ LET chosen == DeviceNames(names, call.target)
              IN IF chosen = {} THEN Ends("error") /\ UNCHANGED at
                 ELSE /\ main' = "pool"
                      /\ at' = [d \in Names |-> IF d \in chosen THEN "queued" ELSE "none"]
                      /\ UNCHANGED answer
    /\ UNCHANGED <<calls, call, attempt, cand, pend, outcomes, wire, open, results>>

\* The source is unreachable, or answers no list: an error, or an exception.
InventoryFails ==
    /\ main = "names"
    /\ inventory = Unbuilt
    /\ \E how \in {"error", "raised"} : Ends(how)
    /\ UNCHANGED <<inventory, calls, call, attempt>> /\ UNCHANGED perDevice

-----------------------------------------------------------------------------
\* _collect_one, for one device.
Active == {d \in Names : at[d] \in {"lookup", "connect", "shell", "prompt", "ready", "sent",
                               "log"}}
Address(d) == ConnectCandidates(d)[cand[d]]
shared == <<inventory, calls, main, call, attempt, answer>>

\* A pool whose threads serve one device each.
TakesOnce(d) ==
    /\ at[d] = "queued"
    /\ Cardinality({e \in Names : at[e] \notin {"none", "queued"}}) < Workers
    /\ at' = [at EXCEPT ![d] = "lookup"]
    /\ UNCHANGED <<cand, pend, outcomes, wire, open, results>> /\ UNCHANGED shared

Takes(d) ==
    /\ at[d] = "queued"
    /\ Cardinality(Active) < Workers
    /\ at' = [at EXCEPT ![d] = "lookup"]
    /\ UNCHANGED <<cand, pend, outcomes, wire, open, results>> /\ UNCHANGED shared

Settles(d, outcome, said) ==
    /\ at' = [at EXCEPT ![d] = "log"]
    /\ pend' = [pend EXCEPT ![d] = [outcome |-> outcome, answer |-> said]]

LooksUp(d) ==
    /\ at[d] = "lookup"
    /\ \E names \in Listings :
           /\ ReadsInventory(names)
           /\ IF d \in names /\ Resolves(d) /\ ConnectCandidates(d) # <<>>
              THEN at' = [at EXCEPT ![d] = "connect"] /\ UNCHANGED pend
              ELSE Settles(d, "INVENTORY_ERROR", "error")
    /\ UNCHANGED <<calls, main, call, attempt, answer, cand, outcomes, wire, open, results>>

LookupFails(d) ==
    /\ at[d] = "lookup"
    /\ inventory = Unbuilt
    /\ \/ Settles(d, "INVENTORY_ERROR", "error")
       \/ at' = [at EXCEPT ![d] = "raised"] /\ UNCHANGED pend
    /\ UNCHANGED <<cand, outcomes, wire, open, results>> /\ UNCHANGED shared

\* It tries the same address again.
AdvancesNot(d) ==
    IF cand[d] < Len(ConnectCandidates(d))
    THEN at' = [at EXCEPT ![d] = "connect"] /\ UNCHANGED <<cand, pend>>
    ELSE Settles(d, "ERROR", "error") /\ UNCHANGED cand

\* The next address, or the end of them.
Advances(d) ==
    IF cand[d] < Len(ConnectCandidates(d))
    THEN /\ cand' = [cand EXCEPT ![d] = @ + 1]
         /\ at' = [at EXCEPT ![d] = "connect"]
         /\ UNCHANGED pend
    ELSE Settles(d, "ERROR", "error") /\ UNCHANGED cand

Connects(d) ==
    /\ at[d] = "connect"
    /\ open' = open \cup {<<d, Address(d)>>}
    /\ at' = [at EXCEPT ![d] = "shell"]
    /\ UNCHANGED <<cand, pend, outcomes, wire, results>> /\ UNCHANGED shared

\* The same credentials go to every address: no other is tried.
AuthFails(d) ==
    /\ at[d] = "connect"
    /\ Settles(d, "AUTH_FAILURE", "error")
    /\ UNCHANGED <<cand, outcomes, wire, open, results>> /\ UNCHANGED shared

ConnectFails(d) ==
    /\ at[d] = "connect"
    /\ Advances(d)
    /\ UNCHANGED <<outcomes, wire, open, results>> /\ UNCHANGED shared

\* __enter__ raised, so __exit__ is not run and the session stays.
ShellFails(d) ==
    /\ at[d] = "shell"
    /\ Advances(d)
    /\ UNCHANGED <<outcomes, wire, open, results>> /\ UNCHANGED shared

ShellOpens(d) ==
    /\ at[d] = "shell"
    /\ at' = [at EXCEPT ![d] = "prompt"]
    /\ UNCHANGED <<cand, pend, outcomes, wire, open, results>> /\ UNCHANGED shared

Wires(d, line) == wire' = [wire EXCEPT ![d] = Append(@, <<cand[d], line>>)]

\* The prompt is found, or "#" taken for it, and eight pagers are turned off, each
\* vendor's its own way: what is sent for that has no record.
Unpages(d) ==
    /\ at[d] = "prompt"
    /\ Wires(d, 0)
    /\ at' = [at EXCEPT ![d] = "ready"]
    /\ UNCHANGED <<cand, pend, outcomes, open, results>> /\ UNCHANGED shared

\* The session is lost while the prompt is sought, before the pagers or after.
PromptFails(d) ==
    /\ at[d] = "prompt"
    /\ Wires(d, 0) \/ UNCHANGED wire
    /\ open' = open \ {<<d, Address(d)>>}
    /\ Advances(d)
    /\ UNCHANGED <<outcomes, results>> /\ UNCHANGED shared

\* The pieces of the command go one by one, each after the wait for the last.
Sends(d) ==
    /\ at[d] = "ready"
    /\ Ran(d) < Pieces
    /\ Wires(d, Ran(d) + 1)
    /\ at' = [at EXCEPT ![d] = "sent"]
    /\ UNCHANGED <<cand, pend, outcomes, open, results>> /\ UNCHANGED shared

\* Those that have run have run: the next address gets the command from its start.
SendFails(d) ==
    /\ at[d] = "ready"
    /\ Ran(d) < Pieces
    /\ open' = open \ {<<d, Address(d)>>}
    /\ Advances(d)
    /\ UNCHANGED <<outcomes, wire, results>> /\ UNCHANGED shared

\* The prompt comes, or the wait for it runs out, which is no error.
Reads(d) ==
    /\ at[d] = "sent"
    /\ at' = [at EXCEPT ![d] = "ready"]
    /\ UNCHANGED <<cand, pend, outcomes, wire, open, results>> /\ UNCHANGED shared

\* What came in the waits is the output, whether it is all of it or not.
Finishes(d) ==
    /\ at[d] = "ready"
    /\ Ran(d) = Pieces
    /\ Settles(d, "SUCCESS", "output")
    /\ open' = open \ {<<d, Address(d)>>}
    /\ UNCHANGED <<cand, outcomes, wire, results>> /\ UNCHANGED shared

Logs(d) ==
    /\ at[d] = "log"
    /\ outcomes' = [outcomes EXCEPT ![d] = Append(@, pend[d].outcome)]
    /\ at' = [at EXCEPT ![d] = "done"]
    /\ UNCHANGED <<cand, pend, wire, open, results>> /\ UNCHANGED shared

\* A handler that reports the error to stderr and goes on.
OutcomeSwallowed(d) ==
    /\ at[d] = "log"
    /\ at' = [at EXCEPT ![d] = "done"]
    /\ UNCHANGED <<cand, pend, outcomes, wire, open, results>> /\ UNCHANGED shared

OutcomeUnwritten(d) ==
    /\ at[d] = "log"
    /\ at' = [at EXCEPT ![d] = "raised"]
    /\ UNCHANGED <<cand, pend, outcomes, wire, open, results>> /\ UNCHANGED shared

\* A session left behind goes with the exception that holds it.
CollectsGarbage(d, host) ==
    /\ <<d, host>> \in open
    /\ at[d] \notin {"shell", "prompt", "ready", "sent"} \/ Address(d) # host
    /\ open' = open \ {<<d, host>>}
    /\ UNCHANGED <<at, cand, pend, outcomes, wire, results>> /\ UNCHANGED shared

-----------------------------------------------------------------------------
\* as_completed: an exception, also of saving, is one device's, not the call's.
Gathers(d) ==
    /\ main = "pool" /\ call.tool = "group"
    /\ at[d] \in {"done", "raised"}
    /\ at' = [at EXCEPT ![d] = "gathered"]
    /\ IF at[d] = "raised" THEN results' = [results EXCEPT ![d] = "failed"]
       ELSE IF call.save
            THEN \E kept \in {"saved", "failed"} : results' = [results EXCEPT ![d] = kept]
            ELSE results' = [results EXCEPT ![d] = pend[d].answer]
    /\ UNCHANGED <<cand, pend, outcomes, wire, open>> /\ UNCHANGED shared

\* It does not wait for the devices whose collection a thread has begun.
GroupReturnsEarly ==
    /\ main = "pool" /\ call.tool = "group"
    /\ \A d \in Names : at[d] # "queued"
    /\ Ends("results")
    /\ UNCHANGED <<inventory, calls, call, attempt>> /\ UNCHANGED perDevice

GroupReturns ==
    /\ main = "pool" /\ call.tool = "group"
    /\ \A d \in Names : at[d] \in {"none", "gathered"}
    /\ Ends("results")
    /\ UNCHANGED <<inventory, calls, call, attempt>> /\ UNCHANGED perDevice

SingleReturns(d) ==
    /\ main = "pool" /\ call.tool = "single" /\ d = call.target
    /\ at[d] \in {"done", "raised"}
    /\ IF at[d] = "raised" THEN Ends("raised") /\ UNCHANGED results
       ELSE Ends("results") /\ results' = [results EXCEPT ![d] = pend[d].answer]
    /\ UNCHANGED <<inventory, calls, call, attempt, at, cand, pend, outcomes, wire, open>>

Invokes ==
    \E command \in Commands :
        \/ \E target \in Names : Invoke("single", target, command, FALSE)
        \/ \E target \in Targets, save \in BOOLEAN : Invoke("group", target, command, save)
ServerStep ==
    \/ AttemptUnwritten \/ Denies \/ Allows
    \/ ListsNames \/ InventoryFails \/ GroupReturns
\* All that a device's thread does but to ask for the shell.
Proceeds(d) ==
    \/ Takes(d) \/ LooksUp(d) \/ LookupFails(d)
    \/ Connects(d) \/ AuthFails(d) \/ ConnectFails(d)
    \/ Unpages(d) \/ PromptFails(d) \/ Sends(d) \/ SendFails(d) \/ Reads(d) \/ Finishes(d)
    \/ Logs(d) \/ OutcomeUnwritten(d) \/ Gathers(d) \/ SingleReturns(d)
DeviceStep(d) == Proceeds(d) \/ ShellFails(d) \/ ShellOpens(d)

Next ==
    \/ Invokes \/ Informs
    \/ ServerStep
    \/ \E d \in Names : DeviceStep(d)
    \/ \E session \in open : CollectsGarbage(session[1], session[2])

\* Every thread goes on, and every wait of the SSH client has a timeout but the one
\* for the shell, which is begun before a timeout is set.
Fairness == WF_vars(ServerStep) /\ \A d \in Names : WF_vars(Proceeds(d))
Spec == Init /\ [][Next]_vars /\ Fairness

-----------------------------------------------------------------------------
Stages == {"none", "queued", "lookup", "connect", "shell", "prompt", "ready", "sent",
           "log", "done", "raised", "gathered"}
Outcomes == {"INVENTORY_ERROR", "AUTH_FAILURE", "ERROR", "SUCCESS"}
Answers == {"output", "error"}
Pends == [outcome : Outcomes \cup {"none"}, answer : Answers \cup {"none"}]

\* Each part of the state is of its kind.
TypeOK ==
    /\ calls \in Nat
    /\ main \in {"idle", "validated", "names", "pool"}
    /\ attempt \in {"none", "ALLOWED", "DENIED"}
    /\ at \in [Names -> Stages]
    /\ cand \in [Names -> Nat \ {0}]
    /\ pend \in [Names -> Pends]
    /\ \A d \in Names : at[d] = "log" => pend[d].outcome \in Outcomes
    /\ outcomes \in [Names -> Seq(Outcomes)]
    /\ wire \in [Names -> Seq((Nat \ {0}) \X Nat)]
    /\ Pieces \in Nat
    /\ results \in [Names -> Answers \cup {"none", "saved", "failed"}]

\* What is sent next: the next line to the same address, or the pagers to a later.
Follows(p, q) == q = <<p[1], p[2] + 1>> \/ (q[1] > p[1] /\ q[2] = 0)

InOrder(sent, pieces) ==
    /\ sent # <<>> => Head(sent)[2] = 0
    /\ \A i \in 1..(Len(sent) - 1) :
           Follows(sent[i], sent[i + 1]) /\ (sent[i][2] = 0 \/ sent[i][2] < pieces)

\* A device is sent nothing but under the record that allowed the call: to one
\* address after another the pagers and then the command, piece by piece from its
\* first, and nothing more once an address was sent the whole of it.
RunsRecorded ==
    \A d \in Names :
        InOrder(wire[d], Pieces) /\ (wire[d] # <<>> => attempt = "ALLOWED")

\* What is handed back or saved has its one record, and the record is a success if
\* and only if the last address was sent the whole command (the pagers, where it has
\* no piece); the same command in part, at that address or before, is in no record.
AnswersRecorded ==
    \A d \in Names :
        /\ Len(outcomes[d]) <= 1
        /\ results[d] \in Answers \cup {"saved"} => outcomes[d] = <<pend[d].outcome>>
        /\ outcomes[d] = <<"SUCCESS">> => wire[d] # <<>> /\ Ran(d) = Pieces
        /\ outcomes[d] # <<>> /\ Pieces > 0 /\ Ran(d) = Pieces => outcomes[d] = <<"SUCCESS">>

\* What of the fail-closed policy of audit.py:16-18 holds, over every failure to
\* write, to log in and to send, and every interleaving of the pool.
FailsClosed == RunsRecorded /\ AnswersRecorded

\* How far a call is, and the collection of one of its devices: by its phase, then
\* by the address it tries, then by the steps at that address.
MainPlace ==
    CASE main = "validated" -> 0 [] main = "names" -> 1 [] main = "pool" -> 2 [] OTHER -> 3
Phase(stage) ==
    CASE stage = "none" -> 0 [] stage = "queued" -> 1 [] stage = "lookup" -> 2
      [] stage \in {"connect", "shell", "prompt", "ready", "sent"} -> 3
      [] stage = "log" -> 4 [] stage = "gathered" -> 6 [] OTHER -> 5
Hosts(d) == Len(ConnectCandidates(d))
Place(d) ==
    CASE at[d] = "connect" -> 0 [] at[d] = "shell" -> 1 [] at[d] = "prompt" -> 2
      [] at[d] = "sent" -> 2 * Ran(d) + 2 [] at[d] = "ready" -> 2 * Ran(d) + 3 [] OTHER -> 0
Further(d) ==
    \/ Phase(at'[d]) > Phase(at[d])
    \/ /\ Phase(at[d]) = 3 /\ Phase(at'[d]) = 3
       /\ \/ cand'[d] > cand[d]
          \/ cand'[d] = cand[d] /\ Place(d)' > Place(d)

\* Garbage is collected: a session is closed, and nothing else happens.
Tidies ==
    /\ open' \subseteq open /\ open' # open
    /\ UNCHANGED <<inventory, calls, at, cand, pend, outcomes, wire, results>>
    /\ UNCHANGED <<main, call, attempt, answer>>

\* No step of a call is one back: the call moves on, or one device does and the
\* others keep their places, however the addresses fail and in whatever order.
CallsAdvance ==
    [][main # "idle" =>
           \/ MainPlace' > MainPlace
           \/ /\ MainPlace' = MainPlace
              /\ \E d \in Names :
                     /\ Further(d)
                     /\ \A e \in Names \ {d} :
                            at'[e] = at[e] /\ cand'[e] = cand[e] /\ wire'[e] = wire[e]
           \/ Tidies]_vars

\* The devices of which an answer, or the path of a saved one, was handed back.
Given == {d \in Names : results[d] \in Answers \cup {"saved"}}
Log == INSTANCE AuditedCall
         WITH busy <- (main # "idle"), verdict <- attempt, size <- Pieces,
              touched <- {d \in Names : wire[d] # <<>>}, ran <- [d \in Names |-> Ran(d)],
              records <- outcomes, given <- Given

\* A call keeps to its record step for step, module AuditedCall, whatever fails
\* to connect, to be sent or to be written; a call that has ended left no device at
\* work.
KeepsLog == Log!Spec

\* A call returns, however few threads there are, unless an address lets a session
\* in and then never answers the request for a shell (ssh_client.py:263).
EveryCallReturns ==
    (\A d \in Names : []<>(at[d] # "shell")) => (main # "idle" ~> main = "idle")
=============================================================================
