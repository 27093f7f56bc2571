---------------------------- MODULE NotifyBridge ----------------------------
(***************************************************************************)
(* The notify bridge: senders (src/codex_dispatch/notify_client.py and     *)
(* stop_hook_client.py), each with one event and one connection, and the   *)
(* server that answers them (notify_server.py), with its bounded memory of *)
(* the events it has handled.                                              *)
(*                                                                         *)
(* A sender is gone after 0.75 s whatever the server does; the server goes *)
(* on with the connection.  The handler is what main.py passes: it takes   *)
(* any time, returns or raises.  What it does is in JobManager,            *)
(* SessionMapping and Delivery.                                            *)
(***************************************************************************)
EXTENDS Integers, Sequences, FiniteSets, SequencesExt

CONSTANTS
    Senders,
    Events,
    Bad,          \* a payload the server does not accept
    Contents,     \* bound: what the senders may have to send
    DedupeLimit,  \* dedupe_limit
    MaxStarts     \* bound: how often the server is started

ASSUME BridgeAssumption ==
    /\ DedupeLimit \in Nat \ {0} /\ MaxStarts \in Nat
    /\ Bad \notin Events /\ Contents \subseteq [Senders -> Events \cup {Bad}]

VARIABLES
    server,   \* "down", "up", "stopping"
    starts,   \* ghost
    seen,     \* _seen: the events remembered, the oldest first
    content,  \* what each sender has to send
    sender,   \* "new", "waiting" or its exit code
    task,     \* the server's end of the connection: "none", "reading", "handling", "closed"
    answer,   \* what was written back
    handled,  \* ghost: events whose handler has returned
    since     \* ghost: for each event remembered, the others remembered after it

bridgeVars == <<server, starts, seen, content, sender, task, answer, handled, since>>
serverVars == <<server, starts, seen>>
ghosts == <<handled, since>>

\* The exit codes 0, 65, 69, 70 and 1.
Codes == {"ok", "invalid", "unavailable", "protocol", "traceback"}
Answers == {"none", "ACK", "DUPLICATE", "ERROR", "EOF"}
Open == {"reading", "handling"}

BridgeTypeOK ==
    /\ server \in {"down", "up", "stopping"} /\ starts \in 0..MaxStarts
    /\ seen \in Seq(Events) /\ Len(seen) <= DedupeLimit /\ IsInjective(seen)
    /\ content \in [Senders -> Events \cup {Bad}]
    /\ sender \in [Senders -> {"new", "waiting"} \cup Codes]
    /\ task \in [Senders -> {"none", "closed"} \cup Open]
    /\ answer \in [Senders -> Answers]
    /\ handled \subseteq Events
    /\ DOMAIN since \subseteq Events /\ \A e \in DOMAIN since : since[e] \subseteq Events

BridgeInit ==
    /\ server = "down" /\ starts = 0 /\ seen = <<>>
    /\ content \in Contents
    /\ sender = [c \in Senders |-> "new"]
    /\ task = [c \in Senders |-> "none"]
    /\ answer = [c \in Senders |-> "none"]
    /\ handled = {} /\ since = <<>>

-----------------------------------------------------------------------------
(* The sender.                                                              *)

\* send_payload checks what it can, connects and sends the frame.  The Stop hook catches
\* its own complaints only: a payload that send_payload refuses ends it with a traceback.
Send(c) ==
    /\ sender[c] = "new"
    /\ \/ /\ content[c] = Bad /\ UNCHANGED task
          /\ \E code \in {"invalid", "traceback"} : sender' = [sender EXCEPT ![c] = code]
       \/ /\ server # "up" /\ sender' = [sender EXCEPT ![c] = "unavailable"] /\ UNCHANGED task
       \/ /\ server = "up" /\ sender' = [sender EXCEPT ![c] = "waiting"]
          /\ task' = [task EXCEPT ![c] = "reading"]
    /\ UNCHANGED <<serverVars, content, answer, ghosts>>

\* main: the empty answer is a ConnectionError, which is an OSError and caught as one,
\* where docs/notify-bridge.md:99 has 70 for every failure of the protocol.
ExitCode(a) == CASE a \in {"ACK", "DUPLICATE"} -> "ok"
                 [] a = "ERROR" -> "protocol"
                 [] a = "EOF" -> "unavailable"

Receive(c) == /\ sender[c] = "waiting" /\ answer[c] # "none"
              /\ sender' = [sender EXCEPT ![c] = ExitCode(answer[c])]
              /\ UNCHANGED <<serverVars, content, task, answer, ghosts>>

\* The timeout of the socket, also when the answer is on its way.  A sender that Codex
\* kills is gone as well.
GivesUp(c) == sender[c] = "waiting"

TimeOut(c) == /\ GivesUp(c)
              /\ sender' = [sender EXCEPT ![c] = "unavailable"]
              /\ UNCHANGED <<serverVars, content, task, answer, ghosts>>

-----------------------------------------------------------------------------
(* The server.                                                              *)

Reply(c, a) == /\ answer' = [answer EXCEPT ![c] = a]
               /\ task' = [task EXCEPT ![c] = "closed"]

\* The frame of a sender that has gone may be incomplete.
Incomplete(c) == task[c] = "reading" /\ sender[c] # "waiting"

\* _read_frame and parse_notify_payload fail, or the event is known, or its handler is
\* started.
ReadFrame(c) ==
    /\ task[c] = "reading"
    /\ \/ content[c] = Bad /\ Reply(c, "ERROR")
       \/ content[c] \in ToSet(seen) /\ Reply(c, "DUPLICATE")
       \/ /\ content[c] \in Events \ ToSet(seen)
          /\ task' = [task EXCEPT ![c] = "handling"] /\ UNCHANGED answer
    /\ UNCHANGED <<serverVars, content, sender, ghosts>>

ReadTimeout(c) == /\ Incomplete(c) /\ Reply(c, "ERROR")
                  /\ UNCHANGED <<serverVars, content, sender, ghosts>>

\* What is remembered but for event e.
Without(e) == IF e \notin ToSet(seen) THEN seen
              ELSE RemoveAt(seen, CHOOSE i \in DOMAIN seen : seen[i] = e)

\* mutant: an event remembered again keeps its place
KeepPlace(e) == IF e \in ToSet(seen) THEN seen
                ELSE LET s == Append(seen, e)
                     IN  IF Len(s) > DedupeLimit THEN Tail(s) ELSE s

\* mutant: one too many
TooMany(e) == LET s == Append(Without(e), e)
              IN  IF Len(s) > DedupeLimit + 1 THEN Tail(s) ELSE s

\* _remember
Remember(e) == LET s == Append(Without(e), e)
               IN  IF Len(s) > DedupeLimit THEN Tail(s) ELSE s

HandlerReturns(c) ==
    /\ task[c] = "handling"
    /\ seen' = Remember(content[c])
    /\ handled' = handled \cup {content[c]}
    /\ since' = [e \in DOMAIN since \cup {content[c]} |->
                    IF e = content[c] THEN {} ELSE since[e] \cup {content[c]}]
    /\ Reply(c, "ACK")
    /\ UNCHANGED <<server, starts, content, sender>>

\* mutant: remembered before its handler is called, so also when it raises
SeenAfterFailure(c) == Remember(content[c])

\* What is remembered of an event whose handler has raised.
Forgotten(c) == seen

HandlerRaises(c) ==
    /\ task[c] = "handling"
    /\ seen' = Forgotten(c)
    /\ Reply(c, "ERROR")
    /\ UNCHANGED <<server, starts, content, sender, ghosts>>

Start == /\ server = "down" /\ starts < MaxStarts
         /\ server' = "up" /\ starts' = starts + 1 /\ seen' = <<>> /\ since' = <<>>
         /\ UNCHANGED <<content, sender, task, answer, handled>>

\* close: no new connections; those that are open go on.
Close == /\ server = "up" /\ server' = "stopping"
         /\ UNCHANGED <<starts, seen, content, sender, task, answer, ghosts>>

\* The end of the process, with what is open.
Exit == /\ server # "down" /\ server' = "down"
        /\ task' = [c \in Senders |-> IF task[c] \in Open THEN "closed" ELSE task[c]]
        /\ answer' = [c \in Senders |-> IF task[c] \in Open THEN "EOF" ELSE answer[c]]
        /\ UNCHANGED <<starts, seen, content, sender, ghosts>>

-----------------------------------------------------------------------------
Connection(c) == ReadFrame(c) \/ ReadTimeout(c) \/ HandlerReturns(c) \/ HandlerRaises(c)

NothingLeft == /\ starts = MaxStarts /\ server = "down"
               /\ \A c \in Senders : sender[c] \in Codes
               /\ UNCHANGED bridgeVars

BridgeNext == \/ Start \/ Close \/ Exit \/ NothingLeft
              \/ \E c \in Senders : \/ Send(c) \/ Receive(c) \/ TimeOut(c)
                                    \/ Connection(c)

BridgeSpec == BridgeInit /\ [][BridgeNext]_bridgeVars

\* The clock of a sender runs whatever the server does; a handler ends (its requests
\* have timeouts); a frame that does not come is given up.
BridgeFairness ==
    \A c \in Senders : /\ WF_bridgeVars(Receive(c) \/ TimeOut(c))
                       /\ WF_bridgeVars(HandlerReturns(c) \/ HandlerRaises(c))
                       /\ WF_bridgeVars(ReadTimeout(c))

-----------------------------------------------------------------------------
(* Properties.                                                              *)

\* A sender told ACK or DUPLICATE may forget its event: the handler of that event, in
\* this connection or another, has returned.  An event whose handler raised is never
\* taken for a duplicate.
AckMeansHandled == \A c \in Senders : sender[c] = "ok" => content[c] \in handled

\* The memory is the Limit latest events: one that was handled again in an overlapping
\* connection counts from its last time.
SeenIsRecent ==
    server # "down" =>
        \A e \in DOMAIN since : Cardinality(since[e]) < DedupeLimit => e \in ToSet(seen)

\* No sender hangs, so Codex does not: its callback ends whatever the server does.  And
\* one that goes away in the middle of its frame does not keep a connection open.
\* (Each sends once, so nobody waits for ever if in the end nobody waits.)
SendersEnd == <>[](\A c \in Senders : sender[c] # "waiting" /\ task[c] # "reading")
=============================================================================
