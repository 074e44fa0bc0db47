---------------------------- MODULE MotionClient ----------------------------
(***************************************************************************)
(* The operator's window on the motion controller.  Everything but the     *)
(* fire client's sender threads runs on the Tk thread, one callback at a   *)
(* time; a message box runs the event loop inside the callback that shows  *)
(* it, so that the poll and queued callbacks still run, but no click does. *)
(***************************************************************************)
EXTENDS MotionSimulator

CONSTANTS MaxCommands, MaxFires, MaxFaults   \* bounds

VARIABLES
    sock, conns,   \* TCPClient: its connection or 0, and those opened so far
    buf,           \* its buffer, which outlives a connection
    connected,     \* App.is_connected
    job,           \* App._polling_job: a callback's id, or 0
    scheduled,     \* the polls the event loop will call
    tk,            \* the callback that runs, and the request it waits for
    box,           \* the message box that is open
    shown,         \* per gauge, whose answer it shows
    commands, todo, said,   \* the commands given; the last one's steps and outcome
    sending, text,          \* UDPFireClient: its flag and button
    asleep, awake, failing, \* its threads before the flag, in a send, and failed
    stops,                  \* the stops that failed ones have queued
    closed, faults

tcp == <<sock, conns, buf>>
poll == <<connected, job, scheduled, shown>>
order == <<commands, todo, said>>
fire == <<sending, text, asleep, awake, failing, stops>>
clientVars == <<tcp, poll, tk, box, order, fire, closed, faults>>
vars == <<simVars, clientVars>>

Idle == [at |-> "idle", k |-> 0, sent |-> FALSE]
Running(at, k) == [at |-> at, k |-> k, sent |-> FALSE]
Soft == {"cmer"}     \* a gauge whose failure poll_for_status does not act on
Blank == [g \in {Gauges[k] : k \in DOMAIN Gauges} |-> "---"]

TypeOK ==
    /\ SimTypeOK
    /\ sock \in 0..MaxConns /\ conns \in 0..MaxConns /\ sock <= conns
    /\ connected \in BOOLEAN /\ scheduled \subseteq 1..3 /\ job \in 0..3
    /\ box \in {"none", "cmd", "connect"} /\ said \in {"none", "success", "failed"}
    /\ sending \in BOOLEAN /\ text \in {"START", "STOP"}
    /\ {asleep, awake, failing} \subseteq 0..MaxFires /\ stops \in 0..MaxFaults

Init ==
    /\ SimInit
    /\ sock = 0 /\ conns = 0 /\ buf = <<>>
    /\ connected = FALSE /\ job = 0 /\ scheduled = {} /\ shown = Blank
    /\ tk = Idle /\ box = "none" /\ commands = 0 /\ todo = <<>> /\ said = "none"
    /\ sending = FALSE /\ text = "START" /\ asleep = 0 /\ awake = 0
    /\ failing = 0 /\ stops = 0
    /\ closed = FALSE /\ faults = 0

Fault == faults < MaxFaults /\ faults' = faults + 1
Ready == tk = Idle /\ ~closed                 \* the event loop may call back
Click == Ready /\ box = "none"

-----------------------------------------------------------------------------
(* TCPClient.disconnect: the buffer is kept. *)
CloseSock == sock' = 0 /\ wire' = <<>> /\ UNCHANGED <<conns, buf>>

(* Mutant: the job is forgotten without being cancelled. *)
StopPollingForgets == job' = 0 /\ UNCHANGED scheduled

StopPolling == scheduled' = scheduled \ {job} /\ job' = 0

(* UDPFireClient.stop_sending *)
StopSending == sending' = FALSE /\ text' = "START" /\ UNCHANGED <<asleep, awake, failing>>

(* toggle_connection's branches: what is connected is taken down... *)
Disconnect ==
    /\ StopPolling /\ StopSending /\ CloseSock
    /\ connected' = FALSE /\ shown' = Blank
    /\ UNCHANGED <<stops, axis, pending, ran>>

(* ...and otherwise a connection is made, greeted and waited for. *)
Greet ==
    /\ conns < MaxConns /\ conns' = conns + 1 /\ sock' = conns + 1 /\ wire' = <<>>
    /\ pending' = [pending EXCEPT ![conns + 1] = {[op |-> "greet", arg |-> 0, of |-> 0, step |-> 0]}]
    /\ tk' = [at |-> "connect", k |-> 0, sent |-> TRUE] /\ box' = "none"
    /\ UNCHANGED <<buf, poll, fire, axis, ran, faults>>

Refused ==
    /\ Fault /\ sock' = 0 /\ box' = "connect" /\ tk' = Idle
    /\ UNCHANGED <<conns, buf, poll, fire, simVars>>

ToggleConnection ==
    \/ connected /\ Disconnect /\ tk' = Idle /\ box' = "none" /\ UNCHANGED faults
    \/ ~connected /\ (Greet \/ Refused)

ClickConnect == Click /\ ToggleConnection /\ UNCHANGED <<order, closed>>

(* connect gets its ACK, and start_polling polls at once. *)
Connected ==
    /\ tk.at = "connect" /\ wire = Ack /\ wire' = <<>>
    /\ connected' = TRUE /\ scheduled' = scheduled \ {job} /\ tk' = Running("poll", 1)
    /\ UNCHANGED <<tcp, job, shown, box, order, fire, closed, faults, axis, pending, ran>>

(* It does not: it times out, or recv returns what is no ACK, the empty    *)
(* answer of a peer that closed, and then the socket stays set.            *)
ConnectFails ==
    /\ tk.at = "connect" /\ wire = <<>> /\ Fault /\ box' = "connect" /\ tk' = Idle
    /\ \/ CloseSock /\ UNCHANGED pending
       \/ pending' = [pending EXCEPT ![sock] = {}] /\ UNCHANGED <<tcp, wire>>
    /\ UNCHANGED <<poll, order, fire, closed, axis, ran>>

-----------------------------------------------------------------------------
(* send_command and request_data send their packet. *)
Send ==
    LET step == todo[tk.k]
        cmd  == IF tk.at = "poll" THEN [op |-> "get", arg |-> Gauges[tk.k], of |-> 0, step |-> 0]
                ELSE [op |-> step.op, arg |-> step.arg, of |-> commands, step |-> tk.k]
    IN  /\ tk.at \in {"poll", "cmd"} /\ ~tk.sent /\ sock # 0
        /\ pending' = [pending EXCEPT ![sock] = {cmd}] /\ tk' = [tk EXCEPT !.sent = TRUE]
        /\ UNCHANGED <<tcp, poll, box, order, fire, closed, faults, axis, wire, ran>>

PollFires(i) ==
    /\ Ready /\ i \in scheduled /\ scheduled' = scheduled \ {i}
    /\ tk' = IF connected THEN Running("poll", 1) ELSE Idle
    /\ UNCHANGED <<tcp, connected, job, shown, box, order, fire, closed, faults, simVars>>

(* On to the next gauge, or to the next poll. *)
PollNext ==
    IF tk.k < Len(Gauges)
    THEN tk' = Running("poll", tk.k + 1) /\ UNCHANGED <<job, scheduled>>
    ELSE /\ tk' = Idle /\ job' = Min((1..3) \ scheduled)
         /\ scheduled' = scheduled \cup {job'}

(* request_data reads some of the bytes there are, until a packet is       *)
(* whole.  What the packet answers is not looked at.                       *)
Receive(n) ==
    LET p == Parse(buf \o SubSeq(wire, 1, n))
    IN  /\ tk.at = "poll" /\ tk.sent /\ n \in 1..Len(wire)
        /\ buf' = p.rest /\ wire' = SubSeq(wire, n + 1, Len(wire))
        /\ IF p.packet = {} THEN UNCHANGED <<tk, job, scheduled, shown>>
           ELSE /\ \E g \in p.packet : shown' = [shown EXCEPT ![Gauges[tk.k]] = g]
                /\ PollNext
        /\ UNCHANGED <<sock, conns, connected, box, order, fire, closed, faults, axis, pending, ran>>

(* Mutant: a request that times out leaves the socket open. *)
PollTimesOutOpen ==
    /\ tk.at = "poll" /\ tk.sent /\ Fault /\ Gauges[tk.k] \in Soft /\ PollNext
    /\ UNCHANGED <<tcp, wire, connected, shown, box, order, fire, closed, axis, pending, ran>>

(* request_data gives up: the socket is closed, and the poll disconnects,  *)
(* but for a gauge whose failure it lets pass.                             *)
PollTimesOut ==
    /\ tk.at = "poll" /\ tk.sent /\ Fault
    /\ IF Gauges[tk.k] \in Soft
       THEN CloseSock /\ PollNext /\ UNCHANGED <<connected, shown, fire, axis, pending, ran>>
       ELSE Disconnect /\ tk' = Idle
    /\ UNCHANGED <<box, order, closed>>

PollWithoutSock ==
    /\ tk.at = "poll" /\ ~tk.sent /\ sock = 0
    /\ IF Gauges[tk.k] \in Soft
       THEN PollNext /\ UNCHANGED <<tcp, wire, connected, shown, fire, axis, pending, ran>>
       ELSE Disconnect /\ tk' = Idle
    /\ UNCHANGED <<box, order, closed, faults>>

-----------------------------------------------------------------------------
Step(op, arg) == [op |-> op, arg |-> arg]

(* send_move_command's sequence. *)
MoveSequences ==
    {<<Step("mode", 0), Step("accel", 0), Step("speed", v), Step(mv.kind, mv.by), Step("update", 0)>> :
        v \in Speeds, mv \in Moves}

(* The single commands: an axis on or off, or a register set (LRF range,   *)
(* modes, ballistic offset, reset).                                        *)
SingleCommands == {<<Step(op, 0)>> : op \in {"on", "off", "set"}}

ClickCommand(steps) ==
    /\ Click /\ connected /\ commands < MaxCommands /\ commands' = commands + 1
    /\ todo' = steps /\ said' = "none" /\ ran' = <<>> /\ tk' = Running("cmd", 1)
    /\ UNCHANGED <<tcp, poll, box, fire, closed, faults, axis, pending, wire>>

CommandFails == said' = "failed" /\ box' = "cmd" /\ tk' = Idle

CommandAcked ==
    /\ tk.at = "cmd" /\ tk.sent /\ wire # <<>> /\ wire' = <<>>
    /\ IF wire # Ack THEN CommandFails
       ELSE IF tk.k < Len(todo) THEN tk' = Running("cmd", tk.k + 1) /\ UNCHANGED <<said, box>>
       ELSE tk' = Idle /\ said' = "success" /\ UNCHANGED box
    /\ UNCHANGED <<tcp, poll, commands, todo, fire, closed, faults, axis, pending, ran>>

(* Mutant: the sequence goes on after a step that timed out. *)
CommandTimesOutOn ==
    /\ tk.at = "cmd" /\ tk.sent /\ Fault /\ tk.k < Len(todo) /\ tk' = Running("cmd", tk.k + 1)
    /\ UNCHANGED <<tcp, poll, box, order, fire, closed, simVars>>

CommandTimesOut ==
    /\ tk.at = "cmd" /\ tk.sent /\ Fault /\ CloseSock /\ CommandFails
    /\ UNCHANGED <<poll, commands, todo, fire, closed, axis, pending, ran>>

CommandWithoutSock ==
    /\ tk.at = "cmd" /\ ~tk.sent /\ sock = 0 /\ CommandFails
    /\ UNCHANGED <<tcp, poll, commands, todo, fire, closed, faults, simVars>>

(* After the message box, a lost socket toggles the connection, whatever   *)
(* a poll made of it meanwhile.                                            *)
CloseBox ==
    /\ Ready /\ box # "none"
    /\ IF box = "cmd" /\ sock = 0 THEN ToggleConnection
       ELSE box' = "none" /\ UNCHANGED <<tcp, poll, tk, fire, faults, simVars>>
    /\ UNCHANGED <<order, closed>>

-----------------------------------------------------------------------------
(* toggle_sending: a thread of an earlier start may still be asleep, and   *)
(* goes on when it wakes to the flag set again.                            *)
ClickFire ==
    /\ Click
    /\ IF sending THEN StopSending
       ELSE /\ asleep + awake + failing < MaxFires
            /\ sending' = TRUE /\ text' = "STOP" /\ asleep' = asleep + 1 /\ UNCHANGED <<awake, failing>>
    /\ UNCHANGED <<tcp, poll, tk, box, order, stops, closed, faults, simVars>>

(* _send_loop: a new thread, or one that wakes, looks at the flag... *)
SenderWakes ==
    /\ asleep > 0 /\ asleep' = asleep - 1
    /\ awake' = IF sending THEN awake + 1 ELSE awake
    /\ UNCHANGED <<tcp, poll, tk, box, order, sending, text, failing, stops, closed, faults, simVars>>

(* ...and sends, though the flag may have been cleared, or cleared and set *)
(* again, since.                                                           *)
SenderSends ==
    /\ awake > 0 /\ awake' = awake - 1 /\ asleep' = asleep + 1
    /\ UNCHANGED <<tcp, poll, tk, box, order, sending, text, failing, stops, closed, faults, simVars>>

(* The send fails, and the thread clears the flag, whoever set it last. *)
SenderFails ==
    /\ awake > 0 /\ Fault /\ awake' = awake - 1 /\ failing' = failing + 1 /\ sending' = FALSE
    /\ UNCHANGED <<tcp, poll, tk, box, order, text, asleep, stops, closed, simVars>>

(* Mutant: the button is not told. *)
SenderTellsNobody ==
    /\ failing > 0 /\ failing' = failing - 1
    /\ UNCHANGED <<tcp, poll, tk, box, order, sending, text, asleep, awake, stops, closed, faults, simVars>>

(* Its call of winfo_exists returns, and it queues the stop that sets the  *)
(* button; there is none to queue it with once the window is destroyed.    *)
SenderTells ==
    /\ failing > 0 /\ failing' = failing - 1
    /\ stops' = IF closed THEN stops ELSE stops + 1
    /\ UNCHANGED <<tcp, poll, tk, box, order, sending, text, asleep, awake, closed, faults, simVars>>

QueuedStop ==
    /\ Ready /\ stops > 0 /\ stops' = stops - 1 /\ StopSending
    /\ UNCHANGED <<tcp, poll, tk, box, order, closed, faults, simVars>>

(* on_closing *)
CloseWindow ==
    /\ Click /\ closed' = TRUE /\ StopPolling /\ StopSending /\ CloseSock /\ stops' = 0
    /\ UNCHANGED <<connected, shown, tk, box, order, faults, axis, pending, ran>>

-----------------------------------------------------------------------------
Server(c) ==
    \/ Handle(c, c = sock, commands) /\ UNCHANGED clientVars
    \/ Fault /\ LosePacket(c) /\ UNCHANGED <<tcp, poll, tk, box, order, fire, closed>>

Physics == Update /\ UNCHANGED clientVars

Next ==
    \/ ClickConnect \/ Connected \/ ConnectFails
    \/ Send \/ (\E n \in 1..3 : Receive(n)) \/ PollTimesOut \/ PollWithoutSock
    \/ \E i \in 1..3 : PollFires(i)
    \/ \E steps \in MoveSequences \cup SingleCommands : ClickCommand(steps)
    \/ CommandAcked \/ CommandTimesOut \/ CommandWithoutSock \/ CloseBox
    \/ ClickFire \/ SenderWakes \/ SenderSends \/ SenderFails \/ SenderTells
    \/ QueuedStop \/ CloseWindow
    \/ \E c \in Conns : Server(c)
    \/ Physics

Spec == Init /\ [][Next]_vars
FairSpec == Spec /\ WF_vars(Physics)

-----------------------------------------------------------------------------
(* A gauge shows an answer to its own question, though request_data never  *)
(* looks at what it was sent, and a disconnected window shows none: every  *)
(* abandoned request closes its connection.                                *)
ShownIsOurs ==
    \A g \in DOMAIN shown : shown[g] \in {"---", g} /\ (~connected => shown[g] = "---")

(* A move is reported sent only when the controller ran every step of it,  *)
(* and it runs no step twice or out of order, though each ACK is the same  *)
(* byte and may come late (send_move_command).                             *)
MoveTold ==
    /\ \A i \in DOMAIN ran : ran[i] = i
    /\ said = "success" => Len(ran) = Len(todo)

(* There is never more than one poll to come, and a connected window at    *)
(* rest has one: it neither freezes nor polls twice (start_polling,        *)
(* stop_polling, and a poll inside a message box).                         *)
PollingAlive ==
    /\ Cardinality(scheduled) <= 1
    /\ connected /\ tk = Idle /\ ~closed => Cardinality(scheduled) = 1

(* UDPFireClient never means to fire under a button that says START, and a *)
(* button that says STOP while it does not is about to be corrected: a     *)
(* thread whose send failed has cleared the flag and has yet to queue its  *)
(* stop, or the stop is queued, however the operator has stopped, started  *)
(* or disconnected since.                                                  *)
ButtonTruthful ==
    /\ sending => text = "STOP" /\ ~closed
    /\ text = "STOP" /\ ~sending => failing + stops > 0

(* An axis that stays on with some speed ends at its target: it neither    *)
(* oscillates about it nor stops short (SimpleAxis.update).                *)
Arrives == <>[](axis.on /\ axis.speed > 0) => <>[](axis.pos = axis.target /\ axis.complete)
=============================================================================
