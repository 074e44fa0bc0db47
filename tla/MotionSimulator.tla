-------------------------- MODULE MotionSimulator --------------------------
(***************************************************************************)
(* The simulated motion controller: one axis moved by the simulation       *)
(* thread, and one thread per TCP connection that answers its client's     *)
(* packets.  A client waits for each answer, so a connection holds at most *)
(* one packet.  Bytes on the wire are the three parts of a packet that its *)
(* parser tells apart: the first start byte, the second with the header,   *)
(* and the rest with the checksum.                                         *)
(***************************************************************************)
EXTENDS Integers, Sequences, FiniteSets, FiniteSetsExt

CONSTANTS
    Gauges,       \* what a poll asks for, in its order
    Moves,        \* [kind : {"abs", "rel"}, by : Int]
    Speeds,       \* units of a tick
    Near,         \* a distance below this is no distance
    MaxConns      \* bound: connections

ASSUME MotionAssumption ==
    /\ Gauges \in Seq(Range(Gauges)) /\ Len(Gauges) > 0
    /\ Moves \subseteq [kind : {"abs", "rel"}, by : Int]
    /\ Speeds \subseteq Nat /\ Speeds # {} /\ Near \in Nat \ {0} /\ MaxConns \in Nat \ {0}

VARIABLES
    axis,        \* the SimpleAxis
    pending,     \* per connection, the packet its thread has yet to answer, as a set
    wire,        \* the bytes on their way to the client, on its open connection
    ran          \* the steps of the client's last command the server ran, in order

simVars == <<axis, pending, wire, ran>>

Conns == 1..MaxConns

SimTypeOK ==
    /\ axis \in [on : BOOLEAN, pos : Int, target : Int, speed : Nat, complete : BOOLEAN]
    /\ \A c \in Conns : Cardinality(pending[c]) <= 1

SimInit ==
    /\ axis = [on |-> FALSE, pos |-> 0, target |-> 0, speed |-> Max(Speeds), complete |-> TRUE]
    /\ pending = [c \in Conns |-> {}] /\ wire = <<>> /\ ran = <<>>

-----------------------------------------------------------------------------
Ack == <<<<"ack", "whole">>>>
Reply(g) == <<<<g, "start">>, <<g, "head">>, <<g, "tail">>>>

(* parse_packet: from the first start pair on.  A buffer without one is    *)
(* discarded, a lone first start byte too; a packet made of two fails its  *)
(* checksum and is dropped.                                                *)
Parse(buffer) ==
    LET starts == {i \in 1..Len(buffer) - 1 : buffer[i][2] = "start" /\ buffer[i + 1][2] = "head"}
        b      == IF starts = {} THEN <<>> ELSE SubSeq(buffer, Min(starts), Len(buffer))
        whole  == Len(b) >= 3 /\ b[3] = <<b[1][1], "tail">>
    IN  [packet |-> IF whole THEN {b[1][1]} ELSE {},
         rest   |-> IF Len(b) >= 3 THEN SubSeq(b, 4, Len(b)) ELSE b]

-----------------------------------------------------------------------------
Abs(n) == IF n < 0 THEN -n ELSE n

(* Mutant: a step is never cut short at the target. *)
UpdateWholeSteps ==
    LET delta == axis.target - axis.pos
    IN  /\ axis' = IF ~axis.on THEN [axis EXCEPT !.complete = TRUE]
                   ELSE IF Abs(delta) < Near
                   THEN [axis EXCEPT !.pos = axis.target, !.complete = TRUE]
                   ELSE [axis EXCEPT !.complete = FALSE,
                            !.pos = IF delta > 0 THEN @ + axis.speed ELSE @ - axis.speed]
        /\ UNCHANGED <<pending, wire, ran>>

(* SimpleAxis.update, in every turn of simulation_loop.  Nothing in the    *)
(* simulator sets is_faulted.                                              *)
Update ==
    LET delta == axis.target - axis.pos
        step  == Min({axis.speed, Abs(delta)})
    IN  /\ axis' = IF ~axis.on THEN [axis EXCEPT !.complete = TRUE]
                   ELSE IF Abs(delta) < Near
                   THEN [axis EXCEPT !.pos = axis.target, !.complete = TRUE]
                   ELSE [axis EXCEPT !.complete = FALSE,
                            !.pos = IF delta > 0 THEN @ + step ELSE @ - step]
        /\ UNCHANGED <<pending, wire, ran>>

(* The setters: what one command makes of the axis. *)
Applied(cmd) ==
    CASE cmd.op = "on"    -> [axis EXCEPT !.on = TRUE]
      [] cmd.op = "off"   -> [axis EXCEPT !.on = FALSE]
      [] cmd.op = "speed" -> [axis EXCEPT !.speed = cmd.arg]
      [] cmd.op = "abs"   -> [axis EXCEPT !.target = cmd.arg, !.complete = FALSE]
      [] cmd.op = "rel"   -> [axis EXCEPT !.target = @ + cmd.arg, !.complete = FALSE]
      [] OTHER            -> axis      \* a register some gauge shows, or nothing

(* handle_client: a packet is answered by the value it asks for, or run    *)
(* and acknowledged.  A closed connection's last packet is run all the     *)
(* same, and its answer fails.                                             *)
Handle(c, open, latest) ==
    \E cmd \in pending[c] :
        /\ pending' = [pending EXCEPT ![c] = {}]
        /\ axis' = Applied(cmd)
        /\ ran' = IF cmd.of = latest /\ latest # 0 THEN Append(ran, cmd.step) ELSE ran
        /\ wire' = IF ~open THEN wire
                   ELSE wire \o (IF cmd.op = "get" THEN Reply(cmd.arg) ELSE Ack)

(* A packet that arrives with its first byte alone is discarded. *)
LosePacket(c) ==
    /\ pending[c] # {} /\ pending' = [pending EXCEPT ![c] = {}]
    /\ UNCHANGED <<axis, wire, ran>>
=============================================================================
