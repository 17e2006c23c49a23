------------------------------ MODULE DroneAgent ------------------------------
(***************************************************************************)
(* drone_core's queue of vehicle commands to PX4 (class DroneAgent).       *)
(*                                                                         *)
(* drone_core spins one single-threaded executor: a service handler that   *)
(* sends a command, the arrival of a reply and the reply timeout are one   *)
(* step each, with the callbacks they call and the commands that these     *)
(* callbacks send in turn.  PX4 and the link to it are external: a request *)
(* may be answered at any time, late, or never, and in any order.          *)
(*                                                                         *)
(* Commands are numbered in the order they are asked for.  Which command   *)
(* it is does not matter to the queue; what its sender wants to hear does: *)
(*   plain   sendVehicleCommand: silent if PX4 does not answer             *)
(*   full    sendVehicleCommandFull: hears RESULT_NO_REPLY                 *)
(*   ack     sendCommand: hears an Ack, of a missing reply too             *)
(***************************************************************************)
EXTENDS Integers, Sequences

CONSTANTS MaxCommands    (* bound: commands asked for in a behaviour         *)

ASSUME MaxCommandsAssumption == MaxCommands \in Nat

VARIABLES
  agent,   (* the members of DroneAgent, see Agents                         *)
  kinds,   (* the kind of every command asked for so far                    *)
  told,    (* what each command's callback was called with, and for which   *)
           (* request                                                       *)
  wire     (* requests PX4 has not answered                                 *)

vars == <<agent, kinds, told, wire>>

Commands == 1 .. MaxCommands
Kinds == {"plain", "full", "ack"}
Outcomes == {"accepted", "refused", "noReply"}

(* sent: the commands of requests 1, 2, ...; its length is command_seq_.   *)
(* held: the command of timeout_callback_ and its two siblings, timer: the *)
(* request command_timeout_timer_ was made for; 0 when they are null.      *)
Agents == [queue : Seq(Commands), inFlight : BOOLEAN, sent : Seq(Commands),
           held : Commands \cup {0}, timer : Commands \cup {0}]

Init ==
  /\ agent = [queue |-> <<>>, inFlight |-> FALSE, sent |-> <<>>, held |-> 0, timer |-> 0]
  /\ kinds = <<>> /\ told = [t \in Commands |-> <<>>] /\ wire = {}

-----------------------------------------------------------------------------
(* send_next_command, finish_command and the body all three send methods   *)
(* share, as functions of the agent.                                       *)

SendOut(ag) ==
  [queue |-> Tail(ag.queue), inFlight |-> TRUE, sent |-> Append(ag.sent, Head(ag.queue)),
   held |-> Head(ag.queue), timer |-> Len(ag.sent) + 1]

SendNextCounts(ag) == IF ag.queue # <<>> THEN SendOut(ag)
                      ELSE [ag EXCEPT !.inFlight = FALSE, !.sent = Append(@, 0)]
SendNextUntimed(ag) == IF ag.queue = <<>> THEN [ag EXCEPT !.inFlight = FALSE]
                       ELSE [SendOut(ag) EXCEPT !.timer = ag.timer]
SendNext(ag) == IF ag.queue = <<>> THEN [ag EXCEPT !.inFlight = FALSE] ELSE SendOut(ag)

(* The request is the last one sent and still awaited.                     *)
CurrentIfAny(ag, s) == ag.inFlight
Current(ag, s) == s = Len(ag.sent) /\ ag.inFlight

Finish(ag, s) ==
  IF Current(ag, s) THEN SendNext([ag EXCEPT !.timer = 0, !.inFlight = FALSE]) ELSE ag

PushFront(ag, t) == LET q == [ag EXCEPT !.queue = <<t>> \o @]
                    IN IF ag.inFlight THEN q ELSE SendNext(q)
PushOnly(ag, t) == [ag EXCEPT !.queue = Append(@, t)]
Push(ag, t) == LET q == [ag EXCEPT !.queue = Append(@, t)]
               IN IF ag.inFlight THEN q ELSE SendNext(q)

(* The timeout callbacks are set to null.                                  *)
KeepsHeld(ag) == ag
DropHeld(ag) == [ag EXCEPT !.held = 0]

(* The command whose callbacks the timeout calls: read before finish.      *)
NotifiedAfter(ag, s) == Finish(ag, s).held
Notified(ag, s) == ag.held

-----------------------------------------------------------------------------
(* A callback may send commands itself: more is what it sends.             *)
FollowUps == {<<>>} \cup {<<k>> : k \in Kinds}

Room(more) == Len(kinds) + Len(more) <= MaxCommands

PushAll(ag, more) == IF more = <<>> THEN ag ELSE Push(ag, Len(kinds) + 1)

Tell(t, outcome, s) == told' = [told EXCEPT ![t] = Append(@, [outcome |-> outcome, of |-> s])]

(* Requests that went out in this step; s was answered.                    *)
Wire(s) == wire' = (wire \ {s}) \cup (Len(agent.sent) + 1 .. Len(agent'.sent))

(* A handler or timer of drone_core sends a command.                       *)
Send(kind) ==
  /\ Room(<<kind>>)
  /\ kinds' = Append(kinds, kind)
  /\ agent' = Push(agent, Len(kinds) + 1)
  /\ Wire(0)
  /\ UNCHANGED told

LateReplyTells(s) ==
  /\ s \in wire /\ ~Current(agent, s)
  /\ wire' = wire \ {s}
  /\ Tell(agent.sent[s], "refused", s)
  /\ UNCHANGED <<agent, kinds>>

(* The reply to a request that timed out.                                  *)
LateReply(s) ==
  /\ s \in wire /\ ~Current(agent, s)
  /\ wire' = wire \ {s}
  /\ UNCHANGED <<agent, kinds, told>>

(* The callbacks run first, with the command still in flight: what they    *)
(* send is queued.  A reply for another command id is no reply in an Ack.  *)
Reply(s) ==
  /\ s \in wire /\ Current(agent, s)
  /\ \E result \in {"accepted", "refused"}, sameId \in BOOLEAN, more \in FollowUps :
       LET t == agent.sent[s]
       IN /\ Room(more)
          /\ Tell(t, IF kinds[t] = "ack" /\ ~sameId THEN "noReply" ELSE result, s)
          /\ kinds' = kinds \o more
          /\ agent' = Finish(PushAll(DropHeld(agent), more), s)
  /\ Wire(s)

(* COMMAND_REPLY_TIMEOUT: the next command goes out first, then the        *)
(* callbacks run.  If vehicle_status shows the effect of the command, it   *)
(* counts as accepted; otherwise a plain sender hears nothing.             *)
TimerFires ==
  /\ agent.timer # 0 /\ Current(agent, agent.timer)
  /\ \E effectSeen \in BOOLEAN, more \in FollowUps :
       LET s == agent.timer
           t == Notified(agent, s)
           tells == effectSeen \/ kinds[t] # "plain"
       IN /\ Room(more) /\ (tells \/ more = <<>>)
          /\ IF tells THEN Tell(t, IF effectSeen THEN "accepted" ELSE "noReply", s)
             ELSE UNCHANGED told
          /\ kinds' = kinds \o more
          /\ agent' = PushAll(Finish(DropHeld(agent), s), more)
  /\ Wire(0)

Next ==
  \/ \E kind \in Kinds : Send(kind)
  \/ \E s \in Commands : LateReply(s) \/ Reply(s)
  \/ TimerFires

Spec == Init /\ [][Next]_vars

(* The executor runs a timer that is due; PX4 owes nothing.                *)
FairSpec == Spec /\ WF_vars(TimerFires)
-----------------------------------------------------------------------------
(* How many commands are over: those sent, but the one in flight.          *)
Over(ag) == IF ag.inFlight THEN Len(ag.sent) - 1 ELSE Len(ag.sent)

(* To its senders the agent is a queue of commands.                        *)
Queue == INSTANCE CommandQueue
           WITH Silent <- {"plain"}, asked <- kinds, over <- Over(agent),
                heard <- [t \in Commands |-> [i \in 1 .. Len(told[t]) |-> told[t][i].outcome]]
QueueSpec == Queue!Spec

Asked(t) == t <= Len(kinds)
InFlight(t) == agent.inFlight /\ t = agent.sent[Len(agent.sent)]
Closed(t) == (\E s \in 1 .. Len(agent.sent) : agent.sent[s] = t) /\ ~InFlight(t)

TypeOK ==
  /\ agent \in Agents
  /\ kinds \in Seq(Kinds) /\ Len(kinds) <= MaxCommands
  /\ told \in [Commands -> Seq([outcome : Outcomes, of : Commands])]
  /\ wire \in SUBSET Commands

(* Commands reach PX4 in the order they were asked for, none twice, none   *)
(* skipped: those sent, then those queued, are all of them in order.       *)
InOrder ==
  /\ Len(agent.sent) + Len(agent.queue) = Len(kinds)
  /\ \A i \in 1 .. Len(agent.sent) : agent.sent[i] = i
  /\ \A i \in 1 .. Len(agent.queue) : agent.queue[i] = Len(agent.sent) + i

(* No command waits while none is in flight: nothing but a later command   *)
(* would send it.                                                          *)
NoStall == ~agent.inFlight => agent.queue = <<>>

(* The timeout and its callbacks are those of the command in flight: one   *)
(* that has a timer is never left without, and none outlives its command.  *)
TimerOfInFlight ==
  IF agent.inFlight THEN Len(agent.sent) > 0 /\ agent.timer = Len(agent.sent)
                         /\ agent.held = agent.sent[Len(agent.sent)]
  ELSE agent.timer = 0 /\ agent.held = 0

(* A callback is called once, when its command is over; only a plain       *)
(* sender may never hear of it.  A late reply changes nothing.             *)
ToldOnce ==
  \A t \in Commands :
    /\ Len(told[t]) <= 1
    /\ told[t] # <<>> => Closed(t)
    /\ Closed(t) /\ kinds[t] # "plain" => told[t] # <<>>

(* What a callback hears is about its own request.                         *)
ToldOfItself ==
  \A t \in Commands : \A i \in 1 .. Len(told[t]) :
    told[t][i].of <= Len(agent.sent) /\ agent.sent[told[t][i].of] = t

(* Every command is sent and gets over, though PX4 may never answer.       *)
EveryCommandCloses == \A t \in Commands : Asked(t) ~> Closed(t)
=============================================================================
