--------------------------- MODULE DroneAgentProofs ---------------------------
(***************************************************************************)
(* Proofs about DroneAgent for any number of commands.                     *)
(*                                                                         *)
(* Every handler is a composition of Push, DropHeld and Finish, so the     *)
(* lemmas say what each of them does to three things: Ordered (types and   *)
(* the numbering of commands), Settled (nothing waits while the line is    *)
(* free, the timer is that of the command in flight) and Over, the number  *)
(* of commands that are over.  The steps then only count.                  *)
(***************************************************************************)
EXTENDS DroneAgent, TLAPS

Numbered(sent, queue, n) ==
  /\ n \in Nat /\ n <= MaxCommands
  /\ sent \in Seq(Commands) /\ queue \in Seq(Commands)
  /\ Len(sent) + Len(queue) = n
  /\ \A i \in 1 .. Len(sent) : sent[i] = i
  /\ \A i \in 1 .. Len(queue) : queue[i] = Len(sent) + i

Ordered(ag, n) ==
  /\ ag \in Agents
  /\ Numbered(ag.sent, ag.queue, n)
  /\ ag.inFlight => Len(ag.sent) > 0

Settled(ag) ==
  /\ ag.inFlight => ag.timer = Len(ag.sent) /\ ag.held = Len(ag.sent)
  /\ ~ag.inFlight => ag.timer = 0 /\ ag.held = 0 /\ ag.queue = <<>>

-----------------------------------------------------------------------------
LEMMA NumberedLength ==
  ASSUME NEW sent, NEW queue, NEW n, Numbered(sent, queue, n)
  PROVE  n \in Nat /\ n <= MaxCommands /\ Len(sent) \in Nat /\ Len(sent) <= n
<1>1. Len(sent) \in Nat /\ Len(queue) \in Nat /\ n \in Nat /\ n <= MaxCommands BY DEF Numbered
<1>2. Len(sent) + Len(queue) = n BY DEF Numbered
<1>. QED BY <1>1, <1>2

(* The head of the queue is the next number; sending it keeps the order.   *)
LEMMA HeadIsNext ==
  ASSUME NEW sent, NEW queue, NEW n, Numbered(sent, queue, n), queue # <<>>
  PROVE  /\ Head(queue) = Len(sent) + 1 /\ Head(queue) \in Commands
         /\ Len(Append(sent, Head(queue))) = Len(sent) + 1
         /\ Numbered(Append(sent, Head(queue)), Tail(queue), n)
<1>1. /\ sent \in Seq(Commands) /\ queue \in Seq(Commands) /\ n \in Nat
      /\ Len(sent) \in Nat /\ Len(queue) \in Nat \ {0}
  BY DEF Numbered
<1>2. Head(queue) = queue[1] /\ Head(queue) \in Commands BY <1>1
<1>3. Head(queue) = Len(sent) + 1 BY <1>1, <1>2 DEF Numbered
<1>. DEFINE new == Append(sent, Head(queue))
            rest == Tail(queue)
<1>4. /\ new \in Seq(Commands) /\ Len(new) = Len(sent) + 1
      /\ \A i \in 1 .. Len(sent) : new[i] = sent[i]
      /\ new[Len(sent) + 1] = Head(queue)
  BY <1>1, <1>2
<1>5. /\ rest \in Seq(Commands) /\ Len(rest) = Len(queue) - 1
      /\ \A i \in 1 .. Len(queue) - 1 : rest[i] = queue[i + 1]
  BY <1>1
<1>. HIDE DEF new, rest
<1>6. \A i \in 1 .. Len(new) : new[i] = i BY <1>1, <1>3, <1>4 DEF Numbered
<1>7. \A i \in 1 .. Len(rest) : rest[i] = Len(new) + i
  <2>. SUFFICES ASSUME NEW i \in 1 .. Len(rest) PROVE rest[i] = Len(new) + i
    OBVIOUS
  <2>1. i \in 1 .. Len(queue) - 1 /\ i + 1 \in 1 .. Len(queue) BY <1>1, <1>5
  <2>2. rest[i] = Len(sent) + (i + 1) BY <2>1, <1>5 DEF Numbered
  <2>. QED BY <2>1, <2>2, <1>1, <1>4
<1>8. Len(sent) + Len(queue) = n /\ n <= MaxCommands BY DEF Numbered
<1>9. Len(new) + Len(rest) = n BY <1>1, <1>4, <1>5, <1>8
<1>10. Numbered(new, rest, n) BY <1>1, <1>4, <1>5, <1>6, <1>7, <1>8, <1>9 DEF Numbered
<1>. QED BY <1>2, <1>3, <1>4, <1>10 DEF new, rest

(* A new command goes to the end of the queue.                             *)
LEMMA AskedIsLast ==
  ASSUME NEW sent, NEW queue, NEW n, Numbered(sent, queue, n), n + 1 <= MaxCommands
  PROVE  Numbered(sent, Append(queue, n + 1), n + 1)
<1>1. /\ sent \in Seq(Commands) /\ queue \in Seq(Commands) /\ n \in Nat
      /\ Len(sent) \in Nat /\ Len(queue) \in Nat /\ Len(sent) + Len(queue) = n
  BY DEF Numbered
<1>2. n + 1 \in Commands BY <1>1, MaxCommandsAssumption DEF Commands
<1>. DEFINE new == Append(queue, n + 1)
<1>3. /\ new \in Seq(Commands) /\ Len(new) = Len(queue) + 1
      /\ \A i \in 1 .. Len(queue) : new[i] = queue[i]
      /\ new[Len(queue) + 1] = n + 1
  BY <1>1, <1>2
<1>. HIDE DEF new
<1>4. \A i \in 1 .. Len(new) : new[i] = Len(sent) + i
  <2>. SUFFICES ASSUME NEW i \in 1 .. Len(new) PROVE new[i] = Len(sent) + i
    OBVIOUS
  <2>1. CASE i = Len(queue) + 1 BY <2>1, <1>1, <1>3
  <2>2. CASE i # Len(queue) + 1
    <3>1. i \in 1 .. Len(queue) BY <2>2, <1>1, <1>3
    <3>. QED BY <3>1, <1>3 DEF Numbered
  <2>. QED BY <2>1, <2>2
<1>5. Len(sent) + Len(new) = n + 1 BY <1>1, <1>3
<1>6. Numbered(sent, new, n + 1) BY <1>1, <1>3, <1>4, <1>5 DEF Numbered
<1>. QED BY <1>6 DEF new

(* What send_next_command does on a free line.                             *)
LEMMA SendNextSettles ==
  ASSUME NEW ag, NEW n, Ordered(ag, n), ~ag.inFlight, ag.timer = 0, ag.held = 0
  PROVE  /\ Ordered(SendNext(ag), n)
         /\ Settled(SendNext(ag))
         /\ Over(SendNext(ag)) = Over(ag)
         /\ Len(SendNext(ag).sent) >= Len(ag.sent)
<1>1. ag \in Agents /\ Len(ag.sent) \in Nat /\ ag.sent \in Seq(Commands)
  BY DEF Ordered, Agents
<1>2. CASE ag.queue = <<>>
  <2>1. SendNext(ag) = [ag EXCEPT !.inFlight = FALSE] BY <1>2 DEF SendNext
  <2>2. SendNext(ag) = ag BY <2>1, <1>1 DEF Agents
  <2>. QED BY <2>2, <1>1, <1>2 DEF Settled
<1>3. CASE ag.queue # <<>>
  <2>. DEFINE new == SendOut(ag)
  <2>1. SendNext(ag) = new BY <1>3 DEF SendNext
  <2>2. /\ Head(ag.queue) = Len(ag.sent) + 1 /\ Head(ag.queue) \in Commands
        /\ Len(Append(ag.sent, Head(ag.queue))) = Len(ag.sent) + 1
        /\ Numbered(Append(ag.sent, Head(ag.queue)), Tail(ag.queue), n)
    BY <1>3, HeadIsNext DEF Ordered
  <2>3. /\ new.queue = Tail(ag.queue) /\ new.inFlight = TRUE
        /\ new.sent = Append(ag.sent, Head(ag.queue))
        /\ new.held = Head(ag.queue) /\ new.timer = Len(ag.sent) + 1
    BY DEF SendOut
  <2>4. new \in Agents BY <2>2 DEF SendOut, Agents, Numbered
  <2>5. Ordered(new, n) BY <1>1, <2>2, <2>3, <2>4 DEF Ordered
  <2>6. Settled(new) BY <2>2, <2>3 DEF Settled
  <2>7. Over(new) = Over(ag) /\ Len(new.sent) >= Len(ag.sent) BY <1>1, <2>2, <2>3 DEF Over
  <2>. HIDE DEF new
  <2>. QED BY <2>1, <2>5, <2>6, <2>7
<1>. QED BY <1>2, <1>3

(* A command is put in the queue.                                          *)
LEMMA AppendOrdered ==
  ASSUME NEW ag, NEW n, Ordered(ag, n), n + 1 <= MaxCommands,
         NEW q, q = [ag EXCEPT !.queue = Append(@, n + 1)]
  PROVE  /\ Ordered(q, n + 1) /\ Over(q) = Over(ag)
         /\ q.inFlight = ag.inFlight /\ q.sent = ag.sent
         /\ q.timer = ag.timer /\ q.held = ag.held
<1>1. ag \in Agents BY DEF Ordered
<1>2. /\ q.queue = Append(ag.queue, n + 1) /\ q.inFlight = ag.inFlight /\ q.sent = ag.sent
      /\ q.timer = ag.timer /\ q.held = ag.held
  BY <1>1 DEF Agents
<1>3. Numbered(q.sent, q.queue, n + 1) BY <1>2, AskedIsLast DEF Ordered
<1>4. q \in Agents BY <1>1, <1>2, <1>3 DEF Agents, Numbered
<1>5. Ordered(q, n + 1) BY <1>2, <1>3, <1>4 DEF Ordered
<1>6. Over(q) = Over(ag) BY <1>2 DEF Over
<1>. QED BY <1>2, <1>5, <1>6

(* Push on a line whose state is settled, or held by a command in flight.  *)
LEMMA PushSettles ==
  ASSUME NEW ag, NEW n, Ordered(ag, n), n + 1 <= MaxCommands,
         ag.inFlight \/ Settled(ag)
  PROVE  /\ Ordered(Push(ag, n + 1), n + 1)
         /\ Settled(ag) => Settled(Push(ag, n + 1))
         /\ Over(Push(ag, n + 1)) = Over(ag)
         /\ Len(Push(ag, n + 1).sent) >= Len(ag.sent)
         /\ ag.inFlight => /\ Push(ag, n + 1).inFlight
                           /\ Push(ag, n + 1).sent = ag.sent
                           /\ Push(ag, n + 1).held = ag.held
<1>. DEFINE q == [ag EXCEPT !.queue = Append(@, n + 1)]
<1>1. /\ Ordered(q, n + 1) /\ Over(q) = Over(ag)
      /\ q.inFlight = ag.inFlight /\ q.sent = ag.sent
      /\ q.timer = ag.timer /\ q.held = ag.held
  BY AppendOrdered
<1>2. Len(ag.sent) \in Nat BY DEF Ordered, Agents
<1>3. CASE ag.inFlight
  <2>1. Push(ag, n + 1) = q BY <1>3 DEF Push
  <2>2. Settled(ag) => Settled(q) BY <1>1, <1>3 DEF Settled
  <2>3. Len(q.sent) >= Len(ag.sent) BY <1>1, <1>2
  <2>4. q.inFlight /\ q.sent = ag.sent /\ q.held = ag.held BY <1>1, <1>3
  <2>. HIDE DEF q
  <2>. QED BY <1>1, <2>1, <2>2, <2>3, <2>4
<1>4. CASE ~ag.inFlight
  <2>1. Push(ag, n + 1) = SendNext(q) BY <1>4 DEF Push
  <2>2. ~q.inFlight /\ q.timer = 0 /\ q.held = 0 BY <1>1, <1>4 DEF Settled
  <2>. HIDE DEF q
  <2>. QED BY <1>1, <1>4, <2>1, <2>2, SendNextSettles
<1>. QED BY <1>3, <1>4

(* Finish of the command in flight, whose callbacks were dropped before.   *)
LEMMA FinishSettles ==
  ASSUME NEW ag, NEW n, NEW s, Ordered(ag, n), Current(ag, s), ag.held = 0
  PROVE  /\ Ordered(Finish(ag, s), n)
         /\ Settled(Finish(ag, s))
         /\ Over(Finish(ag, s)) = Len(ag.sent)
         /\ Len(Finish(ag, s).sent) >= Len(ag.sent)
<1>. DEFINE f == [ag EXCEPT !.timer = 0, !.inFlight = FALSE]
<1>1. Finish(ag, s) = SendNext(f) BY DEF Finish
<1>2. ag \in Agents /\ Len(ag.sent) \in Nat BY DEF Ordered, Agents
<1>3. /\ f.timer = 0 /\ f.inFlight = FALSE /\ f.held = 0
      /\ f.sent = ag.sent /\ f.queue = ag.queue
  BY <1>2 DEF Agents
<1>4. f \in Agents BY <1>2 DEF Agents
<1>5. Ordered(f, n) BY <1>3, <1>4 DEF Ordered
<1>6. Over(f) = Len(ag.sent) BY <1>3 DEF Over
<1>. HIDE DEF f
<1>. QED BY <1>1, <1>3, <1>5, <1>6, SendNextSettles

LEMMA DropHeldOrdered ==
  ASSUME NEW ag, NEW n, Ordered(ag, n)
  PROVE  /\ Ordered(DropHeld(ag), n) /\ DropHeld(ag).held = 0
         /\ DropHeld(ag).sent = ag.sent /\ DropHeld(ag).inFlight = ag.inFlight
<1>1. ag \in Agents BY DEF Ordered
<1>2. /\ DropHeld(ag).held = 0 /\ DropHeld(ag).sent = ag.sent
      /\ DropHeld(ag).inFlight = ag.inFlight /\ DropHeld(ag).queue = ag.queue
      /\ DropHeld(ag) \in Agents
  BY <1>1 DEF DropHeld, Agents
<1>. QED BY <1>2 DEF Ordered

-----------------------------------------------------------------------------
(* The invariants of the runs, as one inductive invariant in terms of the  *)
(* three notions above.                                                    *)
Heard(t) ==
  /\ told[t] \in Seq([outcome : Outcomes, of : Commands])
  /\ Len(told[t]) <= 1
  /\ Len(told[t]) > 0 => t <= Over(agent) /\ told[t][1].of = t
  /\ t <= Over(agent) /\ kinds[t] # "plain" => Len(told[t]) > 0

IInv ==
  /\ Ordered(agent, Len(kinds)) /\ Settled(agent)
  /\ kinds \in Seq(Kinds)
  /\ wire \in SUBSET Commands
  /\ told \in [Commands -> Seq([outcome : Outcomes, of : Commands])]
  /\ \A t \in Commands : Heard(t)

(* What the handlers have in common: the agent moves on to a settled       *)
(* state, at most command t gets over, and if it does, it hears of it      *)
(* once, of its own request, unless it is plain and hears nothing.         *)
CommonStep(more) ==
  /\ Len(kinds) + Len(more) <= MaxCommands
  /\ kinds' = kinds \o more
  /\ Ordered(agent', Len(kinds')) /\ Settled(agent') /\ Len(agent'.sent) >= Len(agent.sent)
  /\ wire' \in SUBSET Commands
  /\ \/ Over(agent') = Over(agent) /\ told' = told
     \/ /\ agent.inFlight /\ Over(agent') = Len(agent.sent)
        /\ LET t == Len(agent.sent)
           IN \/ \E outcome \in Outcomes : Tell(t, outcome, t)
              \/ kinds[t] = "plain" /\ told' = told

LEMMA StepKeepsIInv ==
  ASSUME IInv, NEW more \in FollowUps, CommonStep(more) PROVE IInv'
<1>. USE DEF CommonStep
<1>. DEFINE L == Len(agent.sent)
            O == Over(agent)
            N == Over(agent')
            K == Len(kinds)
<1>1. /\ L \in Nat /\ K \in Nat /\ L <= K /\ K <= MaxCommands /\ L \in 0 .. MaxCommands
      /\ (agent.inFlight => L > 0 /\ O = L - 1) /\ (~agent.inFlight => O = L)
  <2>1. Numbered(agent.sent, agent.queue, K) BY DEF IInv, Ordered
  <2>2. L \in Nat /\ L <= K /\ K \in Nat /\ K <= MaxCommands
    BY <2>1, NumberedLength
  <2>3. (agent.inFlight => L > 0 /\ O = L - 1) /\ (~agent.inFlight => O = L)
    BY DEF IInv, Ordered, Over
  <2>. HIDE DEF L, K, O
  <2>. QED BY <2>2, <2>3, MaxCommandsAssumption
<1>2. O \in Nat /\ O <= L
  <2>. HIDE DEF L, O
  <2>. QED BY <1>1
<1>3. more \in Seq(Kinds)
  <2>1. CASE more = <<>> BY <2>1
  <2>2. CASE \E k \in Kinds : more = <<k>> BY <2>2
  <2>. QED BY <2>1, <2>2 DEF FollowUps
<1>4. kinds' \in Seq(Kinds) /\ \A t \in 1 .. K : kinds'[t] = kinds[t]
  BY <1>3 DEF IInv
<1>5. told \in [Commands -> Seq([outcome : Outcomes, of : Commands])] BY DEF IInv
<1>6. \A t \in Commands : Heard(t) BY DEF IInv
<1>7. CASE N = O /\ told' = told
  <2>1. \A t \in Commands : Heard(t)'
    <3>. SUFFICES ASSUME NEW t \in Commands PROVE Heard(t)'
      OBVIOUS
    <3>1. t <= O => kinds'[t] = kinds[t]
      <4>1. t <= O => t \in 1 .. K
        <5>. HIDE DEF L, O, K
        <5>. QED BY <1>1, <1>2, MaxCommandsAssumption DEF Commands
      <4>. HIDE DEF K, O
      <4>. QED BY <4>1, <1>4
    <3>2. Heard(t) BY <1>6
    <3>. QED BY <3>1, <3>2, <1>7 DEF Heard
  <2>. QED BY <2>1, <1>4, <1>5, <1>7 DEF IInv
<1>8. CASE /\ agent.inFlight /\ N = L
           /\ \/ \E outcome \in Outcomes : Tell(L, outcome, L)
              \/ kinds[L] = "plain" /\ told' = told
  <2>1. L \in Commands /\ O = L - 1
    <3>. HIDE DEF L, O
    <3>. QED BY <1>1, <1>8 DEF Commands
  <2>2. told[L] \in Seq([outcome : Outcomes, of : Commands]) /\ told[L] = <<>>
    <3>1. Heard(L) BY <2>1, <1>6
    <3>2. ~(L <= O)
      <4>. HIDE DEF L, O
      <4>. QED BY <2>1 DEF Commands
    <3>3. Len(told[L]) = 0 /\ told[L] \in Seq([outcome : Outcomes, of : Commands])
      <4>. HIDE DEF L
      <4>. QED BY <3>1, <3>2 DEF Heard
    <3>. HIDE DEF L
    <3>. QED BY <3>3
  <2>3. \A t \in Commands : t # L => told'[t] = told[t]
    <3>. HIDE DEF L
    <3>. QED BY <1>8, <1>5 DEF Tell
  <2>4. /\ told' \in [Commands -> Seq([outcome : Outcomes, of : Commands])]
        /\ Len(told'[L]) <= 1
        /\ Len(told'[L]) > 0 => told'[L][1].of = L
        /\ kinds[L] # "plain" => Len(told'[L]) > 0
    <3>1. CASE \E outcome \in Outcomes : Tell(L, outcome, L)
      <4>1. PICK outcome \in Outcomes : Tell(L, outcome, L) BY <3>1
      <4>. DEFINE r == [outcome |-> outcome, of |-> L]
      <4>2. r \in [outcome : Outcomes, of : Commands] /\ r.of = L BY <2>1
      <4>3. told' = [told EXCEPT ![L] = Append(told[L], r)] BY <4>1 DEF Tell
      <4>4. Append(told[L], r) = <<r>> /\ <<r>> \in Seq([outcome : Outcomes, of : Commands])
        <5>. HIDE DEF r, L
        <5>. QED BY <4>2, <2>2
      <4>5. told'[L] = <<r>> /\ told' \in [Commands -> Seq([outcome : Outcomes, of : Commands])]
        <5>. HIDE DEF r, L
        <5>. QED BY <4>3, <4>4, <2>1, <1>5
      <4>6. Len(told'[L]) = 1 /\ told'[L][1] = r
        <5>. HIDE DEF r, L
        <5>. QED BY <4>5
      <4>7. Len(told'[L]) <= 1 /\ Len(told'[L]) > 0 BY <4>6
      <4>8. told'[L][1].of = L BY <4>2, <4>6
      <4>. HIDE DEF r, L
      <4>. QED BY <4>5, <4>7, <4>8
    <3>2. CASE kinds[L] = "plain" /\ told' = told
      <4>1. Len(told'[L]) = 0 BY <3>2, <2>2
      <4>2. Len(told'[L]) <= 1 /\ ~(Len(told'[L]) > 0) BY <4>1
      <4>. HIDE DEF L
      <4>. QED BY <3>2, <4>2, <1>5
    <3>. QED BY <3>1, <3>2, <1>8
  <2>5. \A t \in Commands : Heard(t)'
    <3>. SUFFICES ASSUME NEW t \in Commands PROVE Heard(t)'
      OBVIOUS
    <3>1. t <= N => kinds'[t] = kinds[t]
      <4>1. N = L BY <1>8
      <4>2. t <= N => t \in 1 .. K
        <5>. HIDE DEF L, K, N
        <5>. QED BY <4>1, <1>1, MaxCommandsAssumption DEF Commands
      <4>. HIDE DEF K, N
      <4>. QED BY <4>2, <1>4
    <3>2. CASE t = L
      <4>. HIDE DEF L
      <4>1. t <= N BY <3>2, <1>8, <2>1 DEF Commands
      <4>. QED BY <3>1, <3>2, <4>1, <2>1, <2>4 DEF Heard
    <3>3. CASE t # L
      <4>1. Heard(t) /\ told'[t] = told[t] BY <3>3, <1>6, <2>3
      <4>2. (t <= O) <=> (t <= N)
        <5>. HIDE DEF L, O, N
        <5>. QED BY <3>3, <1>8, <2>1 DEF Commands
      <4>. QED BY <3>1, <4>1, <4>2 DEF Heard
    <3>. QED BY <3>2, <3>3
  <2>. QED BY <2>4, <2>5, <1>4 DEF IInv
<1>. QED BY <1>7, <1>8

-----------------------------------------------------------------------------
(* What a callback sends: nothing, or one more command.                    *)
LEMMA PushAllSettles ==
  ASSUME NEW ag, NEW more \in FollowUps, Ordered(ag, Len(kinds)),
         kinds \in Seq(Kinds), Len(kinds) + Len(more) <= MaxCommands,
         ag.inFlight \/ Settled(ag)
  PROVE  /\ Ordered(PushAll(ag, more), Len(kinds \o more))
         /\ Settled(ag) => Settled(PushAll(ag, more))
         /\ Over(PushAll(ag, more)) = Over(ag)
         /\ Len(PushAll(ag, more).sent) >= Len(ag.sent)
         /\ ag.inFlight => /\ PushAll(ag, more).inFlight
                           /\ PushAll(ag, more).sent = ag.sent
                           /\ PushAll(ag, more).held = ag.held
<1>1. CASE more = <<>>
  <2>1. PushAll(ag, more) = ag BY <1>1 DEF PushAll
  <2>2. kinds \o more = kinds BY <1>1
  <2>3. Len(ag.sent) \in Nat BY DEF Ordered, Agents
  <2>. QED BY <2>1, <2>2, <2>3
<1>2. CASE more # <<>>
  <2>1. PICK k \in Kinds : more = <<k>> BY <1>2 DEF FollowUps
  <2>2. PushAll(ag, more) = Push(ag, Len(kinds) + 1) BY <1>2 DEF PushAll
  <2>3. Len(kinds \o more) = Len(kinds) + 1 /\ Len(kinds) + 1 <= MaxCommands BY <2>1
  <2>. QED BY <2>2, <2>3, PushSettles
<1>. QED BY <1>1, <1>2

(* The requests that went out in a step are numbers of commands.           *)
LEMMA WireType ==
  ASSUME wire \in SUBSET Commands, NEW s, Wire(s), NEW n, Ordered(agent', n),
         Len(agent.sent) \in Nat
  PROVE  wire' \in SUBSET Commands
<1>. DEFINE L == Len(agent.sent)
            M == Len(agent'.sent)
<1>1. M \in Nat /\ M <= n /\ n \in Nat /\ n <= MaxCommands
  BY NumberedLength DEF Ordered
<1>0. L \in Nat OBVIOUS
<1>2. L + 1 .. M \subseteq Commands
  <2>. HIDE DEF L, M
  <2>. QED BY <1>0, <1>1, MaxCommandsAssumption DEF Commands
<1>. QED BY <1>2 DEF Wire

LEMMA SendIsCommon ==
  ASSUME IInv, NEW kind \in Kinds, Send(kind) PROVE \E more \in FollowUps : CommonStep(more)
<1>. DEFINE more == <<kind>>
<1>1. more \in FollowUps /\ more # <<>> BY DEF FollowUps
<1>2. kinds' = kinds \o more /\ kinds \in Seq(Kinds) BY DEF Send, IInv
<1>3. Len(kinds) + Len(more) <= MaxCommands BY DEF Send, Room
<1>4. agent' = PushAll(agent, more) BY <1>1 DEF Send, PushAll
<1>5. Ordered(agent, Len(kinds)) /\ Settled(agent) BY DEF IInv
<1>. HIDE DEF more
<1>6. /\ Ordered(agent', Len(kinds')) /\ Settled(agent') /\ Over(agent') = Over(agent)
      /\ Len(agent'.sent) >= Len(agent.sent)
  BY <1>1, <1>2, <1>3, <1>4, <1>5, PushAllSettles
<1>7. wire' \in SUBSET Commands
  <2>1. wire \in SUBSET Commands /\ Wire(0) BY DEF Send, IInv
  <2>2. Len(agent.sent) \in Nat BY <1>5 DEF Ordered, Agents
  <2>. QED BY <1>6, <2>1, <2>2, WireType
<1>8. told' = told BY DEF Send
<1>. QED BY <1>1, <1>2, <1>3, <1>6, <1>7, <1>8 DEF CommonStep

LEMMA ReplyIsCommon ==
  ASSUME IInv, NEW s \in Commands, Reply(s) PROVE \E more \in FollowUps : CommonStep(more)
<1>1. PICK result \in {"accepted", "refused"}, sameId \in BOOLEAN, more \in FollowUps :
        LET t == agent.sent[s]
        IN /\ Room(more)
           /\ Tell(t, IF kinds[t] = "ack" /\ ~sameId THEN "noReply" ELSE result, s)
           /\ kinds' = kinds \o more
           /\ agent' = Finish(PushAll(DropHeld(agent), more), s)
  BY DEF Reply
<1>2. Ordered(agent, Len(kinds)) /\ Settled(agent) /\ kinds \in Seq(Kinds) BY DEF IInv
<1>3. s = Len(agent.sent) /\ agent.inFlight BY DEF Reply, Current
<1>4. agent.sent[s] = s BY <1>2, <1>3 DEF Ordered, Numbered, Commands
<1>5. Len(kinds) + Len(more) <= MaxCommands BY <1>1 DEF Room
<1>. DEFINE free == DropHeld(agent)
            mid == PushAll(free, more)
<1>6. Ordered(free, Len(kinds)) /\ free.held = 0 /\ free.sent = agent.sent /\ free.inFlight
  BY <1>2, <1>3, DropHeldOrdered
<1>. HIDE DEF free
<1>7. Ordered(mid, Len(kinds \o more)) /\ mid.inFlight /\ mid.sent = agent.sent /\ mid.held = 0
  BY <1>2, <1>5, <1>6, PushAllSettles
<1>8. Current(mid, s) BY <1>3, <1>7 DEF Current
<1>9. agent' = Finish(mid, s) /\ kinds' = kinds \o more BY <1>1 DEF free
<1>. HIDE DEF mid
<1>10. /\ Ordered(agent', Len(kinds')) /\ Settled(agent') /\ Over(agent') = Len(agent.sent)
       /\ Len(agent'.sent) >= Len(agent.sent)
  BY <1>7, <1>8, <1>9, FinishSettles
<1>11. wire' \in SUBSET Commands
  <2>1. wire \in SUBSET Commands /\ Wire(s) BY DEF Reply, IInv
  <2>2. Len(agent.sent) \in Nat BY <1>2 DEF Ordered, Agents
  <2>. QED BY <1>10, <2>1, <2>2, WireType
<1>12. \E outcome \in Outcomes : Tell(Len(agent.sent), outcome, Len(agent.sent))
  BY <1>1, <1>3, <1>4 DEF Outcomes
<1>. QED BY <1>3, <1>5, <1>9, <1>10, <1>11, <1>12 DEF CommonStep

LEMMA TimerIsCommon ==
  ASSUME IInv, TimerFires PROVE \E more \in FollowUps : CommonStep(more)
<1>. DEFINE s == agent.timer
            t == Notified(agent, s)
<1>1. PICK effectSeen \in BOOLEAN, more \in FollowUps :
        LET tells == effectSeen \/ kinds[t] # "plain"
        IN /\ Room(more) /\ (tells \/ more = <<>>)
           /\ IF tells THEN Tell(t, IF effectSeen THEN "accepted" ELSE "noReply", s)
              ELSE UNCHANGED told
           /\ kinds' = kinds \o more
           /\ agent' = PushAll(Finish(DropHeld(agent), s), more)
  BY DEF TimerFires
<1>2. Ordered(agent, Len(kinds)) /\ Settled(agent) /\ kinds \in Seq(Kinds) BY DEF IInv
<1>3. s = Len(agent.sent) /\ agent.inFlight BY DEF TimerFires, Current
<1>4. t = Len(agent.sent) BY <1>2, <1>3 DEF Notified, Settled
<1>5. Len(kinds) + Len(more) <= MaxCommands BY <1>1 DEF Room
<1>. DEFINE free == DropHeld(agent)
            done == Finish(free, s)
<1>6. Ordered(free, Len(kinds)) /\ free.held = 0 /\ free.sent = agent.sent /\ free.inFlight
  BY <1>2, <1>3, DropHeldOrdered
<1>7. agent' = PushAll(done, more) /\ kinds' = kinds \o more BY <1>1
<1>8. Current(free, s) BY <1>3, <1>6 DEF Current
<1>. HIDE DEF free, s
<1>9. /\ Ordered(done, Len(kinds)) /\ Settled(done)
      /\ Over(done) = Len(agent.sent) /\ Len(done.sent) >= Len(agent.sent)
  BY <1>6, <1>8, FinishSettles
<1>. HIDE DEF done
<1>10. /\ Ordered(agent', Len(kinds')) /\ Settled(agent') /\ Over(agent') = Len(agent.sent)
       /\ Len(agent'.sent) >= Len(done.sent)
  BY <1>2, <1>5, <1>7, <1>9, PushAllSettles
<1>11. Len(agent.sent) \in Nat /\ Len(done.sent) \in Nat /\ Len(agent'.sent) \in Nat
  BY <1>2, <1>9, <1>10 DEF Ordered, Agents
<1>12. Len(agent'.sent) >= Len(agent.sent) BY <1>9, <1>10, <1>11
<1>13. wire' \in SUBSET Commands
  BY <1>10, <1>11, WireType DEF TimerFires, IInv
<1>14. \/ \E outcome \in Outcomes : Tell(Len(agent.sent), outcome, Len(agent.sent))
       \/ kinds[Len(agent.sent)] = "plain" /\ told' = told
  <2>. HIDE DEF t
  <2>1. CASE effectSeen \/ kinds[t] # "plain"
    <3>1. Tell(t, IF effectSeen THEN "accepted" ELSE "noReply", s) BY <1>1, <2>1
    <3>. QED BY <3>1, <1>3, <1>4 DEF Outcomes
  <2>2. CASE ~(effectSeen \/ kinds[t] # "plain")
    <3>1. told' = told BY <1>1, <2>2
    <3>. QED BY <3>1, <2>2, <1>4
  <2>. QED BY <2>1, <2>2
<1>. QED BY <1>3, <1>5, <1>7, <1>10, <1>12, <1>13, <1>14 DEF CommonStep

LEMMA InitIInv == Init => IInv
<1>. SUFFICES ASSUME Init PROVE IInv
  OBVIOUS
<1>1. /\ agent = [queue |-> <<>>, inFlight |-> FALSE, sent |-> <<>>, held |-> 0, timer |-> 0]
      /\ kinds = <<>> /\ told = [t \in Commands |-> <<>>] /\ wire = {}
  BY DEF Init
<1>2. agent \in Agents BY <1>1 DEF Agents
<1>3. Numbered(<<>>, <<>>, 0) BY MaxCommandsAssumption DEF Numbered
<1>4. Ordered(agent, Len(kinds)) /\ Settled(agent) BY <1>1, <1>2, <1>3 DEF Ordered, Settled
<1>5. Over(agent) = 0 BY <1>1 DEF Over
<1>6. \A t \in Commands : Heard(t)
  BY <1>1, <1>5, MaxCommandsAssumption DEF Heard, Commands
<1>. QED BY <1>1, <1>4, <1>6 DEF IInv

LEMMA NextIsCommon ==
  ASSUME IInv, [Next]_vars
  PROVE  \/ \E more \in FollowUps : CommonStep(more)
         \/ UNCHANGED <<agent, kinds, told>> /\ wire' \in SUBSET Commands
<1>1. ASSUME NEW kind \in Kinds, Send(kind) PROVE \E more \in FollowUps : CommonStep(more)
  BY <1>1, SendIsCommon
<1>2. ASSUME NEW s \in Commands, Reply(s) PROVE \E more \in FollowUps : CommonStep(more)
  BY <1>2, ReplyIsCommon
<1>3. CASE TimerFires BY <1>3, TimerIsCommon
<1>4. CASE UNCHANGED vars \/ \E s \in Commands : LateReply(s) BY <1>4 DEF vars, LateReply, IInv
<1>. QED BY <1>1, <1>2, <1>3, <1>4 DEF Next

(* The inductive invariant.                                                *)
THEOREM Inductive == Spec => []IInv
<1>1. IInv /\ [Next]_vars => IInv'
  <2>. SUFFICES ASSUME IInv, [Next]_vars PROVE IInv'
    OBVIOUS
  <2>1. CASE \E more \in FollowUps : CommonStep(more) BY <2>1, StepKeepsIInv
  <2>2. CASE UNCHANGED <<agent, kinds, told>> /\ wire' \in SUBSET Commands
    BY <2>2 DEF IInv, Heard, Over, Ordered, Numbered, Settled
  <2>. QED BY <2>1, <2>2, NextIsCommon
<1>. QED BY InitIInv, <1>1, PTL DEF Spec

-----------------------------------------------------------------------------
LEMMA ClosedIsOver ==
  ASSUME IInv, NEW t \in Commands PROVE Closed(t) <=> t <= Over(agent)
<1>. DEFINE L == Len(agent.sent)
            O == Over(agent)
<1>1. Numbered(agent.sent, agent.queue, Len(kinds)) BY DEF IInv, Ordered
<1>2. L \in Nat /\ t \in Nat \ {0}
  BY <1>1, NumberedLength, MaxCommandsAssumption DEF Commands
<1>3. \A s \in 1 .. L : agent.sent[s] = s BY <1>1 DEF Numbered
<1>4. (agent.inFlight => L > 0 /\ O = L - 1) /\ (~agent.inFlight => O = L)
  BY DEF IInv, Ordered, Over
<1>5. (\E s \in 1 .. L : agent.sent[s] = t) <=> t <= L
  <2>. HIDE DEF L
  <2>. QED BY <1>2, <1>3
<1>6. agent.inFlight => agent.sent[L] = L
  <2>. HIDE DEF L
  <2>. QED BY <1>2, <1>3, <1>4
<1>7. InFlight(t) <=> agent.inFlight /\ t = L BY <1>6 DEF InFlight
<1>8. Closed(t) <=> t <= L /\ ~(agent.inFlight /\ t = L) BY <1>5, <1>7 DEF Closed
<1>9. (t <= L /\ ~(agent.inFlight /\ t = L)) <=> t <= O
  <2>. HIDE DEF L, O
  <2>1. CASE agent.inFlight BY <2>1, <1>2, <1>4
  <2>2. CASE ~agent.inFlight BY <2>2, <1>2, <1>4
  <2>. QED BY <2>1, <2>2
<1>. QED BY <1>8, <1>9

(* Every variable has its type, for any number of commands.                *)
THEOREM TypeCorrect == Spec => []TypeOK
<1>1. IInv => TypeOK
  <2>. SUFFICES ASSUME IInv PROVE TypeOK
    OBVIOUS
  <2>1. Len(kinds) <= MaxCommands BY NumberedLength DEF IInv, Ordered
  <2>. QED BY <2>1 DEF IInv, Ordered, TypeOK
<1>. QED BY Inductive, <1>1, PTL

(* Commands reach PX4 in the order they were asked for, none lost, none    *)
(* sent twice: push_back and pop_front are the only ways in and out.       *)
THEOREM SentInOrder == Spec => []InOrder
<1>1. IInv => InOrder BY DEF IInv, Ordered, Numbered, InOrder
<1>. QED BY Inductive, <1>1, PTL

(* A command never waits for a line that is free.                          *)
THEOREM NeverStalls == Spec => []NoStall
<1>1. IInv => NoStall BY DEF IInv, Settled, NoStall
<1>. QED BY Inductive, <1>1, PTL

(* The timer and the timeout callbacks are always those of the command in  *)
(* flight, also when a callback sends the next one.                        *)
THEOREM TimerMatches == Spec => []TimerOfInFlight
<1>1. IInv => TimerOfInFlight
  <2>. SUFFICES ASSUME IInv PROVE TimerOfInFlight
    OBVIOUS
  <2>. DEFINE L == Len(agent.sent)
  <2>1. Numbered(agent.sent, agent.queue, Len(kinds)) /\ Settled(agent)
        /\ (agent.inFlight => L > 0)
    BY DEF IInv, Ordered
  <2>2. L \in Nat /\ \A s \in 1 .. L : agent.sent[s] = s BY <2>1 DEF Numbered
  <2>3. agent.inFlight => agent.sent[L] = L
    <3>. HIDE DEF L
    <3>. QED BY <2>1, <2>2
  <2>. QED BY <2>1, <2>3 DEF TimerOfInFlight, Settled
<1>. QED BY Inductive, <1>1, PTL

(* Every callback that must be called is called exactly once, when its     *)
(* command is over, whatever replies come late, twice or never.            *)
THEOREM CalledOnce == Spec => []ToldOnce
<1>1. IInv => ToldOnce
  <2>. SUFFICES ASSUME IInv, NEW t \in Commands
                PROVE  /\ Len(told[t]) <= 1
                       /\ told[t] # <<>> => Closed(t)
                       /\ Closed(t) /\ kinds[t] # "plain" => told[t] # <<>>
    BY DEF ToldOnce
  <2>1. Heard(t) BY DEF IInv
  <2>2. Closed(t) <=> t <= Over(agent) BY ClosedIsOver
  <2>3. told[t] # <<>> <=> Len(told[t]) > 0 BY <2>1 DEF Heard
  <2>. QED BY <2>1, <2>2, <2>3 DEF Heard
<1>. QED BY Inductive, <1>1, PTL

(* What a callback is told is about the request of its own command.        *)
THEOREM CalledForItself == Spec => []ToldOfItself
<1>1. IInv => ToldOfItself
  <2>. SUFFICES ASSUME IInv, NEW t \in Commands, NEW i \in 1 .. Len(told[t])
                PROVE  told[t][i].of <= Len(agent.sent) /\ agent.sent[told[t][i].of] = t
    BY DEF ToldOfItself
  <2>. DEFINE L == Len(agent.sent)
              M == Len(told[t])
  <2>1. Heard(t) BY DEF IInv
  <2>2. M \in Nat /\ M <= 1 /\ i \in 1 .. M BY <2>1 DEF Heard
  <2>3. i = 1 /\ M > 0
    <3>. HIDE DEF M
    <3>. QED BY <2>2
  <2>4. t <= Over(agent) /\ told[t][1].of = t BY <2>1, <2>3 DEF Heard
  <2>5. Numbered(agent.sent, agent.queue, Len(kinds)) BY DEF IInv, Ordered
  <2>6. L \in Nat /\ \A s \in 1 .. L : agent.sent[s] = s BY <2>5 DEF Numbered
  <2>7. t \in Nat \ {0} BY MaxCommandsAssumption DEF Commands
  <2>8. t <= L BY <2>4, <2>6, <2>7 DEF Over
  <2>9. agent.sent[t] = t
    <3>. HIDE DEF L
    <3>. QED BY <2>6, <2>7, <2>8
  <2>. QED BY <2>3, <2>4, <2>8, <2>9
<1>. QED BY Inductive, <1>1, PTL

-----------------------------------------------------------------------------
(* The queue its senders see.                                              *)
HeardOf == [t \in Commands |-> [i \in 1 .. Len(told[t]) |-> told[t][i].outcome]]

LEMMA InFlightUnheard ==
  ASSUME IInv, agent.inFlight, NEW L, L = Len(agent.sent)
  PROVE  /\ L \in Commands /\ Over(agent) = L - 1 /\ L <= Len(kinds)
         /\ told[L] = <<>>
<1>1. L \in Nat /\ L > 0 /\ L <= Len(kinds) /\ Len(kinds) <= MaxCommands /\ Len(kinds) \in Nat
  BY NumberedLength DEF IInv, Ordered
<1>2. L \in Commands /\ Over(agent) = L - 1 BY <1>1, MaxCommandsAssumption DEF Commands, Over
<1>3. ~(L <= Over(agent)) BY <1>1, <1>2
<1>4. Heard(L) BY <1>2 DEF IInv
<1>5. told[L] = <<>> BY <1>3, <1>4 DEF Heard
<1>. QED BY <1>1, <1>2, <1>5

(* The one call of a callback is the one outcome its sender hears.         *)
LEMMA TellsOutcome ==
  ASSUME told \in [Commands -> Seq([outcome : Outcomes, of : Commands])], NEW t \in Commands,
         told[t] = <<>>, NEW outcome \in Outcomes, Tell(t, outcome, t)
  PROVE  HeardOf' = [HeardOf EXCEPT ![t] = <<outcome>>]
<1>. DEFINE r == [outcome |-> outcome, of |-> t]
<1>1. told' = [told EXCEPT ![t] = Append(told[t], r)] BY DEF Tell
<1>2. Append(told[t], r) = <<r>> OBVIOUS
<1>3. told'[t] = <<r>> /\ \A u \in Commands \ {t} : told'[u] = told[u] BY <1>1, <1>2
<1>4. [i \in 1 .. Len(<<r>>) |-> <<r>>[i].outcome] = <<outcome>> OBVIOUS
<1>5. HeardOf'[t] = <<outcome>> BY <1>3, <1>4 DEF HeardOf
<1>6. \A u \in Commands \ {t} : HeardOf'[u] = HeardOf[u] BY <1>3 DEF HeardOf
<1>. QED BY <1>5, <1>6 DEF HeardOf

LEMMA CommonIsQueueStep ==
  ASSUME IInv, NEW more \in FollowUps, CommonStep(more) PROVE [Queue!Next]_Queue!vars
<1>. DEFINE L == Len(agent.sent)
<1>1. kinds \in Seq(Kinds) /\ told \in [Commands -> Seq([outcome : Outcomes, of : Commands])]
  BY DEF IInv
<1>2. UNCHANGED kinds \/ \E kind \in Kinds : kinds' = Append(kinds, kind)
  BY <1>1 DEF CommonStep, FollowUps
<1>3. CASE Over(agent') = Over(agent) /\ told' = told
  <2>1. UNCHANGED HeardOf /\ UNCHANGED Over(agent) BY <1>3 DEF HeardOf
  <2>. QED BY <1>2, <2>1 DEF HeardOf, Queue!Next, Queue!Ask, Queue!vars
<1>4. CASE /\ agent.inFlight /\ Over(agent') = L
           /\ \/ \E outcome \in Outcomes : Tell(L, outcome, L)
              \/ kinds[L] = "plain" /\ told' = told
  <2>1. L \in Commands /\ Over(agent) = L - 1 /\ L <= Len(kinds) /\ told[L] = <<>>
    BY <1>4, InFlightUnheard
  <2>2. L = Over(agent) + 1 /\ Over(agent) < Len(kinds)
    BY <1>1, <2>1, MaxCommandsAssumption DEF Commands
  <2>3. \/ \E outcome \in Outcomes : HeardOf' = [HeardOf EXCEPT ![Over(agent) + 1] = <<outcome>>]
        \/ kinds[Over(agent) + 1] \in {"plain"} /\ UNCHANGED HeardOf
    <3>1. CASE \E outcome \in Outcomes : Tell(L, outcome, L)
      BY <1>1, <2>1, <2>2, <3>1, TellsOutcome
    <3>2. CASE kinds[L] = "plain" /\ told' = told BY <2>2, <3>2 DEF HeardOf
    <3>. QED BY <1>4, <3>1, <3>2
  <2>4. Over(agent') = Over(agent) + 1 BY <1>4, <2>2
  <2>. QED BY <1>2, <2>2, <2>3, <2>4 DEF HeardOf, Queue!Next, Queue!Close, Queue!Ask
<1>. QED BY <1>3, <1>4 DEF CommonStep

(* DroneAgent implements a queue of commands: they get over one by one, in *)
(* the order they were asked for, and the sender of one that gets over     *)
(* hears one outcome, for good; only a plain sender may hear nothing.      *)
THEOREM ImplementsQueue == Spec => QueueSpec
<1>1. Init => Queue!Init
  <2>. SUFFICES ASSUME Init PROVE Queue!Init OBVIOUS
  <2>1. kinds = <<>> /\ Over(agent) = 0 BY DEF Init, Over
  <2>2. \A t \in Commands : [i \in 1 .. Len(told[t]) |-> told[t][i].outcome] = <<>>
    <3>. SUFFICES ASSUME NEW t \in Commands
                  PROVE  [i \in 1 .. Len(told[t]) |-> told[t][i].outcome] = <<>>
      OBVIOUS
    <3>1. told[t] = <<>> BY DEF Init
    <3>. QED BY <3>1
  <2>. QED BY <2>1, <2>2 DEF Queue!Init
<1>2. IInv /\ [Next]_vars => [Queue!Next]_Queue!vars
  <2>. SUFFICES ASSUME IInv, [Next]_vars PROVE [Queue!Next]_Queue!vars OBVIOUS
  <2>1. CASE \E more \in FollowUps : CommonStep(more) BY <2>1, CommonIsQueueStep
  <2>2. CASE UNCHANGED <<agent, kinds, told>> BY <2>2 DEF Queue!vars
  <2>. QED BY <2>1, <2>2, NextIsCommon
<1>. QED BY <1>1, <1>2, Inductive, PTL DEF Spec, QueueSpec, Queue!Spec
=============================================================================
