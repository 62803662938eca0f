---------------------------- MODULE GateDeskProofs ----------------------------
(***************************************************************************)
(* For every set of gates and bots and every number of faults and presses: *)
(* the desk keeps the promise of a gate, and a gate that waits can be      *)
(* answered.                                                               *)
(*                                                                         *)
(* The inductive invariant follows a gate through the desk: only opened    *)
(* gates are in a batch, in the chat or in a callback (Opened); a gate is  *)
(* recorded as notified after its message (Sent); and buttons go only      *)
(* after the gate was resolved (Resolved).                                 *)
(***************************************************************************)
EXTENDS GateDesk, FiniteSetTheorems, TLAPS

IsOpen(g) == gate[g] # "none"

Opened ==
    /\ \A b \in Bots : \A g \in batch[b] : IsOpen(g)
    /\ \A b \in Bots : current[b] # NoGate => IsOpen(current[b])
    /\ \A m \in DOMAIN messages : IsOpen(messages[m].gate)

Told(g) == \E m \in DOMAIN messages : messages[m].gate = g

Sent ==
    /\ \A g \in Gates : notified[g] => Told(g)
    /\ \A b \in Bots : current[b] # NoGate => Told(current[b])

Resolved ==
    /\ \A m \in DOMAIN messages : ~messages[m].buttons => gate[messages[m].gate] \in Answers
    /\ \A h \in handling : h.step = "edit" => gate[GateOf(h)] \in Answers

IInv == TypeOK /\ Opened /\ Sent /\ Resolved

-----------------------------------------------------------------------------
(* How the columns and the chat may change                                  *)

(* A gate never goes back, and an answer never changes.                    *)
GatesAdvance ==
    \A g \in Gates : /\ IsOpen(g) => IsOpen(g)'
                     /\ gate[g] \in Answers => gate'[g] = gate[g]

(* The chat only grows, and only loses buttons.                            *)
ChatGrows ==
    /\ Len(messages) <= Len(messages')
    /\ \A m \in DOMAIN messages : messages'[m].gate = messages[m].gate

LEMMA InitIInv == Init => IInv
<1> SUFFICES ASSUME Init PROVE IInv
  OBVIOUS
<1>1. TypeOK
  BY BoundsType, NonesType DEF Init, TypeOK
<1>2. Opened /\ Sent /\ Resolved
  BY DEF Init, Opened, Sent, Resolved
<1> QED
  BY <1>1, <1>2 DEF IInv

LEMMA DeliverChat ==
    ASSUME TypeOK, NEW g \in Gates, Deliver(g)
    PROVE  /\ messages' \in Seq([gate : Gates, buttons : BOOLEAN])
           /\ DOMAIN messages' = 1..(Len(messages) + 1)
           /\ \A m \in DOMAIN messages : messages'[m] = messages[m]
           /\ messages'[Len(messages) + 1] = [gate |-> g, buttons |-> TRUE]
           /\ ChatGrows
BY DEF TypeOK, Deliver, ChatGrows

(* A sequence changed in place stays one of the same length.                *)
LEMMA InPlace ==
    ASSUME NEW S, NEW s \in Seq(S), NEW t, t = [i \in DOMAIN s |-> t[i]],
           \A i \in DOMAIN s : t[i] \in S
    PROVE  t \in Seq(S) /\ Len(t) = Len(s) /\ DOMAIN t = DOMAIN s
<1>1. DOMAIN s = 1..Len(s) /\ Len(s) \in Nat
  OBVIOUS
<1>2. t \in [1..Len(s) -> S]
  BY <1>1
<1> QED
  BY <1>1, <1>2

LEMMA Members == ASSUME NEW S, NEW s \in Seq(S) PROVE \A i \in DOMAIN s : s[i] \in S
OBVIOUS

LEMMA RemoveChat ==
    ASSUME TypeOK, NEW h \in handling, RemoveButtons(h)
    PROVE  /\ messages' \in Seq([gate : Gates, buttons : BOOLEAN])
           /\ DOMAIN messages' = DOMAIN messages
           /\ \A m \in DOMAIN messages :
                 /\ messages'[m].gate = messages[m].gate
                 /\ m # h.press.message => messages'[m] = messages[m]
           /\ ChatGrows
<1>1. messages \in Seq([gate : Gates, buttons : BOOLEAN])
  BY DEF TypeOK
<1>2. messages' = [messages EXCEPT ![h.press.message].buttons = FALSE]
  BY DEF RemoveButtons
<1>3. \A m \in DOMAIN messages : messages[m] \in [gate : Gates, buttons : BOOLEAN]
  BY <1>1, Members, Zenon
<1>4. \A m \in DOMAIN messages :
        /\ messages'[m] \in [gate : Gates, buttons : BOOLEAN]
        /\ messages'[m].gate = messages[m].gate
        /\ m # h.press.message => messages'[m] = messages[m]
  BY <1>2, <1>3
<1>5. messages' = [m \in DOMAIN messages |-> messages'[m]]
  BY <1>2
<1>6. /\ messages' \in Seq([gate : Gates, buttons : BOOLEAN])
      /\ Len(messages') = Len(messages) /\ DOMAIN messages' = DOMAIN messages
  BY <1>1, <1>4, <1>5, InPlace
<1>7. Len(messages) \in Nat
  BY <1>1
<1> QED
  BY <1>4, <1>6, <1>7 DEF ChatGrows

(* A callback about a message stays one when the chat grows.               *)
LEMMA PressGrows ==
    ASSUME TypeOK, ChatGrows, messages' \in Seq([gate : Gates, buttons : BOOLEAN])
    PROVE  /\ queued' \subseteq queued => queued' \subseteq Press'
           /\ handling' \subseteq handling =>
                 handling' \subseteq [press : Press', step : {"look", "resolve", "edit"}]
           /\ Press \subseteq Press'
BY DEF TypeOK, ChatGrows, Press

LEMMA TypeSteps == ASSUME TypeOK, Next PROVE TypeOK' /\ GatesAdvance /\ ChatGrows
<1> USE DEF db, telegram, poller, Adverse
<1>1. ASSUME NEW g \in Gates, GateOpens(g) PROVE TypeOK' /\ GatesAdvance /\ ChatGrows
  BY <1>1 DEF GateOpens, TypeOK, Press, GatesAdvance, ChatGrows, IsOpen, Answers
<1>2. ASSUME NEW b \in Bots, Start(b) PROVE TypeOK' /\ GatesAdvance /\ ChatGrows
  BY <1>2, NonesType DEF Start, TypeOK, Press, GatesAdvance, ChatGrows, IsOpen
<1>3. ASSUME NEW b \in Bots, Crash(b) PROVE TypeOK' /\ GatesAdvance /\ ChatGrows
  <2>1. queued' \subseteq Press
    BY <1>3 DEF Crash, TypeOK
  <2> QED
    BY <1>3, <2>1, NonesType, BoundsType DEF Crash, TypeOK, Press, GatesAdvance, ChatGrows, IsOpen
<1>4. ASSUME NEW b \in Bots, PollGates(b) PROVE TypeOK' /\ GatesAdvance /\ ChatGrows
  BY <1>4 DEF PollGates, Unnotified, TypeOK, Press, GatesAdvance, ChatGrows, IsOpen
<1>5. ASSUME NEW b \in Bots, Send(b) PROVE TypeOK' /\ GatesAdvance /\ ChatGrows
  <2>1. PICK g \in batch[b] : current' = [current EXCEPT ![b] = g] /\ Deliver(g)
    BY <1>5 DEF Send
  <2>2. g \in Gates
    BY DEF TypeOK
  <2>3. ChatGrows /\ messages' \in Seq([gate : Gates, buttons : BOOLEAN])
    BY <2>1, <2>2, DeliverChat
  <2>4. queued' \subseteq Press' /\ handling' \subseteq [press : Press', step : {"look", "resolve", "edit"}]
    BY <1>5, <2>3, PressGrows DEF Send
  <2> QED
    BY <1>5, <2>1, <2>2, <2>3, <2>4, NonesType DEF Send, TypeOK, GatesAdvance, IsOpen
<1>6. ASSUME NEW b \in Bots, SendFails(b) PROVE TypeOK' /\ GatesAdvance /\ ChatGrows
  <2>1. ChatGrows /\ messages' \in Seq([gate : Gates, buttons : BOOLEAN])
    <3>1. CASE UNCHANGED messages
      BY <3>1 DEF ChatGrows, TypeOK
    <3>2. ASSUME NEW g \in batch[b], Deliver(g)
          PROVE  ChatGrows /\ messages' \in Seq([gate : Gates, buttons : BOOLEAN])
      <4>1. g \in Gates
        BY DEF TypeOK
      <4> QED
        BY <3>2, <4>1, DeliverChat
    <3> QED
      BY <1>6, <3>1, <3>2 DEF SendFails
  <2>2. queued' \subseteq Press' /\ handling' \subseteq [press : Press', step : {"look", "resolve", "edit"}]
    BY <1>6, <2>1, PressGrows DEF SendFails
  <2> QED
    BY <1>6, <2>1, <2>2, BoundsType DEF SendFails, TypeOK, GatesAdvance, IsOpen
<1>7. ASSUME NEW b \in Bots, Record(b) PROVE TypeOK' /\ GatesAdvance /\ ChatGrows
  BY <1>7 DEF Record, TypeOK, Press, GatesAdvance, ChatGrows, IsOpen
<1>8. ASSUME NEW b \in Bots, RecordFails(b) PROVE TypeOK' /\ GatesAdvance /\ ChatGrows
  BY <1>8, BoundsType DEF RecordFails, TypeOK, Press, GatesAdvance, ChatGrows, IsOpen
<1>9. ASSUME NEW press \in queued, Receive(press) PROVE TypeOK' /\ GatesAdvance /\ ChatGrows
  BY <1>9 DEF Receive, TypeOK, Press, GatesAdvance, ChatGrows, IsOpen
<1>10. ASSUME NEW h \in handling, Look(h) \/ Resolve(h)
       PROVE  TypeOK' /\ GatesAdvance /\ ChatGrows
  <2>1. h \in [press : Press, step : {"look", "resolve", "edit"}] /\ Press' = Press
    BY <1>10 DEF TypeOK, Look, Resolve, Press
  <2>2. handling' \subseteq [press : Press, step : {"look", "resolve", "edit"}]
    BY <1>10, <2>1 DEF TypeOK, Look, Resolve, Step, Done
  <2>3. h.press.answer \in Answers
    BY <2>1 DEF Press
  <2>4. gate' \in [Gates -> {"none", "waiting_approval"} \cup Answers] /\ GatesAdvance
    BY <1>10, <2>3 DEF TypeOK, Look, Resolve, GatesAdvance, IsOpen, Answers
  <2> QED
    BY <1>10, <2>1, <2>2, <2>4 DEF Look, Resolve, TypeOK, ChatGrows
<1>11. ASSUME NEW h \in handling, Edit(h) PROVE TypeOK' /\ GatesAdvance /\ ChatGrows
  <2>1. ChatGrows /\ messages' \in Seq([gate : Gates, buttons : BOOLEAN])
    BY <1>11, RemoveChat DEF Edit
  <2>2. queued' \subseteq Press' /\ handling' \subseteq [press : Press', step : {"look", "resolve", "edit"}]
    BY <1>11, <2>1, PressGrows DEF Edit, Done
  <2> QED
    BY <1>11, <2>1, <2>2 DEF Edit, TypeOK, GatesAdvance, IsOpen
<1>12. ASSUME NEW h \in handling, EditFails(h) PROVE TypeOK' /\ GatesAdvance /\ ChatGrows
  BY <1>12, BoundsType DEF EditFails, Done, TypeOK, Press, GatesAdvance, ChatGrows, IsOpen
<1>13. ASSUME NEW answer \in Answers, NEW m \in DOMAIN messages, Tap(m, answer)
       PROVE  TypeOK' /\ GatesAdvance /\ ChatGrows
  BY <1>13, BoundsType DEF Tap, TypeOK, Press, GatesAdvance, ChatGrows, IsOpen
<1>14. ASSUME NEW answer \in Answers, NEW g \in Gates, CommandLine(g, answer)
       PROVE  TypeOK' /\ GatesAdvance /\ ChatGrows
  BY <1>14 DEF CommandLine, TypeOK, Press, GatesAdvance, ChatGrows, IsOpen, Answers
<1> QED
  BY <1>1, <1>2, <1>3, <1>4, <1>5, <1>6, <1>7, <1>8, <1>9, <1>10, <1>11, <1>12, <1>13, <1>14
     DEF Next, Poller, Callback, Operator

-----------------------------------------------------------------------------
(* The invariant                                                            *)

(* The chat gets a message about an open gate, or a message loses the      *)
(* buttons because its gate was resolved.                                  *)
ChatAbout(m) ==
    \/ /\ m \in DOMAIN messages /\ messages'[m].gate = messages[m].gate
       /\ messages'[m].buttons = messages[m].buttons \/ gate[messages[m].gate] \in Answers
    \/ IsOpen(messages'[m].gate) /\ messages'[m].buttons

LEMMA DeliverAbout ==
    ASSUME TypeOK, NEW g \in Gates, IsOpen(g), Deliver(g)
    PROVE  \A m \in DOMAIN messages' : ChatAbout(m)
<1>1. DOMAIN messages = 1..Len(messages) /\ Len(messages) \in Nat
  BY DEF TypeOK
<1>2. /\ DOMAIN messages' = 1..(Len(messages) + 1)
      /\ \A m \in DOMAIN messages : messages'[m] = messages[m]
      /\ messages'[Len(messages) + 1] = [gate |-> g, buttons |-> TRUE]
  BY DeliverChat
<1>3. \A m \in DOMAIN messages : ChatAbout(m)
  BY <1>2 DEF ChatAbout
<1>4. ChatAbout(Len(messages) + 1)
  BY <1>2 DEF ChatAbout
<1> QED
  BY <1>1, <1>2, <1>3, <1>4

LEMMA ChatSteps == ASSUME IInv, Next PROVE \A m \in DOMAIN messages' : ChatAbout(m)
<1> USE DEF IInv
<1>1. CASE UNCHANGED messages
  BY <1>1 DEF ChatAbout
<1>2. ASSUME NEW b \in Bots, NEW g \in batch[b], Deliver(g)
      PROVE  \A m \in DOMAIN messages' : ChatAbout(m)
  BY <1>2, DeliverAbout DEF Opened, TypeOK
<1>3. ASSUME NEW h \in handling, h.step = "edit", RemoveButtons(h)
      PROVE  \A m \in DOMAIN messages' : ChatAbout(m)
  <2>1. gate[messages[h.press.message].gate] \in Answers
    BY <1>3 DEF Resolved, GateOf
  <2> QED
    BY <1>3, <2>1, RemoveChat DEF ChatAbout
<1>4. \/ UNCHANGED messages
      \/ \E b \in Bots : \E g \in batch[b] : Deliver(g)
      \/ \E h \in handling : h.step = "edit" /\ RemoveButtons(h)
  <2> USE DEF telegram
  <2>1. CASE \E g \in Gates : GateOpens(g)
    BY <2>1 DEF GateOpens
  <2>2. CASE \E b \in Bots : Start(b) \/ Crash(b) \/ Poller(b)
    BY <2>2 DEF Start, Crash, Poller, PollGates, Send, SendFails, Record, RecordFails
  <2>3. CASE Callback
    BY <2>3 DEF Callback, Receive, Look, Resolve, Edit, EditFails
  <2>4. CASE Operator
    BY <2>4 DEF Operator, Tap, CommandLine
  <2> QED
    BY <2>1, <2>2, <2>3, <2>4 DEF Next
<1> QED
  BY <1>1, <1>2, <1>3, <1>4

(* A poller asks only about open gates, and records the one it told of.    *)
LEMMA PollerSteps ==
    ASSUME IInv, Next, NEW b \in Bots
    PROVE  /\ \A g \in batch'[b] : IsOpen(g)
           /\ current'[b] # NoGate =>
                 \/ current'[b] = current[b]
                 \/ IsOpen(current'[b]) /\ Deliver(current'[b])
<1> USE DEF IInv, poller, TypeOK
<1>1. CASE UNCHANGED poller
  BY <1>1 DEF Opened
<1>2. ASSUME NEW c \in Bots, Start(c) \/ Crash(c)
      PROVE  batch'[b] \subseteq batch[b] /\ (current'[b] = NoGate \/ current'[b] = current[b])
  BY <1>2 DEF Start, Crash
<1>3. ASSUME NEW c \in Bots, PollGates(c)
      PROVE  (\A g \in batch'[b] : IsOpen(g)) /\ current'[b] = current[b]
  BY <1>3 DEF PollGates, Unnotified, Opened, IsOpen
<1>4. ASSUME NEW c \in Bots, Send(c)
      PROVE  /\ batch'[b] = batch[b]
             /\ \/ current'[b] = current[b]
                \/ IsOpen(current'[b]) /\ Deliver(current'[b])
  BY <1>4 DEF Send, Opened
<1>5. ASSUME NEW c \in Bots, SendFails(c) \/ Record(c) \/ RecordFails(c)
      PROVE  batch'[b] \subseteq batch[b] /\ (current'[b] = NoGate \/ current'[b] = current[b])
  BY <1>5 DEF SendFails, Record, RecordFails
<1>6. CASE (\E g \in Gates : GateOpens(g)) \/ Callback \/ Operator
  BY <1>1, <1>6 DEF GateOpens, Callback, Receive, Look, Resolve, Edit, EditFails, Operator, Tap, CommandLine
<1> QED
  BY <1>2, <1>3, <1>4, <1>5, <1>6 DEF Next, Poller, Opened

(* A gate is recorded as notified by the poller that told of it.           *)
LEMMA NotifiedSteps ==
    ASSUME IInv, Next, NEW g \in Gates, notified'[g]
    PROVE  notified[g] \/ Told(g)
<1> USE DEF IInv, TypeOK, db
<1>1. CASE UNCHANGED notified
  BY <1>1
<1>2. ASSUME NEW b \in Bots, Record(b) PROVE notified[g] \/ Told(g)
  BY <1>2 DEF Record, Sent
<1>3. UNCHANGED notified \/ \E b \in Bots : Record(b)
  BY DEF Next, GateOpens, Start, Crash, Poller, PollGates, Send, SendFails, RecordFails,
         Callback, Receive, Look, Resolve, Edit, EditFails, Operator, Tap, CommandLine
<1> QED
  BY <1>1, <1>2, <1>3

(* A callback reaches its last step when its gate is resolved.             *)
LEMMA CallbackSteps ==
    ASSUME IInv, Next, NEW h \in handling', h.step = "edit"
    PROVE  \/ h \in handling
           \/ h.press.message \in DOMAIN messages /\ gate'[GateOf(h)] \in Answers
<1> USE DEF IInv
<1>1. CASE \E press \in queued : Receive(press)
  BY <1>1 DEF Receive
<1>2. ASSUME NEW k \in handling, Look(k) \/ Edit(k) \/ EditFails(k) PROVE h \in handling
  BY <1>2 DEF Look, Edit, EditFails, Step, Done, TypeOK
<1>3. ASSUME NEW k \in handling, Resolve(k), h \notin handling
      PROVE  h.press.message \in DOMAIN messages /\ gate'[GateOf(h)] \in Answers
  <2>1. /\ gate' = [gate EXCEPT ![GateOf(k)] = k.press.answer]
        /\ h = [k EXCEPT !.step = "edit"]
    BY <1>3 DEF Resolve, Step, Done
  <2>2. k \in [press : Press, step : {"look", "resolve", "edit"}]
    BY DEF TypeOK
  <2>3. h.press = k.press /\ GateOf(h) = GateOf(k) /\ k.press.answer \in Answers /\ k.press.message \in DOMAIN messages
    BY <2>1, <2>2 DEF GateOf, Press, TypeOK
  <2>4. GateOf(k) \in Gates
    <3>1. messages \in Seq([gate : Gates, buttons : BOOLEAN])
      BY DEF TypeOK
    <3>2. messages[k.press.message] \in [gate : Gates, buttons : BOOLEAN]
      BY <2>3, <3>1, Members, Zenon
    <3> QED
      BY <3>2 DEF GateOf
  <2> QED
    BY <2>1, <2>3, <2>4 DEF TypeOK
<1>4. CASE (\E g \in Gates : GateOpens(g)) \/ (\E b \in Bots : Start(b) \/ Crash(b) \/ Poller(b)) \/ Operator
  BY <1>4 DEF GateOpens, Start, Crash, Poller, PollGates, Send, SendFails, Record, RecordFails,
              Operator, Tap, CommandLine
<1> QED
  BY <1>1, <1>2, <1>3, <1>4 DEF Next, Callback
LEMMA StepsIInv == ASSUME IInv, Next PROVE IInv'
<1>1. TypeOK' /\ GatesAdvance /\ ChatGrows
  BY TypeSteps DEF IInv
<1>2. \A m \in DOMAIN messages : m \in DOMAIN messages' /\ messages[m].gate \in Gates
  <2>1. messages \in Seq([gate : Gates, buttons : BOOLEAN]) /\ Len(messages') \in Nat
    BY <1>1 DEF IInv, TypeOK
  <2>2. \A m \in DOMAIN messages : messages[m] \in [gate : Gates, buttons : BOOLEAN]
    BY <2>1, Members, Zenon
  <2> QED
    BY <1>1, <2>1, <2>2 DEF ChatGrows, TypeOK
<1>3. \A g \in Gates : Told(g) => Told(g)'
  BY <1>1, <1>2 DEF Told, ChatGrows
<1>4. Opened'
  <2>1. \A b \in Bots : \A g \in batch'[b] : g \in Gates /\ IsOpen(g)'
    BY <1>1, PollerSteps DEF TypeOK, GatesAdvance
  <2>2. \A b \in Bots : current'[b] # NoGate => IsOpen(current[b])'
    <3>1. TAKE b \in Bots
    <3>2. HAVE current'[b] # NoGate
    <3>3. current'[b] \in Gates
      BY <1>1, <3>2 DEF TypeOK
    <3>4. IsOpen(current'[b])
      BY <3>2, PollerSteps DEF IInv, Opened
    <3> QED
      BY <1>1, <3>3, <3>4 DEF GatesAdvance, IsOpen
  <2>3. \A m \in DOMAIN messages' : IsOpen(messages[m].gate)'
    <3>1. \A m \in DOMAIN messages' : messages'[m].gate \in Gates
      <4>1. messages' \in Seq([gate : Gates, buttons : BOOLEAN])
        BY <1>1 DEF TypeOK
      <4>2. \A m \in DOMAIN messages' : messages'[m] \in [gate : Gates, buttons : BOOLEAN]
        BY <4>1, Members, Zenon
      <4> QED
        BY <4>2
    <3>2. \A m \in DOMAIN messages' : IsOpen(messages'[m].gate)
      BY ChatSteps DEF ChatAbout, IInv, Opened
    <3> QED
      BY <1>1, <3>1, <3>2 DEF GatesAdvance, IsOpen
  <2> QED
    BY <2>1, <2>2, <2>3 DEF Opened
<1>5. Sent'
  <2>1. \A g \in Gates : notified'[g] => Told(g)'
    BY <1>3, NotifiedSteps DEF IInv, Sent
  <2>2. ASSUME NEW b \in Bots, current'[b] # NoGate PROVE Told(current[b])'
    <3>1. current'[b] \in Gates
      BY <1>1, <2>2 DEF TypeOK
    <3>2. CASE current'[b] = current[b]
      BY <1>3, <2>2, <3>1, <3>2 DEF IInv, Sent, Told
    <3>3. CASE Deliver(current'[b])
      <4>1. /\ DOMAIN messages' = 1..(Len(messages) + 1)
            /\ messages'[Len(messages) + 1] = [gate |-> current'[b], buttons |-> TRUE]
        BY <3>1, <3>3, DeliverChat DEF IInv
      <4>2. Len(messages) \in Nat
        BY DEF IInv, TypeOK
      <4>3. Len(messages) + 1 \in DOMAIN messages' /\ messages'[Len(messages) + 1].gate = current'[b]
        BY <4>1, <4>2
      <4> QED
        BY <4>3 DEF Told
    <3> QED
      BY <2>2, <3>2, <3>3, PollerSteps
  <2> QED
    BY <2>1, <2>2 DEF Sent
<1>6. Resolved'
  <2>1. \A m \in DOMAIN messages' :
            ~messages'[m].buttons => gate'[messages'[m].gate] \in Answers
    BY <1>1, <1>2, ChatSteps DEF ChatAbout, IInv, Resolved, GatesAdvance
  <2>2. ASSUME NEW h \in handling', h.step = "edit" PROVE gate'[messages'[h.press.message].gate] \in Answers
    <3>2. ASSUME h.press.message \in DOMAIN messages
          PROVE  messages'[h.press.message].gate = GateOf(h) /\ GateOf(h) \in Gates
      BY <1>1, <1>2, <3>2 DEF GateOf, ChatGrows
    <3>3. CASE h \in handling
      <4>1. gate[GateOf(h)] \in Answers
        BY <2>2, <3>3 DEF IInv, Resolved
      <4>2. h.press.message \in DOMAIN messages
        BY <3>3 DEF IInv, TypeOK, Press
      <4> QED
        BY <1>1, <3>2, <4>1, <4>2 DEF GatesAdvance
    <3>4. CASE h \notin handling
      BY <2>2, <3>2, <3>4, CallbackSteps
    <3> QED
      BY <3>3, <3>4
  <2> QED
    BY <2>1, <2>2 DEF Resolved, GateOf
<1> QED
  BY <1>1, <1>4, <1>5, <1>6 DEF IInv
(* The strengthening holds in every state of the desk.                     *)
THEOREM Invariance == Spec => []IInv
<1>1. IInv /\ [Next]_vars => IInv'
  <2> SUFFICES ASSUME IInv, UNCHANGED vars PROVE IInv'
    BY StepsIInv
  <2> USE DEF vars, db, telegram, poller
  <2>1. TypeOK'
    BY DEF IInv, TypeOK, Press
  <2>2. Opened' /\ Sent' /\ Resolved'
    BY DEF IInv, Opened, Sent, Resolved, IsOpen, Told, GateOf
  <2> QED
    BY <2>1, <2>2 DEF IInv
<1> QED
  BY <1>1, InitIInv, PTL DEF Spec

(* The variables keep their types, and a poller has a gate in hand exactly *)
(* between its message and its record.                                     *)
THEOREM TypeCorrect == Spec => []TypeOK
<1>1. IInv => TypeOK
  BY DEF IInv
<1> QED
  BY <1>1, Invariance, PTL

(* A gate that waits and was notified has a message with its buttons.      *)
THEOREM GatesCanBeAnswered == Spec => []WaitingIsAnswerable
<1>1. IInv => WaitingIsAnswerable
  <2> SUFFICES ASSUME IInv, NEW g \in Gates, gate[g] = "waiting_approval", notified[g]
               PROVE  \E m \in DOMAIN messages : messages[m].gate = g /\ messages[m].buttons
    BY DEF WaitingIsAnswerable
  <2>1. PICK m \in DOMAIN messages : messages[m].gate = g
    BY DEF IInv, Sent, Told
  <2>2. messages \in Seq([gate : Gates, buttons : BOOLEAN])
    BY DEF IInv, TypeOK
  <2>3. messages[m] \in [gate : Gates, buttons : BOOLEAN]
    BY <2>2, Members, Zenon
  <2>4. messages[m].buttons
    BY <2>1, <2>3 DEF IInv, Resolved, Answers
  <2> QED
    BY <2>1, <2>4
<1> QED
  BY <1>1, Invariance, PTL

-----------------------------------------------------------------------------
(* The refinement                                                           *)

(* What the promise sees of a step: nothing, a gate that opens, an answer,  *)
(* or a message about an open gate.                                        *)
Seen ==
    \/ UNCHANGED gate /\ (UNCHANGED messages \/ \E h \in handling : RemoveButtons(h))
    \/ UNCHANGED messages /\ \E g \in Gates :
          /\ gate[g] = "none"
          /\ gate' = [gate EXCEPT ![g] = "waiting_approval"]
    \/ UNCHANGED messages /\ \E g \in Gates, answer \in Answers :
          /\ gate[g] = "waiting_approval"
          /\ gate' = [gate EXCEPT ![g] = answer]
    \/ UNCHANGED gate /\ \E g \in Gates : IsOpen(g) /\ Deliver(g)

LEMMA StepsSeen == ASSUME IInv, Next PROVE Seen
<1> USE DEF db, telegram
<1>1. ASSUME NEW g \in Gates, GateOpens(g) PROVE Seen
  BY <1>1 DEF GateOpens, Seen
<1>2. ASSUME NEW b \in Bots, Start(b) \/ Crash(b) \/ PollGates(b) \/ Record(b) \/ RecordFails(b)
      PROVE  Seen
  BY <1>2 DEF Start, Crash, PollGates, Record, RecordFails, Seen
<1>3. ASSUME NEW b \in Bots, Send(b) \/ SendFails(b) PROVE Seen
  <2>1. UNCHANGED gate /\ (UNCHANGED messages \/ \E g \in batch[b] : Deliver(g))
    BY <1>3 DEF Send, SendFails
  <2>2. \A g \in batch[b] : g \in Gates /\ IsOpen(g)
    BY DEF IInv, TypeOK, Opened
  <2> QED
    BY <2>1, <2>2 DEF Seen
<1>4. CASE \E press \in queued : Receive(press)
  BY <1>4 DEF Receive, Seen
<1>5. ASSUME NEW h \in handling, Look(h) \/ Edit(h) \/ EditFails(h) PROVE Seen
  BY <1>5 DEF Look, Edit, EditFails, Seen
<1>6. ASSUME NEW h \in handling, Resolve(h) PROVE Seen
  <2>1. h.press \in Press /\ messages \in Seq([gate : Gates, buttons : BOOLEAN])
    BY DEF IInv, TypeOK
  <2>2. h.press.answer \in Answers /\ h.press.message \in DOMAIN messages
    BY <2>1 DEF Press
  <2>3. messages[h.press.message] \in [gate : Gates, buttons : BOOLEAN]
    BY <2>1, <2>2, Members, Zenon
  <2>4. GateOf(h) \in Gates
    BY <2>3 DEF GateOf
  <2> QED
    BY <1>6, <2>2, <2>4 DEF Resolve, Seen
<1>7. CASE Operator
  BY <1>7 DEF Operator, Tap, CommandLine, Seen
<1> QED
  BY <1>1, <1>2, <1>3, <1>4, <1>5, <1>6, <1>7 DEF Next, Poller, Callback

LEMMA SeenIsPromised == ASSUME IInv, Seen PROVE [Promise!Next]_(Promise!vars)
<1> DEFINE Asked == {messages[m].gate : m \in DOMAIN messages}
<1> USE DEF IInv, TypeOK, Promise!Next, Promise!vars
<1>1. CASE UNCHANGED gate /\ (UNCHANGED messages \/ \E h \in handling : RemoveButtons(h))
  <2>1. /\ DOMAIN messages' = DOMAIN messages
        /\ \A m \in DOMAIN messages : messages'[m].gate = messages[m].gate
    BY <1>1, RemoveChat
  <2>2. Asked' = Asked
    BY <2>1
  <2> QED
    BY <1>1, <2>2
<1>2. ASSUME UNCHANGED messages, NEW g \in Gates, gate[g] = "none",
             gate' = [gate EXCEPT ![g] = "waiting_approval"]
      PROVE  Promise!Open(g)
  BY <1>2 DEF Promise!Open, Answers
<1>3. ASSUME UNCHANGED messages, NEW g \in Gates, NEW answer \in Answers,
             gate[g] = "waiting_approval", gate' = [gate EXCEPT ![g] = answer]
      PROVE  Promise!Answer(g, answer)
  BY <1>3 DEF Promise!Answer, Answers
<1>4. ASSUME UNCHANGED gate, NEW g \in Gates, IsOpen(g), Deliver(g)
      PROVE  Promise!Ask(g)
  <2>1. DOMAIN messages = 1..Len(messages) /\ Len(messages) \in Nat
    OBVIOUS
  <2>2. /\ DOMAIN messages' = 1..(Len(messages) + 1)
        /\ \A m \in DOMAIN messages : messages'[m] = messages[m]
        /\ messages'[Len(messages) + 1] = [gate |-> g, buttons |-> TRUE]
    BY <1>4, DeliverChat, Zenon
  <2>3. /\ DOMAIN messages' = DOMAIN messages \cup {Len(messages) + 1}
        /\ messages'[Len(messages) + 1].gate = g
    BY <2>1, <2>2
  <2>4. Asked' \subseteq Asked \cup {g}
    <3> SUFFICES ASSUME NEW m \in DOMAIN messages' PROVE messages'[m].gate \in Asked \cup {g}
      OBVIOUS
    <3>1. CASE m \in DOMAIN messages
      BY <2>2, <3>1, Zenon
    <3>2. CASE m = Len(messages) + 1
      BY <2>3, <3>2, Zenon
    <3> QED
      BY <2>3, <3>1, <3>2, Zenon
  <2>5. Asked \subseteq Asked'
    BY <2>2, <2>3, ZenonT(30)
  <2>6. g \in Asked'
    BY <2>3, Zenon
  <2> QED
    BY <1>4, <2>4, <2>5, <2>6 DEF Promise!Ask, IsOpen
<1> QED
  BY <1>1, <1>2, <1>3, <1>4 DEF Seen, Promise!Answers, Answers

(* The desk implements the promise: asked only once open, answered once.   *)
THEOREM PromiseKept == Spec => KeepsPromise
<1>1. Init => Promise!Init
  BY DEF Init, Promise!Init, Answers
<1>2. IInv /\ [Next]_vars => [Promise!Next]_(Promise!vars)
  <2>1. CASE UNCHANGED vars
    BY <2>1 DEF vars, db, telegram, Promise!vars
  <2> QED
    BY <2>1, StepsSeen, SeenIsPromised
<1> QED
  BY <1>1, <1>2, Invariance, PTL DEF Spec, KeepsPromise, Promise!Spec
-----------------------------------------------------------------------------
(* How often a gate is asked about                                          *)

(* A bot is spent for a gate when it has just told of it, or can read and  *)
(* hold it no more: then only a fault lets it ask again.                   *)
Copies(g) == {m \in DOMAIN messages : messages[m].gate = g}
Spent(g)  == {b \in Bots : current[b] = g \/ (notified[g] /\ g \notin batch[b])}

CopiesPaid == \A g \in Gates : Cardinality(Copies(g)) <= Cardinality(Spent(g)) + (Budget - budget)

LEMMA CopiesFinite ==
    ASSUME TypeOK, NEW g PROVE IsFiniteSet(Copies(g)) /\ Cardinality(Copies(g)) \in Nat
<1>1. DOMAIN messages = 1..Len(messages) /\ Len(messages) \in Nat
  BY DEF TypeOK
<1>2. IsFiniteSet(DOMAIN messages) /\ Copies(g) \subseteq DOMAIN messages
  BY <1>1, FS_Interval DEF Copies
<1> QED
  BY <1>2, FS_Subset, FS_CardinalityType

LEMMA BotSets ==
    ASSUME NEW A \in SUBSET Bots
    PROVE  IsFiniteSet(A) /\ Cardinality(A) \in Nat /\ Cardinality(A) <= Cardinality(Bots)
BY DaemonsType, FS_Subset, FS_CardinalityType

(* A message adds a copy for its own gate.                                  *)
LEMMA CopyAdded ==
    ASSUME TypeOK, NEW f \in Gates, NEW g, Deliver(f)
    PROVE  /\ f # g => Copies(g)' = Copies(g)
           /\ Cardinality(Copies(g)') <= Cardinality(Copies(g)) + 1
<1>1. /\ DOMAIN messages = 1..Len(messages) /\ Len(messages) \in Nat
      /\ DOMAIN messages' = 1..(Len(messages) + 1)
      /\ \A m \in DOMAIN messages : messages'[m] = messages[m]
      /\ messages'[Len(messages) + 1] = [gate |-> f, buttons |-> TRUE]
  BY DeliverChat DEF TypeOK
<1>2. Copies(g)' = IF f = g THEN Copies(g) \cup {Len(messages) + 1} ELSE Copies(g)
  BY <1>1 DEF Copies
<1>3. Cardinality(Copies(g) \cup {Len(messages) + 1}) <= Cardinality(Copies(g)) + 1
  <2> DEFINE C == Copies(g)  m == Len(messages) + 1
  <2>1. IsFiniteSet(C) /\ Cardinality(C) \in Nat
    BY CopiesFinite
  <2> HIDE DEF C, m
  <2>2. Cardinality(C \cup {m}) = IF m \in C THEN Cardinality(C) ELSE Cardinality(C) + 1
    BY <2>1, FS_AddElement
  <2>3. Cardinality(C \cup {m}) <= Cardinality(C) + 1
    BY <2>1, <2>2
  <2> QED
    BY <2>3 DEF C, m
<1> QED
  BY <1>2, <1>3, CopiesFinite

(* What a step does to the copies of a gate, the spent bots and the faults. *)
Pays(g) ==
    \/ Copies(g)' = Copies(g) /\ Spent(g) \subseteq Spent(g)' /\ budget' \in {budget, budget - 1}
    \/ /\ Cardinality(Copies(g)') <= Cardinality(Copies(g)) + 1 /\ budget' = budget
       /\ \E b \in Bots \ Spent(g) : Spent(g) \cup {b} \subseteq Spent(g)'
    \/ /\ Cardinality(Copies(g)') <= Cardinality(Copies(g)) + 1 /\ budget' = budget - 1
       /\ Spent(g) \subseteq Spent(g)'
    \/ /\ Copies(g)' = Copies(g) /\ budget' = budget - 1
       /\ \E b \in Bots : Spent(g) \ {b} \subseteq Spent(g)'

LEMMA StepsPay == ASSUME TypeOK, Next, NEW g \in Gates PROVE Pays(g)
<1> USE DEF Adverse
<1>0. \A b \in Bots : pc[b] \in {"poll", "send"} => current[b] # g
  BY NonesType DEF TypeOK
<1>1. ASSUME NEW f \in Gates, GateOpens(f) PROVE Pays(g)
  BY <1>1 DEF GateOpens, telegram, poller, Pays, Copies, Spent
<1>2. ASSUME NEW b \in Bots, Start(b) PROVE Pays(g)
  BY <1>2 DEF Start, db, Pays, Copies, Spent
<1>3. ASSUME NEW b \in Bots, Crash(b) \/ RecordFails(b) PROVE Pays(g)
  <2>1. /\ UNCHANGED <<messages, notified>> /\ budget' = budget - 1
        /\ batch' = [batch EXCEPT ![b] = {}] /\ current' = [current EXCEPT ![b] = NoGate]
    BY <1>3 DEF Crash, RecordFails, db, telegram
  <2>2. Copies(g)' = Copies(g)
    BY <2>1 DEF Copies
  <2>3. Spent(g) \ {b} \subseteq Spent(g)'
    BY <2>1 DEF Spent, TypeOK
  <2> QED
    BY <2>1, <2>2, <2>3 DEF Pays
<1>4. ASSUME NEW b \in Bots, PollGates(b) PROVE Pays(g)
  <2>1. /\ UNCHANGED <<messages, notified, current, budget>>
        /\ batch' = [batch EXCEPT ![b] = Unnotified]
    BY <1>4 DEF PollGates, db, telegram
  <2>2. Copies(g)' = Copies(g)
    BY <2>1 DEF Copies
  <2>3. Spent(g) \subseteq Spent(g)'
    BY <2>1 DEF Spent, Unnotified, TypeOK
  <2> QED
    BY <2>1, <2>2, <2>3 DEF Pays
<1>5. ASSUME NEW b \in Bots, Send(b) PROVE Pays(g)
  <2>1. PICK f \in batch[b] : current' = [current EXCEPT ![b] = f] /\ Deliver(f)
    BY <1>5 DEF Send
  <2>2. f \in Gates /\ UNCHANGED <<notified, batch, budget>> /\ pc[b] = "send"
    BY <1>5 DEF Send, db, TypeOK
  <2>3. Cardinality(Copies(g)') <= Cardinality(Copies(g)) + 1 /\ (f # g => Copies(g)' = Copies(g))
    BY <2>1, <2>2, CopyAdded
  <2>4. Spent(g) \subseteq Spent(g)'
    BY <1>0, <2>1, <2>2 DEF Spent, TypeOK
  <2>5. f = g => b \in Spent(g)' /\ b \notin Spent(g)
    BY <1>0, <2>1, <2>2 DEF Spent, TypeOK
  <2> QED
    BY <2>2, <2>3, <2>4, <2>5 DEF Pays
<1>6. ASSUME NEW b \in Bots, SendFails(b) PROVE Pays(g)
  <2>1. /\ UNCHANGED <<notified, current>> /\ budget' = budget - 1
        /\ batch' = [batch EXCEPT ![b] = {}]
    BY <1>6 DEF SendFails, db
  <2>2. Spent(g) \subseteq Spent(g)'
    BY <2>1 DEF Spent, TypeOK
  <2>3. Cardinality(Copies(g)') <= Cardinality(Copies(g)) + 1
    <3>1. CASE UNCHANGED messages
      BY <3>1, CopiesFinite DEF Copies
    <3>2. ASSUME NEW f \in batch[b], Deliver(f)
          PROVE  Cardinality(Copies(g)') <= Cardinality(Copies(g)) + 1
      BY <3>2, CopyAdded DEF TypeOK
    <3> QED
      BY <1>6, <3>1, <3>2 DEF SendFails
  <2> QED
    BY <2>1, <2>2, <2>3 DEF Pays
<1>7. ASSUME NEW b \in Bots, Record(b) PROVE Pays(g)
  <2>1. /\ UNCHANGED <<messages, budget>>
        /\ notified' = [notified EXCEPT ![current[b]] = TRUE]
        /\ batch' = [batch EXCEPT ![b] = @ \ {current[b]}]
        /\ current' = [current EXCEPT ![b] = NoGate]
    BY <1>7 DEF Record, telegram
  <2>2. Copies(g)' = Copies(g)
    BY <2>1 DEF Copies
  <2>3. Spent(g) \subseteq Spent(g)'
    BY <2>1 DEF Spent, TypeOK
  <2> QED
    BY <2>1, <2>2, <2>3 DEF Pays
<1>8. CASE Callback
  <2>1. UNCHANGED <<notified, batch, current>> /\ budget' \in {budget, budget - 1}
    BY <1>8 DEF Callback, Receive, Look, Resolve, Edit, EditFails, db, poller
  <2>2. UNCHANGED messages \/ \E h \in handling : RemoveButtons(h)
    BY <1>8 DEF Callback, Receive, Look, Resolve, Edit, EditFails, telegram
  <2>3. Copies(g)' = Copies(g)
    BY <2>2, RemoveChat DEF Copies
  <2> QED
    BY <2>1, <2>3 DEF Pays, Spent
<1>9. CASE Operator
  BY <1>9 DEF Operator, Tap, CommandLine, db, telegram, poller, Pays, Copies, Spent
<1> QED
  BY <1>1, <1>2, <1>3, <1>4, <1>5, <1>6, <1>7, <1>8, <1>9 DEF Next, Poller

LEMMA PaidKept == ASSUME TypeOK, TypeOK', CopiesPaid, Next PROVE CopiesPaid'
<1> SUFFICES ASSUME NEW g \in Gates
             PROVE  Cardinality(Copies(g)') <= Cardinality(Spent(g)') + (Budget - budget')
  BY DEF CopiesPaid
<1> DEFINE c == Cardinality(Copies(g))  s == Cardinality(Spent(g))
           d == Cardinality(Copies(g)') t == Cardinality(Spent(g)')
<1>1. Spent(g) \in SUBSET Bots /\ Spent(g)' \in SUBSET Bots
  BY DEF Spent
<1>2. /\ c \in Nat /\ s \in Nat /\ t \in Nat /\ c <= s + (Budget - budget)
      /\ budget \in Nat /\ Budget \in Nat
  BY <1>1, CopiesFinite, BotSets, BoundsType DEF CopiesPaid, TypeOK
<1>3. d \in Nat
  <2>1. DOMAIN messages' = 1..Len(messages') /\ Len(messages') \in Nat
    BY DEF TypeOK
  <2>2. IsFiniteSet(DOMAIN messages') /\ Copies(g)' \subseteq DOMAIN messages'
    BY <2>1, FS_Interval DEF Copies
  <2> QED
    BY <2>2, FS_Subset, FS_CardinalityType
<1>4. Spent(g) \subseteq Spent(g)' => s <= t
  BY <1>1, BotSets, FS_Subset
<1>5. ASSUME NEW b \in Bots \ Spent(g), Spent(g) \cup {b} \subseteq Spent(g)' PROVE s + 1 <= t
  <2>1. Cardinality(Spent(g) \cup {b}) = s + 1
    BY <1>1, <1>5, BotSets, FS_AddElement
  <2> QED
    BY <1>1, <1>5, <2>1, BotSets, FS_Subset
<1>6. ASSUME NEW b \in Bots, Spent(g) \ {b} \subseteq Spent(g)' PROVE s - 1 <= t
  <2>1. s - 1 <= Cardinality(Spent(g) \ {b})
    BY <1>1, <1>2, BotSets, FS_RemoveElement
  <2>2. Cardinality(Spent(g) \ {b}) <= t /\ Cardinality(Spent(g) \ {b}) \in Nat
    BY <1>1, <1>6, BotSets, FS_Subset
  <2> QED
    BY <1>2, <2>1, <2>2
<1> HIDE DEF c, s, d, t
<1>7. \/ d = c /\ s <= t /\ budget' \in {budget, budget - 1}
      \/ d <= c + 1 /\ budget' = budget /\ s + 1 <= t
      \/ d <= c + 1 /\ budget' = budget - 1 /\ s <= t
      \/ d = c /\ budget' = budget - 1 /\ s - 1 <= t
  BY <1>4, <1>5, <1>6, StepsPay DEF Pays, c, d
<1>8. d <= t + (Budget - budget')
  BY <1>2, <1>3, <1>7
<1> QED
  BY <1>8 DEF d, t

(* A gate has no more messages than there are bots and were faults, however *)
(* the polls, sends and records of the bots interleave (poll_pending_gates, *)
(* notify_gate and mark_gate_notified read and write in separate steps).    *)
THEOREM AskedSeldom == Spec => []AskedOncePerBot
<1>1. Init => CopiesPaid
  <2> SUFFICES ASSUME Init, NEW g \in Gates
               PROVE  Cardinality(Copies(g)) <= Cardinality(Spent(g)) + (Budget - budget)
    BY DEF CopiesPaid
  <2>1. Copies(g) = {} /\ Budget - budget = 0
    BY BoundsType DEF Init, Copies
  <2>2. Spent(g) \in SUBSET Bots
    BY DEF Spent
  <2> QED
    BY <2>1, <2>2, BotSets, FS_EmptySet
<1>2. TypeOK /\ TypeOK' /\ CopiesPaid /\ [Next]_vars => CopiesPaid'
  <2>1. ASSUME CopiesPaid, UNCHANGED vars PROVE CopiesPaid'
    BY <2>1 DEF CopiesPaid, Copies, Spent, vars, db, telegram, poller
  <2> QED
    BY <2>1, PaidKept
<1>3. TypeOK /\ CopiesPaid => AskedOncePerBot
  <2> SUFFICES ASSUME TypeOK, CopiesPaid, NEW g \in Gates
               PROVE  Cardinality(Copies(g)) <= Cardinality(Bots) + (Budget - budget)
    BY DEF AskedOncePerBot, Copies
  <2>1. Spent(g) \in SUBSET Bots
    BY DEF Spent
  <2>2. Cardinality(Spent(g)) <= Cardinality(Bots) /\ Cardinality(Spent(g)) \in Nat /\ Cardinality(Bots) \in Nat
    BY <2>1, BotSets
  <2> QED
    BY <2>2, CopiesFinite, BoundsType DEF CopiesPaid, TypeOK
<1> QED
  BY <1>1, <1>2, <1>3, TypeCorrect, PTL DEF Spec
=============================================================================
