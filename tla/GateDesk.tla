------------------------------- MODULE GateDesk -------------------------------
(***************************************************************************)
(* How a gate reaches the operator and his answer the database: the        *)
(* gate_poller of each running bot sends a message with two buttons, a     *)
(* press is a callback that Telegram queues for the one bot that polls it, *)
(* and handle_gate_callback resolves the gate, which the command line may  *)
(* do as well.  Two bots may run: the task of the easter daemon and the    *)
(* standalone telegram_bot.py; only one of them receives the callbacks.    *)
(*                                                                         *)
(* `gate` and `notified` are the columns gate_status and gate_notified_at  *)
(* (NULL or not); `messages` the chat, in the order of the message ids.    *)
(***************************************************************************)
EXTENDS Naturals, Sequences, FiniteSets

CONSTANTS Gates,
          Bots,
          Daemons,  \* bots that notify even when they cannot receive callbacks
          NoBot, NoGate,
          Taps,     \* bound: how often the operator presses a button
          Budget    \* bound: how many adverse events a behaviour has

ASSUME DaemonsType == Daemons \subseteq Bots /\ IsFiniteSet(Bots)
ASSUME NonesType   == NoBot \notin Bots /\ NoGate \notin Gates
ASSUME BoundsType  == {Taps, Budget} \subseteq Nat

VARIABLES gate, notified,       \* the database
          messages, queued,     \* Telegram: the chat, the callbacks not yet delivered
          pc, batch, current,   \* gate_poller of each bot
          listening,            \* the bot that receives the callbacks
          handling,             \* the callbacks it is handling
          taps, budget          \* what is left of the bounds

db       == <<gate, notified>>
poller   == <<pc, batch, current>>
telegram == <<messages, queued>>
vars     == <<db, telegram, poller, listening, handling, taps, budget>>

Answers == {"approved", "rejected"}
Press   == [message : 1..Len(messages), answer : Answers]

TypeOK ==
    /\ gate \in [Gates -> {"none", "waiting_approval"} \cup Answers]
    /\ notified \in [Gates -> BOOLEAN]
    /\ messages \in Seq([gate : Gates, buttons : BOOLEAN])
    /\ queued \subseteq Press
    /\ pc \in [Bots -> {"down", "poll", "send", "record"}]
    /\ batch \in [Bots -> SUBSET Gates]
    /\ current \in [Bots -> Gates \cup {NoGate}]
    /\ \A b \in Bots : pc[b] = "record" <=> current[b] # NoGate
    /\ listening \in Bots \cup {NoBot} /\ (listening # NoBot => pc[listening] # "down")
    /\ handling \subseteq [press : Press, step : {"look", "resolve", "edit"}]
    /\ taps \in 0..Taps /\ budget \in 0..Budget

Init ==
    /\ gate = [g \in Gates |-> "none"] /\ notified = [g \in Gates |-> FALSE]
    /\ messages = << >> /\ queued = {}
    /\ pc = [b \in Bots |-> "down"] /\ batch = [b \in Bots |-> {}]
    /\ current = [b \in Bots |-> NoGate]
    /\ listening = NoBot /\ handling = {}
    /\ taps = Taps /\ budget = Budget

Adverse == budget > 0 /\ budget' = budget - 1

(* The pipeline inserts the row and waits.                                 *)
GateOpens(g) ==
    /\ gate[g] = "none"
    /\ gate' = [gate EXCEPT ![g] = "waiting_approval"]
    /\ UNCHANGED <<notified, telegram, poller, listening, handling, taps, budget>>

-----------------------------------------------------------------------------
(* A bot starts and crashes                                                 *)

(* preflight_polling_safe drops what Telegram has queued, or fails to, and *)
(* looks for another bot that polls: the daemon then notifies without      *)
(* receiving, the standalone bot exits.                                    *)
Start(b) ==
    /\ pc[b] = "down"
    /\ queued' \in {{}, queued}
    /\ IF listening = NoBot
       THEN listening' = b /\ pc' = [pc EXCEPT ![b] = "poll"]
       ELSE /\ UNCHANGED listening
            /\ pc' = IF b \in Daemons THEN [pc EXCEPT ![b] = "poll"] ELSE pc
    /\ UNCHANGED <<db, messages, batch, current, handling, taps, budget>>

(* Mutant: a bot that crashed still counts as the one that polls.          *)
CrashKeepsListening(b) ==
    /\ pc[b] # "down" /\ Adverse
    /\ pc' = [pc EXCEPT ![b] = "down"]
    /\ batch' = [batch EXCEPT ![b] = {}] /\ current' = [current EXCEPT ![b] = NoGate]
    /\ UNCHANGED <<db, telegram, listening, handling, taps>>

(* The callbacks it was handling are lost, or Telegram delivers them again *)
(* because it never learnt of their receipt.                               *)
Crash(b) ==
    /\ pc[b] # "down" /\ Adverse
    /\ pc' = [pc EXCEPT ![b] = "down"]
    /\ batch' = [batch EXCEPT ![b] = {}] /\ current' = [current EXCEPT ![b] = NoGate]
    /\ IF listening = b
       THEN /\ listening' = NoBot /\ handling' = {}
            /\ queued' \in {queued, queued \cup {h.press : h \in handling}}
       ELSE UNCHANGED <<listening, handling, queued>>
    /\ UNCHANGED <<db, messages, taps>>

-----------------------------------------------------------------------------
(* gate_poller and notify_gate                                              *)

(* Mutant: gates already notified are asked about again.                   *)
UnnotifiedOrNot == {g \in Gates : gate[g] = "waiting_approval"}

(* poll_pending_gates *)
Unnotified == {g \in Gates : gate[g] = "waiting_approval" /\ ~notified[g]}

(* Mutant: the gates are recorded as notified when they are read.          *)
PollGatesRecords(b) ==
    /\ pc[b] = "poll"
    /\ batch' = [batch EXCEPT ![b] = Unnotified]
    /\ notified' = [g \in Gates |-> notified[g] \/ g \in Unnotified]
    /\ pc' = [pc EXCEPT ![b] = IF Unnotified = {} THEN "poll" ELSE "send"]
    /\ UNCHANGED <<gate, telegram, current, listening, handling, taps, budget>>

PollGates(b) ==
    /\ pc[b] = "poll"
    /\ batch' = [batch EXCEPT ![b] = Unnotified]
    /\ pc' = [pc EXCEPT ![b] = IF Unnotified = {} THEN "poll" ELSE "send"]
    /\ UNCHANGED <<db, telegram, current, listening, handling, taps, budget>>

Deliver(g) == messages' = Append(messages, [gate |-> g, buttons |-> TRUE])

(* ask_choice: the batch may be older than an answer or another bot's      *)
(* notification of the same gate.                                          *)
Send(b) ==
    /\ pc[b] = "send"
    /\ \E g \in batch[b] : current' = [current EXCEPT ![b] = g] /\ Deliver(g)
    /\ pc' = [pc EXCEPT ![b] = "record"]
    /\ UNCHANGED <<db, queued, batch, listening, handling, taps, budget>>

(* An exception, which a message delivered all the same may have: the rest *)
(* of the batch is given up and polled again after the back-off.           *)
SendFails(b) ==
    /\ pc[b] = "send" /\ Adverse
    /\ UNCHANGED messages \/ \E g \in batch[b] : Deliver(g)
    /\ pc' = [pc EXCEPT ![b] = "poll"] /\ batch' = [batch EXCEPT ![b] = {}]
    /\ UNCHANGED <<db, queued, current, listening, handling, taps>>

Record(b) ==
    /\ pc[b] = "record"
    /\ notified' = [notified EXCEPT ![current[b]] = TRUE]
    /\ batch' = [batch EXCEPT ![b] = @ \ {current[b]}]
    /\ current' = [current EXCEPT ![b] = NoGate]
    /\ pc' = [pc EXCEPT ![b] = IF batch'[b] = {} THEN "poll" ELSE "send"]
    /\ UNCHANGED <<gate, telegram, listening, handling, taps, budget>>

RecordFails(b) ==
    /\ pc[b] = "record" /\ Adverse
    /\ batch' = [batch EXCEPT ![b] = {}] /\ current' = [current EXCEPT ![b] = NoGate]
    /\ pc' = [pc EXCEPT ![b] = "poll"]
    /\ UNCHANGED <<db, telegram, listening, handling, taps>>

-----------------------------------------------------------------------------
(* The operator                                                             *)

(* He may press twice, both buttons, or those of an older message.         *)
Tap(m, answer) ==
    /\ taps > 0 /\ taps' = taps - 1
    /\ messages[m].buttons
    /\ queued' = queued \cup {[message |-> m, answer |-> answer]}
    /\ UNCHANGED <<db, messages, poller, listening, handling, budget>>

(* platform_cli.py gate approve, gate reject.                              *)
CommandLine(g, answer) ==
    /\ gate[g] = "waiting_approval"
    /\ gate' = [gate EXCEPT ![g] = answer]
    /\ UNCHANGED <<notified, telegram, poller, listening, handling, taps, budget>>

-----------------------------------------------------------------------------
(* handle_gate_callback                                                     *)

GateOf(h) == messages[h.press.message].gate
Step(h, step) == handling' = (handling \ {h}) \cup {[h EXCEPT !.step = step]}
Done(h) == handling' = handling \ {h}

Receive(press) ==
    /\ listening # NoBot /\ press \in queued
    /\ queued' = queued \ {press}
    /\ handling' = handling \cup {[press |-> press, step |-> "look"]}
    /\ UNCHANGED <<db, messages, poller, listening, taps, budget>>

RemoveButtons(h) == messages' = [messages EXCEPT ![h.press.message].buttons = FALSE]

(* Mutant: the buttons are removed before the gate is resolved.            *)
LookAndEdit(h) ==
    /\ h.step = "look" /\ \A other \in handling : other.step # "resolve"
    /\ RemoveButtons(h)
    /\ IF gate[GateOf(h)] = "waiting_approval" THEN Step(h, "resolve") ELSE Done(h)
    /\ UNCHANGED <<db, queued, poller, listening, taps, budget>>

(* The SELECT; between it and the UPDATE the handler does not await, so    *)
(* another process may come in but no other callback.                      *)
Look(h) ==
    /\ h.step = "look" /\ \A other \in handling : other.step # "resolve"
    /\ IF gate[GateOf(h)] = "waiting_approval" THEN Step(h, "resolve") ELSE Done(h)
    /\ UNCHANGED <<db, telegram, poller, listening, taps, budget>>

(* Mutant: the UPDATE does not look at gate_status.                        *)
ResolveBlindly(h) ==
    /\ h.step = "resolve"
    /\ gate' = [gate EXCEPT ![GateOf(h)] = h.press.answer] /\ Step(h, "edit")
    /\ UNCHANGED <<notified, telegram, poller, listening, taps, budget>>

(* approve_gate, reject_gate: UPDATE ... WHERE gate_status still waits.    *)
Resolve(h) ==
    /\ h.step = "resolve"
    /\ IF gate[GateOf(h)] = "waiting_approval"
       THEN gate' = [gate EXCEPT ![GateOf(h)] = h.press.answer] /\ Step(h, "edit")
       ELSE UNCHANGED gate /\ Done(h)
    /\ UNCHANGED <<notified, telegram, poller, listening, taps, budget>>

Edit(h) ==
    /\ h.step = "edit"
    /\ RemoveButtons(h) /\ Done(h)
    /\ UNCHANGED <<db, queued, poller, listening, taps, budget>>

EditFails(h) ==
    /\ h.step = "edit" /\ Adverse
    /\ Done(h)
    /\ UNCHANGED <<db, telegram, poller, listening, taps>>

-----------------------------------------------------------------------------
Poller(b) == PollGates(b) \/ Send(b) \/ SendFails(b) \/ Record(b) \/ RecordFails(b)

Callback ==
    \/ \E press \in queued : Receive(press)
    \/ \E h \in handling : Look(h) \/ Resolve(h) \/ Edit(h) \/ EditFails(h)

Operator ==
    \E answer \in Answers :
        \/ \E m \in DOMAIN messages : Tap(m, answer)
        \/ \E g \in Gates : CommandLine(g, answer)

Next ==
    \/ \E g \in Gates : GateOpens(g)
    \/ \E b \in Bots : Start(b) \/ Crash(b) \/ Poller(b)
    \/ Callback \/ Operator

Spec == Init /\ [][Next]_vars

(* systemd restarts the daemon, and the event loop runs its poller.        *)
FairSpec == Spec /\ \A b \in Daemons : WF_vars(Start(b)) /\ WF_vars(Poller(b))

-----------------------------------------------------------------------------
(* Properties                                                               *)

(* The desk keeps the promise of a gate: asked only once open, answered    *)
(* once, whatever is pressed twice, pressed late, pressed on an old        *)
(* message, or typed on the command line at the same time.                 *)
Promise == INSTANCE GatePromise WITH
               opened  <- {g \in Gates : gate[g] # "none"},
               asked   <- {messages[m].gate : m \in DOMAIN messages},
               verdict <- [g \in Gates |-> IF gate[g] \in Answers THEN gate[g] ELSE "none"]

KeepsPromise == Promise!Spec

(* A gate that waits and was notified can be answered: some message about  *)
(* it still has its buttons, also after a crash in the middle of a         *)
(* callback and after Telegram's queue was dropped.                        *)
WaitingIsAnswerable ==
    \A g \in Gates :
        gate[g] = "waiting_approval" /\ notified[g]
            => \E m \in DOMAIN messages : messages[m].gate = g /\ messages[m].buttons

(* Each bot asks about a gate once, and once more for each fault.          *)
AskedOncePerBot ==
    \A g \in Gates :
        Cardinality({m \in DOMAIN messages : messages[m].gate = g})
            <= Cardinality(Bots) + (Budget - budget)

(* Every gate the pipeline waits for is asked about or answered, although  *)
(* sends fail and the daemon crashes between sending and recording.        *)
EveryGateAsked ==
    \A g \in Gates :
        gate[g] = "waiting_approval"
            ~> \/ gate[g] \in Answers
               \/ \E m \in DOMAIN messages : messages[m].gate = g
=============================================================================
