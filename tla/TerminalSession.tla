--------------------------- MODULE TerminalSession ---------------------------
(***************************************************************************)
(* The threads of a Run's terminal (src/src/terminal/session.rs, owner.rs, *)
(* state.rs): the client sends commands through the gate; the owner takes  *)
(* turns between the child's output, its own replies to the child          *)
(* (effects) and the commands; the reader feeds it output; the writer      *)
(* delivers input.  Shutdown is asked for by another thread, within a      *)
(* deadline.  What the client sees of all this is TerminalFrames.          *)
(*                                                                         *)
(* A step of the owner is one access to what it shares; what it does in    *)
(* between is part of the step before.                                     *)
(***************************************************************************)
EXTENDS CommandGate, PtyWriter

CONSTANTS
    OutputSlots,   \* limit of the chunks between the reader and the owner
    OutputBudget,  \* chunks the owner handles in one turn
    SliceBudget,   \* chunks after which it looks at its input in between
    EffectSlots,   \* limit of the replies that wait for the writer
    MaxOutput,     \* bound: so many chunks are read from the child
    MaxTraffic     \* bound: so many chunks and commands together

ASSUME SessionAssumption ==
    /\ OutputSlots \in Nat \ {0} /\ OutputBudget \in Nat \ {0}
    /\ SliceBudget \in Nat \ {0} /\ EffectSlots \in Nat
    /\ MaxOutput \in Nat /\ MaxTraffic \in Nat

VARIABLES
    owner,   \* the owner thread: where it is in its loop and what it holds
    output,  \* how many chunks there are between the reader and the owner
    reader,  \* the reader thread and how many chunks it has read
    closing  \* the thread that shuts the terminal down

ownerVars == <<owner, output, reader, closing>>
vars == <<gateVars, writerVars, ownerVars>>

Init ==
    /\ GateInit
    /\ WriterInit(1..MaxCommands)
    /\ owner = [at |-> "top", effect |-> FALSE, effects |-> 0, overflowed |-> FALSE,
                input |-> None, turn |-> 0, batch |-> 0]
    /\ output = 0
    /\ reader = [at |-> "read", count |-> 0]
    /\ closing = "no"

Shutdown == closing # "no"

QuietEnough == reader.count + gate.next <= MaxTraffic

-----------------------------------------------------------------------------
(* service_effect, in its three places.                                    *)

ItemOf(c) ==
    [id |-> c.id, bytes |-> IF c.kind = "Paste" THEN 2 ELSE 1, asks |-> c.kind = "Paste"]

Reply == [id |-> 0, bytes |-> 1, asks |-> FALSE]

Return(o) == [o EXCEPT !.at = "returning"]

(* What follows it: an overflow ends the owner, and an effect that is      *)
(* still blocked blocks the input.                                         *)
EffectBlocksInput(o) == o.effect

AfterEffect(o) ==
    IF o.overflowed THEN Return(o)
    ELSE [o EXCEPT !.at =
        CASE o.at = "effect" -> "output"
          [] o.at = "sliceEffect" -> IF EffectBlocksInput(o) THEN "output" ELSE "sliceInput"
          [] o.at = "lastEffect" -> IF EffectBlocksInput(o) THEN "top" ELSE "input"]

(* Going on to a service_effect: with nothing to send it is passed over.   *)
ToEffect(o, place) ==
    LET there == [o EXCEPT !.at = place]
    IN  IF o.effect \/ o.effects > 0 THEN there ELSE AfterEffect(there)

(* A pending effect is retried before another one is taken.                *)
TakeEffect(o) == IF o.effect THEN o ELSE [o EXCEPT !.effect = TRUE, !.effects = @ - 1]

Servicing(places) == owner.at \in places /\ enqueuing = NoItem
Queueing(places) == owner.at \in places /\ enqueuing # NoItem

EffectPlaces == {"effect", "sliceEffect", "lastEffect"}
InputPlaces == {"sliceInput", "input"}

OfferEffect ==
    /\ Servicing(EffectPlaces)
    /\ \/ Reserve(Reply) /\ owner' = TakeEffect(owner)
       \/ RefuseItem(Reply) /\ owner' = AfterEffect(TakeEffect(owner))
    /\ UNCHANGED <<gateVars, output, reader, closing>>

PushEffect ==
    /\ Queueing(EffectPlaces)
    /\ \/ QueueItem /\ owner' = AfterEffect([owner EXCEPT !.effect = FALSE])
       \/ FindNoSlot /\ owner' = AfterEffect(owner)
       \/ FindWriterGone /\ owner' = Return(owner)
    /\ UNCHANGED <<gateVars, output, reader, closing>>

-----------------------------------------------------------------------------
(* One turn of the owner: run_owner.                                       *)

BeginTurn ==
    /\ owner.at = "top"
    /\ owner' = IF Shutdown THEN [owner EXCEPT !.at = "joining"]
                ELSE ToEffect([owner EXCEPT !.turn = 0, !.batch = 0], "effect")
    /\ UNCHANGED <<gateVars, writerVars, output, reader, closing>>

(* A chunk is written to the terminal, which may answer the child.         *)
ParseChunk ==
    /\ owner.at = "output" /\ owner.turn < OutputBudget
    /\ output > 0
    /\ output' = output - 1
    /\ \E replies \in BOOLEAN :
          LET full == replies /\ owner.effects = EffectSlots
              parsed == [owner EXCEPT !.turn = @ + 1, !.overflowed = full,
                                      !.effects = IF replies /\ ~full THEN @ + 1 ELSE @]
          IN  owner' = IF full THEN ToEffect(parsed, "lastEffect")
                       ELSE IF parsed.turn % SliceBudget = 0 THEN ToEffect(parsed, "sliceEffect")
                       ELSE parsed
    /\ UNCHANGED <<gateVars, writerVars, reader, closing>>

EndOutput ==
    /\ owner.at = "output"
    /\ owner.turn = OutputBudget \/ output = 0
    /\ owner' = ToEffect(owner, "lastEffect")
    /\ UNCHANGED <<gateVars, writerVars, output, reader, closing>>

(* Where a service_input leads: once per slice, and at the end of the turn *)
(* on while each command was serviced and left nothing pending.            *)
AfterInput(o, serviced) ==
    CASE o.at = "sliceInput" -> [o EXCEPT !.at = "output"]
      [] o.at = "input" ->
            IF serviced /\ o.input = None /\ o.batch + 1 < CommandSlots
            THEN [o EXCEPT !.batch = @ + 1]
            ELSE [o EXCEPT !.at = "top", !.batch = 0, !.turn = 0]

(* Input that was encoded is offered to the writer, and offered again      *)
(* before any other command is looked at.                                  *)
OfferInput ==
    /\ Servicing(InputPlaces) /\ owner.input # None
    /\ \/ Reserve(ItemOf(owner.input)) /\ UNCHANGED owner
       \/ RefuseItem(ItemOf(owner.input)) /\ owner' = AfterInput(owner, FALSE)
    /\ UNCHANGED <<gateVars, output, reader, closing>>

PushInput ==
    /\ Queueing(InputPlaces)
    /\ \/ /\ QueueItem
          /\ Completed(owner.input)
          /\ owner' = AfterInput([owner EXCEPT !.input = None], TRUE)
       \/ FindNoSlot /\ owner' = AfterInput(owner, FALSE) /\ UNCHANGED charged
       \/ FindWriterGone /\ owner' = Return(owner) /\ UNCHANGED charged
    /\ UNCHANGED <<gate, commands, receiving, promised, output, reader, closing>>

NoCommand ==
    /\ Servicing(InputPlaces)
    /\ owner.input = None /\ commands = <<>>
    /\ owner' = AfterInput(owner, FALSE)
    /\ UNCHANGED <<gateVars, writerVars, output, reader, closing>>

(* apply_command: a key or a paste becomes input, which is complete when   *)
(* the writer took it; the other commands are complete at once.            *)
IgnoresPending == TRUE

PendingFirst == owner.input = None

ApplyInput(c) ==
    /\ c.kind \in {"Key", "Paste"}
    /\ owner' = AfterInput([owner EXCEPT !.input = c], TRUE)
    /\ due' = Append(due, c.id)
    /\ UNCHANGED <<charged, answers>>

(* A key may encode to nothing.                                            *)
ApplyAtOnce(c) ==
    /\ c.kind # "Paste"
    /\ Completed(c)
    /\ owner' = AfterInput(owner, TRUE)
    /\ answers' = IF c.kind = "Copy" THEN [answers EXCEPT ![c.id] = "ok"] ELSE answers
    /\ UNCHANGED due

(* Encoding a key, moving a selection or resizing the PTY may fail, and    *)
(* ends the owner.  A paste, a scroll and a copy always apply.             *)
ApplyFails(c) ==
    /\ c.kind \in {"Key", "Resize"}
    /\ owner' = Return(owner)
    /\ UNCHANGED <<charged, due, answers>>

ApplyCommand ==
    /\ Servicing(InputPlaces) /\ PendingFirst
    /\ \E c \in {commands[i] : i \in DOMAIN commands} :
          /\ Take(c)
          /\ ApplyInput(c) \/ ApplyAtOnce(c) \/ ApplyFails(c)
    /\ UNCHANGED <<gate, receiving, items, enqueuing, reserved, writer, output, reader, closing>>

-----------------------------------------------------------------------------
(* How the owner ends.                                                     *)

(* Asked to stop, it drops its end of the output first, or a reader that   *)
(* is blocked on a full channel would never end, and then joins it.        *)
JoinReader ==
    /\ owner.at = "joining" /\ reader.at = "ended"
    /\ owner' = Return(owner)
    /\ UNCHANGED <<gateVars, writerVars, output, reader, closing>>

Ended == owner.at \in {"returning", "dead"}

OutputDroppedLate == Ended

OutputDropped == owner.at = "joining" \/ Ended

(* With run_owner return its ends of the queues, and what it held.         *)
Die ==
    /\ owner.at = "returning"
    /\ owner' = [owner EXCEPT !.at = "dead", !.input = None]
    /\ DropReceiver
    /\ answers' = Lost(answers, {c.id : c \in {commands[i] : i \in DOMAIN commands}
                                           \cup {owner.input}})
    /\ UNCHANGED <<items, enqueuing, reserved, writer, due, output, reader, closing>>

OwnerStep ==
    \/ BeginTurn \/ OfferEffect \/ PushEffect \/ ParseChunk \/ EndOutput
    \/ OfferInput \/ PushInput \/ NoCommand \/ ApplyCommand \/ JoinReader \/ Die

-----------------------------------------------------------------------------
(* The reader.                                                             *)

ReadChunk ==
    /\ reader.at = "read" /\ reader.count < MaxOutput /\ QuietEnough
    /\ reader' = [at |-> "send", count |-> reader.count + 1]
    /\ UNCHANGED <<gateVars, writerVars, owner, output, closing>>

SendChunk ==
    /\ reader.at = "send"
    /\ \/ /\ ~OutputDropped /\ output < OutputSlots
          /\ output' = output + 1
          /\ reader' = [reader EXCEPT !.at = "read"]
       \/ /\ OutputDropped
          /\ reader' = [reader EXCEPT !.at = "ended"]
          /\ UNCHANGED output
    /\ UNCHANGED <<gateVars, writerVars, owner, closing>>

ReachEof ==
    /\ reader.at = "read"
    /\ reader' = [reader EXCEPT !.at = "ended"]
    /\ UNCHANGED <<gateVars, writerVars, owner, output, closing>>

-----------------------------------------------------------------------------
(* The client's thread, and the thread that shuts the terminal down.       *)

ClientSends ==
    /\ gate.at = "free" => QuietEnough
    /\ Sender
    /\ UNCHANGED <<writerVars, ownerVars>>

(* shutdown_until: admission ends, then the owner and then the writer are  *)
(* waited for; past the deadline they are left behind.                     *)
BeginShutdown ==
    /\ closing = "no"
    /\ CloseGate
    /\ closing' = "waiting"
    /\ UNCHANGED <<writerVars, owner, output, reader>>

EndShutdown ==
    /\ closing = "waiting"
    /\ closing' = "over"
    /\ UNCHANGED <<gateVars, writerVars, owner, output, reader>>

WriterRuns ==
    /\ WriterStep \/ EndWithSender(owner.at = "dead")
    /\ UNCHANGED <<gateVars, ownerVars>>

Next ==
    \/ OwnerStep \/ WriterRuns
    \/ ReadChunk \/ SendChunk \/ ReachEof
    \/ ClientSends \/ BeginShutdown \/ EndShutdown

Spec == Init /\ [][Next]_vars

(* The threads run, and a client that holds the gate lets it go.  Nothing   *)
(* is assumed of the child: it may leave the writer in a write and the     *)
(* reader in a read for ever.  Nor does anybody promise that the client    *)
(* acts, that the terminal is shut down or that the deadline ever comes.   *)
InWrite == writer.at = "write"
InRead == reader.at = "read"

Fairness ==
    /\ WF_vars(OwnerStep)
    /\ WF_vars(WriterRuns /\ ~InWrite)
    /\ WF_vars(SendChunk)
    /\ WF_vars(ClientSends /\ gate.at # "free")

FairSpec == Spec /\ Fairness

-----------------------------------------------------------------------------
(* The ways to count through s from one number to another.                 *)
Counts(s, from, to) ==
    {ends \in [0..Len(s) -> 0..to] :
        /\ ends[0] = from /\ ends[Len(s)] = to
        /\ \A i \in 1..Len(s) : ends[i] = ends[i - 1] + s[i]}

(* Adding scrolls up is all the gate does to the commands: what is queued  *)
(* is what was accepted and not taken, in that order, with only            *)
(* neighbouring scrolls in one direction put together (command_gate.rs:    *)
(* add_if_open against take, and close before every other command).        *)
CommandsKeepTheirOrder ==
    receiving =>
        \E ends \in Counts([i \in DOMAIN commands |-> Size(commands[i])], 0, Len(promised)) :
            \A i \in DOMAIN commands : \A k \in (ends[i - 1] + 1)..ends[i] :
                promised[k] = Unit(commands[i])

BeingWritten == writer.at \in {"write", "fail"} /\ writer.item.id # 0

(* Input reaches the child once, whole and in order, whatever the writer   *)
(* and its bounds refuse in between: what is due is the item being         *)
(* written, those queued and the one the owner holds, in that order and    *)
(* with nothing but the terminal's own replies between them.  Only a write *)
(* that fails or the owner's end loses any, from some point on             *)
(* (try_enqueue: "Ok is a durable acknowledgement").  A paste is confirmed *)
(* only when written.                                                      *)
InputIsDeliveredInOrder ==
    /\ ~Ended /\ writer.at # "ended" =>
          /\ BeingWritten => due # <<>> /\ due[1] = writer.item.id
          /\ owner.input # None => due # <<>> /\ due[Len(due)] = owner.input.id
          /\ \E ends \in Counts([i \in DOMAIN items |-> IF items[i].id = 0 THEN 0 ELSE 1],
                                 IF BeingWritten THEN 1 ELSE 0,
                                 Len(due) - (IF owner.input = None THEN 0 ELSE 1)) :
                \A i \in DOMAIN items : items[i].id # 0 => due[ends[i]] = items[i].id
    /\ \A i \in DOMAIN due : answers[due[i]] # "ok"

(* Both byte budgets hold exactly what somebody still has to give back,    *)
(* whichever step the senders, the owner and the writer are in, and stay   *)
(* within their limits (byte_budget.rs).                                   *)
BytesAreAccounted ==
    /\ charged \in 0..CommandBytes /\ reserved \in 0..InputBytes
    /\ ~Ended =>
          Counts([i \in DOMAIN commands |-> Cost(commands[i])], 0,
                 charged - Cost(owner.input)
                    - (IF gate.at = "push" THEN Cost(gate.command) ELSE 0)) # {}
    /\ writer.at # "ended" =>
          Counts([i \in DOMAIN items |-> items[i].bytes], 0,
                 reserved - enqueuing.bytes - writer.item.bytes) # {}

Asks(c) == c.kind \in {"Paste", "Copy"}

Waiting(id) ==
    \/ \E i \in DOMAIN commands : commands[i].id = id /\ Asks(commands[i])
    \/ owner.input.id = id /\ Asks(owner.input)
    \/ \E i \in DOMAIN items : items[i].id = id /\ items[i].asks
    \/ writer.item.id = id /\ writer.item.asks

(* What only the child can end: a write, for what is behind it in the      *)
(* writer or behind a reply or an input that finds no room there, and a    *)
(* read that an owner waits for before it gives up what it holds.          *)
WithWriter(id) == writer.item.id = id \/ \E i \in DOMAIN items : items[i].id = id

HeldByWrite(id) == InWrite /\ (WithWriter(id) \/ owner.input # None \/ owner.effect)

HeldByRead(id) == owner.at = "joining" /\ InRead /\ ~WithWriter(id)

(* An accepted paste or copy is answered, or its client learns that it     *)
(* never will be (session.rs:222), unless the child for ever takes nothing *)
(* or for ever keeps its output open under a shutdown, or a writer that    *)
(* failed took the bytes of its queue with it: nothing else waits for      *)
(* ever, in a queue, behind an effect that finds no room or in an owner    *)
(* that ended.                                                             *)
RequestsAreAnswered ==
    \A id \in 1..MaxCommands :
        Waiting(id) ~>
            \/ answers[id] # "none"
            \/ [](HeldByWrite(id) \/ HeldByRead(id))
            \/ writer.at = "ended" /\ reserved > 0

(* A shutdown needs its deadline only for the child, which for ever takes  *)
(* nothing or keeps its output open: the threads of the terminal never     *)
(* wait for one another in a circle (the reader blocked on a full channel, *)
(* the owner joining it, the writer waiting for the owner).                *)
ShutdownEnds ==
    Shutdown ~>
        \/ owner.at = "dead" /\ writer.at = "ended"
        \/ [](InWrite \/ (owner.at = "joining" /\ InRead))
=============================================================================
