----------------------------- MODULE CommandGate -----------------------------
(***************************************************************************)
(* The gate in front of a terminal's owner (src/src/terminal/              *)
(* command_gate.rs): commands go through a queue that is bounded in slots  *)
(* and in bytes (src/src/byte_budget.rs), and scroll commands that follow  *)
(* one another are added up in one queued batch until the owner takes it.  *)
(* One thread at a time holds the gate; it and the owner interleave at     *)
(* each access to the budget and to the queue.                             *)
(***************************************************************************)
EXTENDS Naturals, Integers, Sequences

CONSTANTS
    CommandBytes,   \* limit of the bytes that are queued or being applied
    CommandSlots,   \* limit of the queued commands
    Issued,         \* the kinds of command the client issues in this instance
    MaxCommands     \* bound: so many commands are issued

Kinds == {"Key", "Paste", "Scroll", "Resize", "Copy"}

(* estimated_bytes: what a command is charged for; only a paste may be     *)
(* larger than the others here.                                            *)
Cost(c) == CASE c.kind = "None" -> 0 [] c.kind = "Paste" -> 2 [] OTHER -> 1

ASSUME GateAssumption ==
    /\ CommandBytes \in Nat \ {0, 1} /\ CommandSlots \in Nat \ {0}
    /\ MaxCommands \in Nat /\ Issued \subseteq Kinds

VARIABLES
    gate,       \* the sender's side: whether it is open, its open scroll, its holder
    commands,   \* the queue; a scroll in it is a batch that may still be open
    charged,    \* the pending bytes of the budget
    receiving,  \* whether the owner still has its end of the queue
    promised    \* history: the commands accepted and not taken yet, one by one

gateVars == <<gate, commands, charged, receiving, promised>>

None == [kind |-> "None", id |-> 0, delta |-> 0]

Commands ==
    [kind : Issued \ {"Scroll"}, id : 1..MaxCommands, delta : {0}]
        \cup [kind : Issued \cap {"Scroll"}, id : 1..MaxCommands, delta : {-1, 1}]

GateInit ==
    /\ gate = [open |-> TRUE, scroll |-> 0, at |-> "free", command |-> None,
               seen |-> 0, next |-> 1]
    /\ commands = <<>>
    /\ charged = 0
    /\ receiving = TRUE
    /\ promised = <<>>

Freed(g) == [g EXCEPT !.at = "free", !.command = None, !.seen = 0]

(* A queued command stands for so many accepted ones: a batch for each of  *)
(* its scrolls, which are by one line here.                                *)
Size(c) == IF c.kind # "Scroll" THEN 1 ELSE IF c.delta < 0 THEN -c.delta ELSE c.delta

Unit(c) ==
    IF c.kind # "Scroll" THEN c
    ELSE [c EXCEPT !.id = 0, !.delta = IF @ < 0 THEN -1 ELSE 1]

Accepted(c) == promised' = Append(promised, Unit(c))

-----------------------------------------------------------------------------
(* try_send, by the thread that holds the gate.                            *)

(* The open batch takes a scroll in the same direction while it is queued. *)
OpenBatch == {i \in DOMAIN commands : gate.scroll # 0 /\ commands[i].id = gate.scroll}

Joins(c, i) == c.kind = "Scroll" /\ commands[i].delta * c.delta > 0

(* Any other command closes the open batch before it is admitted, also     *)
(* when it is then refused.                                                *)
KeepsScroll(c) == gate.scroll

ClosesScroll(c) == IF c.kind = "Scroll" THEN gate.scroll ELSE 0

JoinBatch(c) ==
    /\ \E i \in OpenBatch :
          /\ Joins(c, i)
          /\ commands' = [commands EXCEPT ![i].delta = @ + c.delta]
    /\ gate' = [gate EXCEPT !.next = @ + 1]
    /\ Accepted(c)
    /\ UNCHANGED <<charged, receiving>>

(* The budget is read here and charged in a step of its own.               *)
LoadBudget(c) ==
    /\ \A i \in OpenBatch : ~Joins(c, i)
    /\ gate' = [gate EXCEPT !.at = "charge", !.command = c, !.seen = charged,
                            !.scroll = ClosesScroll(c), !.next = @ + 1]
    /\ UNCHANGED <<commands, charged, receiving, promised>>

SendCommand ==
    /\ gate.at = "free" /\ gate.open
    /\ gate.next <= MaxCommands
    /\ \E c \in Commands : c.id = gate.next /\ (JoinBatch(c) \/ LoadBudget(c))

Fits == gate.seen + Cost(gate.command) <= CommandBytes

RefuseBytes ==
    /\ gate.at = "charge" /\ ~Fits
    /\ gate' = Freed(gate)
    /\ UNCHANGED <<commands, charged, receiving, promised>>

(* compare_exchange: charged only if nobody changed the count since, and   *)
(* otherwise the count is read again.                                      *)
SwapBlindly == TRUE

Swaps == charged = gate.seen

ChargeBudget ==
    /\ gate.at = "charge" /\ Fits
    /\ \/ /\ Swaps
          /\ charged' = gate.seen + Cost(gate.command)
          /\ gate' = [gate EXCEPT !.at = "push"]
       \/ /\ ~Swaps
          /\ gate' = [gate EXCEPT !.seen = charged]
          /\ UNCHANGED charged
    /\ UNCHANGED <<commands, receiving, promised>>

(* The queue is tried with the bytes already charged: a refusal, for want  *)
(* of a slot or of an owner, gives them back.                              *)
Push ==
    /\ gate.at = "push"
    /\ \/ /\ receiving /\ Len(commands) < CommandSlots
          /\ commands' = Append(commands, gate.command)
          /\ Accepted(gate.command)
          /\ gate' = IF gate.command.kind = "Scroll" THEN [gate EXCEPT !.at = "keep"]
                     ELSE Freed(gate)
          /\ UNCHANGED charged
       \/ /\ ~receiving \/ Len(commands) = CommandSlots
          /\ charged' = charged - Cost(gate.command)
          /\ gate' = Freed(gate)
          /\ UNCHANGED <<commands, promised>>
    /\ UNCHANGED receiving

(* The pushed batch becomes the open one, although it may be taken by now. *)
KeepBatch ==
    /\ gate.at = "keep"
    /\ gate' = [Freed(gate) EXCEPT !.scroll = gate.command.id]
    /\ UNCHANGED <<commands, charged, receiving, promised>>

Sender == SendCommand \/ RefuseBytes \/ ChargeBudget \/ Push \/ KeepBatch

(* close: the sender is taken out of the gate, for good.                   *)
CloseGate ==
    /\ gate.at = "free"
    /\ gate' = [gate EXCEPT !.open = FALSE, !.scroll = 0]
    /\ UNCHANGED <<commands, charged, receiving, promised>>

-----------------------------------------------------------------------------
(* The receiver's side, for the owner's steps.                             *)

Take(c) ==
    /\ commands # <<>> /\ c = Head(commands)
    /\ commands' = Tail(commands)
    /\ promised' = SubSeq(promised, Size(c) + 1, Len(promised))

(* complete: the bytes are given back once the command has no more to do.  *)
Completed(c) == charged' = charged - Cost(c)

DropReceiver ==
    /\ receiving' = FALSE
    /\ commands' = <<>>
    /\ UNCHANGED <<gate, charged, promised>>
=============================================================================
