------------------------------ MODULE PtyWriter ------------------------------
(***************************************************************************)
(* The writer of a PTY (src/src/runtime/input_writer.rs): whole items are  *)
(* admitted under a bound of bytes and of slots by the terminal's owner,   *)
(* and written by a thread that retries until the item is delivered or     *)
(* writing fails, and then ends.  The other end of the PTY is the child:   *)
(* it takes any part of what is left, nothing for now, or fails.           *)
(***************************************************************************)
EXTENDS Naturals, Sequences

CONSTANTS
    InputBytes,  \* limit of the bytes admitted and not yet written
    InputSlots   \* limit of the admitted items nobody has begun to write

ASSUME WriterAssumption == InputBytes \in Nat \ {0} /\ InputSlots \in Nat \ {0}

VARIABLES
    items,      \* the queue of admitted items
    enqueuing,  \* the item whose bytes the owner has reserved and not yet queued
    reserved,   \* the pending bytes of the budget
    writer,     \* the thread: what it writes and how far it is
    due,        \* history: the input encoded for the child and not yet written
    answers     \* what the completion of each item that has one says

writerVars == <<items, enqueuing, reserved, writer, due, answers>>

(* An item's id names the command it comes from, 0 a terminal's own reply; *)
(* asks says whether somebody holds the other end of a completion for it.  *)
NoItem == [id |-> 0, bytes |-> 0, asks |-> FALSE]

WriterInit(ids) ==
    /\ items = <<>>
    /\ enqueuing = NoItem
    /\ reserved = 0
    /\ writer = [at |-> "recv", item |-> NoItem, left |-> 0]
    /\ due = <<>>
    /\ answers = [id \in ids |-> "none"]

Answered(item, answer) ==
    IF item.asks /\ answers[item.id] = "none"
    THEN [answers EXCEPT ![item.id] = answer] ELSE answers

(* Completions that are dropped unanswered tell their client so.           *)
Lost(so_far, ids) ==
    [id \in DOMAIN so_far |->
        IF id \in ids /\ so_far[id] = "none" THEN "lost" ELSE so_far[id]]

AskersOf(s) == {s[i].id : i \in {j \in DOMAIN s : s[j].asks}}

-----------------------------------------------------------------------------
(* try_enqueue, by the owner: WouldBlock admits nothing.                   *)

Reservable(item) == reserved + item.bytes <= InputBytes

Reserve(item) ==
    /\ Reservable(item)
    /\ enqueuing' = item
    /\ reserved' = reserved + item.bytes
    /\ UNCHANGED <<items, writer, due, answers>>

RefuseItem(item) == ~Reservable(item) /\ UNCHANGED writerVars

QueueItem ==
    /\ writer.at # "ended" /\ Len(items) < InputSlots
    /\ items' = Append(items, enqueuing)
    /\ enqueuing' = NoItem
    /\ UNCHANGED <<reserved, writer, due, answers>>

(* A reservation that is not committed is released.                        *)
KeepReserved == UNCHANGED reserved

ReleaseRefused == reserved' = reserved - enqueuing.bytes

FindNoSlot ==
    /\ writer.at # "ended" /\ Len(items) = InputSlots
    /\ ReleaseRefused
    /\ enqueuing' = NoItem
    /\ UNCHANGED <<items, writer, due, answers>>

FindWriterGone ==
    /\ writer.at = "ended"
    /\ ReleaseRefused
    /\ answers' = Answered(enqueuing, "error")
    /\ enqueuing' = NoItem
    /\ UNCHANGED <<items, writer, due>>

-----------------------------------------------------------------------------
(* The writer thread.                                                      *)

ReceiveItem ==
    /\ writer.at = "recv" /\ items # <<>>
    /\ items' = Tail(items)
    /\ writer' = [at |-> "write", item |-> Head(items), left |-> Head(items).bytes]
    /\ UNCHANGED <<enqueuing, reserved, due, answers>>

(* write_with_retry: the write loop, which goes on where a partial write   *)
(* left off, then the flush loop.  WouldBlock is a step that changes       *)
(* nothing here.                                                           *)
WriteSome ==
    /\ writer.at = "write" /\ writer.left > 0
    /\ writer' = [writer EXCEPT !.left = @ - 1]
    /\ UNCHANGED <<items, enqueuing, reserved, due, answers>>

Flush ==
    /\ writer.at = "write" /\ writer.left = 0
    /\ writer' = [writer EXCEPT !.at = "deliver"]
    /\ due' = IF writer.item.id = 0 THEN due ELSE Tail(due)
    /\ UNCHANGED <<items, enqueuing, reserved, answers>>

WriteFails ==
    /\ writer.at = "write"
    /\ writer' = [writer EXCEPT !.at = "fail"]
    /\ UNCHANGED <<items, enqueuing, reserved, due, answers>>

(* The item's bytes are released and its sender is answered.               *)
Deliver ==
    /\ writer.at = "deliver"
    /\ reserved' = reserved - writer.item.bytes
    /\ answers' = Answered(writer.item, "ok")
    /\ writer' = [at |-> "recv", item |-> NoItem, left |-> 0]
    /\ UNCHANGED <<items, enqueuing, due>>

(* After an error the thread ends, and with it the queue and every         *)
(* completion in it.                                                       *)
EndAfterFailure ==
    /\ writer.at = "fail"
    /\ reserved' = reserved - writer.item.bytes
    /\ answers' = Lost(Answered(writer.item, "error"), AskersOf(items))
    /\ writer' = [at |-> "ended", item |-> NoItem, left |-> 0]
    /\ items' = <<>>
    /\ UNCHANGED <<enqueuing, due>>

(* recv fails once the owner dropped its end and the queue is empty.       *)
EndWithSender(senderGone) ==
    /\ writer.at = "recv" /\ items = <<>> /\ senderGone
    /\ writer' = [writer EXCEPT !.at = "ended"]
    /\ UNCHANGED <<items, enqueuing, reserved, due, answers>>

WriterStep ==
    ReceiveItem \/ WriteSome \/ Flush \/ WriteFails \/ Deliver \/ EndAfterFailure
=============================================================================
