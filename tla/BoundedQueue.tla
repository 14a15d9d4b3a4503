----------------------------- MODULE BoundedQueue -----------------------------
(***************************************************************************)
(* What a FreeRTOS queue promises to its callers: a bounded FIFO whose     *)
(* calls take effect at once, of which one that may wait for ever never    *)
(* fails, and one that may not fails only where it has to.                 *)
(***************************************************************************)
EXTENDS Sequences, Naturals

CONSTANTS Tasks, Items, Length, NoCall

VARIABLES contents,  \* items in the queue, the oldest first
          call,      \* the call each task is in
          got        \* the item each task received last

queueVars == <<contents, call, got>>

Calls == [op : {"send", "receive"}, item : Items, wait : {"none", "ticks", "forever"}]

QueueInit == contents = <<>> /\ call = [t \in Tasks |-> NoCall]
             /\ got \in [Tasks -> Items]

InCall(t, op) == call[t] # NoCall /\ call[t].op = op
Ends(t) == call' = [call EXCEPT ![t] = NoCall]

Begin(t) == /\ call[t] = NoCall
            /\ \E c \in Calls : call' = [call EXCEPT ![t] = c]
            /\ UNCHANGED <<contents, got>>

Put(t) == /\ InCall(t, "send") /\ Len(contents) < Length
          /\ contents' = Append(contents, call[t].item)
          /\ Ends(t)
          /\ UNCHANGED got

Get(t) == /\ InCall(t, "receive") /\ contents # <<>>
          /\ got' = [got EXCEPT ![t] = Head(contents)]
          /\ contents' = Tail(contents)
          /\ Ends(t)

\* A sender whose time is over fails even if there is room by then; any other
\* call fails only when there is nothing for it.
GiveUp(t) == /\ call[t] # NoCall /\ call[t].wait # "forever"
             /\ call[t].op = "receive" => contents = <<>>
             /\ call[t].op = "send" /\ call[t].wait = "none" => Len(contents) = Length
             /\ Ends(t)
             /\ UNCHANGED <<contents, got>>

\* From an interrupt.
Post(v) == /\ Len(contents) < Length
           /\ contents' = Append(contents, v)
           /\ UNCHANGED <<call, got>>

QueueNext == \/ \E t \in Tasks : Begin(t) \/ Put(t) \/ Get(t) \/ GiveUp(t)
             \/ \E v \in Items : Post(v)

QueueSpec == QueueInit /\ [][QueueNext]_queueVars
=============================================================================
