------------------------------- MODULE Channel -------------------------------
(***************************************************************************)
(* What the concurrent containers of baselib promise: who waits for an     *)
(* item gets one as soon as there is one, nobody needs to be woken.        *)
(***************************************************************************)
EXTENDS Sequences, Integers

CONSTANTS Threads, Batches

VARIABLES kind, items, requested_exit, waiting, popped
vars == <<kind, items, requested_exit, waiting, popped>>

Kinds == {"queue", "stack", "batches"}

Init ==
    /\ kind \in Kinds
    /\ items = <<>> /\ requested_exit = FALSE /\ waiting = {} /\ popped = <<>>

Push ==
    /\ \E batch \in Batches : items' = items \o batch
    /\ UNCHANGED <<kind, requested_exit, waiting, popped>>

\* The oldest item, the youngest one, or all of them.
Pop ==
    /\ items # <<>>
    /\ CASE kind = "queue" -> popped' = <<Head(items)>> /\ items' = Tail(items)
         [] kind = "stack" -> /\ popped' = <<items[Len(items)]>>
                              /\ items' = SubSeq(items, 1, Len(items) - 1)
         [] kind = "batches" -> popped' = items /\ items' = <<>>

\* Whoever has come to wait leaves with items; or with nothing, once the
\* channel is closed.
Receive(t) ==
    /\ t \in waiting /\ waiting' = waiting \ {t}
    /\ UNCHANGED <<kind, requested_exit>>
    /\ IF requested_exit THEN popped' = <<>> /\ UNCHANGED items ELSE Pop

Wait ==
    /\ \E t \in Threads \ waiting : waiting' = waiting \union {t}
    /\ UNCHANGED <<kind, items, requested_exit, popped>>

\* Without waiting: also what is left in a closed channel.
Poll ==
    /\ IF items = <<>> THEN popped' = <<>> /\ UNCHANGED items ELSE Pop
    /\ UNCHANGED <<kind, requested_exit, waiting>>

Close ==
    /\ requested_exit' = TRUE
    /\ UNCHANGED <<kind, items, waiting, popped>>
Drop ==
    /\ items' = <<>>
    /\ UNCHANGED <<kind, requested_exit, waiting, popped>>

Next ==
    \/ Push \/ Wait \/ Poll \/ Close \/ Drop
    \/ \E t \in Threads : Receive(t)

Spec == Init /\ [][Next]_vars

\* While there is something to receive and somebody waits, somebody receives;
\* and everybody does once the channel is closed.
FairSpec ==
    /\ Spec
    /\ WF_vars(\E t \in Threads : Receive(t))
    /\ \A t \in Threads : WF_vars(requested_exit /\ Receive(t))
=============================================================================
