---------------------------- MODULE GuestMemory ----------------------------
(***************************************************************************)
(* What the guest's memory promises to guest code, whoever executes it: an *)
(* access succeeds exactly when all of its bytes exist and allow it, and   *)
(* then it reads, or changes, those bytes and nothing else.                *)
(***************************************************************************)
EXTENDS Integers

CONSTANTS
    Size,       \* bytes of memory
    Bytes,
    Requests,   \* the accesses of guest code: op, address, size, data
    NoRequest,
    Lenient     \* the permissions of loads and stores may be ignored

VARIABLES
    contents, permissions,
    request,
    outcome,    \* of the last request
    loaded      \* the bytes that it read

vars == <<contents, permissions, request, outcome, loaded>>

Init ==
    /\ contents = [i \in 0 .. Size - 1 |-> 0]
    /\ permissions = [i \in 0 .. Size - 1 |-> {}]
    /\ request = NoRequest /\ outcome = "none" /\ loaded = <<>>

Access ==
    /\ request = NoRequest /\ request' \in Requests
    /\ outcome # "undefined" /\ outcome' = "pending" /\ loaded' = <<>>
    /\ UNCHANGED <<contents, permissions>>

Place(q) == q.address .. q.address + q.size - 1
Exists(q) == q.address + q.size <= Size
Needs(q) == CASE q.op = "store" -> "write" [] q.op = "fetch" -> "execute"
              [] OTHER -> "read"
Allows(q) == \A i \in Place(q) : Needs(q) \in permissions[i]
Good(q) == Exists(q) /\ Allows(q)

Answer ==
    /\ request # NoRequest /\ request' = NoRequest
    /\ \/ Good(request)
       \/ Lenient /\ Exists(request) /\ request.op # "fetch"
    /\ outcome' = CASE request.op = "store" -> "stored"
                    [] request.op = "discard" -> "discarded"
                    [] OTHER -> "loaded"
    /\ loaded' = IF request.op \in {"store", "discard"} THEN loaded
                 ELSE [i \in 0 .. request.size - 1 |->
                          contents[request.address + i]]
    /\ contents' = [i \in 0 .. Size - 1 |->
                      IF request.op = "store" /\ i \in Place(request)
                      THEN request.data[i - request.address] ELSE contents[i]]
    /\ UNCHANGED permissions

\* A load whose value nobody wants may be left out.
Discard ==
    /\ request # NoRequest /\ request' = NoRequest
    /\ request.op = "discard" /\ outcome' = "discarded"
    /\ UNCHANGED <<contents, permissions, loaded>>

Fault ==
    /\ request # NoRequest /\ request' = NoRequest
    /\ ~Good(request) /\ outcome' = "fault"
    /\ UNCHANGED <<contents, permissions, loaded>>

\* The embedder changes what it likes, between the accesses.  After what is
\* undefined there are none.
Outside ==
    /\ request = NoRequest /\ outcome # "undefined"
    /\ contents' \in [0 .. Size - 1 -> Bytes]
    /\ permissions' \in
          [0 .. Size - 1 -> SUBSET {"read", "write", "execute"}]
    /\ outcome' \in {"done", "refused", "undefined"}
    /\ UNCHANGED <<request, loaded>>

Next == Access \/ Answer \/ Discard \/ Fault \/ Outside

Spec == Init /\ [][Next]_vars
=============================================================================
