-------------------------- MODULE TranslationCache --------------------------
(***************************************************************************)
(* What the JIT's translation cache promises, with no mutex, no memory and *)
(* no order of steps: a block is translated at most once, at one instant,  *)
(* every client that asks for it is given that translation, no two blocks  *)
(* share one, and a translation once made stays.                           *)
(***************************************************************************)
EXTENDS Integers

CONSTANTS Clients, Blocks, Translations, None

VARIABLES
    translation,  \* block -> its translation, None when there is none
    asked,        \* client -> the block it asked for, -1 when it asked nothing
    held          \* client -> the translation it was given, None before that

vars == <<translation, asked, held>>

Init ==
    /\ translation = [b \in Blocks |-> None]
    /\ asked = [c \in Clients |-> -1]
    /\ held = [c \in Clients |-> None]

\* A client asks for a block, whatever it held before.
Ask(c) ==
    /\ \E b \in Blocks : asked' = [asked EXCEPT ![c] = b]
    /\ held' = [held EXCEPT ![c] = None]
    /\ UNCHANGED translation

Found(c) ==
    /\ asked[c] # -1 /\ held[c] = None
    /\ translation[asked[c]] # None
    /\ held' = [held EXCEPT ![c] = translation[asked[c]]]
    /\ UNCHANGED <<translation, asked>>

\* The one instant at which a block is translated.
Translated(c) ==
    /\ asked[c] # -1 /\ held[c] = None
    /\ translation[asked[c]] = None
    /\ \E x \in Translations :
         /\ \A b \in Blocks : translation[b] # x
         /\ translation' = [translation EXCEPT ![asked[c]] = x]
         /\ held' = [held EXCEPT ![c] = x]
    /\ UNCHANGED asked

\* A client that runs a block goes straight to another one that is there.
Follow(c) ==
    /\ held[c] # None
    /\ \E b \in Blocks :
         /\ translation[b] # None
         /\ asked' = [asked EXCEPT ![c] = b]
         /\ held' = [held EXCEPT ![c] = translation[b]]
    /\ UNCHANGED translation

Drop(c) ==
    /\ held[c] # None
    /\ asked' = [asked EXCEPT ![c] = -1]
    /\ held' = [held EXCEPT ![c] = None]
    /\ UNCHANGED translation

Next == \E c \in Clients :
    Ask(c) \/ Found(c) \/ Translated(c) \/ Follow(c) \/ Drop(c)

Spec == Init /\ [][Next]_vars
=============================================================================
