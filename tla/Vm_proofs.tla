----------------------------- MODULE Vm_proofs ------------------------------
(***************************************************************************)
(* For every program, table and pattern of changes: translated code stays  *)
(* in its translation, a single step is one instruction, and a program     *)
(* that does not change never has the table read outside.  The inductive   *)
(* invariant ties a translation to what was once at its addresses, and an  *)
(* exit that is left to the interpreter to an instruction that can be.     *)
(***************************************************************************)
EXTENDS Vm, TLAPS

\* The next instruction of the block may follow.
Falls(i) == i # Unfetchable /\ i.kind \in {"next", "access", "branch"}

\* A translation begins with its block, goes on after what does not always
\* leave it, and consists of what was at its addresses.
TranslationInv ==
    \A b \in Blocks : translated[b] # NotTranslated =>
        /\ b \in DOMAIN translated[b]
        /\ \A c \in DOMAIN translated[b] :
             /\ c = MaxBlocks => translated[b][c] = Unfetchable
             /\ c < MaxBlocks => translated[b][c] \in fetchable[c]
             /\ Falls(translated[b][c]) =>
                  single_step \/ c + 1 \in DOMAIN translated[b]

FetchInv == \A c \in Blocks : Fetch(c) \in fetchable[c]

\* What the loops go on with, and what they leave to the interpreter.
GivenUp ==
    /\ Aligned(pc) /\ InTable(pc)
    /\ \E i \in fetchable[pc \div 4] :
          i # Unfetchable /\ i.kind \in {"access", "Unsupported"}
ExitInv ==
    /\ at = "exit" /\ exit_reason \in {"BlockNotGenerated", "SingleStep"} =>
          InTable(pc) \/ pc = 4 * MaxBlocks
    /\ \/ at = "step"
       \/ at = "exit" /\ exit_reason \in {"MemoryFault", "Unsupported"}
       => GivenUp

IInv == /\ TypeOK /\ StaysInBlock /\ OneInstructionPerStep
        /\ TranslationInv /\ FetchInv /\ ExitInv
-----------------------------------------------------------------------------
USE BlocksAssumption, InstructionsAssumption

LEMMA Numbers ==
    /\ \A a \in Nat : a \div 4 \in Nat /\ a % 4 \in 0 .. 3 /\ a % 2 \in 0 .. 1
    /\ \A a \in Nat : Masked(a) \in Nat /\ Masked(a) \div 4 = a \div 4
    /\ \A a \in Nat : (a + 4) \div 4 = a \div 4 + 1 /\ (a + 4) % 4 = a % 4
    /\ \A a \in Nat : Aligned(a) => a = 4 * (a \div 4)
BY DEF Masked, Aligned

LEMMA FetchType ==
    ASSUME TypeOK, NEW c \in Blocks
    PROVE  Fetch(c) \in Fetched
BY DEF TypeOK, Fetch, Fetched

LEMMA TranslationType ==
    ASSUME TypeOK, NEW b \in Blocks, translated[b] # NotTranslated,
           NEW c \in DOMAIN translated[b]
    PROVE  /\ c \in 0 .. MaxBlocks /\ c \in Nat
           /\ c < MaxBlocks => c \in Blocks
           /\ translated[b][c] \in Fetched
<1>1. PICK cs \in SUBSET (0 .. MaxBlocks) : translated[b] \in [cs -> Fetched]
  BY DEF TypeOK, Code
<1>2. c \in 0 .. MaxBlocks /\ translated[b][c] \in Fetched
  BY <1>1
<1> QED BY <1>2 DEF Blocks

\* What is at an address is among what was there, also after a change.
LEMMA ChangeKeeps ==
    ASSUME TypeOK, FetchInv, Write \/ SetPermissions
    PROVE  /\ code' \in [Blocks -> Instructions] /\ executable' \in SUBSET Blocks
           /\ fetchable' \in [Blocks -> SUBSET Fetched]
           /\ changes' \in 0 .. MaxChanges
           /\ \A c \in Blocks : fetchable[c] \subseteq fetchable'[c]
           /\ FetchInv'
           /\ single_step' = single_step
<1>1. code' \in [Blocks -> Instructions] /\ executable' \in SUBSET Blocks
  BY DEF TypeOK, Write, SetPermissions
<1>2. Change
  BY DEF Write, SetPermissions
<1>3. \A c \in Blocks : Fetch(c)' \in Fetched
  BY <1>1 DEF Fetch, Fetched
<1>4. \A c \in Blocks : fetchable'[c] = fetchable[c] \union {Fetch(c)'}
  BY <1>2 DEF Change
<1>5. fetchable' \in [Blocks -> SUBSET Fetched]
  BY <1>2, <1>3 DEF Change, TypeOK
<1>6. changes' \in 0 .. MaxChanges
  BY <1>2 DEF Change, TypeOK
<1> QED BY <1>1, <1>2, <1>4, <1>5, <1>6 DEF FetchInv, Change

LEMMA SameMemory ==
    ASSUME TypeOK, FetchInv, Unchanged
    PROVE  /\ code' \in [Blocks -> Instructions] /\ executable' \in SUBSET Blocks
           /\ fetchable' \in [Blocks -> SUBSET Fetched]
           /\ changes' \in 0 .. MaxChanges
           /\ \A c \in Blocks : fetchable[c] \subseteq fetchable'[c]
           /\ FetchInv'
           /\ single_step' = single_step
BY DEF TypeOK, FetchInv, Fetch, Unchanged, memory

\* No change of the program makes a translation anything else.
LEMMA TranslationKeeps ==
    ASSUME TypeOK, TranslationInv,
           \A c \in Blocks : fetchable[c] \subseteq fetchable'[c],
           single_step' = single_step, translated' = translated
    PROVE  TranslationInv'
<1> SUFFICES ASSUME NEW b \in Blocks, translated[b] # NotTranslated,
                    NEW c \in DOMAIN translated[b], c < MaxBlocks
             PROVE  translated[b][c] \in fetchable'[c]
  BY DEF TranslationInv, Falls
<1>1. translated[b][c] \in fetchable[c]
  BY DEF TranslationInv
<1> QED BY <1>1, TranslationType

LEMMA InitIInv ==
    ASSUME Init
    PROVE  IInv
<1> USE DEF Init
<1>1. \A c \in Blocks : Fetch(c) \in Fetched
  BY DEF Fetch, Fetched
<1>2. fetchable \in [Blocks -> SUBSET Fetched] /\ FetchInv
  BY <1>1 DEF FetchInv
<1>3. TypeOK
  BY <1>2 DEF TypeOK, Blocks, Stops
<1> QED BY <1>2, <1>3 DEF IInv, StaysInBlock, OneInstructionPerStep,
                          TranslationInv, ExitInv
-----------------------------------------------------------------------------
(***************************************************************************)
(* Outside of blocks.                                                      *)
(***************************************************************************)
LEMMA EmbedderKeeps ==
    ASSUME IInv, Embedder
    PROVE  IInv'
<1> USE DEF IInv
<1>1. CASE SetPc
  <2>1. Unchanged /\ translated' = translated
    BY <1>1 DEF SetPc, Unchanged
  <2>2. TypeOK'
    BY <1>1, <2>1, SameMemory DEF SetPc, TypeOK, position
  <2> QED BY <1>1, <2>1, <2>2, SameMemory, TranslationKeeps
          DEF SetPc, StaysInBlock, OneInstructionPerStep, ExitInv
<1>2. CASE ChangeProgram
  <2>1. (Write \/ SetPermissions) /\ translated' = translated
    BY <1>2 DEF ChangeProgram
  <2>2. TypeOK'
    BY <1>2, <2>1, ChangeKeeps DEF ChangeProgram, TypeOK, position
  <2> QED BY <1>2, <2>1, <2>2, ChangeKeeps, TranslationKeeps
          DEF ChangeProgram, StaysInBlock, OneInstructionPerStep, ExitInv
<1>3. CASE Run
  <2>1. Unchanged /\ translated' = translated
    BY <1>3 DEF Run, Unchanged
  <2>2. TypeOK'
    BY <1>3, <2>1, SameMemory DEF Run, TypeOK, position
  <2> QED BY <1>3, <2>1, <2>2, SameMemory, TranslationKeeps
          DEF Run, StaysInBlock, OneInstructionPerStep, ExitInv
<1> QED BY <1>1, <1>2, <1>3 DEF Embedder

LEMMA DispatchKeeps ==
    ASSUME IInv, Dispatch
    PROVE  IInv'
<1> USE DEF IInv
<1>1. Unchanged /\ translated' = translated
  BY DEF Dispatch, Again, FallBack, SimpleExit, Generated
<1>2. FetchInv' /\ TranslationInv' /\ single_step' = single_step
  BY <1>1, SameMemory, TranslationKeeps
<1>3. fetchable' = fetchable
  BY <1>1 DEF Unchanged, memory
<1>4. CASE Again
  <2>1. TypeOK'
    BY <1>1, <1>4, SameMemory DEF Again, Generated, TypeOK, position
  <2> QED BY <1>2, <1>4, <2>1
          DEF Again, StaysInBlock, OneInstructionPerStep, ExitInv
<1>5. CASE FallBack
  <2>1. TypeOK'
    BY <1>1, <1>5, SameMemory DEF FallBack, Generated, TypeOK, position
  <2> QED BY <1>2, <1>3, <1>5, <2>1
          DEF FallBack, StaysInBlock, OneInstructionPerStep, ExitInv, GivenUp
<1>6. CASE SimpleExit
  <2>1. exit' \in Reasons \union {"None"}
    BY <1>6 DEF SimpleExit, TypeOK, Reasons
  <2>2. TypeOK'
    BY <1>1, <1>6, <2>1, SameMemory DEF SimpleExit, TypeOK, position
  <2> QED BY <1>2, <1>6, <2>2
          DEF SimpleExit, StaysInBlock, OneInstructionPerStep, ExitInv
<1> QED BY <1>4, <1>5, <1>6 DEF Dispatch

LEMMA StepKeeps ==
    ASSUME IInv, Step
    PROVE  IInv'
<1> USE DEF IInv
<1>1. Unchanged \/ Write
  BY DEF Step, StepOn, StepStoreToProgram, StepBranch, StepJump, StepExit,
         StepFails
<1>2. translated' = translated
  BY DEF Step, StepOn, StepStoreToProgram, StepBranch, StepJump, StepExit,
         StepFails, Stepped
<1>3. FetchInv' /\ TranslationInv' /\ single_step' = single_step
  BY <1>1, <1>2, SameMemory, ChangeKeeps, TranslationKeeps
<1>4. Now \in Fetched
  BY FetchType DEF Now, InTable, Fetched
<1>5. /\ pc' \in Nat /\ at' \in {"idle", "get", "interpreter", "stopped"}
      /\ turn' \in BOOLEAN /\ stopped' \in Stops
      /\ UNCHANGED <<position, exit_reason>>
  <2>1. ASSUME NEW a \in Nat, Stepped(a), Stepping
        PROVE  <1>5!:
    BY <2>1 DEF Stepped, Retire, TypeOK, Stepping
  <2>2. CASE StepOn \/ StepStoreToProgram
    BY <2>1, <2>2 DEF StepOn, StepStoreToProgram, Interprets, TypeOK
  <2>3. CASE StepBranch
    <3>1. Now.target \in Nat
      BY <1>4, <2>3 DEF StepBranch, Interprets, Fetched
    <3> QED BY <2>1, <2>3, <3>1 DEF StepBranch, Interprets
  <2>4. CASE StepJump
    BY <2>1, <2>4, Numbers DEF StepJump, Interprets
  <2>5. CASE StepExit
    BY <2>5 DEF StepExit, TypeOK
  <2>6. CASE StepFails
    BY <2>6 DEF StepFails, TypeOK, Stops
  <2> QED BY <2>2, <2>3, <2>4, <2>5, <2>6 DEF Step
<1>6. exit' \in Reasons \union {"None"}
  <2>1. CASE StepExit
    BY <2>1 DEF StepExit, Interprets, Reasons
  <2>2. CASE ~StepExit
    <3>1. exit' = exit
      BY <2>2 DEF Step, StepOn, StepStoreToProgram, StepBranch, StepJump,
                  StepFails, Stepped
    <3> QED BY <3>1 DEF TypeOK
  <2> QED BY <2>1, <2>2
<1>7. TypeOK'
  BY <1>1, <1>2, <1>5, <1>6, SameMemory, ChangeKeeps DEF TypeOK, position
<1> QED BY <1>3, <1>5, <1>7 DEF StaysInBlock, OneInstructionPerStep, ExitInv
-----------------------------------------------------------------------------
(***************************************************************************)
(* Into blocks, and through them.                                          *)
(***************************************************************************)
LEMMA TranslationCorrect ==
    ASSUME TypeOK, FetchInv, NEW b \in Blocks
    PROVE  /\ Translation(b) \in [Reached(b) -> Fetched]
           /\ Reached(b) \in SUBSET (b .. MaxBlocks)
           /\ Translation(b) \in Code
           /\ b \in Reached(b)
           /\ Translation(b) # NotTranslated
           /\ \A c \in Reached(b) :
                /\ c = MaxBlocks => Translation(b)[c] = Unfetchable
                /\ c < MaxBlocks => Translation(b)[c] \in fetchable[c]
                /\ Falls(Translation(b)[c]) =>
                     single_step \/ c + 1 \in Reached(b)
<1>1. Reached(b) \in SUBSET (b .. MaxBlocks) /\ b \in Reached(b)
  BY DEF Reached, Blocks
<1>2. \A c \in Reached(b) : c # MaxBlocks => c \in Blocks
  BY <1>1 DEF Blocks
<1>3. Translation(b) \in [Reached(b) -> Fetched]
  BY <1>2, FetchType DEF Translation, Fetched
<1>4. Translation(b) \in Code /\ Translation(b) # NotTranslated
  <2>1. Reached(b) \in SUBSET (0 .. MaxBlocks)
    BY <1>1 DEF Blocks
  <2> QED BY <1>3, <2>1 DEF Code
<1>5. ASSUME NEW c \in Reached(b), Falls(Translation(b)[c])
      PROVE  single_step \/ c + 1 \in Reached(b)
  <2>1. c # MaxBlocks /\ Translation(b)[c] = Fetch(c)
    BY <1>5 DEF Translation, Falls
  <2>2. CASE ~single_step
    <3>1. ~Ends(c)
      BY <1>5, <2>1, <2>2 DEF Ends, Falls
    <3>2. c + 1 \in b .. MaxBlocks
      BY <1>1, <2>1 DEF Blocks
    <3>3. \A d \in b .. c : ~Ends(d)
      <4>1. \A d \in b .. c - 1 : ~Ends(d)
        BY DEF Reached
      <4>2. \A d \in b .. c : d = c \/ d \in b .. c - 1
        BY <1>1 DEF Blocks
      <4> QED BY <3>1, <4>1, <4>2
    <3>4. c = (c + 1) - 1
      BY <1>1 DEF Blocks
    <3> QED BY <3>2, <3>3, <3>4 DEF Reached
  <2> QED BY <2>2
<1>6. \A c \in Reached(b) : c < MaxBlocks =>
         Translation(b)[c] \in fetchable[c]
  BY <1>2 DEF Translation, FetchInv
<1>7. \A c \in Reached(b) : c = MaxBlocks => Translation(b)[c] = Unfetchable
  BY DEF Translation
<1> QED BY <1>1, <1>3, <1>4, <1>5, <1>6, <1>7

LEMMA GetKeeps ==
    ASSUME IInv, Get
    PROVE  IInv'
<1> USE DEF IInv, Get
<1> DEFINE b == pc \div 4
<1>1. b \in Blocks
  BY DEF InTable
<1>2. FetchInv' /\ single_step' = single_step /\ fetchable' = fetchable
  BY SameMemory DEF Unchanged, memory
<1>3. \/ translated' = translated /\ translated[b] # NotTranslated
      \/ translated' = [translated EXCEPT ![b] = Translation(b)]
  OBVIOUS
<1>4. /\ b \in DOMAIN translated'[b] /\ translated'[b] # NotTranslated
      /\ translated' \in [Blocks -> Code \union {NotTranslated}]
      /\ \A d \in Blocks :
            translated'[d] = translated[d] \/ translated'[d] = Translation(d)
  BY <1>1, <1>3, TranslationCorrect DEF TypeOK, TranslationInv
<1>5. TranslationInv'
  <2> SUFFICES ASSUME NEW d \in Blocks, translated'[d] # NotTranslated
               PROVE  (/\ d \in DOMAIN translated[d]
                       /\ \A c \in DOMAIN translated[d] :
                            /\ c = MaxBlocks =>
                                 translated[d][c] = Unfetchable
                            /\ c < MaxBlocks =>
                                 translated[d][c] \in fetchable[c]
                            /\ Falls(translated[d][c]) =>
                                 single_step \/ c + 1 \in DOMAIN translated[d])'
    BY DEF TranslationInv
  <2>1. CASE translated'[d] = translated[d]
    BY <1>2, <2>1 DEF TranslationInv, Falls
  <2>2. CASE translated'[d] = Translation(d)
    BY <1>2, <2>2, TranslationCorrect DEF Falls
  <2> QED BY <1>4, <2>1, <2>2
<1>6. block' = b /\ current_pc' = pc /\ pc' = pc /\ at' = "block"
  BY DEF Enter
<1>7. TypeOK'
  BY <1>1, <1>4, <1>6, SameMemory DEF TypeOK
<1>8. StaysInBlock'
  BY <1>4, <1>6 DEF StaysInBlock, Aligned
<1> QED BY <1>2, <1>5, <1>6, <1>7, <1>8 DEF OneInstructionPerStep, ExitInv

LEMMA GetFailsKeeps ==
    ASSUME IInv, GetFails
    PROVE  IInv'
<1> USE DEF IInv, GetFails
<1>1. TypeOK'
  BY SameMemory DEF TypeOK, Stops, position
<1> QED BY <1>1, SameMemory, TranslationKeeps
        DEF StaysInBlock, OneInstructionPerStep, ExitInv

\* What runs, and where it may go on.
LEMMA InstructionCorrect ==
    ASSUME IInv, at = "block"
    PROVE  /\ block \in Blocks /\ Aligned(current_pc) /\ current_pc \in Nat
           /\ translated[block] # NotTranslated
           /\ current_pc \div 4 \in DOMAIN translated[block]
           /\ current_pc \div 4 \in 0 .. MaxBlocks
           /\ This \in Fetched
           /\ This # Unfetchable =>
                /\ InTable(current_pc) /\ This \in fetchable[current_pc \div 4]
                /\ This.kind \in Kinds /\ This.target \in Nat
           /\ Falls(This) =>
                \/ single_step
                \/ current_pc \div 4 + 1 \in DOMAIN translated[block]
<1> USE DEF IInv
<1>1. /\ block \in Blocks /\ Aligned(current_pc) /\ current_pc \in Nat
      /\ translated[block] # NotTranslated
      /\ current_pc \div 4 \in DOMAIN translated[block]
  BY DEF StaysInBlock, TypeOK
<1>2. current_pc \div 4 \in 0 .. MaxBlocks /\ This \in Fetched
  BY <1>1, TranslationType DEF This
<1>3. ASSUME This # Unfetchable
      PROVE  current_pc \div 4 \in Blocks /\ This \in fetchable[current_pc \div 4]
  BY <1>1, <1>2, <1>3 DEF TranslationInv, This, Blocks
<1>4. This # Unfetchable => This.kind \in Kinds /\ This.target \in Nat
  BY <1>2 DEF Fetched
<1> QED BY <1>1, <1>2, <1>3, <1>4 DEF TranslationInv, This, InTable

\* What a step inside a block leaves to show.
LEMMA BlockKeeps ==
    ASSUME IInv, at = "block", Unchanged \/ Write, translated' = translated,
           UNCHANGED <<exit, stopped>>, turn' \in BOOLEAN,
           pc' \in Nat, current_pc' \in Nat, block' \in Blocks,
           \/ /\ at' = "exit" /\ ExitInv'
              /\ exit_reason' \in Reasons \union {"Unsupported", "SingleStep",
                                                 "BlockNotGenerated"}
           \/ /\ at' = "block" /\ ~single_step /\ StaysInBlock'
              /\ UNCHANGED exit_reason
    PROVE  IInv'
<1> USE DEF IInv
<1>1. FetchInv' /\ TranslationInv' /\ single_step' = single_step
  BY SameMemory, ChangeKeeps, TranslationKeeps
<1>2. TypeOK'
  BY SameMemory, ChangeKeeps DEF TypeOK
<1>3. StaysInBlock' /\ OneInstructionPerStep' /\ ExitInv'
  BY <1>1 DEF StaysInBlock, OneInstructionPerStep, ExitInv
<1> QED BY <1>1, <1>2, <1>3

LEMMA OnwardKeeps ==
    ASSUME IInv, at = "block", Falls(This), Onward, Unchanged \/ Write,
           translated' = translated, UNCHANGED <<exit, stopped>>, Retire
    PROVE  IInv'
<1> USE DEF Onward
<1>1. /\ InTable(current_pc) /\ Aligned(current_pc) /\ current_pc \in Nat
      /\ current_pc \div 4 \in Blocks /\ block \in Blocks /\ pc \in Nat
      /\ single_step' = single_step
  BY InstructionCorrect, SameMemory, ChangeKeeps
     DEF Falls, InTable, IInv, TypeOK
<1>2. /\ current_pc + 4 \in Nat /\ Aligned(current_pc + 4)
      /\ (current_pc + 4) \div 4 = current_pc \div 4 + 1
      /\ current_pc = 4 * (current_pc \div 4)
  BY <1>1, Numbers DEF Aligned
<1>3. CASE single_step
  <2>1. /\ at' = "exit" /\ exit_reason' = "SingleStep"
        /\ pc' = current_pc + 4 /\ UNCHANGED position
    BY <1>3 DEF Exit
  <2>2. InTable(pc') \/ pc' = 4 * MaxBlocks
    BY <1>1, <1>2, <2>1 DEF InTable, Blocks
  <2>3. ExitInv'
    BY <2>1, <2>2 DEF ExitInv, InTable
  <2> QED BY <1>1, <1>2, <2>1, <2>3, BlockKeeps DEF Retire, position
<1>4. CASE ~single_step
  <2>1. /\ current_pc' = current_pc + 4 /\ at' = "block" /\ block' = block
        /\ pc' = pc /\ exit_reason' = exit_reason
    BY <1>4
  <2>2. StaysInBlock'
    BY <1>2, <1>4, <2>1, InstructionCorrect DEF StaysInBlock, Aligned
  <2> QED BY <1>1, <1>2, <1>4, <2>1, <2>2, BlockKeeps DEF Retire
<1> QED BY <1>3, <1>4

\* x is the pc to leave with when there is no code for a.
LEMMA ValidatedBranchKeeps ==
    ASSUME IInv, at = "block", NEW a \in Nat, NEW x \in Nat,
           Aligned(a), InTable(a), x \div 4 = a \div 4,
           ValidatedBranch(a, x), Generated, Retire
    PROVE  IInv'
<1> USE DEF ValidatedBranch, Generated
<1>1. /\ block \in Blocks /\ pc \in Nat /\ current_pc \in Nat
      /\ a \div 4 \in Blocks /\ single_step' = single_step
  BY SameMemory DEF IInv, TypeOK, InTable
<1>2. CASE single_step \/ translated[a \div 4] = NotTranslated
  <2>1. /\ at' = "exit" /\ exit_reason' \in {"SingleStep", "BlockNotGenerated"}
        /\ pc' = x /\ UNCHANGED position
    BY <1>2 DEF Exit
  <2>2. InTable(pc')
    BY <2>1 DEF InTable
  <2>3. ExitInv'
    BY <2>1, <2>2 DEF ExitInv, InTable
  <2> QED BY <1>1, <2>1, <2>3, BlockKeeps DEF Retire, position
<1>3. CASE ~single_step /\ translated[a \div 4] # NotTranslated
  <2>1. /\ at' = "block" /\ block' = a \div 4 /\ current_pc' = a
        /\ pc' = pc /\ exit_reason' = exit_reason
    BY <1>3 DEF Enter
  <2>2. StaysInBlock'
    BY <1>1, <1>3, <2>1 DEF StaysInBlock, Aligned, IInv, TranslationInv
  <2> QED BY <1>1, <1>3, <2>1, <2>2, BlockKeeps DEF Retire
<1> QED BY <1>2, <1>3

\* Leaving for the embedder.
LEMMA ExitKeeps ==
    ASSUME IInv, at = "block", NEW a \in Nat, NEW why \in Reasons,
           why # "MemoryFault", Exit(why, a), Generated, turn' \in BOOLEAN
    PROVE  IInv'
<1>1. at' = "exit" /\ exit_reason' = why /\ pc' = a /\ UNCHANGED position
  BY DEF Exit
<1>2. ExitInv'
  BY <1>1 DEF ExitInv, Reasons
<1>3. /\ block' \in Blocks /\ current_pc' \in Nat
  BY <1>1 DEF IInv, TypeOK, position
<1> QED BY <1>1, <1>2, <1>3, BlockKeeps DEF Generated

LEMMA BranchKeeps ==
    ASSUME IInv, Branch
    PROVE  IInv'
<1> USE DEF Branch, StaticBranch
<1> DEFINE a == This.target
<1>1. at = "block" /\ a \in Nat /\ current_pc \in Nat /\ turn \in BOOLEAN
  BY InstructionCorrect DEF InBlock, IInv, TypeOK
<1>2. CASE ~Aligned(a) \/ ~InTable(a)
  <2>1. PICK why \in {"UnalignedPc", "OutOfBoundsPc"} :
           Exit(why, current_pc) /\ turn' = turn
    BY <1>2
  <2> QED BY <1>1, <2>1, ExitKeeps DEF Reasons
<1>3. CASE Aligned(a) /\ InTable(a)
  BY <1>1, <1>3, ValidatedBranchKeeps
<1> QED BY <1>2, <1>3

LEMMA JumpKeeps ==
    ASSUME IInv, Jump
    PROVE  IInv'
<1> USE DEF Jump, DynamicBranch
<1>1. at = "block" /\ Generated /\ Retire
  BY DEF InBlock
<1>2. PICK a \in Targets : DynamicBranch(a)
  OBVIOUS
<1>3. a \in Nat /\ Masked(a) \in Nat /\ Masked(a) \div 4 = a \div 4
  BY Numbers
<1>4. turn' \in BOOLEAN
  BY <1>1 DEF Retire
<1>5. CASE ~Aligned(Masked(a)) \/ ~InTable(a)
  <2>1. PICK why \in {"UnalignedPc", "OutOfBoundsPc"} : Exit(why, a)
    BY <1>2, <1>5
  <2> QED BY <1>1, <1>3, <1>4, <2>1, ExitKeeps DEF Reasons
<1>6. CASE Aligned(Masked(a)) /\ InTable(a)
  <2>1. InTable(Masked(a)) /\ ValidatedBranch(Masked(a), a)
    BY <1>2, <1>3, <1>6 DEF InTable
  <2> QED BY <1>1, <1>3, <1>6, <2>1, ValidatedBranchKeeps
<1> QED BY <1>5, <1>6

LEMMA TrapKeeps ==
    ASSUME IInv, Trap
    PROVE  IInv'
<1> USE DEF Trap
<1>1. at = "block" /\ Generated /\ turn' = turn
  BY DEF InBlock
<1>2. turn \in BOOLEAN /\ block \in Blocks /\ current_pc \in Nat
  BY DEF IInv, TypeOK
<1>3. CASE \E why \in {"InstructionFetchFault", "Ecall", "Ebreak",
                       "UndefinedInstruction"} : Exit(why, current_pc)
  BY <1>1, <1>2, <1>3, ExitKeeps DEF Reasons
<1>4. CASE \E why \in {"MemoryFault", "Unsupported"} :
             /\ Exit(why, current_pc) /\ This # Unfetchable
             /\ This.kind \in {"access", "Unsupported"}
  <2>1. /\ at' = "exit" /\ exit_reason' \in {"MemoryFault", "Unsupported"}
        /\ pc' = current_pc /\ UNCHANGED position /\ fetchable' = fetchable
    BY <1>1, <1>4 DEF Exit, Generated, Unchanged, memory
  <2>2. GivenUp'
    BY <1>1, <1>4, <2>1, InstructionCorrect DEF GivenUp, Aligned, InTable
  <2>3. ExitInv'
    BY <2>1, <2>2 DEF ExitInv
  <2> QED BY <1>1, <1>2, <2>1, <2>3, BlockKeeps
          DEF Generated, Reasons, position
<1> QED BY <1>3, <1>4 DEF InBlock

LEMMA NextKeeps ==
    ASSUME IInv, [Next]_vars
    PROVE  IInv'
<1>1. CASE Embedder BY <1>1, EmbedderKeeps
<1>2. CASE Get BY <1>2, GetKeeps
<1>3. CASE GetFails BY <1>3, GetFailsKeeps
<1>4. CASE Sequential
  BY <1>4, OnwardKeeps DEF Sequential, InBlock, Falls, Generated
<1>5. CASE StoreToProgram
  BY <1>5, OnwardKeeps DEF StoreToProgram, InBlock, Falls
<1>6. CASE Branch BY <1>6, BranchKeeps
<1>7. CASE Jump BY <1>7, JumpKeeps
<1>8. CASE Trap BY <1>8, TrapKeeps
<1>9. CASE Dispatch BY <1>9, DispatchKeeps
<1>10. CASE Step BY <1>10, StepKeeps
<1>11. CASE UNCHANGED vars
  BY <1>11 DEF vars, memory, position, IInv, TypeOK, StaysInBlock, This,
               OneInstructionPerStep, TranslationInv, FetchInv, Fetch,
               ExitInv, GivenUp, InTable, Aligned
<1> QED BY <1>1, <1>2, <1>3, <1>4, <1>5, <1>6, <1>7, <1>8, <1>9, <1>10, <1>11
        DEF Next, Translated, Stopped

\* The invariant holds of every program, whoever changes it.
THEOREM Inductive == Spec => []IInv
BY InitIInv, NextKeeps, PTL DEF Spec

\* Every variable keeps its type.
THEOREM TypeCorrect == Spec => []TypeOK
BY Inductive, PTL DEF IInv

\* The code of a block ends with what leaves it (generate_block), and no
\* change of the program makes it run on past that.
THEOREM BlockCorrect == Spec => []StaysInBlock
BY Inductive, PTL DEF IInv

\* With PRINT_EXECUTION_LOG no block goes on after its first instruction,
\* and none is entered by a branch.
THEOREM SteppingCorrect == Spec => []OneInstructionPerStep
BY Inductive, PTL DEF IInv
-----------------------------------------------------------------------------
\* Only these go back to the lookup: the loop of the executor, and a single
\* instruction that was interpreted.
LEMMA Lookups ==
    ASSUME Next, at # "idle", at' = "get", vars' # vars
    PROVE  Again \/ (at = "step" /\ Step)
<1>1. ASSUME Sequential \/ StoreToProgram
      PROVE  FALSE
  BY <1>1 DEF Sequential, StoreToProgram, InBlock, Onward, Exit
<1>2. ASSUME NEW a, NEW x, at = "block", ValidatedBranch(a, x)
      PROVE  FALSE
  BY <1>2 DEF ValidatedBranch, Exit, Enter
<1>3. ASSUME Branch \/ Jump
      PROVE  FALSE
  BY <1>2, <1>3 DEF Branch, StaticBranch, Jump, DynamicBranch, InBlock, Exit
<1>4. ASSUME Trap \/ Get \/ GetFails
      PROVE  FALSE
  BY <1>4 DEF Trap, InBlock, Exit, Get, GetFails, Enter
<1>5. ASSUME Embedder
      PROVE  FALSE
  BY <1>5 DEF Embedder, SetPc, ChangeProgram, Run
<1>6. ASSUME Dispatch
      PROVE  Again
  BY <1>6 DEF Dispatch, FallBack, SimpleExit
<1>7. ASSUME Step
      PROVE  at = "step"
  BY <1>7 DEF Step, StepOn, StepStoreToProgram, StepBranch, StepJump, StepExit,
              StepFails, Stepped, Interprets, Stepping
<1> QED BY <1>1, <1>3, <1>4, <1>5, <1>6, <1>7
        DEF Next, Translated, Stopped

\* An instruction that was given up to the interpreter is an access, unless
\* another one has taken its place.
LEMMA InterpretedCorrect ==
    ASSUME IInv, at = "step", Step, at' = "get"
    PROVE  InTable(pc') \/ pc' = 4 * MaxBlocks \/ Rewritten(pc \div 4)
<1> DEFINE c == pc \div 4
<1>1. Aligned(pc) /\ c \in Blocks /\ pc \in Nat
  BY DEF IInv, ExitInv, GivenUp, InTable, TypeOK
<1>2. PICK i \in fetchable[c] :
         i # Unfetchable /\ i.kind \in {"access", "Unsupported"}
  BY DEF IInv, ExitInv, GivenUp
<1>3. Now \in fetchable[c]
  BY <1>1 DEF Now, InTable, IInv, FetchInv
<1>4. CASE Now # i
  BY <1>2, <1>3, <1>4 DEF Rewritten
<1>5. CASE Now = i
  <2>1. pc' = pc + 4
    BY <1>2, <1>5 DEF Step, StepOn, StepStoreToProgram, StepBranch, StepJump,
                      StepExit, StepFails, Stepped, Interprets
  <2>2. pc = 4 * c /\ (pc + 4) \div 4 = c + 1
    BY <1>1, Numbers
  <2> QED BY <1>1, <2>1, <2>2 DEF InTable, Blocks
<1> QED BY <1>4, <1>5

LEMMA LookupCorrect ==
    ASSUME IInv, [Next]_vars
    PROVE  [at # "idle" /\ at' = "get" =>
              \/ InTable(pc') \/ pc' = 4 * MaxBlocks
              \/ at = "step" /\ Rewritten(pc \div 4)]_vars
<1> SUFFICES ASSUME Next, at # "idle", at' = "get", vars' # vars
             PROVE  \/ InTable(pc') \/ pc' = 4 * MaxBlocks
                    \/ at = "step" /\ Rewritten(pc \div 4)
  OBVIOUS
<1>1. CASE Again
  <2>1. pc' = pc /\ (InTable(pc) \/ pc = 4 * MaxBlocks)
    BY <1>1 DEF Again, IInv, ExitInv
  <2> QED BY <2>1 DEF InTable
<1>2. CASE at = "step" /\ Step
  BY <1>2, InterpretedCorrect
<1> QED BY <1>1, <1>2, Lookups

\* CodeBuffer::get is never given an index outside of its table by a loop
\* that goes on by itself, as long as what it interprets has not changed.
THEOREM TableCorrect == Spec => TableIndexIsSafe
BY Inductive, LookupCorrect, PTL DEF Spec, TableIndexIsSafe

-----------------------------------------------------------------------------
(***************************************************************************)
(* Vm implements GuestExecution: translated code, interpreted code and the *)
(* loops between them run the instructions of the guest.  What the         *)
(* invariant lacks for that is that an exit for the embedder has a reason. *)
(***************************************************************************)
GuestPc == IF at = "block" THEN current_pc ELSE pc
Running == CASE at = "idle" -> "no" [] at = "stopped" -> "stopped"
             [] OTHER -> "yes"
There(a) == IF InTable(a) THEN fetchable[a \div 4] ELSE {Unfetchable}
More == \A b \in Blocks : fetchable[b] \subseteq fetchable'[b]

\* Why a run may end at a.
TrueAt(why, a) ==
    \/ /\ why = "UnalignedPc"
       /\ \/ ~Aligned(a)
          \/ \E i \in There(a) : /\ i # Unfetchable /\ i.kind \in {"jal", "branch"}
                                 /\ ~Aligned(i.target)
    \/ /\ why = "OutOfBoundsPc"
       /\ \/ ~InTable(a)
          \/ \E i \in There(a) : /\ i # Unfetchable /\ i.kind \in {"jal", "branch"}
                                 /\ ~InTable(i.target)
    \/ why = "InstructionFetchFault" /\ Unfetchable \in There(a)
    \/ /\ why = "MemoryFault"
       /\ \E i \in There(a) : i # Unfetchable /\ i.kind = "access"
    \/ /\ why \in {"Ecall", "Ebreak", "UndefinedInstruction"}
       /\ \E i \in There(a) : i # Unfetchable /\ i.kind = why

ReasonInv ==
    at = "exit" =>
        \/ exit_reason \in {"BlockNotGenerated", "SingleStep", "MemoryFault",
                            "Unsupported"}
        \/ TrueAt(exit_reason, pc)

\* The abstract specification's operators, under the refinement mapping.
LEMMA GuestTrue ==
    ASSUME NEW why, TrueAt(why, GuestPc)
    PROVE  /\ Guest!True(why)
           /\ why \in {"UnalignedPc", "OutOfBoundsPc", "InstructionFetchFault",
                       "MemoryFault", "Ecall", "Ebreak", "UndefinedInstruction"}
<1>1. Guest!At(GuestPc) = There(GuestPc)
  BY DEF Guest!At, There, Guest!InTable, InTable, Guest!Blocks, Blocks
<1>2. CASE why = "UnalignedPc"
  BY <1>1, <1>2
  DEF TrueAt, Guest!True, Guest!Reported, Guest!Aligned, Aligned, GuestPc
<1>3. CASE why = "OutOfBoundsPc"
  BY <1>1, <1>3
  DEF TrueAt, Guest!True, Guest!Reported, Guest!InTable, InTable, Guest!Blocks,
      Blocks, GuestPc
<1>4. CASE why = "InstructionFetchFault"
  BY <1>1, <1>4 DEF TrueAt, Guest!True, GuestPc
<1>5. CASE why = "MemoryFault"
  BY <1>1, <1>5 DEF TrueAt, Guest!True, GuestPc
<1>6. CASE why \in {"Ecall", "Ebreak", "UndefinedInstruction"}
  BY <1>1, <1>6 DEF TrueAt, Guest!True, GuestPc
<1> QED BY <1>2, <1>3, <1>4, <1>5, <1>6 DEF TrueAt

LEMMA GuestExecutes ==
    ASSUME Running = "yes", Running' = "yes", exit' = exit,
           Aligned(GuestPc), NEW i \in There(GuestPc), i # Unfetchable,
           \/ /\ i.kind \in {"next", "access", "branch"}
              /\ GuestPc' = GuestPc + 4
           \/ i.kind \in {"jal", "branch"} /\ GuestPc' = i.target
           \/ /\ i.kind = "jalr"
              /\ \E a \in Targets : GuestPc' \in {a, Masked(a)},
           IF i.kind = "access" THEN More ELSE fetchable' = fetchable
    PROVE  Guest!Next
<1>1. Guest!At(GuestPc) = There(GuestPc) /\ Guest!Aligned(GuestPc)
  BY DEF Guest!At, There, Guest!InTable, InTable, Guest!Blocks, Blocks,
         Guest!Aligned, Aligned
<1>2. GuestPc' \in Guest!Successors(i)
  BY DEF Guest!Successors, GuestPc, Masked
<1>3. IF i.kind = "access" THEN Guest!More ELSE fetchable' = fetchable
  BY DEF Guest!More, More, Guest!Blocks, Blocks
<1>4. Guest!Execute
  BY <1>1, <1>2, <1>3 DEF Guest!Execute, GuestPc, Running
<1> QED BY <1>4 DEF Guest!Next

LEMMA GuestReturns ==
    ASSUME Running = "yes", Running' = "no", GuestPc' = GuestPc,
           fetchable' = fetchable, TrueAt(exit', GuestPc)
    PROVE  Guest!Next
<1>1. Guest!Return
  BY GuestTrue DEF Guest!Return, Running, GuestPc
<1> QED BY <1>1 DEF Guest!Next

LEMMA GuestStops ==
    ASSUME Running = "yes", Running' = "stopped", GuestPc' = GuestPc,
           fetchable' = fetchable, exit' = exit,
           \/ ~Aligned(GuestPc) \/ ~InTable(GuestPc)
           \/ \E i \in There(GuestPc) : i # Unfetchable /\ i.kind = "Unsupported"
    PROVE  Guest!Next
<1>1. Guest!At(GuestPc) = There(GuestPc)
  BY DEF Guest!At, There, Guest!InTable, InTable, Guest!Blocks, Blocks
<1>2. Guest!Stop
  BY <1>1
  DEF Guest!Stop, Running, GuestPc, Guest!Aligned, Aligned, Guest!InTable,
      InTable, Guest!Blocks, Blocks
<1> QED BY <1>2 DEF Guest!Next

LEMMA GuestOutside ==
    ASSUME Running = "no", Running' = "no", More, exit' = exit
    PROVE  Guest!Next
<1>1. Guest!Outside
  BY DEF Guest!Outside, Running, Guest!More, More, Guest!Blocks, Blocks
<1> QED BY <1>1 DEF Guest!Next

GuestVars == <<GuestPc, Running, fetchable, exit>>

\* What is run is what was once at its address.
LEMMA ThisIsThere ==
    ASSUME IInv, at = "block"
    PROVE  /\ This \in There(current_pc) /\ Aligned(current_pc)
           /\ GuestPc = current_pc /\ Running = "yes"
<1>1. /\ block \in Blocks /\ translated[block] # NotTranslated
      /\ current_pc \div 4 \in DOMAIN translated[block]
      /\ current_pc \div 4 \in 0 .. MaxBlocks /\ Aligned(current_pc)
  BY InstructionCorrect
<1>2. CASE current_pc \div 4 < MaxBlocks
  <2>1. InTable(current_pc)
    BY <1>1, <1>2 DEF InTable, Blocks
  <2>2. This \in fetchable[current_pc \div 4]
    BY <1>1, <1>2 DEF IInv, TranslationInv, This
  <2> QED BY <1>1, <2>1, <2>2 DEF There, GuestPc, Running
<1>3. CASE current_pc \div 4 = MaxBlocks
  <2>1. ~InTable(current_pc)
    BY <1>3 DEF InTable, Blocks
  <2>2. This = Unfetchable
    BY <1>1, <1>3 DEF IInv, TranslationInv, This
  <2> QED BY <1>1, <2>1, <2>2 DEF There, GuestPc, Running
<1> QED BY <1>1, <1>2, <1>3

LEMMA NowIsThere ==
    ASSUME IInv, Stepping
    PROVE  Now \in There(pc) /\ GuestPc = pc /\ Running = "yes"
BY DEF Now, There, IInv, FetchInv, InTable, Stepping, GuestPc, Running

LEMMA SequentialGuest ==
    ASSUME IInv, Sequential \/ StoreToProgram
    PROVE  Guest!Next
<1>1. /\ at = "block" /\ This # Unfetchable /\ Onward /\ exit' = exit
      /\ This.kind \in {"next", "access", "branch"}
  BY DEF Sequential, StoreToProgram, InBlock, Generated
<1>2. GuestPc' = current_pc + 4 /\ Running' = "yes"
  BY <1>1 DEF Onward, Exit, GuestPc, Running
<1>3. IF This.kind = "access" THEN More ELSE fetchable' = fetchable
  <2>1. CASE Sequential
    BY <2>1 DEF Sequential, Generated, Unchanged, memory, More
  <2>2. CASE StoreToProgram
    BY <2>2, ChangeKeeps DEF StoreToProgram, InBlock, More, IInv
  <2> QED BY <2>1, <2>2
<1> QED BY <1>1, <1>2, <1>3, ThisIsThere, GuestExecutes

\* A branch out of the table, or to no instruction, is left in front of it.
LEMMA BranchGuest ==
    ASSUME IInv, Branch
    PROVE  Guest!Next \/ UNCHANGED GuestVars
<1> DEFINE a == This.target
<1>1. /\ at = "block" /\ This # Unfetchable /\ exit' = exit
      /\ This.kind \in {"jal", "branch"} /\ StaticBranch(a)
      /\ fetchable' = fetchable
  BY DEF Branch, InBlock, Generated, Unchanged, memory
<1>2. CASE ~Aligned(a) \/ ~InTable(a)
  <2>1. at' = "exit" /\ pc' = current_pc
    BY <1>1, <1>2 DEF StaticBranch, Exit
  <2> QED BY <1>1, <2>1 DEF GuestVars, GuestPc, Running
<1>3. CASE Aligned(a) /\ InTable(a)
  <2>1. GuestPc' = a /\ Running' = "yes"
    BY <1>1, <1>3
    DEF StaticBranch, ValidatedBranch, Exit, Enter, GuestPc, Running
  <2> QED BY <1>1, <2>1, ThisIsThere, GuestExecutes
<1> QED BY <1>2, <1>3

LEMMA JumpGuest ==
    ASSUME IInv, Jump
    PROVE  Guest!Next
<1>1. /\ at = "block" /\ This # Unfetchable /\ exit' = exit
      /\ This.kind = "jalr" /\ fetchable' = fetchable
  BY DEF Jump, InBlock, Generated, Unchanged, memory
<1>2. PICK a \in Targets : DynamicBranch(a)
  BY DEF Jump
<1>3. GuestPc' \in {a, Masked(a)} /\ Running' = "yes"
  BY <1>1, <1>2
  DEF DynamicBranch, ValidatedBranch, Exit, Enter, GuestPc, Running
<1> QED BY <1>1, <1>3, ThisIsThere, GuestExecutes

LEMMA TrapGuest ==
    ASSUME IInv, Trap
    PROVE  UNCHANGED GuestVars
BY DEF Trap, InBlock, Exit, Generated, Unchanged, memory, GuestVars, GuestPc,
       Running

LEMMA GetGuest ==
    ASSUME IInv, Get \/ GetFails
    PROVE  Guest!Next \/ UNCHANGED GuestVars
<1>1. CASE Get
  BY <1>1 DEF Get, Enter, Unchanged, memory, GuestVars, GuestPc, Running
<1>2. CASE GetFails
  <2>1. /\ Running = "yes" /\ Running' = "stopped" /\ GuestPc' = GuestPc
        /\ fetchable' = fetchable /\ exit' = exit /\ GuestPc = pc
        /\ ~Aligned(pc) \/ ~InTable(pc)
    BY <1>2 DEF GetFails, Unchanged, memory, GuestPc, Running
  <2> QED BY <2>1, GuestStops
<1> QED BY <1>1, <1>2

LEMMA DispatchGuest ==
    ASSUME ReasonInv, Dispatch
    PROVE  Guest!Next \/ UNCHANGED GuestVars
<1>1. CASE Again \/ FallBack
  BY <1>1 DEF Again, FallBack, Generated, Unchanged, memory, GuestVars,
              GuestPc, Running
<1>2. CASE SimpleExit
  <2>1. /\ Running = "yes" /\ Running' = "no" /\ GuestPc' = GuestPc
        /\ fetchable' = fetchable /\ GuestPc = pc /\ exit' = exit_reason
    BY <1>2 DEF SimpleExit, Unchanged, memory, GuestPc, Running
  <2>2. TrueAt(exit_reason, pc)
    BY <1>2 DEF SimpleExit, ReasonInv
  <2> QED BY <2>1, <2>2, GuestReturns
<1> QED BY <1>1, <1>2 DEF Dispatch

\* The interpreter's step.
LEMMA StepGuest ==
    ASSUME IInv, Step
    PROVE  Guest!Next
<1>1. /\ Stepping /\ Now \in There(pc) /\ GuestPc = pc /\ Running = "yes"
  BY NowIsThere DEF Step, StepOn, StepStoreToProgram, StepBranch, StepJump,
                    StepExit, StepFails, Interprets
<1>2. ASSUME NEW a, Stepped(a)
      PROVE  GuestPc' = a /\ Running' = "yes" /\ exit' = exit
  BY <1>1, <1>2 DEF Stepped, Stepping, GuestPc, Running
<1>3. CASE StepOn
  <2>1. More /\ fetchable' = fetchable
    BY <1>3 DEF StepOn, Unchanged, memory, More
  <2> QED BY <1>1, <1>2, <1>3, <2>1, GuestExecutes DEF StepOn, Interprets
<1>4. CASE StepStoreToProgram
  <2>1. More
    BY <1>4, ChangeKeeps DEF StepStoreToProgram, More, IInv
  <2> QED BY <1>1, <1>2, <1>4, <2>1, GuestExecutes
          DEF StepStoreToProgram, Interprets
<1>5. CASE StepBranch
  <2>1. fetchable' = fetchable
    BY <1>5 DEF StepBranch, Unchanged, memory
  <2> QED BY <1>1, <1>2, <1>5, <2>1, GuestExecutes DEF StepBranch, Interprets
<1>6. CASE StepJump
  <2>1. fetchable' = fetchable
    BY <1>6 DEF StepJump, Unchanged, memory
  <2>2. PICK a \in Targets : Stepped(Masked(a))
    BY <1>6 DEF StepJump
  <2>3. Now # Unfetchable /\ Now.kind = "jalr" /\ Aligned(pc)
    BY <1>6 DEF StepJump, Interprets
  <2>4. GuestPc' = Masked(a) /\ Running' = "yes" /\ exit' = exit
    BY <1>2, <2>2
  <2> QED BY <1>1, <2>1, <2>3, <2>4, GuestExecutes
<1>7. CASE StepExit
  <2>1. fetchable' = fetchable /\ pc' = pc /\ at' = "idle"
    BY <1>7 DEF StepExit, Unchanged, memory
  <2>2. TrueAt(exit', pc)
    BY <1>1, <1>7 DEF StepExit, Interprets, TrueAt
  <2>3. GuestPc' = GuestPc /\ Running' = "no"
    BY <1>1, <2>1 DEF GuestPc, Running
  <2> QED BY <1>1, <2>1, <2>2, <2>3, GuestReturns
<1>8. CASE StepFails
  <2>1. /\ fetchable' = fetchable /\ pc' = pc /\ at' = "stopped" /\ exit' = exit
        /\ Now # Unfetchable /\ Now.kind = "Unsupported"
    BY <1>8 DEF StepFails, Interprets, Unchanged, memory
  <2>2. GuestPc' = GuestPc /\ Running' = "stopped"
    BY <1>1, <2>1 DEF GuestPc, Running
  <2> QED BY <1>1, <2>1, <2>2, GuestStops
<1> QED BY <1>3, <1>4, <1>5, <1>6, <1>7, <1>8 DEF Step

LEMMA EmbedderGuest ==
    ASSUME IInv, Embedder
    PROVE  Guest!Next \/ UNCHANGED GuestVars
<1>1. CASE SetPc
  <2>1. More /\ Running = "no" /\ Running' = "no" /\ exit' = exit
    BY <1>1 DEF SetPc, memory, More, Running
  <2> QED BY <2>1, GuestOutside
<1>2. CASE ChangeProgram
  <2>1. Running = "no" /\ Running' = "no" /\ exit' = exit
    BY <1>2 DEF ChangeProgram, Running
  <2>2. More
    BY <1>2, ChangeKeeps DEF ChangeProgram, More, IInv
  <2> QED BY <2>1, <2>2, GuestOutside
<1>3. CASE Run
  <2>1. Guest!Start
    BY <1>3 DEF Run, memory, Guest!Start
  <2> QED BY <2>1 DEF Guest!Next
<1> QED BY <1>1, <1>2, <1>3 DEF Embedder

\* Every exit for the embedder has a reason, at the pc it leaves with.
LEMMA ReasonKeeps ==
    ASSUME IInv, ReasonInv, [Next]_vars
    PROVE  ReasonInv'
<1>u. ASSUME fetchable' = fetchable, NEW a, NEW why, TrueAt(why, a)
      PROVE  TrueAt(why, a)'
  BY <1>u DEF TrueAt, There
<1>1. CASE Branch
  <2>1. at = "block" /\ StaticBranch(This.target) /\ fetchable' = fetchable
        /\ This # Unfetchable /\ This.kind \in {"jal", "branch"}
    BY <1>1 DEF Branch, InBlock, Generated, Unchanged, memory
  <2>2. CASE ~Aligned(This.target)
    <3>1. TrueAt("UnalignedPc", current_pc)
      BY <2>1, <2>2, ThisIsThere DEF TrueAt
    <3>2. exit_reason' = "UnalignedPc" /\ pc' = current_pc
      BY <2>1, <2>2 DEF StaticBranch, Exit
    <3> QED BY <1>u, <2>1, <3>1, <3>2 DEF ReasonInv, TrueAt, There
  <2>3. CASE Aligned(This.target) /\ ~InTable(This.target)
    <3>1. TrueAt("OutOfBoundsPc", current_pc)
      BY <2>1, <2>3, ThisIsThere DEF TrueAt
    <3>2. exit_reason' = "OutOfBoundsPc" /\ pc' = current_pc
      BY <2>1, <2>3 DEF StaticBranch, Exit
    <3> QED BY <1>u, <2>1, <3>1, <3>2 DEF ReasonInv, TrueAt, There
  <2>4. CASE Aligned(This.target) /\ InTable(This.target)
    BY <2>1, <2>4 DEF StaticBranch, ValidatedBranch, Exit, Enter, ReasonInv
  <2> QED BY <2>2, <2>3, <2>4
<1>2. CASE Jump
  <2>1. PICK a \in Targets : DynamicBranch(a)
    BY <1>2 DEF Jump
  <2>2. a \in Nat /\ (~Aligned(Masked(a)) => ~Aligned(a))
    BY Numbers DEF Masked, Aligned
  <2>3. CASE ~Aligned(Masked(a)) \/ ~InTable(a)
    <3>1. /\ pc' = a
          /\ \/ exit_reason' = "UnalignedPc" /\ ~Aligned(a)
             \/ exit_reason' = "OutOfBoundsPc" /\ ~InTable(a)
      BY <2>1, <2>2, <2>3 DEF DynamicBranch, Exit
    <3> QED BY <3>1 DEF ReasonInv, TrueAt, InTable, Aligned
  <2>4. CASE Aligned(Masked(a)) /\ InTable(a)
    BY <2>1, <2>4, <1>2
    DEF DynamicBranch, ValidatedBranch, Exit, Enter, ReasonInv, Jump, InBlock
  <2> QED BY <2>3, <2>4
<1>3. CASE Trap
  <2>1. at = "block" /\ fetchable' = fetchable
    BY <1>3 DEF Trap, InBlock, Generated, Unchanged, memory
  <2>2. /\ pc' = current_pc
        /\ \/ exit_reason' = "InstructionFetchFault" /\ This = Unfetchable
           \/ /\ exit_reason' \in {"Ecall", "Ebreak", "UndefinedInstruction"}
              /\ This # Unfetchable /\ This.kind = exit_reason'
           \/ exit_reason' \in {"MemoryFault", "Unsupported"}
    BY <1>3 DEF Trap, InBlock, Exit
  <2>3. \/ TrueAt(exit_reason', current_pc)
        \/ exit_reason' \in {"MemoryFault", "Unsupported"}
    BY <2>1, <2>2, ThisIsThere DEF TrueAt
  <2> QED BY <2>1, <2>2, <2>3 DEF ReasonInv, TrueAt, There, InTable, Aligned
<1>4. CASE Sequential \/ StoreToProgram
  BY <1>4 DEF Sequential, StoreToProgram, InBlock, Onward, Exit, ReasonInv
<1>5. CASE at' # "exit"
  BY <1>5 DEF ReasonInv
<1>6. CASE UNCHANGED vars
  BY <1>6 DEF vars, memory, position, ReasonInv, TrueAt, There, InTable, Aligned
<1>7. CASE Embedder \/ Get \/ GetFails \/ Dispatch \/ Step
  BY <1>5, <1>7
  DEF Embedder, SetPc, ChangeProgram, Run, Get, GetFails, Enter, Dispatch,
      Again, FallBack, SimpleExit, Step, StepOn, StepStoreToProgram,
      StepBranch, StepJump, StepExit, StepFails, Stepped, Interprets, Stepping
<1> QED BY <1>1, <1>2, <1>3, <1>4, <1>6, <1>7 DEF Next, Translated, Stopped

\* However a run is divided between translated code and the interpreter, it
\* executes the guest's instructions, and returns for a reason that is true
\* of the pc it returns with.
THEOREM VmImplementsGuest == Spec => ImplementsGuestExecution
<1>1. Init => Guest!Init
  <2> SUFFICES ASSUME Init PROVE Guest!Init  OBVIOUS
  <2>1. IInv  BY InitIInv
  <2> QED BY <2>1 DEF Init, Guest!Init, IInv, TypeOK, Fetched, Guest!Blocks,
                      Blocks
<1>2. Init => ReasonInv
  BY DEF Init, ReasonInv
<1>3. IInv /\ ReasonInv /\ [Next]_vars => [Guest!Next]_(Guest!vars)
  <2>1. UNCHANGED vars => UNCHANGED GuestVars
    BY DEF vars, memory, position, GuestVars, GuestPc, Running
  <2>2. UNCHANGED GuestVars => UNCHANGED Guest!vars
    BY DEF GuestVars, Guest!vars, GuestPc, Running
  <2> QED BY <2>1, <2>2, SequentialGuest, BranchGuest, JumpGuest, TrapGuest,
             GetGuest, DispatchGuest, StepGuest, EmbedderGuest
          DEF Next, Translated, Stopped
<1>4. IInv /\ ReasonInv /\ [Next]_vars => ReasonInv'
  BY ReasonKeeps
<1> QED BY <1>1, <1>2, <1>3, <1>4, Inductive, PTL
        DEF Spec, ImplementsGuestExecution, Guest!Spec
=============================================================================
