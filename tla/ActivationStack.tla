--------------------------- MODULE ActivationStack ---------------------------
(***************************************************************************)
(* What the memory frames promise to the generated methods, without        *)
(* frames, links, buffers or reference counts: the activations form a      *)
(* stack, each owns the zvals it has used, and an activation leaves only   *)
(* when it is on top and has released every zval it owned, each once.      *)
(* ZephirMemory implements it (see ZephirActivations).                     *)
(***************************************************************************)
EXTENDS Naturals, Sequences, SequencesExt

CONSTANT Vars

VARIABLES
  acts,    \* the activations on the C stack, the running one last
  aborted  \* a fatal error has unwound the stack in this request

StackInit == acts = << >> /\ aborted = FALSE

Top == acts[Len(acts)]

ReplaceTop(a) == acts' = [acts EXCEPT ![Len(acts)] = a]

Call ==
  /\ acts' = Append(acts, [owned |-> {}, leaving |-> FALSE])
  /\ UNCHANGED aborted

Own(x) ==
  /\ acts # << >> /\ ~Top.leaving
  /\ ReplaceTop([Top EXCEPT !.owned = @ \cup {x}])
  /\ UNCHANGED aborted

\* After a fatal error nothing is released any more.
StartLeaving ==
  /\ acts # << >> /\ ~Top.leaving
  /\ ReplaceTop([owned |-> IF aborted THEN {} ELSE Top.owned, leaving |-> TRUE])
  /\ UNCHANGED aborted

Release(x) ==
  /\ acts # << >> /\ Top.leaving /\ x \in Top.owned
  /\ ReplaceTop([Top EXCEPT !.owned = @ \ {x}])
  /\ UNCHANGED aborted

Return ==
  /\ acts # << >> /\ Top.leaving /\ Top.owned = {}
  /\ acts' = Front(acts)
  /\ UNCHANGED aborted

Abort == acts # << >> /\ acts' = << >> /\ aborted' = TRUE

NewRequest == acts = << >> /\ aborted' = FALSE /\ UNCHANGED acts

StackNext ==
  \/ Call \/ StartLeaving \/ Return \/ Abort \/ NewRequest
  \/ \E x \in Vars : Own(x) \/ Release(x)

StackSpec == StackInit /\ [][StackNext]_<<acts, aborted>>
=============================================================================
