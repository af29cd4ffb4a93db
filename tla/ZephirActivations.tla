------------------------- MODULE ZephirActivations -------------------------
(***************************************************************************)
(* The memory frames as an implementation of ActivationStack: each live    *)
(* method is the activation of the frame it has pushed, and prev leads     *)
(* from an activation to the one that has called it.                       *)
(***************************************************************************)
EXTENDS ZephirMemory

\* The activation the frame f stands for.
Activation(f) ==
  [owned |-> Observed(f) \ Released(f), leaving |-> cursor[f] > 0]

\* The activations on the C stack, found by following prev down from f to the
\* first frame a fatal error left behind or to the bottom.
ActivationsUpTo[f \in Frames \cup {NULL}] ==
  IF f \in live THEN Append(ActivationsUpTo[prev[f]], Activation(f)) ELSE << >>

\* The whole stack of activations, the running one last.
Activations == ActivationsUpTo[active]

Stack == INSTANCE ActivationStack WITH acts <- Activations, aborted <- unclean

\* The linked frames of the code behave as the stack of activations: a method
\* leaves when it is the innermost one and has released each zval once.
ImplementsActivationStack == Stack!StackSpec
=============================================================================
