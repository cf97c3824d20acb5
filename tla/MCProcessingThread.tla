------------------------ MODULE MCProcessingThread ------------------------
(* Model-checking instance of ProcessingThread: two listener functions and *)
(* up to three register*Listener calls at startup, then three scopes in a  *)
(* row, so a unit can follow one that was aborted or left by an exception. *)
EXTENDS ProcessingThread

CONSTANTS l1, l2   \* listener functions (model values)

MCListeners == {l1, l2}
MCMaxUnits == 3
MCMaxSlots == 3

(* l1's slots of threadCompleting and threadCompleted may throw (e.g. a    *)
(* commit at completion fails); no other slot throws.                      *)
MCThrowingAtCompletion == {<<"threadCompleting", l1>>, <<"threadCompleted", l1>>}

(* l1's slots of every signal may throw.                                   *)
MCThrowingAll == Signal \X {l1}

(* Only l1's threadCompleted slot may throw.                               *)
MCThrowingCompleted == {<<"threadCompleted", l1>>}
=============================================================================
