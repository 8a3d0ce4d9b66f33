---------------------------- MODULE PageCalls ----------------------------
(***************************************************************************)
(* What @tanstack/react-query makes of a page's mutations, as far as the   *)
(* renderer of this program relies on it.  A hook follows one call: a new  *)
(* mutate() and a reset() leave the earlier call to run in the main        *)
(* process, but its answer no longer reaches the page, nor do the          *)
(* callbacks that were passed to that mutate().                            *)
(***************************************************************************)
CONSTANT None

\* A hook that follows no call and shows nothing.
Quiet == [pending |-> None, data |-> None]
\* mutate(argument): what was shown is gone at once.
Mutated(argument) == [pending |-> argument, data |-> None]
\* The call is answered; one that failed shows nothing.
Answered(value) == [pending |-> None, data |-> value]

IsPending(hook) == hook.pending # None
==============================================================================
