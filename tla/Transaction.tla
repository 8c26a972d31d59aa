---------------------------- MODULE Transaction ----------------------------
(***************************************************************************)
(* What speculative parsing promises its callers, with no word on how.      *)
(*                                                                         *)
(* The parser does work (it reads tokens, collects comments and errors,     *)
(* builds nodes) in a context.  It may try something: if that succeeds its  *)
(* work is kept, if it fails no trace of it is left, neither in the work    *)
(* nor in the context.  A context lasts exactly as long as its scope,       *)
(* however the scope is left.                                              *)
(***************************************************************************)
EXTENDS Sequences, SequencesExt

VARIABLES
    work,       \* everything the parser has read and produced
    ctx,        \* the context it parses in
    frames,     \* the attempts and scopes that are open, innermost last
    failing     \* an error is on its way to the innermost attempt

tvars == <<work, ctx, frames, failing>>

TInit == frames = <<>> /\ failing = FALSE

\* Work in progress; it stays within the open attempts and scopes.
Work == UNCHANGED <<ctx, frames, failing>>

\* An attempt starts with a copy of everything.
Attempt ==
    /\ ~failing
    /\ frames' = Append(frames, [kind |-> "try", work |-> work, ctx |-> ctx])
    /\ UNCHANGED <<work, ctx, failing>>

Succeed ==
    /\ ~failing /\ frames # <<>> /\ Last(frames).kind = "try"
    /\ frames' = Front(frames)
    /\ UNCHANGED <<work, ctx, failing>>

Fail == ~failing /\ failing' = TRUE /\ UNCHANGED <<work, ctx, frames>>

\* A failed attempt never happened.
Rollback ==
    /\ failing /\ frames # <<>> /\ Last(frames).kind = "try"
    /\ work' = Last(frames).work /\ ctx' = Last(frames).ctx
    /\ frames' = Front(frames) /\ failing' = FALSE

\* A scope parses in a context of its own ...
Enter ==
    /\ ~failing
    /\ frames' = Append(frames, [kind |-> "with", ctx |-> ctx])
    /\ UNCHANGED <<work, failing>>

\* ... and gives the old one back, on success and on failure.
Leave ==
    /\ frames # <<>> /\ Last(frames).kind = "with"
    /\ ctx' = Last(frames).ctx /\ frames' = Front(frames)
    /\ UNCHANGED <<work, failing>>

\* A mode of the work, not of the context: entered and left without a copy.
EnterMode == /\ ~failing /\ frames' = Append(frames, [kind |-> "raw"])
             /\ UNCHANGED <<ctx, failing>>

LeaveMode == /\ frames # <<>> /\ Last(frames).kind = "raw"
             /\ frames' = Front(frames)
             /\ UNCHANGED <<ctx, failing>>

TNext == \/ Work \/ Attempt \/ Succeed \/ Fail \/ Rollback
         \/ Enter \/ Leave \/ EnterMode \/ LeaveMode

TSpec == TInit /\ [][TNext]_tvars
=============================================================================
