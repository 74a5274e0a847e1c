---------------------------- MODULE CallbackOrder ----------------------------
(***************************************************************************)
(* What the validation interface promises its subscribers                   *)
(* (validationinterface.h, SingleThreadedSchedulerClient in scheduler.h):   *)
(* callbacks run one after the other, in the order they were added, each    *)
(* one once, whichever threads run them.                                    *)
(***************************************************************************)
EXTENDS Naturals, Sequences

VARIABLES pending,     \* the callbacks that wait, the n-th added being n
          running,     \* the set of callbacks that are being run
          added        \* how many have been added

vars == <<pending, running, added>>

Init == pending = <<>> /\ running = {} /\ added = 0

Add ==
    /\ added' = added + 1
    /\ pending' = Append(pending, added')
    /\ UNCHANGED running

Start ==
    /\ pending # <<>>
    /\ running = {}
    /\ running' = {Head(pending)}
    /\ pending' = Tail(pending)
    /\ UNCHANGED added

Finish ==
    /\ running # {}
    /\ running' = {}
    /\ UNCHANGED <<pending, added>>

Next == Add \/ Start \/ Finish

Spec == Init /\ [][Next]_vars
=============================================================================
