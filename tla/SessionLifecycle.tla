------------------------- MODULE SessionLifecycle -------------------------
(***************************************************************************)
(* What the Mac promises the phone about every terminal session: it is     *)
(* announced once, its screens follow the announcement, and its removal is *)
(* the last word about it, whether its process exited or its window was    *)
(* closed.  Module Sessions is shown to implement this.                    *)
(***************************************************************************)
EXTENDS Sequences

CONSTANT Sids       \* the session ids a run of the agent may give out

VARIABLE told       \* told[s]: what the phone was told of session s, in order;
                    \* consecutive screens count as one

Init == told = [s \in Sids |-> <<>>]

Say(s, words) == told' = [told EXCEPT ![s] = @ \o words]

Open(s) == told[s] \in {<<"added">>, <<"added", "screen">>}

Announce(s) == told[s] = <<>> /\ Say(s, <<"added">>)

Show(s) == told[s] = <<"added">> /\ Say(s, <<"screen">>)

Exit(s) == Open(s) /\ Say(s, <<"exited", "removed">>)

Leave(s) == Open(s) /\ Say(s, <<"removed">>)

Next == \E s \in Sids : Announce(s) \/ Show(s) \/ Exit(s) \/ Leave(s)

Spec == Init /\ [][Next]_told
===========================================================================
