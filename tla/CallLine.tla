------------------------------ MODULE CallLine ------------------------------
(***************************************************************************)
(* What a page's call promises, with none of its signals, timers and       *)
(* connections: a page has one line, on which a call that somebody dialled *)
(* rings, is talked on, and ends.  A line is free before it takes another  *)
(* call, a call does not go back from talking to ringing while the page is *)
(* in it, and what happens on the line of one page leaves the other's      *)
(* alone.  A page that has left a call may be rung by it again.            *)
(***************************************************************************)
CONSTANTS Pages, Calls, NoCall

VARIABLES
    line,       \* the call that a page is in, and how far it has come
    dialled     \* the calls that were ever made

Free == [call |-> NoCall, phase |-> "free"]

Init ==
    /\ line = [p \in Pages |-> Free]
    /\ dialled = {}

Rings(p, c) ==
    /\ line[p] = Free
    /\ line' = [line EXCEPT ![p] = [call |-> c, phase |-> "ringing"]]

Dial(p, c) ==
    /\ c \notin dialled /\ dialled' = dialled \union {c}
    /\ Rings(p, c)

Invited(p, c) ==
    /\ c \in dialled /\ UNCHANGED dialled
    /\ Rings(p, c)

Engage(p) ==
    /\ line[p].phase = "ringing"
    /\ line' = [line EXCEPT ![p] = [call |-> line[p].call, phase |-> "talking"]]
    /\ UNCHANGED dialled

Leave(p) ==
    /\ line' = [line EXCEPT ![p] = Free]
    /\ UNCHANGED dialled

Next ==
    \E p \in Pages :
        \/ \E c \in Calls : Dial(p, c) \/ Invited(p, c)
        \/ Engage(p) \/ Leave(p)

Spec == Init /\ [][Next]_<<line, dialled>>
=============================================================================
