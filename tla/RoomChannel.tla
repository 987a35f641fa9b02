---------------------------- MODULE RoomChannel ----------------------------
(***************************************************************************)
(* What a room promises to its connections: the room has one log of        *)
(* events, and each connection is shown, in order and without a gap, the   *)
(* events published from its registration until it is cut off, except the  *)
(* typing events of its own user.  A connection that cannot follow is cut  *)
(* off: it never misses an event and stays.                                *)
(***************************************************************************)
EXTENDS Integers, Sequences, Filters

CONSTANTS
    Conns,
    Users,
    UserOf,     \* the user of each connection
    Events      \* what can be published: records with fields ev and user

VARIABLES
    log,        \* the events of the room, in the order of publication
    from,       \* from[c]: length of the log when c registered, -1 before
    until,      \* until[c]: length of the log when c was cut off, -1 before
    view        \* view[c]: the events c was shown

channelVars == <<log, from, until, view>>

\* The events that are for c: all but the typing events of its own user.
For(c) == {e \in Events : ~(e.ev = "TYPING" /\ e.user = UserOf[c])}

\* The events c is entitled to, when the log is l.
Due(c, l) ==
    IF from[c] = -1 THEN <<>>
    ELSE LET last == IF until[c] = -1 THEN Len(l) ELSE until[c]
         IN  OnlyIn(SubSeq(l, from[c] + 1, last), For(c))

ChannelInit ==
    /\ log = <<>>
    /\ from = [c \in Conns |-> -1]
    /\ until = [c \in Conns |-> -1]
    /\ view = [c \in Conns |-> <<>>]

\* Connections come and go; one event may be published with the change, which
\* those who come see and those who go do not.
Change(in, out) ==
    /\ \A c \in in : from[c] = -1
    /\ \A c \in out : until[c] = -1 /\ (from[c] # -1 \/ c \in in)
    /\ from'  = [c \in Conns |-> IF c \in in THEN Len(log) ELSE from[c]]
    /\ until' = [c \in Conns |-> IF c \in out THEN Len(log) ELSE until[c]]
    /\ \/ UNCHANGED log
       \/ \E e \in Events : log' = Append(log, e)
    /\ UNCHANGED view

\* The next event due to c is shown to it.
Show(c) ==
    /\ Len(view[c]) < Len(Due(c, log))
    /\ view' = [view EXCEPT ![c] = Append(@, Due(c, log)[Len(@) + 1])]
    /\ UNCHANGED <<log, from, until>>

ChannelNext ==
    \/ \E in, out \in SUBSET Conns : Change(in, out)
    \/ \E c \in Conns : Show(c)

ChannelSpec == ChannelInit /\ [][ChannelNext]_channelVars
=============================================================================
