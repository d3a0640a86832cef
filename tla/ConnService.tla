---------------------------- MODULE ConnService ----------------------------
(***************************************************************************)
(* What a client may expect of the preforking server, with no worker in    *)
(* sight: connections wait in one queue in the order in which they arrived,*)
(* each is taken exactly once, and is answered once its client has been    *)
(* heard, unless the client resets it.  A client is heard when it sends its *)
(* request, and also when it closes its side without one.  Connections of  *)
(* silent clients may stay open for ever, and must not keep the others     *)
(* waiting.                                                                *)
(***************************************************************************)
EXTENDS Naturals, Sequences

CONSTANTS Conns,      \* the connections clients make
          CanLose     \* whether a taken connection may be lost by the server

VARIABLES conn,       \* conn[c]: "new", "queued", "held", "answered", "dropped"
          heard,      \* the connections with a request, an end or a reset to read
          gone,       \* those of them that the client has reset
          waiting     \* the queue of established connections

svars == <<conn, heard, gone, waiting>>

Init == /\ conn = [c \in Conns |-> "new"]
        /\ heard = {} /\ gone = {}
        /\ waiting = <<>>

Arrive(c) == /\ conn[c] = "new"
             /\ conn' = [conn EXCEPT ![c] = "queued"]
             /\ waiting' = Append(waiting, c)
             /\ UNCHANGED <<heard, gone>>

\* The client sends its request, or closes its side.
Speak(c) == /\ conn[c] \in {"queued", "held"}
            /\ heard' = heard \cup {c}
            /\ UNCHANGED <<conn, gone, waiting>>

Reset(c) == /\ conn[c] \in {"queued", "held"}
            /\ heard' = heard \cup {c}
            /\ gone' = gone \cup {c}
            /\ UNCHANGED <<conn, waiting>>

Take == /\ waiting # <<>>
        /\ conn' = [conn EXCEPT ![Head(waiting)] = "held"]
        /\ waiting' = Tail(waiting)
        /\ UNCHANGED <<heard, gone>>

Answer(c) == /\ conn[c] = "held"
             /\ c \in heard \ gone
             /\ conn' = [conn EXCEPT ![c] = "answered"]
             /\ UNCHANGED <<heard, gone, waiting>>

Lose(c) == /\ CanLose \/ c \in gone
           /\ conn[c] = "held"
           /\ conn' = [conn EXCEPT ![c] = "dropped"]
           /\ UNCHANGED <<heard, gone, waiting>>

Next == \/ Take
        \/ \E c \in Conns : Arrive(c) \/ Speak(c) \/ Reset(c) \/ Answer(c) \/ Lose(c)

Fairness == /\ WF_svars(Take)
            /\ \A c \in Conns : WF_svars(Answer(c))

SafeSpec == Init /\ [][Next]_svars
Spec == SafeSpec /\ Fairness
=============================================================================
