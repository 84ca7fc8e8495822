-------------------------- MODULE SessionContract --------------------------
(* What TcpProxy and the connection counters rely on of a Session: it is    *)
(* open, then closing (sockets closed, handlers still queued), then gone.   *)
(* The destructor gives the backend's connection back, once.                *)
EXTENDS Integers

VARIABLES status,   \* "open", "closing" or "gone"
          active    \* the session's share of its backend's activeConnections

vars == <<status, active>>

Init == status = "open" /\ active = 1

\* Session::Shutdown(), for whatever reason
Close ==
    /\ status = "open"
    /\ status' = "closing"
    /\ UNCHANGED active

\* ~Session(), when the last handler has let go
Destroy ==
    /\ status = "closing"
    /\ status' = "gone"
    /\ active' = active - 1

Next == Close \/ Destroy

\* A session may stay open for ever, but not closing.
Spec == Init /\ [][Next]_vars /\ WF_vars(Destroy)
=============================================================================
