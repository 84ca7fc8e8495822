----------------------------- MODULE EventLoop -----------------------------
(* The one thread that calls io_context::run() in core/main.cpp, as the     *)
(* components see it: asynchronous operations, and an exception that leaves *)
(* a handler.  Boost.Asio is not part of the repository; its operations are *)
(* modelled by their documented contract:                                   *)
(*   - an operation is pending until it completes, then its handler waits   *)
(*     in a queue with the outcome "ok", "error" or "aborted";              *)
(*   - cancel() and close() turn pending operations into "aborted" and      *)
(*     leave the ones already queued as they are;                           *)
(*   - an exception thrown by a handler propagates out of run().            *)

VARIABLE fatal   \* an exception has left a handler, and run() with it

OpStatus == {"none", "pending", "ok", "error", "aborted"}

\* timer.cancel() and acceptor.close() on one operation
Cancelled(status) == IF status = "pending" THEN "aborted" ELSE status
=============================================================================
