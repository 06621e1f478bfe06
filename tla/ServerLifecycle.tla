-------------------------- MODULE ServerLifecycle --------------------------
(***************************************************************************)
(* The main thread of the response server                                  *)
(* (runtime-detection/response-server/server.py). http.server.HTTPServer   *)
(* without a threading mixin takes one connection at a time, reads its     *)
(* request without a timeout and answers it; webhooks, heartbeats, health  *)
(* probes and the events API share that one thread. A signal handler calls *)
(* server.shutdown() and then sys.exit(0).                                 *)
(*                                                                         *)
(* Python runs a signal handler in the main thread, on top of whatever     *)
(* that thread does. shutdown (Python's socketserver) sets a flag that     *)
(* serve_forever reads between two requests, and waits until serve_forever *)
(* has returned.                                                           *)
(***************************************************************************)
EXTENDS Integers

CONSTANTS
  Clients,      \* connections, each with one request
  NoClient

VARIABLES
  conn,         \* each connection: "none", "open", "sent" or "answered"
  current,      \* the connection in the main thread's hands, or NoClient
  serving,      \* serve_forever has been entered
  handler,      \* the signal handler: "no", "pending", "waiting", "back"
  stopAsked,    \* the flag shutdown sets
  returned,     \* serve_forever has returned
  exited        \* the process has ended by itself

loopVars == <<current, serving>>
lifeVars == <<handler, stopAsked, returned, exited>>
vars == <<conn, loopVars, lifeVars>>

Init ==
  /\ conn = [c \in Clients |-> "none"]
  /\ current = NoClient /\ serving = FALSE
  /\ handler = "no" /\ stopAsked = FALSE
  /\ returned = FALSE /\ exited = FALSE

-----------------------------------------------------------------------------
(* The clients. The socket listens before serve_forever is entered.        *)
Connect(c) ==
  /\ ~exited /\ conn[c] = "none"
  /\ conn' = [conn EXCEPT ![c] = "open"]
  /\ UNCHANGED <<loopVars, lifeVars>>

(* The request is complete, whether it is being read already or not.       *)
Send(c) ==
  /\ ~exited /\ conn[c] = "open"
  /\ conn' = [conn EXCEPT ![c] = "sent"]
  /\ UNCHANGED <<loopVars, lifeVars>>

-----------------------------------------------------------------------------
(* The main thread is in main's own code, not in the handler on top of it. *)
InMain == ~exited /\ ~returned /\ handler \in {"no", "pending"}

ServeForever ==
  /\ InMain /\ ~serving
  /\ serving' = TRUE
  /\ UNCHANGED <<conn, current, lifeVars>>

Accept ==
  /\ InMain /\ serving /\ ~stopAsked /\ current = NoClient
  /\ \E c \in Clients : conn[c] \in {"open", "sent"} /\ current' = c
  /\ UNCHANGED <<conn, serving, lifeVars>>

(* do_GET, do_POST, do_DELETE: the request is read to its end and answered.*)
Handle ==
  /\ InMain /\ current # NoClient /\ conn[current] = "sent"
  /\ conn' = [conn EXCEPT ![current] = "answered"]
  /\ current' = NoClient
  /\ UNCHANGED <<serving, lifeVars>>

(* SIGTERM or SIGINT; both have the same handler. *)
Signal ==
  /\ ~exited /\ handler = "no"
  /\ handler' = "pending"
  /\ UNCHANGED <<conn, loopVars, stopAsked, returned, exited>>

(* shutdown_handler, up to the wait in server.shutdown(). *)
RunHandler ==
  /\ handler = "pending"
  /\ handler' = "waiting"
  /\ stopAsked' = TRUE
  /\ UNCHANGED <<conn, loopVars, returned, exited>>

(* serve_forever is back in its loop and sees the flag. *)
LeaveLoop ==
  /\ InMain /\ serving /\ current = NoClient /\ stopAsked
  /\ returned' = TRUE
  /\ UNCHANGED <<conn, loopVars, handler, stopAsked, exited>>

(* shutdown returns; sys.exit(0). *)
Exit ==
  /\ handler = "waiting" /\ returned
  /\ handler' = "back"
  /\ exited' = TRUE
  /\ UNCHANGED <<conn, loopVars, stopAsked, returned>>

MainThread == ServeForever \/ Accept \/ Handle \/ RunHandler \/ LeaveLoop \/ Exit

Next == MainThread \/ Signal \/ \E c \in Clients : Connect(c) \/ Send(c)

(* The operating system runs the main thread; the clients complete what    *)
(* they began.                                                             *)
Spec ==
  /\ Init /\ [][Next]_vars
  /\ WF_vars(MainThread)
  /\ \A c \in Clients : WF_vars(Send(c))

-----------------------------------------------------------------------------
(* What the repository says of the program and the code does not do.       *)

(* "Graceful shutdown" (server.py:226): a signalled server comes to its    *)
(* sys.exit(0) by itself. It waits, in the main thread, for a loop of the  *)
(* main thread, and stays until it is killed.                              *)
SignalledServerExits == handler = "pending" ~> exited
=============================================================================
