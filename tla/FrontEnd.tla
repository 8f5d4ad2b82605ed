------------------------------ MODULE FrontEnd ------------------------------
(***************************************************************************)
(* A client session in routing mode from the outside in: Startup admits    *)
(* it, then serveRouting classifies each query it sends.  Sessions in the  *)
(* other modes are not classified here.                                    *)
(***************************************************************************)
EXTENDS Startup, Classify

vars == <<startupVars, classifyVars>>

Init == StartupInit /\ ClassifyInit

\* Nothing of the startup moves while a query is at hand.
Start == class = "idle" /\ StartupNext /\ UNCHANGED classifyVars

\* serveRouting's loop, as far as it decides where a query goes.
Route == pc = "routing" /\ ClassifyNext /\ UNCHANGED startupVars

Next == Start \/ Route

Spec == Init /\ [][Next]_vars

\* A connected client goes on with the handshake, PostgreSQL answers unless it has
\* fallen silent, and the session's goroutine runs.
FairSpec == Spec /\ WF_vars(Handshake /\ UNCHANGED classifyVars)
=============================================================================
