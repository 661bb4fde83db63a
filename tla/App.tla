--------------------------------- MODULE App ---------------------------------
(***************************************************************************)
(* The life of the process: run of cmd/server/main.go and Run of           *)
(* internal/app/app.go.  The main goroutine starts the NapCat client, the  *)
(* HTTP server and the agent, waits for the first of the two to end, and   *)
(* winds up the rest; the deferred Stop of the client comes last, and the  *)
(* goroutines that still run go on until the process is gone.              *)
(*                                                                         *)
(* The agent is what it does here: it sends while it runs, and returns some *)
(* time after the signal (MainAgent: CancelStopsAgent).                    *)
(***************************************************************************)
EXTENDS NapcatClient

VARIABLES
    main,       \* where Run is
    signalled,  \* has the process been told to end (ctx is cancelled)?
    agent,      \* the goroutine of agent.Run; "done": agentDone is closed
    server,     \* the goroutine of server.Start
    serverErr   \* what the channel serverErr holds

lifeVars == <<main, signalled, agent, server, serverErr>>
appVars == <<vars, lifeVars>>

AppInit ==
    /\ Init
    /\ main = "starting" /\ signalled = FALSE
    /\ agent = "off" /\ server = "off" /\ serverErr = "none"

-----------------------------------------------------------------------------
(* The main goroutine.                                                     *)

StartClient ==
    /\ main = "starting"
    /\ Start
    /\ main' = "building"
    /\ UNCHANGED <<signalled, agent, server, serverErr>>

\* The model of the tagger cannot be constructed.
BuildFails ==
    /\ main = "building"
    /\ main' = "stopping"
    /\ UNCHANGED <<signalled, agent, server, serverErr, vars>>

Launch ==
    /\ main = "building"
    /\ server' = "serving" /\ agent' = "running"
    /\ main' = "waiting"
    /\ UNCHANGED <<signalled, serverErr, vars>>

\* The select: an error of the server ends Run at once.
ServerEnded ==
    /\ main = "waiting" /\ serverErr # "none"
    /\ serverErr' = "none"
    /\ main' = "stopping"
    /\ UNCHANGED <<signalled, agent, server, vars>>

\* Mutant of AgentEnded: the signal is taken for the end of the agent.
SignalSeen ==
    /\ main = "waiting" /\ signalled
    /\ main' = "shutdown"
    /\ UNCHANGED <<signalled, agent, server, serverErr, vars>>

AgentEnded ==
    /\ main = "waiting" /\ agent = "done"
    /\ main' = "shutdown"
    /\ UNCHANGED <<signalled, agent, server, serverErr, vars>>

\* Mutant of Shutdown: the server is not told.
ShutdownForgotten ==
    /\ main = "shutdown"
    /\ main' = "collecting"
    /\ UNCHANGED <<signalled, agent, server, serverErr, vars>>

\* server.Shutdown waits five seconds at most for the requests in flight; a
\* server that has failed is left alone.
Shutdown ==
    /\ main = "shutdown"
    /\ server' = IF server = "serving" THEN "closing" ELSE server
    /\ main' = "collecting"
    /\ UNCHANGED <<signalled, agent, serverErr, vars>>

CollectServerErr ==
    /\ main = "collecting" /\ serverErr # "none"
    /\ serverErr' = "none"
    /\ main' = "stopping"
    /\ UNCHANGED <<signalled, agent, server, vars>>

\* The deferred client.Stop, in its two steps, and the end of the process.
StopClient ==
    /\ main = "stopping"
    /\ StopCloseDone \/ StopCloseOutgoing
    /\ UNCHANGED lifeVars

Exit ==
    /\ main = "stopping" /\ closed
    /\ main' = "exited"
    /\ UNCHANGED <<signalled, agent, server, serverErr, vars>>

-----------------------------------------------------------------------------
(* The other goroutines, while the process lives.                          *)

Signal ==
    /\ ~ signalled /\ main # "exited"
    /\ signalled' = TRUE
    /\ UNCHANGED <<main, agent, server, serverErr, vars>>

\* ListenAndServe returns an error: the address is taken, or accepting fails.
ServerFails ==
    /\ server = "serving" /\ main # "exited"
    /\ server' = "failed" /\ serverErr' = "error"
    /\ UNCHANGED <<main, signalled, agent, vars>>

\* ErrServerClosed is turned into nil.
ServerCloses ==
    /\ server = "closing" /\ main # "exited"
    /\ server' = "closed" /\ serverErr' = "nil"
    /\ UNCHANGED <<main, signalled, agent, vars>>

AgentReturns ==
    /\ agent = "running" /\ signalled /\ main # "exited"
    /\ agent' = "done"
    /\ UNCHANGED <<main, signalled, server, serverErr, vars>>

AgentSends ==
    /\ agent = "running" /\ main # "exited"
    /\ EnqueueOnClosed \/ \E to \in Users \cup Groups : Enqueue(to)
    /\ UNCHANGED lifeVars

ClientStep ==
    /\ main # "exited"
    /\ SenderStep \/ SenderStops \/ SyncStep \/ SyncStops
    /\ UNCHANGED lifeVars

-----------------------------------------------------------------------------
MainStep == StartClient \/ BuildFails \/ Launch \/ ServerEnded \/ AgentEnded
            \/ Shutdown \/ CollectServerErr \/ StopClient \/ Exit

AppNext == MainStep \/ Signal \/ ServerFails \/ ServerCloses \/ AgentReturns
           \/ AgentSends \/ ClientStep

AppSpec == AppInit /\ [][AppNext]_appVars

\* The goroutines run on, OneBot calls end (they carry a timeout), and the agent
\* returns after the signal.
AppFairSpec ==
    /\ AppSpec
    /\ WF_appVars(MainStep) /\ WF_appVars(ServerCloses) /\ WF_appVars(AgentReturns)
    /\ WF_appVars(main # "exited" /\ SenderStep /\ UNCHANGED lifeVars)

-----------------------------------------------------------------------------
(* Properties.                                                             *)

\* Every variable keeps its type, the queue its capacity.
AppTypeOK ==
    /\ TypeOK
    /\ main \in {"starting", "building", "waiting", "shutdown", "collecting",
                 "stopping", "exited"}
    /\ signalled \in BOOLEAN
    /\ agent \in {"off", "running", "done"}
    /\ server \in {"off", "serving", "failed", "closing", "closed"}
    /\ serverErr \in {"none", "nil", "error"}

\* A process that is told to end stops the agent before the client: no send
\* meets the closed channel, whatever the interleaving, unless the HTTP server
\* has failed (app.go:101-118).
OrderlyShutdown == panicked => server = "failed"

\* An accepted message is handled, although every call may fail and the directory
\* may never be loaded (the connection is down, or each sync fails): the sender
\* holds no message back until then (napcat_client.go:241-266).  Stopping is what
\* loses a message: the sender returns with the queue not empty, or the process is
\* gone.
AcceptedIsHandled ==
    \A m \in 1..MaxMessages :
        m <= accepted ~> \/ \E k \in 1..Len(sent) : sent[k] = m
                         \/ pc = "stopped"
                         \/ main = "exited"

\* The process ends after a signal and after a failure of the server, also when
\* both happen at once: nothing waits for a channel that nobody writes to.
ProcessEnds == (signalled \/ server = "failed") ~> main = "exited"
=============================================================================
