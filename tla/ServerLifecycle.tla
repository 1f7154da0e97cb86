--------------------------- MODULE ServerLifecycle ---------------------------
(***************************************************************************)
(* Server.Serve and Server.Shutdown of pkg/server/server.go, called from   *)
(* any number of goroutines.  Each member of Serves is one call of Serve,  *)
(* each member of Shutdowns one call of Shutdown; the event loop a Serve   *)
(* call creates is named after the call.                                   *)
(***************************************************************************)
EXTENDS Naturals, FiniteSets

CONSTANTS
    Serves,               \* calls of Serve
    Shutdowns,            \* calls of Shutdown
    None                  \* the nil event loop

ASSUME LifecycleAssumption == None \notin Serves

VARIABLES
    started, ready,       \* TRUE when the channel is closed
    shutdownRequested, serving, eventLoop,      \* fields of Server
    loop,                 \* what netpoll knows of each event loop
    spc, serveErr,        \* where a Serve call is, and what it returned
    hpc, target, stopErr, \* where a Shutdown call is, the event loop it read,
                          \* and what it returned
    stoppedFirst          \* history: a Shutdown returned before any Serve began

chanVars  == <<started, ready>>
flagVars  == <<shutdownRequested, serving, eventLoop>>
serveVars == <<spc, serveErr>>
stopVars  == <<hpc, target, stopErr, stoppedFirst>>
vars == <<chanVars, flagVars, loop, serveVars, stopVars>>

ServePcs == {"idle", "load", "cas", "listen", "publish", "markReady", "run",
             "running", "leave", "returned"}
ShutdownPcs == {"idle", "request", "wait", "stop", "drain", "returned"}

(* Every variable has its type, and Shutdown is never called on a nil loop *)
TypeOK ==
    /\ {started, ready, shutdownRequested, serving, stoppedFirst} \subseteq BOOLEAN
    /\ eventLoop \in Serves \cup {None}
    /\ loop \in [Serves -> {"none", "created", "serving", "stopped"}]
    /\ spc \in [Serves -> ServePcs]
    /\ serveErr \in [Serves -> {"none", "nil", "listen", "already"}]
    /\ hpc \in [Shutdowns -> ShutdownPcs]
    /\ target \in [Shutdowns -> Serves \cup {None}]
    /\ stopErr \in [Shutdowns -> {"none", "nil", "ctx"}]
    /\ \A h \in Shutdowns : hpc[h] \in {"stop", "drain"} => target[h] # None

Init ==
    /\ started = FALSE /\ ready = FALSE
    /\ shutdownRequested = FALSE /\ serving = FALSE /\ eventLoop = None
    /\ loop = [s \in Serves |-> "none"]
    /\ spc = [s \in Serves |-> "idle"]
    /\ serveErr = [s \in Serves |-> "none"]
    /\ hpc = [h \in Shutdowns |-> "idle"]
    /\ target = [h \in Shutdowns |-> None]
    /\ stopErr = [h \in Shutdowns |-> "none"]
    /\ stoppedFirst = FALSE

-----------------------------------------------------------------------------
(* Serve *)

Goto(s, here, there) == spc[s] = here /\ spc' = [spc EXCEPT ![s] = there]

(* markStarted *)
ServeMarksStarted(s) ==
    /\ Goto(s, "idle", "load")
    /\ started' = TRUE
    /\ UNCHANGED <<ready, flagVars, loop, serveErr, stopVars>>

(* Mutant: shutdownRequested is not looked at *)
ServeLoadsNothing(s) ==
    /\ Goto(s, "load", "cas")
    /\ UNCHANGED <<chanVars, flagVars, loop, serveErr, stopVars>>

(* shutdownRequested.Load(): if it is set, markReady and return nil *)
ServeLoads(s) ==
    /\ Goto(s, "load", IF shutdownRequested THEN "returned" ELSE "cas")
    /\ ready' = (ready \/ shutdownRequested)
    /\ serveErr' = [serveErr EXCEPT ![s] =
                        IF shutdownRequested THEN "nil" ELSE @]
    /\ UNCHANGED <<started, flagVars, loop, stopVars>>

(* Mutant: serving is stored, not compared and swapped *)
ServeEntersAnyway(s) ==
    /\ Goto(s, "cas", "listen")
    /\ serving' = TRUE
    /\ UNCHANGED <<chanVars, shutdownRequested, eventLoop, loop, serveErr, stopVars>>

(* serving.CompareAndSwap(false, true), or ErrServerAlreadyServing *)
ServeEnters(s) ==
    /\ Goto(s, "cas", IF serving THEN "returned" ELSE "listen")
    /\ serving' = TRUE
    /\ serveErr' = [serveErr EXCEPT ![s] = IF serving THEN "already" ELSE @]
    /\ UNCHANGED <<chanVars, shutdownRequested, eventLoop, loop, stopVars>>

(* Listen, ConvertListener and NewEventLoop succeed ... *)
ServeListens(s) ==
    /\ Goto(s, "listen", "publish")
    /\ loop' = [loop EXCEPT ![s] = "created"]
    /\ UNCHANGED <<chanVars, flagVars, serveErr, stopVars>>

(* Mutant: the error path does not close ready *)
ServeListenFailsUnready(s) ==
    /\ Goto(s, "listen", "leave")
    /\ serveErr' = [serveErr EXCEPT ![s] = "listen"]
    /\ UNCHANGED <<chanVars, flagVars, loop, stopVars>>

(* ... or one of them fails: markReady, return the error *)
ServeListenFails(s) ==
    /\ Goto(s, "listen", "leave")
    /\ ready' = TRUE
    /\ serveErr' = [serveErr EXCEPT ![s] = "listen"]
    /\ UNCHANGED <<started, flagVars, loop, stopVars>>

(* Mutant: the first event loop stays the one that Shutdown finds *)
ServePublishesOnce(s) ==
    /\ Goto(s, "publish", "markReady")
    /\ eventLoop' = IF eventLoop = None THEN s ELSE eventLoop
    /\ UNCHANGED <<chanVars, shutdownRequested, serving, loop, serveErr, stopVars>>

(* s.eventLoop = eventLoop, under s.mu; it is never set back to nil *)
ServePublishes(s) ==
    /\ Goto(s, "publish", "markReady")
    /\ eventLoop' = s
    /\ UNCHANGED <<chanVars, shutdownRequested, serving, loop, serveErr, stopVars>>

ServeMarksReady(s) ==
    /\ Goto(s, "markReady", "run")
    /\ ready' = TRUE
    /\ UNCHANGED <<started, flagVars, loop, serveErr, stopVars>>

(* eventLoop.Serve(listener) begins ... *)
ServeRuns(s) ==
    /\ Goto(s, "run", "running")
    /\ loop' = [loop EXCEPT ![s] = "serving"]
    /\ UNCHANGED <<chanVars, flagVars, serveErr, stopVars>>

(* ... and returns once the loop has been shut down *)
ServeEnds(s) ==
    /\ loop[s] = "stopped"
    /\ Goto(s, "running", "leave")
    /\ serveErr' = [serveErr EXCEPT ![s] = "nil"]
    /\ UNCHANGED <<chanVars, flagVars, loop, stopVars>>

(* defer s.serving.Store(false) *)
ServeLeaves(s) ==
    /\ Goto(s, "leave", "returned")
    /\ serving' = FALSE
    /\ UNCHANGED <<chanVars, shutdownRequested, eventLoop, loop, serveErr, stopVars>>

-----------------------------------------------------------------------------
(* Shutdown *)

StopGoto(h, here, there) == hpc[h] = here /\ hpc' = [hpc EXCEPT ![h] = there]

Answer(h, err) ==
    /\ stopErr' = [stopErr EXCEPT ![h] = err]
    /\ stoppedFirst' =
           (stoppedFirst \/ (err = "nil" /\ \A s \in Serves : spc[s] = "idle"))

(* select on s.started, with a default branch *)
ShutdownBegins(h) ==
    /\ StopGoto(h, "idle", IF started THEN "wait" ELSE "request")
    /\ UNCHANGED <<chanVars, flagVars, loop, serveVars, target, stopErr, stoppedFirst>>

(* shutdownRequested.Store(true); return nil *)
ShutdownRequests(h) ==
    /\ StopGoto(h, "request", "returned")
    /\ shutdownRequested' = TRUE
    /\ Answer(h, "nil")
    /\ UNCHANGED <<chanVars, serving, eventLoop, loop, serveVars, target>>

(* s.ready is closed; read s.eventLoop under s.mu; nil means nothing to do *)
ShutdownReads(h) ==
    /\ ready
    /\ StopGoto(h, "wait", IF eventLoop = None THEN "returned" ELSE "stop")
    /\ target' = [target EXCEPT ![h] = eventLoop]
    /\ IF eventLoop = None THEN Answer(h, "nil") ELSE UNCHANGED <<stopErr, stoppedFirst>>
    /\ UNCHANGED <<chanVars, flagVars, loop, serveVars>>

(* ctx.Done() before s.ready *)
ShutdownTimesOut(h) ==
    /\ StopGoto(h, "wait", "returned")
    /\ Answer(h, "ctx")
    /\ UNCHANGED <<chanVars, flagVars, loop, serveVars, target>>

(* netpoll (external): Shutdown of a serving loop closes its listener and   *)
(* ends its Serve at once, then waits for the connections.  A loop that     *)
(* does not serve, not yet or not any more, has nothing to stop: nil is     *)
(* returned and nothing is remembered.                                      *)
StopLoop(l) == loop' = [loop EXCEPT ![l] = IF @ = "serving" THEN "stopped" ELSE @]

(* eventLoop.Shutdown(ctx) is called ... *)
ShutdownStops(h) ==
    LET serves == loop[target[h]] = "serving"
    IN  /\ hpc[h] = "stop"
        /\ hpc' = [hpc EXCEPT ![h] = IF serves THEN "drain" ELSE "returned"]
        /\ StopLoop(target[h])
        /\ IF serves THEN UNCHANGED <<stopErr, stoppedFirst>> ELSE Answer(h, "nil")
        /\ UNCHANGED <<chanVars, flagVars, serveVars, target>>

(* ... and returns when the last busy connection is done, or ctx is *)
ShutdownDrains(h) ==
    /\ StopGoto(h, "drain", "returned")
    /\ \E err \in {"nil", "ctx"} : Answer(h, err)
    /\ UNCHANGED <<chanVars, flagVars, loop, serveVars, target>>

-----------------------------------------------------------------------------
Serve(s) ==
    \/ ServeMarksStarted(s)
    \/ ServeLoads(s)
    \/ ServeEnters(s)
    \/ ServeListens(s)
    \/ ServeListenFails(s)
    \/ ServePublishes(s)
    \/ ServeMarksReady(s)
    \/ ServeRuns(s)
    \/ ServeEnds(s)
    \/ ServeLeaves(s)

Shutdown(h) ==
    \/ ShutdownBegins(h)
    \/ ShutdownRequests(h)
    \/ ShutdownReads(h)
    \/ ShutdownTimesOut(h)
    \/ ShutdownStops(h)
    \/ ShutdownDrains(h)

Next ==
    \/ \E s \in Serves : Serve(s)
    \/ \E h \in Shutdowns : Shutdown(h)

Spec == Init /\ [][Next]_vars

(* A call that has begun goes on.  Whether and when a call begins, whether  *)
(* ctx ends and whether the connections that Shutdown waits for become idle *)
(* is up to the application: ShutdownTimesOut and ShutdownDrains may never  *)
(* happen.                                                                  *)
Fairness ==
    /\ \A s \in Serves : WF_vars(spc[s] # "idle" /\ Serve(s))
    /\ \A h \in Shutdowns :
          WF_vars(ShutdownRequests(h) \/ ShutdownReads(h) \/ ShutdownStops(h))

FairSpec == Spec /\ Fairness

-----------------------------------------------------------------------------
(* Properties *)

(* The calls that are between winning serving and giving it back *)
ServingPcs == {"listen", "publish", "markReady", "run", "running", "leave"}
InService == {s \in Serves : spc[s] \in ServingPcs}

(* At most one Serve call at a time listens and runs an event loop, however *)
(* calls of Serve overlap with one another and with Shutdown; and serving,  *)
(* for which Serve answers ErrServerAlreadyServing, is set only while there *)
(* is one: a call that failed or ended leaves the server usable.            *)
OneLoop ==
    /\ \A s, t \in InService : s = t
    /\ serving <=> InService # {}

(* A Shutdown that returned before any Serve began keeps every later Serve  *)
(* from listening: it returns nil at once.                                  *)
ShutdownFirst ==
    stoppedFirst => \A s \in Serves : loop[s] = "none" /\ serveErr[s] \in {"none", "nil"}

(* A Shutdown that has seen a started server does not wait for ready for    *)
(* ever, although its ctx never ends: every way through Serve closes ready, *)
(* or leaves that to the Serve call that it found in service.               *)
ReadyComes ==
    \A h \in Shutdowns : hpc[h] = "wait" ~> hpc[h] # "wait"

(* A Shutdown that begins while a Serve call is in its event loop ends that *)
(* call, whatever loops the server had before and whatever other calls do,  *)
(* whether or not the connections become idle; unless it gives up before it *)
(* has looked for the loop.                                                 *)
RunningServeEnds ==
    \A h \in Shutdowns, s \in Serves :
        (hpc[h] = "wait" /\ spc[s] = "running")
            ~> (spc[s] = "returned" \/ (hpc[h] = "returned" /\ target[h] = None))

(* What TestServer_ShutdownDuringStartup says of every Serve call that has  *)
(* begun: a Shutdown that meets it ends it, or returns an error.  (Violated *)
(* by a Shutdown before the call is in its event loop, see the README;      *)
(* RunningServeEnds is the part that holds.)                                *)
ShutdownStopsServer ==
    \A h \in Shutdowns, s \in Serves :
        (hpc[h] \in {"request", "wait"} /\ spc[s] # "idle")
            ~> (spc[s] = "returned" \/ stopErr[h] = "ctx")
=============================================================================
