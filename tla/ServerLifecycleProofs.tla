------------------------ MODULE ServerLifecycleProofs ------------------------
(* Machine-checked theorems about the specification of module              *)
(* ServerLifecycle, for any number of Serve and Shutdown calls.             *)
EXTENDS ServerLifecycle, TLAPS

(* Every step of Serve and Shutdown keeps every variable in its type, and   *)
(* Shutdown keeps a target that is not nil.                                 *)
LEMMA TypeStep ==
    TypeOK /\ [Next]_vars => TypeOK'
<1> SUFFICES ASSUME TypeOK, [Next]_vars PROVE TypeOK'
    OBVIOUS
<1> USE LifecycleAssumption
<1> USE DEF TypeOK, ServePcs, ShutdownPcs, Goto, StopGoto, chanVars, flagVars,
            serveVars, stopVars
<1>1. ASSUME NEW s \in Serves, ServeMarksStarted(s) PROVE TypeOK'
    BY <1>1 DEF ServeMarksStarted
<1>2. ASSUME NEW s \in Serves, ServeLoads(s) PROVE TypeOK'
    BY <1>2 DEF ServeLoads
<1>3. ASSUME NEW s \in Serves, ServeEnters(s) PROVE TypeOK'
    BY <1>3 DEF ServeEnters
<1>4. ASSUME NEW s \in Serves, ServeListens(s) PROVE TypeOK'
    BY <1>4 DEF ServeListens
<1>5. ASSUME NEW s \in Serves, ServeListenFails(s) PROVE TypeOK'
    BY <1>5 DEF ServeListenFails
<1>6. ASSUME NEW s \in Serves, ServePublishes(s) PROVE TypeOK'
    BY <1>6 DEF ServePublishes
<1>7. ASSUME NEW s \in Serves, ServeMarksReady(s) PROVE TypeOK'
    BY <1>7 DEF ServeMarksReady
<1>8. ASSUME NEW s \in Serves, ServeRuns(s) PROVE TypeOK'
    BY <1>8 DEF ServeRuns
<1>9. ASSUME NEW s \in Serves, ServeEnds(s) PROVE TypeOK'
    BY <1>9 DEF ServeEnds
<1>10. ASSUME NEW s \in Serves, ServeLeaves(s) PROVE TypeOK'
    BY <1>10 DEF ServeLeaves
<1>11. ASSUME NEW h \in Shutdowns, ShutdownBegins(h) PROVE TypeOK'
    BY <1>11 DEF ShutdownBegins
<1>12. ASSUME NEW h \in Shutdowns, ShutdownRequests(h) PROVE TypeOK'
    BY <1>12 DEF ShutdownRequests, Answer
<1>13. ASSUME NEW h \in Shutdowns, ShutdownReads(h) PROVE TypeOK'
    BY <1>13 DEF ShutdownReads, Answer
<1>14. ASSUME NEW h \in Shutdowns, ShutdownTimesOut(h) PROVE TypeOK'
    BY <1>14 DEF ShutdownTimesOut, Answer
<1>15. ASSUME NEW h \in Shutdowns, ShutdownStops(h) PROVE TypeOK'
    BY <1>15 DEF ShutdownStops, StopLoop, Answer
<1>16. ASSUME NEW h \in Shutdowns, ShutdownDrains(h) PROVE TypeOK'
    BY <1>16 DEF ShutdownDrains, Answer
<1>17. CASE UNCHANGED vars
    BY <1>17 DEF vars
<1> QED
    BY <1>1, <1>2, <1>3, <1>4, <1>5, <1>6, <1>7, <1>8, <1>9, <1>10, <1>11,
       <1>12, <1>13, <1>14, <1>15, <1>16, <1>17
       DEF Next, Serve, Shutdown

(* The types hold at all times; with them, that Shutdown never stops a nil  *)
(* event loop.                                                              *)
THEOREM TypeCorrect == Spec => []TypeOK
<1>1. Init => TypeOK
    <2>1. Init => {started, ready, shutdownRequested, serving, stoppedFirst} \subseteq BOOLEAN
        BY Zenon DEF Init
    <2> QED
        BY <2>1 DEF Init, TypeOK, ServePcs, ShutdownPcs
<1> QED
    BY <1>1, TypeStep, PTL DEF Spec

-----------------------------------------------------------------------------
(***************************************************************************)
(* serving as a lock.  OneLoop is inductive: the compare-and-swap lets a   *)
(* call in only while InService is empty, and since there is only one call *)
(* in it, the deferred Store(false) empties it.                            *)
(***************************************************************************)
LEMMA OneLoopStep ==
    ASSUME TypeOK, OneLoop, [Next]_vars
    PROVE  OneLoop'
<1>0. spc \in [Serves -> ServePcs] /\ serving \in BOOLEAN
    BY DEF TypeOK
<1> USE <1>0
<1> USE DEF OneLoop, InService, ServingPcs, ServePcs, Goto, chanVars, flagVars, serveVars
<1>1. ASSUME NEW s \in Serves, ServeMarksStarted(s) PROVE OneLoop'
    BY <1>1 DEF ServeMarksStarted
<1>2. ASSUME NEW s \in Serves, ServeLoads(s) PROVE OneLoop'
    BY <1>2 DEF ServeLoads
<1>3. ASSUME NEW s \in Serves, ServeEnters(s) PROVE OneLoop'
    BY <1>3 DEF ServeEnters
<1>4. ASSUME NEW s \in Serves, ServeListens(s) PROVE OneLoop'
    BY <1>4 DEF ServeListens
<1>5. ASSUME NEW s \in Serves, ServeListenFails(s) PROVE OneLoop'
    BY <1>5 DEF ServeListenFails
<1>6. ASSUME NEW s \in Serves, ServePublishes(s) PROVE OneLoop'
    BY <1>6 DEF ServePublishes
<1>7. ASSUME NEW s \in Serves, ServeMarksReady(s) PROVE OneLoop'
    BY <1>7 DEF ServeMarksReady
<1>8. ASSUME NEW s \in Serves, ServeRuns(s) PROVE OneLoop'
    BY <1>8 DEF ServeRuns
<1>9. ASSUME NEW s \in Serves, ServeEnds(s) PROVE OneLoop'
    BY <1>9 DEF ServeEnds
<1>10. ASSUME NEW s \in Serves, ServeLeaves(s) PROVE OneLoop'
    BY <1>10 DEF ServeLeaves
<1>11. ASSUME NEW h \in Shutdowns, Shutdown(h) PROVE OneLoop'
    BY <1>11
       DEF Shutdown, ShutdownBegins, ShutdownRequests, ShutdownReads, ShutdownTimesOut,
           ShutdownStops, ShutdownDrains
<1>12. CASE UNCHANGED vars
    BY <1>12 DEF vars
<1> QED
    BY <1>1, <1>2, <1>3, <1>4, <1>5, <1>6, <1>7, <1>8, <1>9, <1>10, <1>11, <1>12
       DEF Next, Serve

(* However many calls of Serve and Shutdown overlap, at most one Serve      *)
(* listens or runs an event loop, and serving is set exactly while one is.  *)
THEOREM OneLoopCorrect == Spec => []OneLoop
<1>1. Init => OneLoop
    BY DEF Init, OneLoop, InService, ServingPcs
<1>2. TypeOK /\ OneLoop /\ [Next]_vars => OneLoop'
    BY OneLoopStep
<1> QED
    BY <1>1, <1>2, TypeCorrect, PTL DEF Spec

-----------------------------------------------------------------------------
(***************************************************************************)
(* A Shutdown before every Serve.  ShutdownFirst speaks of loops and       *)
(* results; what keeps it is where the calls are.  Untouched says that a   *)
(* Serve which has not passed the load has no loop and no result, Reached  *)
(* that Shutdown finds ready closed only after some Serve has begun (so a  *)
(* Shutdown that answers nil before all of them has stored its request),   *)
(* Barred that such a request stops every Serve at the load.               *)
(***************************************************************************)
Untouched ==
    \A s \in Serves :
        spc[s] \in {"idle", "load"} => loop[s] = "none" /\ serveErr[s] = "none"
Reached ==
    /\ ready => \E s \in Serves : spc[s] # "idle"
    /\ \A h \in Shutdowns : hpc[h] \in {"stop", "drain"} => ready
Barred ==
    stoppedFirst =>
        /\ shutdownRequested
        /\ \A s \in Serves : /\ spc[s] \in {"idle", "load", "returned"}
                             /\ loop[s] = "none" /\ serveErr[s] \in {"none", "nil"}
FirstInv == Untouched /\ Reached /\ Barred

(* FirstInv is kept by every step: a Serve that Barred covers can only mark *)
(* started, load the request and return; a Shutdown can only repeat itself. *)
LEMMA FirstStep ==
    ASSUME TypeOK, FirstInv, [Next]_vars
    PROVE  FirstInv'
<1>0. /\ {ready, shutdownRequested, stoppedFirst} \subseteq BOOLEAN
      /\ eventLoop \in Serves \cup {None}
      /\ loop \in [Serves -> {"none", "created", "serving", "stopped"}]
      /\ spc \in [Serves -> ServePcs]
      /\ serveErr \in [Serves -> {"none", "nil", "listen", "already"}]
      /\ hpc \in [Shutdowns -> ShutdownPcs]
    BY DEF TypeOK
<1> USE <1>0
<1> USE DEF FirstInv, Untouched, Reached, Barred, ServePcs, ShutdownPcs, Goto, StopGoto,
            chanVars, flagVars, serveVars, stopVars
<1>1. ASSUME NEW s \in Serves, ServeMarksStarted(s) PROVE FirstInv'
    BY <1>1 DEF ServeMarksStarted
<1>2. ASSUME NEW s \in Serves, ServeLoads(s) PROVE FirstInv'
    BY <1>2 DEF ServeLoads
<1>3. ASSUME NEW s \in Serves, ServeEnters(s) PROVE FirstInv'
    BY <1>3 DEF ServeEnters
<1>4. ASSUME NEW s \in Serves, ServeListens(s) PROVE FirstInv'
    BY <1>4 DEF ServeListens
<1>5. ASSUME NEW s \in Serves, ServeListenFails(s) PROVE FirstInv'
    BY <1>5 DEF ServeListenFails
<1>6. ASSUME NEW s \in Serves, ServePublishes(s) PROVE FirstInv'
    BY <1>6 DEF ServePublishes
<1>7. ASSUME NEW s \in Serves, ServeMarksReady(s) PROVE FirstInv'
    BY <1>7 DEF ServeMarksReady
<1>8. ASSUME NEW s \in Serves, ServeRuns(s) PROVE FirstInv'
    BY <1>8 DEF ServeRuns
<1>9. ASSUME NEW s \in Serves, ServeEnds(s) PROVE FirstInv'
    BY <1>9 DEF ServeEnds
<1>10. ASSUME NEW s \in Serves, ServeLeaves(s) PROVE FirstInv'
    BY <1>10 DEF ServeLeaves
<1>11. ASSUME NEW h \in Shutdowns, ShutdownBegins(h) PROVE FirstInv'
    BY <1>11 DEF ShutdownBegins
<1>12. ASSUME NEW h \in Shutdowns, ShutdownRequests(h) PROVE FirstInv'
    BY <1>12 DEF ShutdownRequests, Answer
<1>13. ASSUME NEW h \in Shutdowns, ShutdownReads(h) PROVE FirstInv'
    BY <1>13 DEF ShutdownReads, Answer
<1>14. ASSUME NEW h \in Shutdowns, ShutdownTimesOut(h) PROVE FirstInv'
    BY <1>14 DEF ShutdownTimesOut, Answer
<1>15. ASSUME NEW h \in Shutdowns, ShutdownStops(h) PROVE FirstInv'
    BY <1>15 DEF ShutdownStops, StopLoop, Answer
<1>16. ASSUME NEW h \in Shutdowns, ShutdownDrains(h) PROVE FirstInv'
    BY <1>16 DEF ShutdownDrains, Answer
<1>17. CASE UNCHANGED vars
    BY <1>17 DEF vars
<1> QED
    BY <1>1, <1>2, <1>3, <1>4, <1>5, <1>6, <1>7, <1>8, <1>9, <1>10, <1>11,
       <1>12, <1>13, <1>14, <1>15, <1>16, <1>17
       DEF Next, Serve, Shutdown

(* A Shutdown that has answered nil before any Serve began keeps every      *)
(* Serve from listening, however many there are and whatever they race.     *)
THEOREM ShutdownFirstCorrect == Spec => []ShutdownFirst
<1>1. Init => FirstInv
    BY DEF Init, FirstInv, Untouched, Reached, Barred
<1>2. TypeOK /\ FirstInv /\ [Next]_vars => FirstInv'
    BY FirstStep
<1>3. FirstInv => ShutdownFirst
    BY DEF FirstInv, Barred, ShutdownFirst
<1> QED
    BY <1>1, <1>2, <1>3, TypeCorrect, PTL DEF Spec
=============================================================================
