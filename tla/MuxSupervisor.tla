---------------------------- MODULE MuxSupervisor ----------------------------
(***************************************************************************)
(* One muxer daemon under its Supervisor: the loop that refuses an address *)
(* somebody else serves, starts the child, restarts it after a back-off,   *)
(* says so in health when it keeps exiting, and is asked to restart it by  *)
(* rescans, each of which waits for its answer no longer than its timeout. *)
(*                                                                         *)
(* A back-off is its exponent.  An exit is fast, or slow when the child    *)
(* was up for healthyRun.  The child, the other server and the shutdown    *)
(* are external.                                                           *)
(***************************************************************************)
EXTENDS Naturals, Sequences

CONSTANTS
    Rescans,             \* bound: requests to POST /api/devices/rescan
    CrashLoopThreshold,
    MaxBackoff,
    MaxExits,            \* bound: exits of the child on its own, failed starts included
    MaxServes            \* bound: times another process takes the address

ASSUME SupervisorAssumption ==
    /\ CrashLoopThreshold \in Nat \ {0} /\ MaxBackoff \in Nat
    /\ MaxExits \in Nat /\ MaxServes \in Nat /\ "nobody" \notin Rescans

Nobody == "nobody"
Stages == {"off", "top", "refused", "reprobe", "spawn", "child", "term", "asleep", "stopped"}

VARIABLES
    sup,     \* Run: where it is, its crash count and back-off, the request it holds
    health,  \* st.State
    child,   \* the process: whether it runs, how many were started before it, how its last one ended
    other,   \* another process serves the address
    quit,    \* the serve context is done
    asks,    \* each rescan, and the child that ran when it was made
    exits,   \* history: the exits since the last start on request, in order
    left     \* what is left of the bounds

supVars == <<sup, health, child, other, quit, asks, exits, left>>

Verdicts == {"idle", "sending", "sent", "accepted", "refused", "timeout"}
SupTypeOK ==
    /\ sup \in [at : Stages, crashes : Nat, backoff : 0..MaxBackoff, held : Rescans \cup {Nobody}]
    /\ health \in {"starting", "running", "degraded", "stopped"}
    /\ child \in [up : BOOLEAN, gen : Nat, fast : BOOLEAN] /\ other \in BOOLEAN /\ quit \in BOOLEAN
    /\ asks \in [Rescans -> [at : Verdicts, gen : Nat]] /\ exits \in Seq(BOOLEAN)
    /\ left \in [exits : 0..MaxExits, serves : 0..MaxServes]

SupInit(at) ==
    /\ sup = [at |-> at, crashes |-> 0, backoff |-> 0, held |-> Nobody]
    /\ health = "starting" /\ child = [up |-> FALSE, gen |-> 0, fast |-> TRUE]
    /\ other \in (IF at = "off" THEN {FALSE} ELSE BOOLEAN) /\ quit = FALSE /\ exits = << >>
    /\ asks = [r \in Rescans |-> [at |-> "idle", gen |-> 0]]
    /\ left = [exits |-> MaxExits, serves |-> MaxServes]

MoveTo(at) == sup' = [sup EXCEPT !.at = at]
\* A request was granted: the counters start over.
Afresh(at) == sup' = [at |-> at, crashes |-> 0, backoff |-> 0, held |-> Nobody] /\ exits' = << >>
Stopped == MoveTo("stopped") /\ health' = "stopped"

-----------------------------------------------------------------------------
(* Rescan: a rendezvous with the loop, then the wait for an answer         *)

Ask(r) ==
    /\ sup.at # "off" /\ asks[r].at = "idle" /\ asks' = [asks EXCEPT ![r] = [at |-> "sending", gen |-> child.gen]]
    /\ UNCHANGED <<sup, health, child, other, quit, exits, left>>
TimeOut(r) ==
    /\ asks[r].at \in {"sending", "sent"} /\ asks' = [asks EXCEPT ![r] = [at |-> "timeout", gen |-> 0]]
    /\ UNCHANGED <<sup, health, child, other, quit, exits, left>>

Receives(r) == asks[r].at = "sending"
Received(r) == [asks EXCEPT ![r].at = "sent"]

\* resp has room for one answer: nobody need be waiting for it.
Reply(r, as, verdict) == asks' = IF as[r].at = "sent" THEN [as EXCEPT ![r].at = verdict] ELSE as

-----------------------------------------------------------------------------
(* The loop                                                                *)

ProbeServed == other

Top ==
    /\ sup.at = "top"
    /\ \/ quit /\ Stopped
       \/ ~quit /\ ProbeServed /\ MoveTo("refused") /\ health' = "degraded"
       \/ ~quit /\ ~ProbeServed /\ MoveTo("spawn") /\ UNCHANGED health
    /\ UNCHANGED <<child, other, quit, asks, exits, left>>

WaitRescan ==
    /\ sup.at = "refused"
    /\ \/ quit /\ Stopped /\ UNCHANGED asks
       \/ \E r \in Rescans : /\ Receives(r) /\ asks' = Received(r)
                             /\ sup' = [sup EXCEPT !.at = "reprobe", !.held = r] /\ UNCHANGED health
    /\ UNCHANGED <<child, other, quit, exits, left>>
Reprobe ==
    /\ sup.at = "reprobe"
    /\ \/ ProbeServed /\ Reply(sup.held, asks, "refused")
          /\ sup' = [sup EXCEPT !.at = "top", !.held = Nobody] /\ UNCHANGED exits
       \/ ~ProbeServed /\ Reply(sup.held, asks, "accepted") /\ Afresh("spawn")
    /\ UNCHANGED <<health, child, other, quit, left>>

\* outcomeExited: a child that was up a while starts the count over.
Exited(fast) ==
    LET n == IF fast THEN sup.crashes + 1 ELSE 1 IN
    /\ sup' = [sup EXCEPT !.at = "asleep", !.crashes = n] /\ exits' = Append(exits, fast)
    /\ health' = IF n >= CrashLoopThreshold THEN "degraded" ELSE health

StartFails ==
    /\ sup.at = "spawn" /\ left.exits > 0 /\ left' = [left EXCEPT !.exits = @ - 1]
    /\ Exited(TRUE) /\ UNCHANGED <<child, other, quit, asks>>
Start ==
    /\ sup.at = "spawn" /\ MoveTo("child") /\ health' = "running"
    /\ child' = [up |-> TRUE, gen |-> child.gen + 1, fast |-> TRUE]
    /\ UNCHANGED <<other, quit, asks, exits, left>>

\* Mutation: the request is granted and the child left as it is.
RestartsKeeps(r) ==
    /\ Reply(r, Received(r), "accepted") /\ Afresh("child")
\* The loop tears the child down first, and answers then.
Restarts(r) == asks' = Received(r) /\ sup' = [sup EXCEPT !.at = "term", !.held = r] /\ UNCHANGED exits

Leaves == MoveTo("term")

SuperviseChild ==
    /\ sup.at = "child"
    /\ \/ quit /\ Leaves /\ UNCHANGED <<health, asks, exits>>
       \/ \E r \in Rescans : Receives(r) /\ Restarts(r) /\ UNCHANGED health
       \/ ~child.up /\ Exited(child.fast) /\ UNCHANGED asks
    /\ UNCHANGED <<child, other, quit, left>>

\* SIGTERM, SIGKILL after the grace, and Wait: whatever it was doing, it is gone.
Reaped == child' = [child EXCEPT !.up = FALSE]
Terminate ==
    /\ sup.at = "term" /\ Reaped
    /\ \/ sup.held = Nobody /\ Stopped /\ UNCHANGED <<asks, exits>>
       \/ sup.held # Nobody /\ Reply(sup.held, asks, "accepted") /\ Afresh("top") /\ UNCHANGED health
    /\ UNCHANGED <<other, quit, left>>

NextBackoff(b) == IF b < MaxBackoff THEN b + 1 ELSE MaxBackoff
SleepOrRescan ==
    /\ sup.at = "asleep"
    /\ \/ quit /\ Stopped /\ UNCHANGED <<asks, exits>>
       \/ sup' = [sup EXCEPT !.at = "top", !.backoff = NextBackoff(@)] /\ UNCHANGED <<health, asks, exits>>
       \/ \E r \in Rescans : Receives(r) /\ Reply(r, Received(r), "accepted") /\ Afresh("top") /\ UNCHANGED health
    /\ UNCHANGED <<child, other, quit, left>>

-----------------------------------------------------------------------------
(* What the loop does not control                                          *)

ChildExits(fast) ==
    /\ child.up /\ left.exits > 0 /\ left' = [left EXCEPT !.exits = @ - 1]
    /\ child' = [child EXCEPT !.up = FALSE, !.fast = fast]
    /\ UNCHANGED <<sup, health, other, quit, asks, exits>>
OtherServes ==
    /\ sup.at # "off" /\ ~other /\ left.serves > 0 /\ left' = [left EXCEPT !.serves = @ - 1] /\ other' = TRUE
    /\ UNCHANGED <<sup, health, child, quit, asks, exits>>
OtherLeaves ==
    /\ sup.at # "off" /\ other /\ other' = FALSE
    /\ UNCHANGED <<sup, health, child, quit, asks, exits, left>>
ShutDown ==
    /\ sup.at # "off" /\ ~quit /\ quit' = TRUE
    /\ UNCHANGED <<sup, health, child, other, asks, exits, left>>

Loop == Top \/ WaitRescan \/ Reprobe \/ StartFails \/ Start \/ SuperviseChild \/ Terminate \/ SleepOrRescan
SupNext ==
    \/ Loop
    \/ \E r \in Rescans : Ask(r) \/ TimeOut(r)
    \/ \E fast \in BOOLEAN : ChildExits(fast)
    \/ OtherServes \/ OtherLeaves \/ ShutDown

\* The goroutine runs, timers fire and a killed process dies.  A select with a
\* ready Done may pick another ready case, but not for ever: asks are finite.
SupFairness == WF_supVars(Loop)
SupSpec == SupInit("top") /\ [][SupNext]_supVars /\ SupFairness

-----------------------------------------------------------------------------
(* Properties                                                              *)

\* Once the supervisor has stopped, at shutdown, no daemon of its is left.
StopLeavesNone == sup.at = "stopped" => ~child.up

\* A rescan that was granted has replaced the daemon it found: that one is gone,
\* however its request raced an exit, a start or the shutdown.
RescanReplaces == \A r \in Rescans : asks[r].at = "accepted" => ~(child.up /\ child.gen = asks[r].gen)

\* While it waits to restart a daemon that has exited as often as the threshold
\* says since it was last started on request, all but the first time fast,
\* health says degraded.
LastFast(n) == \A i \in Len(exits) - n + 1..Len(exits) : exits[i]
CrashLoopTold ==
    (sup.at = "asleep" /\ Len(exits) >= CrashLoopThreshold /\ LastFast(CrashLoopThreshold - 1)) => health = "degraded"

\* The shutdown is not held up: not by a requester that has given up on its
\* answer, not by the back-off, not by an address somebody else serves.
ShutdownStops == quit ~> (sup.at \in {"stopped", "off"})

\* A daemon that has exited comes up again by itself, unless another process
\* takes its address or this one is going down.
DownComesUp == (sup.at = "asleep") ~> (child.up \/ other \/ sup.at = "stopped")

\* What the states of health are documented to mean: running is a child that is
\* up, or one whose exit has not been seen yet.
RunningIsUp == health = "running" => sup.at \in {"child", "term"}

-----------------------------------------------------------------------------
(* The inductive invariant behind RescanReplaces, StopLeavesNone and       *)
(* CrashLoopTold                                                           *)

\* A child runs only under the loop; the loop holds a request only while it
\* looks again or tears down.
LoopTrue ==
    /\ child.up => sup.at \in {"child", "term"}
    /\ sup.held # Nobody => sup.at \in {"reprobe", "term"}
    /\ sup.at = "reprobe" => sup.held # Nobody

\* A request saw a child that was started before; one that was granted, a
\* child that is gone.
AsksTrue == \A r \in Rescans :
    /\ asks[r].at \in {"sending", "sent", "accepted"} => asks[r].gen <= child.gen
    /\ asks[r].at = "accepted" /\ child.up => asks[r].gen < child.gen

\* The count covers the exits in a row that were fast and the one before them.
CountTrue ==
    /\ \A k \in 1..Len(exits) : (\A i \in Len(exits) - k + 2..Len(exits) : exits[i]) => sup.crashes >= k
    /\ sup.at = "asleep" /\ sup.crashes >= CrashLoopThreshold => health = "degraded"

SupInv == SupTypeOK /\ LoopTrue /\ AsksTrue /\ CountTrue
=============================================================================
