---------------------------- MODULE MCRtosKernel ----------------------------
(* A main task that creates two others, a mutex and a semaphore given by an *)
(* interrupt.                                                               *)
EXTENDS RtosKernel, TLC

CONSTANTS net, disk, console, ready

\* Main and net wait for the mutex without a limit, like the V2 images; disk
\* waits with one, like FatFs for its volume, so that inheritance is taken back
\* after a timeout as well.
MCPriority == (Idle :> 0) @@ (Main :> 1) @@ (disk :> 2) @@ (net :> 3)
MCCalls ==
    (Idle :> {})
    @@ (Main :> {CreateCall(disk), CreateCall(net),
                 TakeCall(console, portMAX_DELAY), GiveCall(console)})
    @@ (disk :> {TakeCall(console, 1), GiveCall(console),
                 TakeCall(ready, portMAX_DELAY), DeleteCall})
    @@ (net :> {TakeCall(console, portMAX_DELAY), GiveCall(console),
                TakeCall(ready, 2), TakeCall(ready, 0), DelayCall(2)})
=============================================================================
