---------------------------- MODULE EspRecovery ----------------------------
(***************************************************************************)
(* The recovery firmware of the K210, firmware_v2/recovery_esp/main.c: if  *)
(* the ESP does not announce its application, it is brought into its ROM   *)
(* loader, flashed with the embedded image part by part, restarted, and    *)
(* must then announce itself.  Every failure ends in halt_forever with the *)
(* ESP held in reset.                                                      *)
(*                                                                         *)
(* The ESP is external.  It starts in the ROM loader when EN rises with    *)
(* GPIO0 low, and in its application when EN rises with GPIO0 high and the *)
(* parts it needs are whole.  The marker it then prints names the network  *)
(* it joined and not the build.  Power may be lost at any step.            *)
(*                                                                         *)
(* Its names differ from those of EspFlashJob, so that ServiceProofs can   *)
(* extend both.                                                            *)
(***************************************************************************)
EXTENDS Integers

CONSTANTS
  Parts,       \* number of embedded parts                (6 in the code)
  Needed,      \* the parts without which the ESP does not start
  PartBlocks,  \* blocks of a part                        (16 KiB each)
  Trials,      \* connect.trials                          (2)
  MaxLosses,   \* bound: losses of power
  Old, New,    \* what a block holds: another build, the embedded build
  Bad          \*   or an erased or miswritten block

ASSUME RecoveryAssumption ==
  /\ Parts \in Nat \ {0} /\ PartBlocks \in Nat \ {0} /\ Trials \in Nat \ {0}
  /\ Needed \subseteq 1 .. Parts
  /\ MaxLosses \in Nat
  /\ Old # New /\ Old # Bad /\ New # Bad

VARIABLES
  flash,       \* flash[p][b]: block b of part p in the ESP's flash
  target,      \* the ESP: "held" in reset, "rom", "stub", "app", or "dead"
  gpio0, en,   \* the pins that choose
  armed,       \* s_loader_boot_armed
  baudsMatch,  \* the K210 and the loader use one rate
  stage,       \* where main is
  trial,       \* attempts left to connect
  index,       \* the part in hand
  done,        \* blocks of it that were written
  losses       \* losses of power

pins == <<gpio0, en>>
recoveryVars ==
  <<flash, target, pins, armed, baudsMatch, stage, trial, index, done, losses>>

Whole(p, v) == \A b \in 1 .. PartBlocks : flash[p][b] = v

(* What the ESP does when EN rises.                                        *)
Starts == \A p \in Needed : Whole(p, Old) \/ Whole(p, New)
Started(boot) == IF boot = 0 THEN "rom" ELSE IF Starts THEN "app" ELSE "dead"

(* The board is switched on with any ESP.                                  *)
RecoveryInit ==
  /\ flash \in [1 .. Parts -> {[b \in 1 .. PartBlocks |-> v] : v \in {Old, New, Bad}}]
  /\ gpio0 = 1 /\ en = 1
  /\ target = Started(1)
  /\ armed = FALSE /\ baudsMatch = FALSE
  /\ stage = "boot"
  /\ trial = 0 /\ index = 1 /\ done = 0
  /\ losses = 0

Reset(boot) ==
  /\ gpio0' = boot /\ en' = 1
  /\ target' = Started(boot)

-----------------------------------------------------------------------------
(* reset_esp_and_wait_marker.                                              *)
ResetAndWait ==
  /\ stage = "boot"
  /\ Reset(1)
  /\ stage' = "look"
  /\ UNCHANGED <<flash, armed, baudsMatch, trial, index, done, losses>>

AlreadyOk ==
  /\ stage = "look" /\ target = "app"
  /\ stage' = "already-current"
  /\ UNCHANGED <<flash, target, pins, armed, baudsMatch, trial, index, done, losses>>

(* No marker within 8 s, or the line of another build ended before it.     *)
NoMarker ==
  /\ stage = "look"
  /\ stage' = "probe"
  /\ UNCHANGED <<flash, target, pins, armed, baudsMatch, trial, index, done, losses>>

(* probe_esp_loader_boot: the ESP is put into its ROM loader, for the      *)
(* first attempt to find it there.                                         *)
ProbeRom ==
  /\ stage = "probe"
  /\ \/ Reset(0) /\ armed' = TRUE
     \/ gpio0' = 1 /\ en' = 1 /\ UNCHANGED <<target, armed>>
  /\ stage' = "init"
  /\ UNCHANGED <<flash, baudsMatch, trial, index, done, losses>>

(* Faulty: GPIO0 is not kept low for an armed session.                     *)
InitPortHigh ==
  /\ stage = "init"
  /\ gpio0' = 1 /\ en' = 1
  /\ baudsMatch' = TRUE
  /\ trial' = Trials
  /\ stage' = "connect"
  /\ UNCHANGED <<flash, target, armed, index, done, losses>>

(* port_init.  EN is not pulsed, so the ROM loader goes on.                *)
InitPort ==
  /\ stage = "init"
  /\ gpio0' = (IF armed THEN 0 ELSE 1) /\ en' = 1
  /\ baudsMatch' = TRUE
  /\ trial' = Trials
  /\ stage' = "connect"
  /\ UNCHANGED <<flash, target, armed, index, done, losses>>

(* esp_loader_connect_with_stub: port_enter_bootloader, which uses an armed *)
(* session once, then the attempts to synchronise.                         *)
EnterBootloader ==
  /\ stage = "connect"
  /\ IF armed
     THEN armed' = FALSE /\ UNCHANGED <<target, pins>>
     ELSE Reset(0) /\ UNCHANGED armed
  /\ stage' = "sync"
  /\ UNCHANGED <<flash, baudsMatch, trial, index, done, losses>>

LoadStub ==
  /\ stage = "sync" /\ trial > 0 /\ target = "rom" /\ baudsMatch
  /\ target' = "stub"
  /\ stage' = "baud"
  /\ UNCHANGED <<flash, pins, armed, baudsMatch, trial, index, done, losses>>

SyncTimesOut ==
  /\ stage = "sync" /\ trial > 0
  /\ trial' = trial - 1
  /\ UNCHANGED <<flash, target, pins, armed, baudsMatch, stage, index, done, losses>>

(* esp_loader_change_transmission_rate: the command, then port_change_baud.*)
ChangeBaud ==
  /\ stage = "baud"
  /\ baudsMatch' = FALSE
  /\ stage' = "rebaud"
  /\ UNCHANGED <<flash, target, pins, armed, trial, index, done, losses>>

PortChangeBaud ==
  /\ stage = "rebaud"
  /\ baudsMatch' = TRUE
  /\ index' = 1
  /\ stage' = "start"
  /\ UNCHANGED <<flash, target, pins, armed, trial, done, losses>>

-----------------------------------------------------------------------------
(* flash_part.                                                             *)
ErasedPart == [b \in 1 .. PartBlocks |-> Bad]

FlashStart ==
  /\ stage = "start"
  /\ flash' = [flash EXCEPT ![index] = ErasedPart]
  /\ done' = 0
  /\ stage' \in {"write", "abort"}
  /\ UNCHANGED <<target, pins, armed, baudsMatch, trial, index, losses>>

FlashWrite ==
  /\ stage = "write" /\ done < PartBlocks
  /\ \E v \in {New, Bad} : flash' = [flash EXCEPT ![index][done + 1] = v]
  /\ done' = done + 1
  /\ UNCHANGED <<target, pins, armed, baudsMatch, stage, trial, index, losses>>

(* Faulty: config.skip_verify is true.                                     *)
Md5Skipped == index \in 1 .. Parts

(* esp_loader_flash_finish compares the MD5.                               *)
Md5Agrees == Whole(index, New)

FlashFinish ==
  /\ stage = "write" /\ done = PartBlocks
  /\ Md5Agrees
  /\ index' = IF index < Parts THEN index + 1 ELSE index
  /\ stage' = IF index < Parts THEN "start" ELSE "reset"
  /\ UNCHANGED <<flash, target, pins, armed, baudsMatch, trial, done, losses>>

FlashPartFails ==
  /\ stage \in {"start", "write"}
  /\ stage' = "abort"
  /\ UNCHANGED <<flash, target, pins, armed, baudsMatch, trial, index, done, losses>>

(* The restart, and wait_for_esp_marker.                                   *)
ResetTarget ==
  /\ stage = "reset"
  /\ Reset(1)
  /\ stage' = "await"
  /\ UNCHANGED <<flash, armed, baudsMatch, trial, index, done, losses>>

MarkerSeen ==
  /\ stage = "await" /\ target = "app"
  /\ stage' = "flashed-and-verified"
  /\ UNCHANGED <<flash, target, pins, armed, baudsMatch, trial, index, done, losses>>

(* A call fails: the port, the connection or the upload of the stub, the    *)
(* change of rate, a part, the marker.  hold_esp_reset, halt_forever.      *)
Halt ==
  /\ stage \in {"init", "sync", "baud", "rebaud", "abort", "await"}
  /\ gpio0' = 1 /\ en' = 0
  /\ target' = "held"
  /\ stage' = "halted"
  /\ UNCHANGED <<flash, armed, baudsMatch, trial, index, done, losses>>

BoardPowerLoss ==
  /\ losses < MaxLosses
  /\ losses' = losses + 1
  /\ gpio0' = 1 /\ en' = 1
  /\ target' = Started(1)
  /\ armed' = FALSE /\ baudsMatch' = FALSE
  /\ stage' = "boot"
  /\ trial' = 0 /\ index' = 1 /\ done' = 0
  /\ UNCHANGED flash

Main ==
  \/ ResetAndWait \/ AlreadyOk \/ NoMarker \/ ProbeRom \/ InitPort
  \/ EnterBootloader \/ LoadStub \/ SyncTimesOut \/ ChangeBaud \/ PortChangeBaud
  \/ FlashStart \/ FlashWrite \/ FlashFinish \/ FlashPartFails
  \/ ResetTarget \/ MarkerSeen \/ Halt

RecoveryNext == Main \/ BoardPowerLoss

RecoverySpec == RecoveryInit /\ [][RecoveryNext]_recoveryVars

-----------------------------------------------------------------------------
(* "flashed-and-verified" is only reported when every part of the ESP is   *)
(* the embedded one, whatever an earlier run that was cut or aborted left, *)
(* and when the application runs on it.                                    *)
VerifiedMeansFlashed ==
  stage = "flashed-and-verified" =>
    target = "app" /\ \A p \in 1 .. Parts : Whole(p, New)

(* The flash of the ESP is only written through the stub, at a rate that   *)
(* both sides use: the session that was armed by the probe and the two     *)
(* ways to enter the loader end in the same place.                         *)
FlashedThroughStub ==
  [][flash' # flash => target = "stub" /\ gpio0 = 0 /\ baudsMatch]_recoveryVars
=============================================================================
