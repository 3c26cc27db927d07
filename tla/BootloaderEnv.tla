---------------------------- MODULE BootloaderEnv ----------------------------
(***************************************************************************)
(* The bootloader of Bootloader.tla with an arbitrary peer: any of         *)
(* EnvFrames may arrive at any time, in any order, from a tool that may or *)
(* may not wait for the answers.                                           *)
(***************************************************************************)
EXTENDS Bootloader

CONSTANT EnvFrames    \* the frames and texts the peer may send

FramesInFlash ==
  \A f \in EnvFrames : /\ f \in Frames
                       /\ f.addr + Len(f.data) <= NSectors * SectorWords
ASSUME EnvAssumption == FramesInFlash

SendFrame ==
  /\ toBl = NoFrame
  /\ toBl' \in EnvFrames
  /\ UNCHANGED <<devVars, toHost, faults>>

ReadAck ==
  /\ toHost # <<>>
  /\ toHost' = Tail(toHost)
  /\ UNCHANGED <<devVars, toBl, faults>>

WindowTimeout == WindowExpire /\ UNCHANGED faults

Next == BlStep \/ WindowTimeout \/ SendFrame \/ ReadAck

Spec == Init /\ [][Next]_blVars

\* The processor does not stop: what it can do, it does.  The peer, losses
\* and resets are under no obligation.
Fairness ==
  /\ WF_blVars(BootStart) /\ WF_blVars(CheckApp)
  /\ WF_blVars(WindowTimeout) /\ WF_blVars(WindowPending)
  /\ WF_blVars(Upgrade)
  /\ WF_blVars(Command)
  /\ WF_blVars(StrayTimeout)

FairSpec == Spec /\ Fairness
-----------------------------------------------------------------------------
(* Safety *)

\* Control is given only to an entry point that passed the SP/PC test in this
\* boot: appok and apc are a pair, and stay one while commands erase, replace or
\* tear the application they were read from (bootloader.c:235-244, 253).
StartedPassedTest == mode = "app" => entry \in ValidVectors

\* A write command is answered 0 only if every word of it is in the flash at
\* that moment, although the loop of command 2 stops at the first failure and
\* earlier sessions may have left anything in the cells.
AckedWriteIsInFlash ==
  [][ job.op = "write" /\ toHost' = Append(toHost, 0)
      => \A i \in 1..Len(job.data) : mem'[job.addr + i - 1] = job.data[i] ]_blVars

\* "Send the Boot command to start the new APP" (SKILL.md:137): when command 3
\* is carried out and the flash holds a valid application, that application is
\* started, at the entry point of its own vector table.
BootStartsFlashedApp ==
  [][ job.op = "boot" /\ job' = NoJob /\ mode' # "reset" /\ AppValid(mem)
      => mode' = "app" /\ entry' = mem[AppBase] ]_blVars
-----------------------------------------------------------------------------
(* Liveness *)

\* Every reset ends in command mode, in the application or in a processor that
\* has nothing to run: the boot decision never waits for a peer.
BootDecides == mode = "reset" ~> mode \in {"xcp", "app", "hang"}

\* A command that was taken ends, whatever arrives meanwhile.
CommandsEnd == job # NoJob ~> job = NoJob

\* A start byte left over by an overrun does not deafen recv_pkt for ever.
StrayHeals == rx = "stray" ~> (rx = "idle" \/ mode = "hang")
=============================================================================
