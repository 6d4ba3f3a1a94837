---------------------------- MODULE CommandGuard ----------------------------
(***************************************************************************)
(* The chassis command guard: it repeats the last command it was given     *)
(* until that is too old, and stands still otherwise.  The controller      *)
(* sends finite numbers only, so the guard's own test of them is left out. *)
(***************************************************************************)
EXTENDS Naturals

CONSTANTS
    GuardTimeout,   \* command_timeout
    GuardPeriod,    \* the most time between two ticks of the guard's timer
    MaxDelay        \* the most time a command is on its way to the guard

ASSUME GuardAssumption ==
    /\ GuardTimeout \in Nat
    /\ GuardPeriod \in Nat \ {0}
    /\ MaxDelay \in Nat

VARIABLES
    wire,       \* /agt/safety/cmd_vel: the newest command that has not arrived
    command,    \* _last_command, and how long ago it came
    drive,      \* what /agt/chassis/cmd_vel was told last
    idle        \* the time since then

guardVars == <<wire, command, drive, idle>>

NoCommand == [source |-> "stop", age |-> MaxDelay + 1]

GuardTypeOK(Commands) ==
    /\ wire \in [source : Commands, age : 0..MaxDelay] \cup {NoCommand}
    /\ command \in [source : Commands, age : 0..GuardTimeout + 1]
    /\ drive \in Commands
    /\ idle \in 0..GuardPeriod

GuardInit ==
    /\ wire = NoCommand
    /\ command = [source |-> "stop", age |-> GuardTimeout + 1]
    /\ drive = "stop"
    /\ idle = 0

(* The command before it, should it still be on its way, is lost.          *)
Send(source) ==
    /\ wire' = [source |-> source, age |-> 0]
    /\ UNCHANGED <<command, drive, idle>>

Lose ==
    /\ wire # NoCommand
    /\ wire' = NoCommand
    /\ UNCHANGED <<command, drive, idle>>

GuardCallback ==
    /\ wire # NoCommand
    /\ command' = [source |-> wire.source, age |-> 0]
    /\ wire' = NoCommand
    /\ UNCHANGED <<drive, idle>>

(* Variant: the last command is repeated as long as no other comes.        *)
GuardTickForever ==
    /\ drive' = command.source
    /\ idle' = 0
    /\ UNCHANGED <<wire, command>>

GuardTick ==
    /\ drive' = IF command.age <= GuardTimeout THEN command.source ELSE "stop"
    /\ idle' = 0
    /\ UNCHANGED <<wire, command>>

(* Time waits for a tick that is due, and for a command to arrive in time. *)
GuardAges ==
    /\ idle < GuardPeriod
    /\ wire # NoCommand => wire.age < MaxDelay
    /\ idle' = idle + 1
    /\ wire' = IF wire = NoCommand THEN wire ELSE [wire EXCEPT !.age = @ + 1]
    /\ command' = IF command.age <= GuardTimeout THEN [command EXCEPT !.age = @ + 1] ELSE command
    /\ UNCHANGED drive
=============================================================================
