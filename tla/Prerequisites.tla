----------------------------- MODULE Prerequisites -----------------------------
(***************************************************************************)
(* What a client asks of the machine before it starts, and the virtual     *)
(* machine through which the constructor of AntiCheat calls that check.    *)
(***************************************************************************)
EXTENDS VirtualMachine

\* What the settings ask for and what the machine is like.
Settings == [bRequireRunAsAdministrator : BOOLEAN, bEnforceSecureBoot : BOOLEAN,
             bEnforceDSE : BOOLEAN, bCheckHypervisor : BOOLEAN]
Machine == [member : {"yes", "unknown"}, secureBoot : {"on", "unknown"},
            testsigning : BOOLEAN, hypervisor : {"none", "nameless"}]

\* What cannot be found out is taken for a no.
IsRunningAsAdmin(machine) == machine.member = "yes"
IsSecureBootEnabled(machine) == machine.secureBoot = "on"
IsTestsigningEnabled(machine) == machine.testsigning

\* The vendor of a hypervisor is only logged.
DoPreInitializeChecks(config, machine) ==
    /\ config.bRequireRunAsAdministrator => IsRunningAsAdmin(machine)
    /\ config.bEnforceSecureBoot => IsSecureBootEnabled(machine)
    /\ config.bEnforceDSE => ~IsTestsigningEnabled(machine)
    /\ config.bCheckHypervisor => machine.hypervisor = "none"

\* The check is a member function called through the machine; it leaves its result in the
\* lowest byte of RAX, and what was in the others stays there.
ThisPointer == 5
MemberAddress == 9
CheckPasses(config, machine, upper) ==
    LET al == IF DoPreInitializeChecks(config, machine) THEN 1 ELSE 0
    IN Returned(Execute(NewMachine, CallMember(ThisPointer, MemberAddress), 2 * upper + al))

================================================================================
