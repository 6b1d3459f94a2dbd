------------------------------ MODULE MCCommand ------------------------------
(* Two goroutines on one of several hosts: a Linux host with VBoxManage;  *)
(* a Linux guest with VBoxControl, the user a sudoer, sudo installed or   *)
(* not; a Linux machine without VirtualBox; a Windows host with           *)
(* VBOX_INSTALL_PATH set but no VBoxManage there.                         *)
EXTENDS Command

MCGoroutines == {"g1", "g2"}
Host(os, inst, grp, ip) ==
    [goos |-> os, installed |-> inst, sudoGroup |-> grp, installPath |-> ip, statErr |-> FALSE]
MCEnvs ==
    {Host("linux", {"VBoxManage", "sudo", "false"}, TRUE, FALSE),
     Host("linux", {"VBoxControl", "sudo", "false"}, TRUE, FALSE),
     Host("linux", {"VBoxControl", "false"}, TRUE, FALSE),
     Host("linux", {"sudo", "false"}, FALSE, FALSE),
     Host("windows", {"VBoxControl"}, FALSE, TRUE)}
\* Guests whose VirtualBox program is installed and whose user is a sudoer.
MCGuestEnvs ==
    {Host("linux", {"VBoxControl", "sudo", "false"}, TRUE, FALSE),
     Host("linux", {"VBoxControl", "false"}, TRUE, FALSE)}
=============================================================================
