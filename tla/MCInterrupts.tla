---------------------------- MODULE MCInterrupts ----------------------------
(* Interrupts with the timer, keyboard, serial and first ATA line, and the    *)
(* line of spurious requests; two bootable drives.                            *)
EXTENDS Interrupts
MCIrqs == {0, 1, 4, 5, 7, 14}
MCGuestVecs == {19, 24}   \* INT 13h, which the BIOS serves, and INT 18h, which it does not
KeyboardIrqs == {0, 1}
=============================================================================
