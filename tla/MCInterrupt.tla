----------------------------- MODULE MCInterrupt -----------------------------
(* Interrupt for TLC: the clock, the keyboard and the disk behind the slave;  *)
(* TTY and HD, which set their lines up (keyboard.c:48, hd.c:88).             *)
EXTENDS InterruptRefinement

MCLines == <<"clock", "keyboard", "disk">>
Off(i) == [line |-> i, on |-> FALSE]
On(i) == [line |-> i, on |-> TRUE]
MCPrograms ==
    [p \in Proc |->
        IF p = "tty" THEN <<Off("keyboard"), On("keyboard")>>
                     ELSE <<Off("disk"), On("cascade"), On("disk")>>]
=============================================================================
