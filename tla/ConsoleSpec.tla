----------------------------- MODULE ConsoleSpec -----------------------------
(***************************************************************************)
(* What the console of the firmware promises: a byte at a time goes to the *)
(* host; the next one is taken only when the last has been delivered.  A   *)
(* reset of the board loses the byte on its way and no other.              *)
(***************************************************************************)
EXTENDS Sequences

CONSTANTS Byte, NULL    \* NULL is not a Byte

VARIABLES
  pending,   \* the byte that was taken and is not delivered, or NULL
  wire       \* the bytes the host has received

Init == pending = NULL /\ wire = <<>>

Put(c) == pending = NULL /\ pending' = c /\ UNCHANGED wire

Deliver == pending # NULL /\ pending' = NULL /\ wire' = Append(wire, pending)

Reset == pending # NULL /\ pending' = NULL /\ UNCHANGED wire

Next == (\E c \in Byte : Put(c)) \/ Deliver \/ Reset

Safety == Init /\ [][Next]_<<pending, wire>>

Spec == Safety /\ WF_<<pending, wire>>(Deliver)

=============================================================================
