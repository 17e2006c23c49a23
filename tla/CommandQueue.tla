------------------------------ MODULE CommandQueue ------------------------------
(***************************************************************************)
(* What drone_core promises to those who send vehicle commands, whatever   *)
(* PX4, the link and the callbacks do: commands get over one by one, in    *)
(* the order they were asked for; when one does, its sender hears one      *)
(* outcome, and never another.                                             *)
(***************************************************************************)
EXTENDS Naturals, Sequences

CONSTANTS Commands,   (* the numbers of the commands                        *)
          Kinds,      (* what a sender wants to hear                        *)
          Silent,     (* the kinds whose sender may never hear anything     *)
          Outcomes    (* what a sender can hear                             *)

VARIABLES asked,      (* the kinds of the commands asked for, in order      *)
          over,       (* how many of them are over                          *)
          heard       (* command -> what its sender heard, in order         *)

vars == <<asked, over, heard>>

Init == asked = <<>> /\ over = 0 /\ heard = [t \in Commands |-> <<>>]

Ask(kind) == asked' = Append(asked, kind)

(* The oldest command is over; its sender may ask for another in turn.     *)
Close ==
  /\ over < Len(asked) /\ over' = over + 1
  /\ \/ \E outcome \in Outcomes : heard' = [heard EXCEPT ![over + 1] = <<outcome>>]
     \/ asked[over + 1] \in Silent /\ UNCHANGED heard
  /\ UNCHANGED asked \/ \E kind \in Kinds : Ask(kind)

Next == Close \/ \E kind \in Kinds : Ask(kind) /\ UNCHANGED <<over, heard>>

Spec == Init /\ [][Next]_vars
================================================================================
