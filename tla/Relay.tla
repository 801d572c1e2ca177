------------------------------- MODULE Relay -------------------------------
(***************************************************************************)
(* What a path through SpaceWireZMQ promises its user: a relay between a    *)
(* producer and a consumer that may stop at any time and lose what it still *)
(* holds, but never invents, repeats, skips or reorders a packet.  One      *)
(* relay per channel, each independent of the others.                       *)
(***************************************************************************)
EXTENDS Naturals, Sequences

CONSTANTS Channels, Payloads

VARIABLES
  input,    (* [Channels -> Seq(Payloads)], what the relay accepted         *)
  output    (* [Channels -> Seq(Payloads)], what it handed over             *)

relayVars == <<input, output>>

Init ==
  /\ input = [c \in Channels |-> <<>>]
  /\ output = [c \in Channels |-> <<>>]

Accept(c) ==
  /\ \E p \in Payloads : input' = [input EXCEPT ![c] = Append(@, p)]
  /\ UNCHANGED output

(* The next packet to hand over is the first one not handed over yet. *)
Deliver(c) ==
  /\ Len(output[c]) < Len(input[c])
  /\ output' = [output EXCEPT ![c] = Append(@, input[c][Len(@) + 1])]
  /\ UNCHANGED input

Next == \E c \in Channels : Accept(c) \/ Deliver(c)

Spec == Init /\ [][Next]_relayVars
=============================================================================
