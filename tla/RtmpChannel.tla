---------------------------- MODULE RtmpChannel ----------------------------
(***************************************************************************)
(* What RTMP chunking promises: every channel is a FIFO of messages.  A    *)
(* message that is sent on a channel is received there whole, once and     *)
(* after the messages sent on that channel before it.                      *)
(***************************************************************************)
EXTENDS Naturals, Sequences

CONSTANTS Channels, Nothing

VARIABLES
  flight,    \* per channel, the messages sent and not received yet
  latest     \* the message received last, and its channel

vars == <<flight, latest>>

Init ==
  /\ flight = [c \in Channels |-> <<>>]
  /\ latest = Nothing

(* Some message is sent on c. *)
Send(c) ==
  /\ Len(flight'[c]) = Len(flight[c]) + 1
  /\ flight' = [flight EXCEPT ![c] = Append(@, flight'[c][Len(@) + 1])]
  /\ UNCHANGED latest

Receive(c) ==
  /\ flight[c] # <<>>
  /\ latest' = [chan |-> c, message |-> Head(flight[c])]
  /\ flight' = [flight EXCEPT ![c] = Tail(@)]

Next == \E c \in Channels : Send(c) \/ Receive(c)

Spec == Init /\ [][Next]_vars
=============================================================================
