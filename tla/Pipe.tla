--------------------------------- MODULE Pipe ---------------------------------
(***************************************************************************)
(* What a player's connection promises, whatever carries it: two streams,  *)
(* each of which arrives as it was sent, without gaps or changes in order, *)
(* while the connection stands.  Either side may end it at any time; what  *)
(* has not arrived by then may never arrive, and in the end both sides     *)
(* have let go.                                                            *)
(*                                                                         *)
(* The relay between the browser and the game server (Relay) implements    *)
(* this with four sockets that open, fill and close on their own.          *)
(***************************************************************************)
EXTENDS Naturals, Sequences, SequencesExt

CONSTANTS
  Conn,     \* the connections
  Unit      \* what is sent: the packets, or the pieces they arrive in

\* "up" runs from the browser to the game server, "down" back
Dir == {"up", "down"}

VARIABLES
  state,    \* [Conn -> {"idle", "open", "ended"}]
  sent,     \* [Conn -> [Dir -> Seq(Unit)]]
  got       \* [Conn -> [Dir -> Seq(Unit)]]

vars == <<state, sent, got>>

Init == /\ state = [c \in Conn |-> "idle"]
        /\ sent = [c \in Conn |-> [d \in Dir |-> <<>>]]
        /\ got = [c \in Conn |-> [d \in Dir |-> <<>>]]

Open(c) == /\ state[c] = "idle"
           /\ state' = [state EXCEPT ![c] = "open"]
           /\ UNCHANGED <<sent, got>>

\* A sender may not know yet that the connection has ended.
Send(c, d) == /\ state[c] # "idle"
              /\ sent' = [sent EXCEPT ![c][d] = sent'[c][d]]
              /\ IsStrictPrefix(sent[c][d], sent'[c][d])
              /\ UNCHANGED <<state, got>>

\* One or more units arrive: the next ones, as they were sent.
Receive(c, d) == /\ state[c] # "idle"
                 /\ got' = [got EXCEPT ![c][d] = got'[c][d]]
                 /\ IsStrictPrefix(got[c][d], got'[c][d])
                 /\ IsPrefix(got'[c][d], sent[c][d])
                 /\ UNCHANGED <<state, sent>>

End(c) == /\ state[c] = "open"
          /\ state' = [state EXCEPT ![c] = "ended"]
          /\ UNCHANGED <<sent, got>>

Next == \E c \in Conn : \/ Open(c)
                        \/ End(c)
                        \/ \E d \in Dir : Send(c, d) \/ Receive(c, d)

Spec == Init /\ [][Next]_vars

\* While the connection stands and something is on its way, units keep
\* arriving: weak fairness of Receive, its enabling condition spelled out.
KeepsArriving(c, d) == \/ []<>(state[c] # "open" \/ got[c][d] = sent[c][d])
                       \/ []<><<Receive(c, d)>>_vars

FairSpec == Spec /\ \A c \in Conn, d \in Dir : KeepsArriving(c, d)
=============================================================================
