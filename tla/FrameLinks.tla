---------------------------- MODULE FrameLinks ----------------------------
(***************************************************************************)
(* What networking (proxy.go) promises, without headers, buffers and       *)
(* goroutines: a connection to the host is a pair of links that carry      *)
(* whole frames in order and lose none but the last ones, when it ends;    *)
(* one connection is made at a time, and one that has ended carries        *)
(* nothing any more.                                                       *)
(***************************************************************************)
EXTENDS Naturals, Sequences

CONSTANTS
  Conn,      \* connections, in the course of time
  Frame      \* what a link carries

VARIABLES
  link,      \* each connection: "none" as yet, "open" or "closed"
  hostSent,  \* what the host sent to the application ...
  delivered, \* ... and what of it arrived
  appSent,   \* what the application sent to the host ...
  forwarded  \* ... and what of it arrived

vars == <<link, hostSent, delivered, appSent, forwarded>>

Init ==
  /\ link = [c \in Conn |-> "none"]
  /\ hostSent = [c \in Conn |-> <<>>]
  /\ delivered = [c \in Conn |-> <<>>]
  /\ appSent = [c \in Conn |-> <<>>]
  /\ forwarded = [c \in Conn |-> <<>>]

Open(c) ==
  /\ link[c] = "none"
  /\ \A d \in Conn : link[d] # "open"
  /\ link' = [link EXCEPT ![c] = "open"]
  /\ UNCHANGED <<hostSent, delivered, appSent, forwarded>>

Close(c) ==
  /\ link[c] = "open"
  /\ link' = [link EXCEPT ![c] = "closed"]
  /\ UNCHANGED <<hostSent, delivered, appSent, forwarded>>

HostSends(c, f) ==
  /\ link[c] = "open"
  /\ hostSent' = [hostSent EXCEPT ![c] = Append(@, f)]
  /\ UNCHANGED <<link, delivered, appSent, forwarded>>

Deliver(c) ==
  /\ link[c] = "open"
  /\ Len(delivered[c]) < Len(hostSent[c])
  /\ delivered' = [delivered EXCEPT ![c] = Append(@, hostSent[c][Len(@) + 1])]
  /\ UNCHANGED <<link, hostSent, appSent, forwarded>>

AppSends(c, f) ==
  /\ link[c] = "open"
  /\ appSent' = [appSent EXCEPT ![c] = Append(@, f)]
  /\ UNCHANGED <<link, hostSent, delivered, forwarded>>

Forward(c) ==
  /\ link[c] = "open"
  /\ Len(forwarded[c]) < Len(appSent[c])
  /\ forwarded' = [forwarded EXCEPT ![c] = Append(@, appSent[c][Len(@) + 1])]
  /\ UNCHANGED <<link, hostSent, delivered, appSent>>

Next ==
  \E c \in Conn : \/ Open(c) \/ Close(c) \/ Deliver(c) \/ Forward(c)
                  \/ \E f \in Frame : HostSends(c, f) \/ AppSends(c, f)

Spec == Init /\ [][Next]_vars

=============================================================================
